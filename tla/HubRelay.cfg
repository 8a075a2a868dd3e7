\* One pair, a window of two one-byte frames, a budget of one, small queues.
CONSTANTS
    c1 = c1
    c2 = c2
    c3 = c3
    None = None
    Conns <- TwoConns
    RoomNumbers <- OneNumber
    Window = 2
    MaxFrame = 1
    Session = 1
    QueueBytes = 2
    SendBuffer = 1
SPECIFICATION FairSpec
CHECK_DEADLOCK FALSE
INVARIANT TypeOK
INVARIANT OvershootBounded
PROPERTY ClosedIsReleased

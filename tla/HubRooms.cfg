\* Three connections and one room number, so that it is reused.
CONSTANTS
    c1 = c1
    c2 = c2
    c3 = c3
    None = None
    Conns <- ThreeConns
    RoomNumbers <- OneNumber
    Window = 1
    MaxFrame = 1
    Session = 1
    QueueBytes = 2
    SendBuffer = 1
SPECIFICATION Spec
SYMMETRY Symmetry
CHECK_DEADLOCK FALSE
INVARIANT SeatsAgree
INVARIANT OnlyStrayByesUnseat
INVARIANT FrameOnlyToPartner

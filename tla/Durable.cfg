\* Two files, one transfer id: promotion order, half-finished closes, orphans.
CONSTANTS
    a = a
    f1 = f1
    f2 = f2
    p1 = p1
    p2 = p2
    None = None
    Tmp = Tmp
    Ids <- OneId
    Fps <- TwoFps
    Peers <- TwoPeers
    NFiles = 2
    Blocks <- TwoFiles
SPECIFICATION Spec
SYMMETRY Symmetry
INVARIANT TypeOK
INVARIANT ProgressOnlyToOriginalPeer
INVARIANT CheckpointBacked
INVARIANT AckedIsDurable
 
PROPERTY ProgressNeverRegresses
PROPERTY ClaimedDataKept

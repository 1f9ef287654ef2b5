SPECIFICATION Spec
CONSTANTS
    kA = kA
    kB = kB
    kX = kX
    NoKey = NoKey
    MyNode = 1
    Broadcast = 255
    Tables <- MCTables
    FalseDecode <- OneFalseDecode
    MeshPackets <- WideMesh
    PeerPackets <- WidePeers
    Key <- WideKeys
    Capacity = 2
    MaxLog = 4
    MaxSessions = 2
CHECK_DEADLOCK FALSE
INVARIANTS
    OncePerWindow
    LanOnlyStaysOnLan
    PeerReadsRadio
    RadioReadsPeer

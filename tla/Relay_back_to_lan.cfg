SPECIFICATION Spec
CONSTANTS
    kA = kA
    kB = kB
    kX = kX
    NoKey = NoKey
    MyNode = 1
    Broadcast = 255
    Tables <- MCTables
    FalseDecode <- NoFalseDecode
    MeshPackets <- SmallMesh
    PeerPackets <- SmallPeers
    Key <- SmallKeys
    Capacity = 2
    MaxLog = 3
    MaxSessions = 1
CHECK_DEADLOCK FALSE
INVARIANT
    NotBackToLan

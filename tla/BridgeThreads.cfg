SPECIFICATION FairSpec
CONSTANTS
    NonceModulus = 3
    MaxBatch = 2
    MaxFrames = 2
    MaxDatagrams = 1
    MaxIntervals = 3
INVARIANTS
    DeadReaderReported
    RecvNeverDisconnects
    EndHasCause
    NoThreadLeft
    NoFrameLost
    NeverPings
PROPERTIES
    LastTakeAfterFailedStart
    ImplementsBridgeRun
    StopReturns
    DeadReaderEndsRun
    HeartbeatKeepsUp

SPECIFICATION Spec
CONSTANTS
    Slots = 4
    Names <- MCNames
    Psks <- MCPsks
    Tables <- MCTables
    Files <- MCFiles
    DefaultName = "LongFast"
    MaxSessions = 3
INVARIANTS
    BridgeMatchesRadio
    RavenWins
    NoTwins
    KeepsPlaces
CHECK_DEADLOCK FALSE

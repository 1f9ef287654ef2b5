SPECIFICATION FairSpec
CONSTANTS
    Version <- MCVersion
    Active <- MCActive
    Slots = 2
    Timeout = 3
    FirstFrame = 2
    Resend = 1
    MaxQueue = 2
    MaxReboots = 2
INVARIANTS
    IInv
    OneConfig
    NotForgotten
    KnowsNode
    GivesUpInTime
PROPERTY
    Returns

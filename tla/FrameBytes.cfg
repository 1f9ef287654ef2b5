SPECIFICATION BytesSpec
CONSTANTS
    Base = 3
    START1 = 2
    START2 = 1
    MaxPacketSize = 3
    MaxInput = 11
CHECK_DEADLOCK FALSE
INVARIANT
    ReadsEveryFrame

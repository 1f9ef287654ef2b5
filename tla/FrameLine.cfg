SPECIFICATION Spec
CONSTANTS
    Base = 3
    START1 = 2
    START2 = 1
    MaxPacketSize = 3
    MaxFrames = 3
INVARIANTS
    Delivered
PROPERTY
    ImplementsFifo

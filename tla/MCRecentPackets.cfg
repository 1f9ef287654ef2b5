SPECIFICATION Spec
CONSTANTS
    k1 = k1
    k2 = k2
    k3 = k3
    k4 = k4
    k5 = k5
    Key <- MCKey
    Capacity = 3
    MaxAccepted = 7
INVARIANTS
    InStep
    NoEarlyRepeat
PROPERTY
    ImplementsSeenWindow

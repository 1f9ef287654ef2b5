SPECIFICATION FairSpec
CONSTANTS
    Nowhere = none
    Device <- MCDevice
    Thing <- MCThing
    Radio <- MCRadio
    AcmStem = 1
    UsbStem = 2
    Reconnect = 2
    MaxReopen = 30
    MaxChanges = 3
INVARIANTS
    SparesHeld
PROPERTIES
    OpensOnce
    FindsRadio
    ImplementsOpening

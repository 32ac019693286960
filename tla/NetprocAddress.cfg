SPECIFICATION Spec
CONSTANTS
    MaxLaunches = 1
INVARIANTS
    AddressIsWhole
CHECK_DEADLOCK FALSE

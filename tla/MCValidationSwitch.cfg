\* A request turns the mode on or off once, at any point of the life of two
\* releases.
SPECIFICATION RunSpec
CONSTANTS
    Updates     = {u1}
    MaxFreight  = 2
    MaxSwitches = 1
PROPERTIES
    SwitchesWhenIdle
    EnablingKeepsWorkloads
    CapacityIsFree
    HoldsLease

\* Two settings requests overlap; one of them turns the mode on.
SPECIFICATION RunSpec
CONSTANTS
    Updates     = {u1, u2}
    MaxFreight  = 1
    MaxSwitches = 1
PROPERTIES
    SwitchesWhenIdle

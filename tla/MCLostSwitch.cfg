\* A switch of the mode whose push was accepted while its answer was lost.
SPECIFICATION RunSpec
CONSTANTS
    Updates     = {u1}
    MaxFreight  = 2
    MaxSwitches = 1
PROPERTIES
    NeverReusesCapacity

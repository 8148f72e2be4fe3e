\* One app, two requests one after the other.
CHECK_DEADLOCK FALSE
SPECIFICATION ConfSpec
CONSTANTS
    c1 = c1
    c2 = c2
    s1 = s1
    s2 = s2
    App = {"web"}
    Cluster = {c1, c2}
    Choices <- MCChoices
    Selections <- MCSelections
    Slot = {s1}
    MaxEdits = 2
    MaxFaults = 0
INVARIANT
    ClusterOverrides

\* One app, two requests, their goroutines, and two failures.
CHECK_DEADLOCK FALSE
SPECIFICATION ConfSpec
CONSTANTS
    c1 = c1
    c2 = c2
    s1 = s1
    s2 = s2
    App = {"web"}
    Cluster = {c1, c2}
    Choices <- MCChoices
    Selections <- MCSelections
    Slot = {s1, s2}
    MaxEdits = 2
    MaxFaults = 2
SYMMETRY Symmetry
INVARIANTS
    Agrees
    OwnCluster
    ItemsExist

\* One name, removed from an environment or changed, and promoted to it again; no
\* faults.
CHECK_DEADLOCK FALSE
SPECIFICATION Spec
CONSTANTS
    App = {"web"}
    NEnv = 3
    Bound = {1, 2, 3}
    Extends <- Continues
    Bases = {2}
    Initial <- DefaultChoices
    MaxRequests = 5
    MaxFaults = 0
INVARIANTS
    NoSeedImage

\* Two names, of which one continues the other; three environments; every
\* request and one fault.
CHECK_DEADLOCK FALSE
SPECIFICATION Spec
CONSTANTS
    App = {"web", "web-admin"}
    NEnv = 3
    Bound = {1, 2, 3}
    Extends <- Continues
    Bases = {2}
    Initial <- DefaultChoices
    MaxRequests = 5
    MaxFaults = 1
INVARIANTS
    OnlyReleasedRuns
    PipelineAsSaved
    DeployedWhereDue
    DeletedLeavesNothing
    RemovedStaysRemoved
PROPERTIES
    KeepsRunning

\* Two sources, two versions, two requests.
CHECK_DEADLOCK FALSE
SPECIFICATION FairSpec
CONSTANTS
    Source = {"acme", "beta"}
    Env = {"dev", "prod"}
    Fallback = {"prod"}
    Overridden = {"prod"}
    Releasing = {"acme"}
    MaxVersion = 2
    MaxEdits = 2
    MaxFailures = 1
INVARIANTS
    PinsAgree
    ChartOfPin
PROPERTIES
    OnlyThatEnvironment
    Follows

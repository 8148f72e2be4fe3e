\* Three environments, of which a listing may miss the first.
CHECK_DEADLOCK FALSE
SPECIFICATION CatSpec
CONSTANTS
    Source = {"acme"}
    Env = {"dev", "staging", "prod"}
    Fallback = {"staging", "prod"}
    Overridden = {}
    Releasing = {"acme"}
    MaxVersion = 2
    MaxEdits = 2
    MaxFailures = 1
PROPERTIES
    NoOtherEnvironment

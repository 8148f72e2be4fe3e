\* Both environments have overrides; one push may be said to have failed.
CHECK_DEADLOCK FALSE
SPECIFICATION CatSpec
CONSTANTS
    Source = {"acme"}
    Env = {"dev", "prod"}
    Fallback = {"prod"}
    Overridden = {"dev", "prod"}
    Releasing = {"acme"}
    MaxVersion = 2
    MaxEdits = 1
    MaxFailures = 1
PROPERTIES
    NeverDrifts

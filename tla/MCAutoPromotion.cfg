\* One replica and a person, two releases, two sources; one edit, two publications,
\* one fault.  It stops when there is nothing left to promote.
CHECK_DEADLOCK FALSE
SPECIFICATION FairSpec
CONSTANTS
    Replica = {"server"}
    Person = "person"
    Freight = {1, 2}
    Second <- Discovered
    Source = {"dev", "qa"}
    Passing <- MCPassing
    Cooldown = 1
    SoonAgain = 0
    MaxEdits = 1
    MaxPublications = 2
    MaxFaults = 1
INVARIANTS
    OneScheduler
PROPERTIES
    VerifiedAllTheWay
    RetriesAreSpaced
    Settles

\* Apps with namespaces of their own, which a stack may share.
CHECK_DEADLOCK FALSE
SPECIFICATION Spec
CONSTANTS
    App = {"web", "api"}
    Stack = {"shop"}
    Scopes = {"app"}
    External = {"api"}
    CanCount = TRUE
    MaxRequests = 6
    MaxFaults = 1
INVARIANTS
    TeardownWaits
PROPERTIES
    ReclaimsExclusive
    AdoptedStay

\* Two requests race for two freights; three names are enough for an attempt,
\* the attempt that replaces it and one that comes too late.
SPECIFICATION Spec
CONSTANTS
    Requests  = {r1, r2}
    Freights  = {f1, f2}
    NoFreight = NoFreight
    MaxName   = 3
    MaxTries  = 2
SYMMETRY Symmetry
INVARIANTS
    AtMostOneActive
    AcceptedNotStale
    NeverWedged
PROPERTIES
    SerialDeployment

\* One request at a time, five in all: two holds, an edit, a resume and one more.
\* Three builds: one to run, one to roll back to, and one that arrives meanwhile.
\* It stops when the requests and builds are used up.
CHECK_DEADLOCK FALSE
SPECIFICATION Spec
CONSTANTS
    Requests    = {r1}
    MaxRequests = 5
    MaxBuilds   = 3
    MaxFaults   = 2
INVARIANTS
    PauseAgrees
PROPERTIES
    ResumeRestores

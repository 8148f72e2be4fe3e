\* Two names, one team; five requests, two at a time, and one fault.
CHECK_DEADLOCK FALSE
SPECIFICATION Spec
CONSTANTS
    User = {u1, u2}
    Team = {t1}
    Request = {r1, r2}
    MaxTries = 2
    MaxRequests = 5
    MaxFaults = 1
SYMMETRY Symmetry
INVARIANTS
    InvitesOnce
    RevokedForGood
    DeletedWhole
PROPERTIES
    NoLostUpdate

\* Three workers: one that has lost its lease, its successor, and one between
\* the read and the update.  One unit is two and a half minutes.  Acquiring stays below five, so that a
\* lease outlasts the work that is done under it.
SPECIFICATION Spec
CONSTANTS
    Workers     = {w1, w2, w3}
    Nobody      = Nobody
    Dead        = Dead
    MaxRun      = 2
    LeaseTime   = 6
    WorkTime    = 4
    SaveTime    = 1
    AcquireTime = 1
SYMMETRY Symmetry
PROPERTIES
    IsExclusiveLease

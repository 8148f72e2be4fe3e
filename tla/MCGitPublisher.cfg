SPECIFICATION Spec
CONSTANTS
    Replicas   = {m1, m2}
    Tasks      = {t1, t2}
    Nobody     = Nobody
    f1         = f1
    f2         = f2
    v1         = v1
    v2         = v2
    x1         = x1
    Files      = {f1, f2}
    Versions   = {v1, v2, absent}
    Absent     = absent
    Tags       = {seed, x1}
    Seed       = seed
    First     <- MCFirst
    Jobs      <- MCJobs
    MaxCommits = 3
SYMMETRY Symmetry
PROPERTIES
    IsAtomicRepo
    ReportedIsPublished

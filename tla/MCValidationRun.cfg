\* A validation environment in a mode that does not change: two releases, and a
\* settings request that contends for the lease, with calls that fail and
\* processes that die.
SPECIFICATION FairSpec
CONSTANTS
    Updates     = {u1}
    MaxFreight  = 2
    MaxSwitches = 0
PROPERTIES
    NoTeardownWhileExecuting
    NotValidatedAgain
    EndsIdle

\* Two runners that crash; every call is shorter than half a lease.
CONSTANTS
    Messages = {m1, m2}
    Runners = {r1, r2}
    Holders = {}
    Lease = 4
    RetryLimit = 2
    MaxCall = 1
    MaxAttempts = 3
    MaxCrashes = 1
    None = None
SPECIFICATION FairSpec
INVARIANTS
    AcceptedOnce
PROPERTIES
    EventuallySettled

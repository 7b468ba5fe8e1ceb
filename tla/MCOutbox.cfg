\* Two runners with one identity; a call may outlast its lease.
CONSTANTS
    Messages = {m1, m2}
    Runners = {r1, r2}
    Holders = {h1, h2}
    TTL = 2
    Lease = 2
    RetryLimit = 2
    MaxCall = 3
    MaxAttempts = 3
    MaxCrashes = 1
    None = None
SYMMETRY Symmetry
SPECIFICATION MCSpec
INVARIANTS
    DuplicateOnlyByTakeover
    HolderKeepsLease
PROPERTIES
    AtLeastOnce
    TakeoverNearLeaseEnd

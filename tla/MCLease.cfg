\* Can a runner that lost its lease take away that of its successor?
CONSTANTS
    Messages = {m1}
    Runners = {r1, r2}
    Holders = {}
    Lease = 2
    RetryLimit = 2
    MaxCall = 4
    MaxAttempts = 3
    MaxCrashes = 0
    None = None
SPECIFICATION Spec
PROPERTIES
    SuccessorKeepsLease

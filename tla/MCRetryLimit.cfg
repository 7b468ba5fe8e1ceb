\* Is the retry limit honoured when runners crash?
CONSTANTS
    Messages = {m1}
    Runners = {r1, r2}
    Holders = {}
    Lease = 2
    RetryLimit = 2
    MaxCall = 4
    MaxAttempts = 3
    MaxCrashes = 3
    None = None
SPECIFICATION Spec
INVARIANTS
    RetryLimitHonoured

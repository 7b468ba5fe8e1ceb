SPECIFICATION ProcessSpec
CHECK_DEADLOCK FALSE
CONSTANTS
    Callers = {c1, c2}
    Requests = {r1, r2}
    Stoppers = {s1, s2, s3}
    Names = {ticker, sweeper}
    Runs = {a, b, c}
    NoRun = NoRun
    Served = {p1, p2, p3}
    Paths = {vessels, windows}
INVARIANTS
    StoreOutlivesUsers
    OneCloser
    ReadyMeansServing
    OneStopWaits
    SupervisedOrGone
    SnapshotAddsUp
PROPERTIES
    EverythingStops

\* One order and two windows at a terminal that is being archived.
CONSTANTS
    Orders = {o1}
    Lots = {l1}
    Quantities = {1}
    Samples = {s1}
    Terminals = {t1}
    Windows = {w1, w2}
    Owners = {planner}
    Workers = {barge}
    Horizon = 3
    MaxReplays = 1
    None = None
    NoOrder = NoOrder
SYMMETRY WindowSymmetry
SPECIFICATION TerminalSpec
INVARIANTS
    ActiveOrderHasWindow
    ArchivedIdleExceptLate
    StrandedOnlyByRaceOrReplay
    OverlapWithinSecond
PROPERTY
    LeaseOverForGood
\* the work may be done: the order over, the windows gone, the terminal archived
CHECK_DEADLOCK FALSE

\* Two orders compete for one lot of fuel and one window.
CONSTANTS
    Orders = {o1, o2}
    Lots = {l1}
    Quantities = {1, 2}
    Samples = {s1}
    Terminals = {t1}
    Windows = {w1}
    Owners = {planner}
    Workers = {barge}
    Horizon = 1
    MaxReplays = 1
    None = None
    NoOrder = NoOrder
SPECIFICATION Spec
INVARIANTS
    TypeOK
    DrawnOnce
    LotLedger
    StepsInOrder
    CompletionBacked
    BilledIsDelivered
    ReportsAgree
PROPERTIES
    FollowsLifecycle
\* the work may be done: every order over, every invoice paid
CHECK_DEADLOCK FALSE

\* Is every completion audited and announced?
CONSTANTS
    Orders = {o1}
    Lots = {l1}
    Quantities = {1}
    Samples = {s1}
    Terminals = {t1}
    Windows = {w1}
    Owners = {planner}
    Workers = {barge}
    Horizon = 1
    MaxReplays = 1
    None = None
    NoOrder = NoOrder
SPECIFICATION Spec
INVARIANTS
    CompletionIsOnRecord
\* the work may be done: every order over, every invoice paid
CHECK_DEADLOCK FALSE

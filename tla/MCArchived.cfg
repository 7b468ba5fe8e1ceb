\* Can a terminal be archived while it has a window?
CONSTANTS
    Orders = {o1}
    Lots = {l1}
    Quantities = {1}
    Samples = {s1}
    Terminals = {t1}
    Windows = {w1, w2}
    Owners = {planner}
    Workers = {barge}
    Horizon = 2
    MaxReplays = 1
    None = None
    NoOrder = NoOrder
SPECIFICATION TerminalSpec
INVARIANTS
    ArchivedHasNoActiveWindow
\* the work may be done: the order over, the windows gone, the terminal archived
CHECK_DEADLOCK FALSE

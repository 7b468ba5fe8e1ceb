\* Three clients, one key, two bodies and the calls without a key; two users with
\* two sessions of two hours, and two calls.
CONSTANTS
    Clients = {c1, c2, c3}
    Keys = {k1}
    Bodies = {b1, b2}
    NoKey = NoKey
    None = None
    MaxOrders = 3
    Users = {u1, u2}
    Tokens = {t1, t2}
    Calls = {a, b}
    SessionTTL = 2
    LastHour = 3
SPECIFICATION RequestsSpec
INVARIANTS
    OneAnswerPerKey
    KeysMatchOrders
    LateCallRefused

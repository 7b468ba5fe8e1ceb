\* Three calls of Pay on two invoices under two keys; two charges under each key;
\* three attempts in the ledger.
CONSTANTS
    Invoices = {i1, i2}
    Keys = {k1, k2}
    Calls = {c1, c2, c3}
    NoKey = NoKey
    NoInvoice = NoInvoice
    MaxCharges = 2
    LedgerInvoices = {i1, i2}
    LedgerKeys = {k1, k2, k3}
    Amounts = {5, 7}
    MaxAttemptsKept = 3
SPECIFICATION MoneySpec
INVARIANTS
    ChargedOnce
    ChargedKeyKept
    PaidIsChargedOrJoined
    CountsLostOnlyByOverlap
PROPERTIES
    PaidIsFinal
    KeysNameOneAttempt
\* the work may be done: every order over, every invoice paid
CHECK_DEADLOCK FALSE

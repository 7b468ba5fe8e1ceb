--------------------------- MODULE PaymentLedger ----------------------------
(***************************************************************************)
(* payment.Ledger: the attempts to pay invoices, each found again by its   *)
(* key.  The reports of an attempt come late, twice and in any order.      *)
(***************************************************************************)
EXTENDS Naturals, Sequences, SequencesExt

CONSTANTS LedgerInvoices, LedgerKeys, Amounts,
          MaxAttemptsKept      \* bound: attempts in the ledger

VARIABLES attempts,            \* Ledger.Attempts; "pay-n" is the n-th
          answered             \* history: what Start returned without an error

ledgerVars == <<attempts, answered>>

Attempt(i, k, a) == [invoice |-> i, key |-> k, amount |-> a, state |-> "started"]

LedgerInit == attempts = <<>> /\ answered = {}

\* BUG: a key is looked up among the attempts of its invoice only.
KnownOfInvoice(i, k) == {n \in DOMAIN attempts : attempts[n].key = k /\ attempts[n].invoice = i}

Known(i, k) == {n \in DOMAIN attempts : attempts[n].key = k}

\* A known key answers with its attempt, whatever has become of it, or refuses
\* another invoice or amount (ErrIdempotency).
StartAttempt(i, k, a) ==
    \/ /\ Known(i, k) = {}
       /\ Len(attempts) < MaxAttemptsKept
       /\ attempts' = Append(attempts, Attempt(i, k, a))
       /\ answered' = answered \cup {[id |-> Len(attempts) + 1, invoice |-> i, key |-> k, amount |-> a]}
    \/ \E n \in Known(i, k) :
          /\ attempts[n].invoice = i /\ attempts[n].amount = a
          /\ answered' = answered \cup {[id |-> n, invoice |-> i, key |-> k, amount |-> a]}
          /\ UNCHANGED attempts

SetState(n, s) == attempts' = [attempts EXCEPT ![n].state = s] /\ UNCHANGED answered

\* Succeed answers nil for an attempt that has succeeded, and a conflict for one
\* that failed.
SucceedAttempt(n) == attempts[n].state = "started" /\ SetState(n, "succeeded")

\* Fail refuses only an attempt that succeeded.
FailAttempt(n) == attempts[n].state # "succeeded" /\ SetState(n, "failed")

LedgerNext ==
    \/ \E i \in LedgerInvoices, k \in LedgerKeys, a \in Amounts : StartAttempt(i, k, a)
    \/ \E n \in DOMAIN attempts : SucceedAttempt(n) \/ FailAttempt(n)

LedgerSpec == LedgerInit /\ [][LedgerNext]_ledgerVars

Successful(i) == SelectSeq(attempts, LAMBDA t : t.invoice = i /\ t.state = "succeeded")

Retryable(i) == SelectSeq(attempts, LAMBDA t : t.invoice = i /\ t.state = "failed")

\* However often keys are repeated, with whatever invoice and amount, and reports
\* come late: all answers to a key name one attempt, invoice and amount, and an
\* attempt that failed or succeeded is never paid again under its key (Start,
\* Succeed, Fail).
KeysNameOneAttempt ==
    /\ [](\A s, t \in answered : s.key = t.key => s = t)
    /\ [][\A n \in DOMAIN attempts :
              /\ attempts[n].state = "succeeded" => attempts'[n] = attempts[n]
              /\ attempts[n].state = "failed" => attempts'[n].state = "failed"]_ledgerVars

=============================================================================

------------------------------- MODULE Billing ------------------------------
(***************************************************************************)
(* Payment of issued invoices (billing.Service.Pay).  A call reads the     *)
(* invoice outside any transaction, claims its payment key in one          *)
(* transaction, charges the gateway with no transaction open and settles   *)
(* in another one; between these steps other calls run, the call's context *)
(* can be cancelled and the process can die.  Invoices are issued by       *)
(* Complete and Generate (module Bunkering).                               *)
(***************************************************************************)
EXTENDS Naturals

CONSTANTS Invoices, Keys,
          Calls,       \* concurrent calls of Pay
          NoKey, NoInvoice

ASSUME NoKeyAssumption == NoKey \notin Keys
ASSUME NoInvoiceAssumption == NoInvoice \notin Invoices

VARIABLES state,       \* invoices.state
          paymentKey,  \* invoices.payment_key, NULL and '' being NoKey
          pc,          \* what each call does next
          invoice,     \* its invoiceID
          key,         \* its paymentKey
          \* history variables
          charges,     \* successful charges of each invoice at the gateway
          chargedKey,  \* the key of the last one
          joined       \* invoices some call found claimed under its own key

tableVars   == <<state, paymentKey>>
callVars    == <<pc, invoice, key>>
historyVars == <<charges, chargedKey, joined>>
vars == <<tableVars, callVars, historyVars>>

Phases == {"idle", "claim", "charge", "clear", "settle"}

TypeOK ==
    /\ state      \in [Invoices -> {"issued", "paid"}]
    /\ paymentKey \in [Invoices -> Keys \cup {NoKey}]
    /\ pc         \in [Calls -> Phases]
    /\ invoice    \in [Calls -> Invoices \cup {NoInvoice}]
    /\ key        \in [Calls -> Keys \cup {NoKey}]
    /\ \A c \in Calls : pc[c] # "idle" => invoice[c] \in Invoices /\ key[c] \in Keys
    /\ charges    \in [Invoices -> Nat]
    /\ chargedKey \in [Invoices -> Keys \cup {NoKey}]
    /\ joined     \subseteq Invoices

Init ==
    /\ state      = [i \in Invoices |-> "issued"]
    /\ paymentKey = [i \in Invoices |-> NoKey]
    /\ pc         = [c \in Calls |-> "idle"]
    /\ invoice    = [c \in Calls |-> NoInvoice]
    /\ key        = [c \in Calls |-> NoKey]
    /\ charges    = [i \in Invoices |-> 0]
    /\ chargedKey = [i \in Invoices |-> NoKey]
    /\ joined     = {}

GoTo(c, phase) == pc' = [pc EXCEPT ![c] = phase]

\* The call is over: it returned, its context was cancelled, or its process died.
Return(c) ==
    /\ pc'      = [pc      EXCEPT ![c] = "idle"]
    /\ invoice' = [invoice EXCEPT ![c] = NoInvoice]
    /\ key'     = [key     EXCEPT ![c] = NoKey]

\* The read of l. 82-98.  A call that finds the invoice paid, or claimed under
\* another key, returns without a step.
Read(c, i, k) ==
    /\ pc[c] = "idle"
    /\ state[i] = "issued"
    /\ paymentKey[i] \in {NoKey, k}
    /\ GoTo(c, IF paymentKey[i] = NoKey THEN "claim" ELSE "settle")
    /\ invoice' = [invoice EXCEPT ![c] = i]
    /\ key'     = [key     EXCEPT ![c] = k]
    /\ joined'  = IF paymentKey[i] = k THEN joined \cup {i} ELSE joined
    /\ UNCHANGED <<tableVars, charges, chargedKey>>

\* BUG: the claim overwrites a key that was stored after the read.
ClaimableStale(i) == state[i] = "issued"

Claimable(i) == state[i] = "issued" /\ paymentKey[i] = NoKey

Claim(c) ==
    /\ pc[c] = "claim"
    /\ IF Claimable(invoice[c])
       THEN /\ paymentKey' = [paymentKey EXCEPT ![invoice[c]] = key[c]]
            /\ GoTo(c, "charge")
            /\ UNCHANGED <<invoice, key>>
       ELSE /\ Return(c)
            /\ UNCHANGED paymentKey
    /\ UNCHANGED <<state, historyVars>>

ChargeSucceeds(c) ==
    /\ pc[c] = "charge"
    /\ GoTo(c, "settle")
    /\ charges'    = [charges    EXCEPT ![invoice[c]] = @ + 1]
    /\ chargedKey' = [chargedKey EXCEPT ![invoice[c]] = key[c]]
    /\ UNCHANGED <<tableVars, invoice, key, joined>>

\* BUG: the error of the gateway is ignored.
AfterRefusalSettle == "settle"

AfterRefusal == "clear"

ChargeFails(c) ==
    /\ pc[c] = "charge"
    /\ GoTo(c, AfterRefusal)
    /\ UNCHANGED <<tableVars, invoice, key, historyVars>>

\* The compensation of l. 116; its own error is dropped, so the key may stay.
Clear(c) ==
    /\ pc[c] = "clear"
    /\ \/ /\ state[invoice[c]] = "issued"
          /\ paymentKey[invoice[c]] = key[c]
          /\ paymentKey' = [paymentKey EXCEPT ![invoice[c]] = NoKey]
       \/ UNCHANGED paymentKey
    /\ Return(c)
    /\ UNCHANGED <<state, historyVars>>

\* The last transaction.  Rolled back (no row, or a failing audit or outbox
\* insert) it leaves the invoice as it is, claimed key included.
Settle(c) ==
    /\ pc[c] = "settle"
    /\ \/ /\ state[invoice[c]] = "issued"
          /\ paymentKey[invoice[c]] = key[c]
          /\ state' = [state EXCEPT ![invoice[c]] = "paid"]
       \/ UNCHANGED state
    /\ Return(c)
    /\ UNCHANGED <<paymentKey, historyVars>>

\* BUG: a call that is cut off takes its key back, even after the charge.
DieCleanly(c) ==
    /\ pc[c] # "idle"
    /\ Return(c)
    /\ paymentKey' = [paymentKey EXCEPT ![invoice[c]] = NoKey]
    /\ UNCHANGED <<state, historyVars>>

\* A cancelled context or a crash ends the call between two steps; nothing
\* remembers that the key it claimed was not charged yet.
Die(c) ==
    /\ pc[c] # "idle"
    /\ Return(c)
    /\ UNCHANGED <<tableVars, historyVars>>

Next ==
    \E c \in Calls :
        \/ \E i \in Invoices, k \in Keys : Read(c, i, k)
        \/ Claim(c) \/ ChargeSucceeds(c) \/ ChargeFails(c)
        \/ Clear(c) \/ Settle(c) \/ Die(c)

Spec == Init /\ [][Next]_vars

-----------------------------------------------------------------------------
(* Properties. *)

\* However many calls race, retry, fail or die, an invoice is charged at most
\* once (Claim, ChargeSucceeds, Clear).
ChargedOnce == \A i \in Invoices : charges[i] <= 1

\* The key a charge was made under stays on the invoice, so that a retry settles
\* instead of charging again (the compensation after a failed charge, Die).
ChargedKeyKept ==
    \A i \in Invoices : charges[i] > 0 => paymentKey[i] = chargedKey[i]

\* An invoice is paid without a charge only if some call came upon its own key
\* already claimed: the retry of a call that died before charging, or a second
\* call with the same key (Read's chargeRequired, Settle).
PaidIsChargedOrJoined ==
    \A i \in Invoices : state[i] = "paid" => charges[i] = 1 \/ i \in joined

\* A paid invoice stays paid and keeps its key (Clear, Settle, Claim).
PaidIsFinal ==
    [][\A i \in Invoices : state[i] = "paid" =>
          state'[i] = "paid" /\ paymentKey'[i] = paymentKey[i] ]_vars

\* Whoever claimed the key of an invoice and has not finished with the gateway is
\* alone, still owns the key, and found the invoice uncharged (Claim).
ClaimHolder ==
    \A c \in Calls : pc[c] \in {"charge", "clear"} =>
        /\ paymentKey[invoice[c]] = key[c]
        /\ charges[invoice[c]] = 0
        /\ \A d \in Calls \ {c} :
               pc[d] \in {"charge", "clear"} => invoice[d] # invoice[c]

\* A call that is about to settle joined or was charged (ChargeSucceeds, Read).
SettleHasReason ==
    \A c \in Calls : pc[c] = "settle" =>
        charges[invoice[c]] = 1 \/ invoice[c] \in joined

\* A paid or charged invoice has a key (Settle, ChargeSucceeds).
KeyRecorded ==
    \A i \in Invoices : /\ state[i] = "paid" => paymentKey[i] # NoKey
                        /\ charges[i] > 0 => chargedKey[i] # NoKey

\* The inductive invariant of Pay: what a call may rely on between its steps.
IInv ==
    /\ TypeOK
    /\ ChargedOnce
    /\ ChargedKeyKept
    /\ PaidIsChargedOrJoined
    /\ ClaimHolder
    /\ SettleHasReason
    /\ KeyRecorded

=============================================================================

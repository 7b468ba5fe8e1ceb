------------------------------ MODULE Gateway -------------------------------
(***************************************************************************)
(* The gateway billing.New gives to Pay, beside the calls of Pay that use  *)
(* it (module Billing).  LocalGateway.Charge counts the charges of a key   *)
(* in a map that has no lock and is made on the first call; charges of     *)
(* concurrent calls race on it.  A race the Go runtime detects ends the    *)
(* process, which Billing's Die covers; here it loses counts.              *)
(***************************************************************************)
EXTENDS Billing, FiniteSets

CONSTANTS MaxCharges   \* bound: charges tried under one key

ASSUME MaxChargesAssumption == MaxCharges \in Nat

VARIABLES counted,     \* Charges, all zero while it is nil
          made,        \* Charges is not nil
          readings,    \* calls inside Charge: what they read of the map
          \* history variables
          attempted,   \* calls of Charge that got past ctx.Err, for each key
          overlapped   \* two calls have been inside Charge at a time

gatewayVars == <<counted, made, readings, attempted, overlapped>>

NoReading == [made |-> FALSE, count |-> 0, inside |-> FALSE]

GatewayInit ==
    /\ Init
    /\ counted = [k \in Keys |-> 0]
    /\ made = FALSE
    /\ readings = [c \in Calls |-> NoReading]
    /\ attempted = [k \in Keys |-> 0]
    /\ overlapped = FALSE

Inside(c) == readings[c].inside

\* Charge reads whether there is a map and what it has of the key.
EnterCharge(c) ==
    /\ pc[c] = "charge"
    /\ ~ Inside(c)
    /\ attempted[key[c]] + Cardinality({d \in Calls : Inside(d)}) < MaxCharges
    /\ readings' = [readings EXCEPT ![c] = [made |-> made, count |-> counted[key[c]], inside |-> TRUE]]
    /\ overlapped' = (overlapped \/ \E d \in Calls : Inside(d))
    /\ UNCHANGED <<vars, counted, made, attempted>>

\* BUG: only accepted charges are counted.
CountAccepted(c) == pc'[c] = "settle"

\* g.Charges[key]++ comes before the test of Fail.
CountsRefused(c) == TRUE

\* It writes what it read plus one, into a fresh map if it found none.
LeaveCharge(c) ==
    /\ Inside(c)
    /\ ChargeSucceeds(c) \/ ChargeFails(c)
    /\ made' = TRUE
    /\ LET base == IF readings[c].made THEN counted ELSE [k \in Keys |-> 0]
       IN counted' = IF CountsRefused(c) THEN [base EXCEPT ![key[c]] = readings[c].count + 1] ELSE counted
    /\ readings' = [readings EXCEPT ![c] = NoReading]
    /\ attempted' = [attempted EXCEPT ![key[c]] = @ + 1]
    /\ UNCHANGED overlapped

\* Any other step; a context that is done before Charge makes it return at once.
OtherCallStep(c) ==
    /\ ~ Inside(c)
    /\ \/ \E i \in Invoices, k \in Keys : Read(c, i, k)
       \/ Claim(c) \/ Clear(c) \/ Settle(c) \/ Die(c) \/ ChargeFails(c)
    /\ UNCHANGED gatewayVars

GatewayNext == \E c \in Calls : EnterCharge(c) \/ LeaveCharge(c) \/ OtherCallStep(c)

GatewaySpec == GatewayInit /\ [][GatewayNext]_<<vars, gatewayVars>>

\* The gateway has counted a charge under a key for every call that reached it,
\* accepted or refused, unless two calls overlapped in it, and never one too many
\* (LocalGateway.Charge).
CountsLostOnlyByOverlap ==
    /\ ~ overlapped => counted = attempted
    /\ \A k \in Keys : counted[k] <= attempted[k]

=============================================================================

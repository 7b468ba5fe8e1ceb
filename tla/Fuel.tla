-------------------------------- MODULE Fuel --------------------------------
(***************************************************************************)
(* Fuel lots (internal/fuel/service.go).  A lot has a row once             *)
(* received[l] > 0.  ReceiveLot admits approved lots only and no code      *)
(* changes quality_state afterwards, so a row's quality is 'approved' and  *)
(* only its quantity is modelled.  received[l] is the quantity of the      *)
(* receipt, a history variable: the table keeps available_kg alone.        *)
(***************************************************************************)
EXTENDS Naturals

CONSTANTS Lots,        \* lot numbers; UNIQUE(tenant_id, lot_number)
          Quantities   \* the quantities a receipt or an order may have, in kg

ASSUME QuantityAssumption == Quantities \subseteq Nat \ {0}

VARIABLES received, available

fuelVars == <<received, available>>

FuelTypeOK ==
    /\ received  \in [Lots -> Nat]
    /\ available \in [Lots -> Nat]

FuelInit ==
    /\ received  = [l \in Lots |-> 0]
    /\ available = [l \in Lots |-> 0]

LotExists(l) == received[l] > 0

ReceiveLot(l, q) ==
    /\ ~ LotExists(l)
    /\ received'  = [received  EXCEPT ![l] = q]
    /\ available' = [available EXCEPT ![l] = q]

\* BUG: the lot is not asked whether it holds enough.
ReserveUnchecked(l, q) ==
    /\ q > 0
    /\ available' = [available EXCEPT ![l] = @ - q]
    /\ UNCHANGED received

\* Reserve: a conditional update; no row matches when the lot is short.
Reserve(l, q) ==
    /\ q > 0
    /\ available[l] >= q
    /\ available' = [available EXCEPT ![l] = @ - q]
    /\ UNCHANGED received

\* BUG: the fuel of an aborted transfer is not given back.
ReleaseNothing(l, q) == UNCHANGED fuelVars

\* Release adds the quantity back and asks nothing: not whether it had been
\* reserved, nor whether the lot ever held that much.
Release(l, q) ==
    /\ available' = [available EXCEPT ![l] = @ + q]
    /\ UNCHANGED received

=============================================================================

-------------------------- MODULE OrderLifecycle ---------------------------
(***************************************************************************)
(* What the domain package promises of every transfer order                *)
(* (OperationState.CanMove), with the one exception the code has: recovery *)
(* returns a cancelled order to 'planned'.  An order is cleared for        *)
(* bunkering at most once in its life, however often it is recovered,      *)
(* because its permit is spent by the first approval; so no order can be   *)
(* loaded twice.  Several orders can be finished in one step.              *)
(***************************************************************************)
EXTENDS Domain

CONSTANT Orders

VARIABLES phase,     \* the operation state of each order
          cleared    \* the orders whose permit has been spent

lifecycleVars == <<phase, cleared>>

Init ==
    /\ phase = [o \in Orders |-> "absent"]
    /\ cleared = {}

Open(o) ==
    /\ phase[o] = "absent"
    /\ phase' = [phase EXCEPT ![o] = "planned"]
    /\ UNCHANGED cleared

Clear(o) ==
    /\ phase[o] = "planned"
    /\ o \notin cleared
    /\ phase' = [phase EXCEPT ![o] = "approved"]
    /\ cleared' = cleared \cup {o}

Advance(o) ==
    /\ \E s \in OperationStates \ {"approved"} :
          CanMove(phase[o], s) /\ phase' = [phase EXCEPT ![o] = s]
    /\ UNCHANGED cleared

Finish(batch) ==
    /\ \A o \in batch : CanMove(phase[o], "completed")
    /\ phase' = [o \in Orders |-> IF o \in batch THEN "completed" ELSE phase[o]]
    /\ UNCHANGED cleared

Recover(o) ==
    /\ phase[o] = "cancelled"
    /\ phase' = [phase EXCEPT ![o] = "planned"]
    /\ UNCHANGED cleared

Next ==
    \/ \E o \in Orders : Open(o) \/ Clear(o) \/ Advance(o) \/ Recover(o)
    \/ \E batch \in SUBSET Orders : Finish(batch)

Spec == Init /\ [][Next]_lifecycleVars

=============================================================================

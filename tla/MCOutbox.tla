------------------------------ MODULE MCOutbox ------------------------------
(***************************************************************************)
(* The outbox for TLC.  Messages, runners and holders are interchangeable: *)
(* no action and no property checked with this module tells them apart.    *)
(* A behaviour has either two messages and the runners, or one message and *)
(* the holders too.                                                        *)
(***************************************************************************)
EXTENDS Heartbeats, TLC

VARIABLE part

Symmetry == Permutations(Messages) \cup Permutations(Runners) \cup Permutations(Holders)

MCInit == HeartbeatInit /\ part \in {"runners", "holders"}

RunnersPart == part = "runners" /\ OtherStep

HoldersPart ==
    /\ part = "holders"
    /\ HeartbeatNext
    /\ \A m, n \in Messages : status'[m] # "absent" /\ status'[n] # "absent" => m = n

MCSpec == MCInit /\ [][(RunnersPart \/ HoldersPart) /\ UNCHANGED part]_<<vars, holderVars, part>>

=============================================================================

------------------------------ MODULE Delivery ------------------------------
(***************************************************************************)
(* What the outbox promises of each message: delivery at least once or an  *)
(* explicit surrender.  A message is reported sent only when the broker    *)
(* has accepted it, its fate is decided once, and the broker may see it    *)
(* again, even after the decision.                                         *)
(***************************************************************************)
CONSTANT Messages

VARIABLES fate,        \* "absent", "pending", "sent" or "dead"
          delivered    \* the messages the broker has accepted

deliveryVars == <<fate, delivered>>

Init ==
    /\ fate = [m \in Messages |-> "absent"]
    /\ delivered = {}

Submit(m) ==
    /\ fate[m] = "absent"
    /\ fate' = [fate EXCEPT ![m] = "pending"]
    /\ UNCHANGED delivered

Accept(m) ==
    /\ fate[m] # "absent"
    /\ delivered' = delivered \cup {m}
    /\ UNCHANGED fate

Confirm(m) ==
    /\ fate[m] = "pending"
    /\ m \in delivered
    /\ fate' = [fate EXCEPT ![m] = "sent"]
    /\ UNCHANGED delivered

GiveUp(m) ==
    /\ fate[m] = "pending"
    /\ fate' = [fate EXCEPT ![m] = "dead"]
    /\ UNCHANGED delivered

Next == \E m \in Messages : Submit(m) \/ Accept(m) \/ Confirm(m) \/ GiveUp(m)

Spec == Init /\ [][Next]_deliveryVars

=============================================================================

----------------------------- MODULE Heartbeats -----------------------------
(***************************************************************************)
(* worker.Heartbeat on the rows of the outbox: other workers acquire,      *)
(* renew and release the leases of messages beside the runners.  A holder  *)
(* knows only what its calls returned; its lease may lapse and the message *)
(* be claimed behind its back.                                             *)
(***************************************************************************)
EXTENDS Outbox

CONSTANTS TTL          \* the length it asks for, in half seconds

\* Acquire refuses a ttl up to 0 and takes any other.
ASSUME TTLAssumption == TTL \in Nat \ {0}
\* A holder's id is no runner's: lease_owner=? then tells them apart.
ASSUME HoldersAssumption == Holders \cap (Runners \cup {"runtime-worker"}) = {}

VARIABLES holds,       \* the message each holder believes it holds
          until        \* how long, by its own reckoning

holderVars == <<holds, until>>

HeartbeatInit ==
    /\ Init
    /\ holds = [h \in Holders |-> None]
    /\ until = [h \in Holders |-> 0]

Believes(h, m, t) == holds' = [holds EXCEPT ![h] = m] /\ until' = [until EXCEPT ![h] = t]

SetLease(m, owner, t) ==
    /\ leaseOwner' = [leaseOwner EXCEPT ![m] = owner]
    /\ left' = [left EXCEPT ![m] = t]

\* BUG: a lease is taken over although it runs.
AcquirableAnyTime(m) == status[m] = "pending"

\* status='pending' AND (lease_until IS NULL OR lease_until<?)
Acquirable(m) == status[m] = "pending" /\ (leaseOwner[m] = None \/ Before(left[m], 0))

\* Neither next_attempt nor attempts is looked at or raised.
Acquire(h, m) ==
    /\ holds[h] = None
    /\ Acquirable(m)
    /\ leaseOwner[m] # None => takeovers[m] < MaxAttempts
    /\ SetLease(m, h, TTL)
    /\ Believes(h, m, TTL)
    /\ takeovers' = IF leaseOwner[m] = None THEN takeovers ELSE [takeovers EXCEPT ![m] = @ + 1]
    /\ UNCHANGED <<status, attempts, due, half, runnerVars, crashes, accepted>>

\* The holder learns from ErrLeaseLost that it holds nothing.
Lost(h) == Believes(h, None, 0) /\ UNCHANGED <<leaseOwner, left>>

Renew(h) ==
    /\ holds[h] # None
    /\ IF leaseOwner[holds[h]] = h /\ Before(0, left[holds[h]])
       THEN SetLease(holds[h], h, TTL) /\ Believes(h, holds[h], TTL)
       ELSE Lost(h)
    /\ UNCHANGED <<status, attempts, due, half, runnerVars, crashes, historyVars>>

Release(h) ==
    /\ holds[h] # None
    /\ IF leaseOwner[holds[h]] = h
       THEN SetLease(holds[h], None, Past) /\ Believes(h, None, 0)
       ELSE Lost(h)
    /\ UNCHANGED <<status, attempts, due, half, runnerVars, crashes, historyVars>>

\* The holder dies; the row keeps its lease.
Vanish(h) ==
    /\ holds[h] # None
    /\ Lost(h)
    /\ UNCHANGED <<status, attempts, due, half, runnerVars, crashes, historyVars>>

HolderStep(h) == (\E m \in Messages : Acquire(h, m)) \/ Renew(h) \/ Release(h) \/ Vanish(h)

\* A step of the runners, the planners or the clock.
OtherStep ==
    /\ Next
    /\ holds' = holds
    /\ until' = IF half' = half THEN until
                ELSE [h \in Holders |-> IF until[h] = 0 THEN 0 ELSE until[h] - 1]

HeartbeatNext == OtherStep \/ \E h \in Holders : HolderStep(h)

HeartbeatSpec == HeartbeatInit /\ [][HeartbeatNext]_<<vars, holderVars>>

\* A holder that reckons with a second or more of its lease holds it: no claim, no
\* late report of a runner and no other holder has taken the row or shortened
\* the lease (Acquire, Renew, Release; Claim, Publish, Fail).
HolderKeepsLease ==
    \A h \in Holders : until[h] >= 2 =>
        /\ leaseOwner[holds[h]] = h
        /\ left[holds[h]] = until[h]
        /\ status[holds[h]] = "pending"

=============================================================================

------------------------------- MODULE Outbox -------------------------------
(***************************************************************************)
(* The outbox table (internal/outbox/service.go) and the runners that      *)
(* drain it (internal/worker/runner.go).  A runner claims a message in one *)
(* transaction, calls the broker with no transaction open, and reports the *)
(* result in a single UPDATE guarded by the lease owner.  Runners crash    *)
(* between the steps; the clock runs; leases end while a call is out.      *)
(*                                                                         *)
(* The now of a claim is the value of the runner's ticker, which holds one *)
(* tick back while the runner is busy: after a long call the next claim    *)
(* uses a time as old as that call was long, for the lease it takes too.   *)
(*                                                                         *)
(* Time is counted in half seconds and kept relative to now.  The code     *)
(* compares times as the texts storage.StringTime writes, and RFC3339Nano  *)
(* drops a zero fraction: "10.5Z" sorts before "10Z".  Text gives each     *)
(* half second its place in that order.                                    *)
(***************************************************************************)
EXTENDS Integers, FiniteSets

CONSTANTS Messages, Runners,
          Holders,     \* other workers, which take leases with Heartbeat
          Lease,       \* length of a lease, in half seconds (240 in the code)
          RetryLimit,  \* a failure with this many attempts is final (5 in the code)
          MaxCall,     \* the longest a runner goes without reading its ticker
          MaxAttempts, \* bound: no message is claimed more often
          MaxCrashes,  \* bound: how often a runner crashes
          None         \* no owner, no message

ASSUME LeaseAssumption == Lease \in Nat \ {0} /\ Lease % 2 = 0
ASSUME LimitAssumption == RetryLimit \in Nat \ {0}
ASSUME BoundAssumption == {MaxCall, MaxAttempts, MaxCrashes} \subseteq Nat
ASSUME RunnersAssumption == IsFiniteSet(Runners)
ASSUME NoneAssumption == None \notin Messages \cup Runners \cup Holders \cup {"runtime-worker"}

VARIABLES status, attempts, leaseOwner,
          due,         \* next_attempt - now
          left,        \* lease_until - now
          half,        \* the half of the second that now is in
          pc,          \* what each runner does next
          item,        \* the message it holds a copy of
          copied,      \* the attempts in that copy
          busy,        \* half seconds since it read its ticker; for an idle
                       \* runner, the age of the tick that waits for it
          lag,         \* the age that tick had when it was read
          crashes,     \* number of crashes
          \* history variables
          accepted,    \* how often the broker accepted each message
          takeovers    \* how often a message was claimed from its lease owner

tableVars   == <<status, attempts, leaseOwner>>
clockVars   == <<due, left, half>>
runnerVars  == <<pc, item, copied, busy, lag>>
historyVars == <<accepted, takeovers>>
vars == <<tableVars, clockVars, runnerVars, crashes, historyVars>>

Workers == Holders \cup {"runtime-worker"}

\* app.New gives every runner one id.
WorkerID(r) == "runtime-worker"

\* How long ago a time was is forgotten once no ticker can be that far behind.
Past == -2 - MaxCall

Elapse(t) == IF t = Past THEN Past ELSE t - 1

AtLeastPast(t) == IF t < Past THEN Past ELSE t

\* BUG: minutes for seconds.
RetryDelayMinutes(n) == 120 * (n + 1)

\* Fail: a second more after each attempt.
RetryDelay(n) == 2 * (n + 1)

Times == { t \in Int : t >= Past }

TypeOK ==
    /\ status     \in [Messages -> {"absent", "pending", "sent", "dead"}]
    /\ attempts   \in [Messages -> 0..MaxAttempts]
    /\ leaseOwner \in [Messages -> Workers \cup {None}]
    /\ due        \in [Messages -> Times]
    /\ left       \in [Messages -> Times]
    /\ half       \in 0..1
    /\ pc         \in [Runners -> {"idle", "broker", "publish", "fail"}]
    /\ item       \in [Runners -> Messages \cup {None}]
    /\ copied     \in [Runners -> 0..MaxAttempts]
    /\ busy       \in [Runners -> 0..MaxCall]
    /\ lag        \in [Runners -> 0..MaxCall]
    /\ crashes    \in 0..MaxCrashes
    /\ accepted   \in [Messages -> 0..MaxAttempts]
    /\ takeovers  \in [Messages -> 0..(2 * MaxAttempts)]

Init ==
    /\ status     = [m \in Messages |-> "absent"]
    /\ attempts   = [m \in Messages |-> 0]
    /\ leaseOwner = [m \in Messages |-> None]
    /\ due        = [m \in Messages |-> Past]
    /\ left       = [m \in Messages |-> Past]
    /\ half       = 0
    /\ pc         = [r \in Runners |-> "idle"]
    /\ item       = [r \in Runners |-> None]
    /\ copied     = [r \in Runners |-> 0]
    /\ busy       = [r \in Runners |-> 0]
    /\ lag        = [r \in Runners |-> 0]
    /\ crashes    = 0
    /\ accepted   = [m \in Messages |-> 0]
    /\ takeovers  = [m \in Messages |-> 0]

-----------------------------------------------------------------------------

\* The rank of a time among the texts of RFC3339Nano: within a second the later
\* half, which is written with a fraction, comes first.
Text(t) == IF t % 2 = 0 THEN t + 1 ELSE t - 1

\* s < t, compared as the texts of now + s and now + t.
Before(s, t) == Text(half + s) < Text(half + t)

Enqueue(m) ==
    /\ status[m] = "absent"
    /\ status' = [status EXCEPT ![m] = "pending"]
    /\ due'    = [due    EXCEPT ![m] = 0]
    /\ UNCHANGED <<attempts, leaseOwner, left, half, runnerVars, crashes, historyVars>>

\* BUG: a leased message can be claimed although its lease still runs.
ClaimableAnyLease(m, now) ==
    /\ status[m] = "pending"
    /\ ~ Before(now, due[m])

\* BUG: the lease of a crashed runner is never taken over.
ClaimableUnleased(m, now) ==
    /\ status[m] = "pending"
    /\ ~ Before(now, due[m])
    /\ leaseOwner[m] = None

Claimable(m, now) ==
    /\ status[m] = "pending"
    /\ ~ Before(now, due[m])
    /\ leaseOwner[m] = None \/ Before(left[m], now)

\* What a runner reading its ticker at now may take, within the bound.
Takes(m, now) == Claimable(m, now) /\ attempts[m] < MaxAttempts

\* BUG: half a lease.
LeaseFromHalf(now) == now + Lease \div 2

LeaseFrom(now) == now + Lease

\* ORDER BY next_attempt, id LIMIT 1.  Ids are random, so any earliest message.
Claim(r, m) ==
    /\ pc[r] = "idle"
    /\ Takes(m, -busy[r])
    /\ \A n \in Messages : Takes(n, -busy[r]) => ~ Before(due[n], due[m])
    /\ attempts'   = [attempts   EXCEPT ![m] = @ + 1]
    /\ leaseOwner' = [leaseOwner EXCEPT ![m] = WorkerID(r)]
    /\ left'       = [left       EXCEPT ![m] = AtLeastPast(LeaseFrom(-busy[r]))]
    /\ pc'         = [pc         EXCEPT ![r] = "broker"]
    /\ item'       = [item       EXCEPT ![r] = m]
    /\ copied'     = [copied     EXCEPT ![r] = attempts[m] + 1]
    /\ lag'        = [lag        EXCEPT ![r] = busy[r]]
    /\ busy'       = [busy       EXCEPT ![r] = 0]
    /\ takeovers'  = IF leaseOwner[m] = None THEN takeovers
                     ELSE [takeovers EXCEPT ![m] = @ + 1]
    /\ UNCHANGED <<status, due, half, crashes, accepted>>

\* The tick that waited finds nothing to do; the next one is on time.
Poll(r) ==
    /\ pc[r] = "idle"
    /\ busy[r] > 0
    /\ \A m \in Messages : ~ Takes(m, -busy[r])
    /\ busy' = [busy EXCEPT ![r] = 0]
    /\ UNCHANGED <<tableVars, clockVars, pc, item, copied, lag, crashes, historyVars>>

\* BUG: the broker's error is not looked at.
AfterBrokerBlind(ok) == "publish"

\* BUG: the test of the broker's error is inverted.
AfterBrokerInverted(ok) == IF ok THEN "fail" ELSE "publish"

AfterBroker(ok) == IF ok THEN "publish" ELSE "fail"

BrokerAccepts(r) ==
    /\ pc[r] = "broker"
    /\ pc'       = [pc       EXCEPT ![r] = AfterBroker(TRUE)]
    /\ accepted' = [accepted EXCEPT ![item[r]] = @ + 1]
    /\ UNCHANGED <<tableVars, clockVars, item, copied, busy, lag, crashes, takeovers>>

BrokerRefuses(r) ==
    /\ pc[r] = "broker"
    /\ pc' = [pc EXCEPT ![r] = AfterBroker(FALSE)]
    /\ UNCHANGED <<tableVars, clockVars, item, copied, busy, lag, crashes, historyVars>>

BecomeIdle(r) ==
    /\ pc'     = [pc     EXCEPT ![r] = "idle"]
    /\ item'   = [item   EXCEPT ![r] = None]
    /\ copied' = [copied EXCEPT ![r] = 0]
    /\ lag'    = [lag    EXCEPT ![r] = 0]

\* WHERE id=? AND lease_owner=?; neither the end of the lease nor the status is
\* part of it.
OwnsLease(r) == leaseOwner[item[r]] = WorkerID(r)

Publish(r) ==
    /\ pc[r] = "publish"
    /\ IF OwnsLease(r)
       THEN /\ status'     = [status     EXCEPT ![item[r]] = "sent"]
            /\ leaseOwner' = [leaseOwner EXCEPT ![item[r]] = None]
            /\ left'       = [left       EXCEPT ![item[r]] = Past]
       ELSE UNCHANGED <<status, leaseOwner, left>>
    /\ BecomeIdle(r)
    /\ UNCHANGED <<attempts, due, half, busy, crashes, historyVars>>

\* The retry time is reckoned from the runner's copy, the limit from the table.
Fail(r) ==
    /\ pc[r] = "fail"
    /\ LET m == item[r]
           next == RetryDelay(copied[r]) - lag[r] - busy[r]
       IN IF OwnsLease(r)
          THEN /\ status'     = [status EXCEPT ![m] =
                                   IF attempts[m] >= RetryLimit THEN "dead" ELSE "pending"]
               /\ due'        = [due EXCEPT ![m] = AtLeastPast(next)]
               /\ leaseOwner' = [leaseOwner EXCEPT ![m] = None]
               /\ left'       = [left       EXCEPT ![m] = Past]
          ELSE UNCHANGED <<status, due, leaseOwner, left>>
    /\ BecomeIdle(r)
    /\ UNCHANGED <<attempts, half, busy, crashes, historyVars>>

\* The process dies and another one takes its place, or the database call of the
\* next step fails: the copy is lost and the row keeps its lease until it ends.
Crash(r) ==
    /\ pc[r] # "idle"
    /\ crashes < MaxCrashes
    /\ crashes' = crashes + 1
    /\ busy' \in {busy, [busy EXCEPT ![r] = 0]}
    /\ BecomeIdle(r)
    /\ UNCHANGED <<tableVars, clockVars, historyVars>>

BehindTicker(r) == pc[r] # "idle" \/ busy[r] > 0

Tick ==
    /\ \A r \in Runners : BehindTicker(r) => busy[r] < MaxCall
    /\ half' = 1 - half
    /\ due'  = [m \in Messages |-> Elapse(due[m])]
    /\ left' = [m \in Messages |-> Elapse(left[m])]
    /\ busy' = [r \in Runners |-> IF BehindTicker(r) THEN busy[r] + 1 ELSE 0]
    /\ UNCHANGED <<tableVars, pc, item, copied, lag, crashes, historyVars>>

RunnerStep(r) ==
    \/ \E m \in Messages : Claim(r, m)
    \/ Poll(r)
    \/ BrokerAccepts(r) \/ BrokerRefuses(r) \/ Publish(r) \/ Fail(r)

Next ==
    \/ \E m \in Messages : Enqueue(m)
    \/ \E r \in Runners : RunnerStep(r) \/ Crash(r)
    \/ Tick

Spec == Init /\ [][Next]_vars

\* Run loops on its ticker, so a runner that can take a step does; time passes.
Fairness == WF_vars(Tick) /\ \A r \in Runners : WF_vars(RunnerStep(r))

FairSpec == Spec /\ Fairness

-----------------------------------------------------------------------------
(* Properties. *)

Promise == INSTANCE Delivery
               WITH fate <- status, delivered <- { m \in Messages : accepted[m] > 0 }

\* A message is marked sent only after the broker took it, and sent and dead are
\* final, whoever lost, stole or outlived a lease (Publish, Fail, Claim).
AtLeastOnce == Promise!Spec

\* The broker sees a message twice only if somebody took its lease over: without
\* a takeover every accepted message is marked before it is claimed again (Claim,
\* Publish, Fail).
DuplicateOnlyByTakeover ==
    \A m \in Messages : accepted[m] <= 1 + takeovers[m]

\* A lease is never taken over a whole second or more before it ends, in spite of
\* the comparison of texts (Claim's lease_until<?).
TakeoverNearLeaseEnd ==
    [][\A m \in Messages :
          takeovers'[m] # takeovers[m] => left[m] < 2]_vars

\* As long as no runner crashes and no call takes half a lease, the broker sees a
\* message once: a lease taken with the ticker's late time still outlasts the
\* call it is taken for (Run, Claim, Publish).
AcceptedOnce == crashes = 0 => \A m \in Messages : accepted[m] <= 1

\* Every message is sent or given up in the end, although runners crash and leave
\* leases behind, as long as a call is shorter than a lease (Run, Claim, Fail).
EventuallySettled ==
    \A m \in Messages : status[m] = "pending" ~> status[m] \in {"sent", "dead"}

\* README.md: "Workers honor ... retry limits": no message is tried more often
\* than the limit (Claim does not ask; only Fail does).
RetryLimitHonoured == \A m \in Messages : attempts[m] <= RetryLimit

\* README.md: "Workers honor ... leases": a runner whose message was taken over
\* leaves the lease of its successor alone when it reports at last (Publish, Fail:
\* lease_owner=? is all they ask, and app.New gives every runner the same id).
SuccessorKeepsLease ==
    [][\A r, d \in Runners :
          /\ pc[r] \in {"publish", "fail"} /\ pc'[r] = "idle"
          /\ item[d] = item[r] /\ copied[d] > copied[r]
          => leaseOwner'[item[r]] = leaseOwner[item[r]] ]_vars

=============================================================================

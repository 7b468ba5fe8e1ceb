---------------------------- MODULE OutboxProofs ----------------------------
(***************************************************************************)
(* What holds of the outbox for any number of messages, runners and other  *)
(* holders of leases, any lease and any length of a call.                  *)
(*                                                                         *)
(* The argument counts.  Each call of the broker that is out, and each     *)
(* failure not yet reported, belongs to one claim; a message is claimed    *)
(* from its lease owner or while nobody owns it.                           *)
(***************************************************************************)
EXTENDS Heartbeats, FiniteSetTheorems, TLAPS

\* The runners whose call for m is out.
Calling(m) == { r \in Runners : item[r] = m /\ pc[r] = "broker" }

\* The runners that have a copy of m and no acceptance to report.
Trying(m) == { r \in Runners : item[r] = m /\ pc[r] \in {"broker", "fail"} }

RunnerIDs == { WorkerID(r) : r \in Runners }

Counted(m) ==
    /\ takeovers[m] <= attempts[m] + MaxAttempts
    /\ accepted[m] + Cardinality(Calling(m)) <= attempts[m]
    /\ accepted[m] + Cardinality(Trying(m)) <=
          takeovers[m] + (IF status[m] = "sent" \/ leaseOwner[m] \in RunnerIDs THEN 1 ELSE 0)

\* A runner at work has a copy of a message on record, and reports an acceptance
\* only after there was one; only pending messages are leased.
Honest ==
    /\ \A r \in Runners : pc[r] # "idle" => item[r] \in Messages /\ status[item[r]] # "absent"
    /\ \A r \in Runners : pc[r] = "publish" => accepted[item[r]] > 0
    /\ \A m \in Messages : leaseOwner[m] # None => status[m] = "pending"

IInv == TypeOK /\ (\A m \in Messages : Counted(m)) /\ Honest

-----------------------------------------------------------------------------
(* Numbers, texts of times, and sets of runners. *)

\* A time at least a second later has the later text, and Text moves a time by one.
LEMMA TextOrder ==
    ASSUME NEW s \in Int, NEW t \in Int, half \in 0..1, Before(s, t)
    PROVE  s < t + 2
  BY Z3 DEF Before, Text

LEMMA Constants ==
    /\ Lease \in Nat /\ Lease >= 2 /\ Lease % 2 = 0 /\ RetryLimit \in Nat
    /\ MaxCall \in Nat /\ MaxAttempts \in Nat /\ MaxCrashes \in Nat
    /\ Past \in Int /\ Past = -2 - MaxCall
  BY LeaseAssumption, LimitAssumption, BoundAssumption DEF Past

LEMMA RunnerIDsFacts ==
    /\ None \notin RunnerIDs
    /\ RunnerIDs \subseteq Workers
    /\ \A h \in Holders : h \notin RunnerIDs
    /\ \A r \in Runners : WorkerID(r) \in RunnerIDs /\ WorkerID(r) # None
  BY NoneAssumption, HoldersAssumption DEF RunnerIDs, WorkerID, Workers

LEMMA Times0 ==
    /\ Past \in Times /\ 0 \in Times
    /\ \A t \in Times : Elapse(t) \in Times
    /\ \A t \in Int : AtLeastPast(t) \in Times
  BY Constants DEF Times, Elapse, AtLeastPast

LEMMA RunnersCount ==
    ASSUME NEW S \in SUBSET Runners, NEW x \in Runners
    PROVE  /\ Cardinality(S) \in Nat
           /\ x \in S => Cardinality(S) > 0
           /\ Cardinality(S \ {x}) = Cardinality(S) - (IF x \in S THEN 1 ELSE 0)
           /\ Cardinality((S \ {x}) \cup {x}) = Cardinality(S \ {x}) + 1
<1>1. IsFiniteSet(S) /\ IsFiniteSet(S \ {x})
  BY RunnersAssumption, FS_Subset
<1>2. Cardinality(S) \in Nat
  BY <1>1, FS_CardinalityType
<1>3. ASSUME x \in S PROVE Cardinality(S) > 0 /\ Cardinality(S \ {x}) = Cardinality(S) - 1
  <2>1. Cardinality(S \ {x}) = Cardinality(S) - 1
    BY <1>1, <1>3, FS_RemoveElement
  <2>2. Cardinality(S) # 0
    BY <1>1, <1>3, FS_EmptySet
  <2> QED BY <2>1, <2>2, <1>2
<1>4. ASSUME x \notin S PROVE Cardinality(S \ {x}) = Cardinality(S)
  <2>1. S \ {x} = S
    BY <1>4
  <2> QED BY <2>1
<1>5. Cardinality((S \ {x}) \cup {x}) = Cardinality(S \ {x}) + 1
  BY <1>1, FS_AddElement
<1> QED BY <1>2, <1>3, <1>4, <1>5

\* How one runner's step moves the counts.
LEMMA CountMoves ==
    ASSUME NEW r \in Runners, NEW m \in Messages,
           \A s \in Runners \ {r} : pc'[s] = pc[s] /\ item'[s] = item[s]
    PROVE  /\ Cardinality(Calling(m)) \in Nat
           /\ Cardinality(Trying(m)) \in Nat
           /\ Cardinality(Calling(m)') = Cardinality(Calling(m))
                 - (IF item[r] = m /\ pc[r] = "broker" THEN 1 ELSE 0)
                 + (IF item'[r] = m /\ pc'[r] = "broker" THEN 1 ELSE 0)
           /\ Cardinality(Trying(m)') = Cardinality(Trying(m))
                 - (IF item[r] = m /\ pc[r] \in {"broker", "fail"} THEN 1 ELSE 0)
                 + (IF item'[r] = m /\ pc'[r] \in {"broker", "fail"} THEN 1 ELSE 0)
           /\ item[r] = m /\ pc[r] = "broker" => Cardinality(Calling(m)) > 0
<1>1. Calling(m) \in SUBSET Runners /\ Calling(m) \ {r} \in SUBSET Runners
      /\ Trying(m) \in SUBSET Runners /\ Trying(m) \ {r} \in SUBSET Runners
  BY DEF Calling, Trying
<1>2. Calling(m)' = IF item'[r] = m /\ pc'[r] = "broker" THEN (Calling(m) \ {r}) \cup {r} ELSE Calling(m) \ {r}
  BY DEF Calling
<1>3. Trying(m)' = IF item'[r] = m /\ pc'[r] \in {"broker", "fail"}
                   THEN (Trying(m) \ {r}) \cup {r} ELSE Trying(m) \ {r}
  BY DEF Trying
<1>4. (r \in Calling(m) <=> item[r] = m /\ pc[r] = "broker")
      /\ (r \in Trying(m) <=> item[r] = m /\ pc[r] \in {"broker", "fail"})
  BY DEF Calling, Trying
<1>5. /\ Cardinality(Calling(m)) \in Nat
      /\ r \in Calling(m) => Cardinality(Calling(m)) > 0
      /\ Cardinality(Calling(m) \ {r}) = Cardinality(Calling(m)) - (IF r \in Calling(m) THEN 1 ELSE 0)
      /\ Cardinality((Calling(m) \ {r}) \cup {r}) = Cardinality(Calling(m) \ {r}) + 1
  <2> HIDE DEF Calling
  <2> QED BY <1>1, RunnersCount
<1>6. /\ Cardinality(Trying(m)) \in Nat
      /\ Cardinality(Trying(m) \ {r}) = Cardinality(Trying(m)) - (IF r \in Trying(m) THEN 1 ELSE 0)
      /\ Cardinality((Trying(m) \ {r}) \cup {r}) = Cardinality(Trying(m) \ {r}) + 1
  <2> QED BY <1>1, RunnersCount
<1>7. Cardinality(Calling(m)') = Cardinality(Calling(m))
                 - (IF item[r] = m /\ pc[r] = "broker" THEN 1 ELSE 0)
                 + (IF item'[r] = m /\ pc'[r] = "broker" THEN 1 ELSE 0)
  BY <1>2, <1>4, <1>5
<1>8. Cardinality(Trying(m)') = Cardinality(Trying(m))
                 - (IF item[r] = m /\ pc[r] \in {"broker", "fail"} THEN 1 ELSE 0)
                 + (IF item'[r] = m /\ pc'[r] \in {"broker", "fail"} THEN 1 ELSE 0)
  BY <1>3, <1>4, <1>6
<1> QED BY <1>4, <1>5, <1>6, <1>7, <1>8

-----------------------------------------------------------------------------
(* The inductive invariant. *)

LEMMA InitIInv == Init => IInv
<1> SUFFICES ASSUME Init PROVE IInv
  OBVIOUS
<1>1. TypeOK
  BY Constants, Times0, NoneAssumption DEF Init, TypeOK
<1>2. ASSUME NEW m \in Messages PROVE Counted(m)
  <2>1. Calling(m) = {} /\ Trying(m) = {}
    BY <1>1 DEF Init, Calling, Trying, TypeOK
  <2>2. Cardinality({}) = 0
    BY FS_EmptySet
  <2> QED BY <2>1, <2>2, Constants DEF Init, Counted
<1>3. Honest
  BY DEF Init, Honest
<1> QED BY <1>1, <1>2, <1>3 DEF IInv

\* A runner's work ends.
LEMMA IdleType ==
    ASSUME TypeOK, NEW r \in Runners, BecomeIdle(r)
    PROVE  /\ pc' \in [Runners -> {"idle", "broker", "publish", "fail"}]
           /\ item' \in [Runners -> Messages \cup {None}]
           /\ copied' \in [Runners -> 0..MaxAttempts]
           /\ lag' \in [Runners -> 0..MaxCall]
  BY Constants DEF TypeOK, BecomeIdle

LEMMA TypeStep == IInv /\ Next => TypeOK'
<1> SUFFICES ASSUME IInv, Next PROVE TypeOK'
  OBVIOUS
<1>0. TypeOK /\ Honest
  BY DEF IInv
<1>t. /\ TypeOK!1 /\ TypeOK!2 /\ TypeOK!3 /\ TypeOK!4 /\ TypeOK!5 /\ TypeOK!6 /\ TypeOK!7
      /\ TypeOK!8 /\ TypeOK!9 /\ TypeOK!10 /\ TypeOK!11 /\ TypeOK!12 /\ TypeOK!13 /\ TypeOK!14
  BY <1>0 DEF TypeOK
<1>1. ASSUME NEW m \in Messages, Enqueue(m) PROVE TypeOK'
  BY <1>t, <1>1, Constants, Times0 DEF Enqueue, TypeOK, runnerVars, historyVars
<1>2. ASSUME NEW r \in Runners, NEW m \in Messages, Claim(r, m) PROVE TypeOK'
  <2>1. Counted(m)
    BY DEF IInv
  <2>2. attempts[m] + 1 \in 0..MaxAttempts
    BY <1>t, <1>2, Constants DEF Claim, Takes
  <2>3. takeovers[m] + 1 \in 0..(2 * MaxAttempts)
    BY <1>t, <2>1, <2>2, Constants DEF Counted
  <2>4. AtLeastPast(LeaseFrom(-busy[r])) \in Times
    BY <1>t, Times0, Constants DEF LeaseFrom
  <2>5. WorkerID(r) \in Workers
    BY RunnerIDsFacts
  <2> QED BY <1>t, <1>2, <2>2, <2>3, <2>4, <2>5, Constants DEF Claim, TypeOK
<1>3. ASSUME NEW r \in Runners, Poll(r) PROVE TypeOK'
  BY <1>t, <1>3, Constants DEF Poll, TypeOK, tableVars, clockVars, historyVars
<1>4. ASSUME NEW r \in Runners, BrokerAccepts(r) PROVE TypeOK'
  <2>1. item[r] \in Messages
    BY <1>0, <1>4 DEF Honest, BrokerAccepts
  <2>2. Counted(item[r])
    BY <2>1 DEF IInv
  <2>3. Cardinality(Calling(item[r])) > 0 /\ Cardinality(Calling(item[r])) \in Nat
    <3>1. Calling(item[r]) \in SUBSET Runners /\ r \in Calling(item[r])
      BY <1>4 DEF Calling, BrokerAccepts
    <3> QED BY <3>1, RunnersCount
  <2>4. accepted[item[r]] + 1 \in 0..MaxAttempts
    BY <1>t, <2>1, <2>2, <2>3, Constants DEF Counted
  <2> QED BY <1>t, <1>4, <2>1, <2>4 DEF BrokerAccepts, AfterBroker, TypeOK, tableVars, clockVars
<1>5. ASSUME NEW r \in Runners, BrokerRefuses(r) PROVE TypeOK'
  BY <1>t, <1>5 DEF BrokerRefuses, AfterBroker, TypeOK, tableVars, clockVars, historyVars
<1>6. ASSUME NEW r \in Runners, Publish(r) PROVE TypeOK'
  BY <1>0, <1>t, <1>6, IdleType, Times0 DEF Publish, TypeOK, historyVars
<1>7. ASSUME NEW r \in Runners, Fail(r) PROVE TypeOK'
  <2>1. RetryDelay(copied[r]) - lag[r] - busy[r] \in Int
    BY <1>t, Constants DEF RetryDelay
  <2>2. AtLeastPast(RetryDelay(copied[r]) - lag[r] - busy[r]) \in Times
    BY <2>1, Times0
  <2>3. item[r] \in Messages
    BY <1>0, <1>7 DEF Honest, Fail
  <2> QED BY <1>0, <1>t, <1>7, <2>2, <2>3, IdleType, Times0 DEF Fail, TypeOK, historyVars
<1>8. ASSUME NEW r \in Runners, Crash(r) PROVE TypeOK'
  <2>1. busy' \in [Runners -> 0..MaxCall]
    BY <1>t, <1>8, Constants DEF Crash
  <2> QED BY <1>0, <1>t, <1>8, <2>1, IdleType, Constants
          DEF Crash, TypeOK, tableVars, clockVars, historyVars
<1>9. ASSUME Tick PROVE TypeOK'
  <2>1. due' \in [Messages -> Times] /\ left' \in [Messages -> Times]
    BY <1>t, <1>9, Times0 DEF Tick
  <2>2. busy' \in [Runners -> 0..MaxCall] /\ half' \in 0..1
    BY <1>t, <1>9, Constants DEF Tick
  <2> QED BY <1>t, <1>9, <2>1, <2>2 DEF Tick, TypeOK, tableVars, historyVars
<1> QED BY <1>1, <1>2, <1>3, <1>4, <1>5, <1>6, <1>7, <1>8, <1>9 DEF Next, RunnerStep

\* A step that leaves the runners' work alone keeps the counts.
LEMMA CountsFrame ==
    ASSUME pc' = pc, item' = item, NEW m \in Messages
    PROVE  Calling(m)' = Calling(m) /\ Trying(m)' = Trying(m)
  BY DEF Calling, Trying

LEMMA CountTypes ==
    ASSUME TypeOK, NEW m \in Messages
    PROVE  /\ Cardinality(Calling(m)) \in Nat /\ Cardinality(Trying(m)) \in Nat
           /\ accepted[m] \in Nat /\ takeovers[m] \in Nat /\ attempts[m] \in 0..MaxAttempts
           /\ Counted(m) <=>
                 /\ takeovers[m] <= attempts[m] + MaxAttempts
                 /\ accepted[m] + Cardinality(Calling(m)) <= attempts[m]
                 /\ accepted[m] + Cardinality(Trying(m)) <= takeovers[m] + 1
                 /\ status[m] # "sent" /\ leaseOwner[m] \notin RunnerIDs
                    => accepted[m] + Cardinality(Trying(m)) <= takeovers[m]
<1>1. Calling(m) \in SUBSET Runners /\ Trying(m) \in SUBSET Runners
  BY DEF Calling, Trying
<1>2. Cardinality(Calling(m)) \in Nat /\ Cardinality(Trying(m)) \in Nat
  BY <1>1, RunnersAssumption, FS_Subset, FS_CardinalityType
<1>3. accepted[m] \in Nat /\ takeovers[m] \in Nat /\ attempts[m] \in 0..MaxAttempts
  BY Constants DEF TypeOK
<1> QED BY <1>2, <1>3, Constants DEF Counted

LEMMA CountedStep ==
    ASSUME IInv, Next, NEW n \in Messages
    PROVE  Counted(n)'
<1>0. /\ TypeOK /\ TypeOK' /\ Honest /\ Counted(n)
  BY TypeStep DEF IInv
<1>t. /\ Cardinality(Calling(n)) \in Nat /\ Cardinality(Trying(n)) \in Nat
      /\ accepted[n] \in Nat /\ takeovers[n] \in Nat /\ attempts[n] \in 0..MaxAttempts
      /\ takeovers[n] <= attempts[n] + MaxAttempts
      /\ accepted[n] + Cardinality(Calling(n)) <= attempts[n]
      /\ accepted[n] + Cardinality(Trying(n)) <= takeovers[n] + 1
      /\ status[n] # "sent" /\ leaseOwner[n] \notin RunnerIDs
           => accepted[n] + Cardinality(Trying(n)) <= takeovers[n]
  BY <1>0, CountTypes
<1>f. pc \in [Runners -> {"idle", "broker", "publish", "fail"}]
      /\ item \in [Runners -> Messages \cup {None}]
      /\ status \in [Messages -> {"absent", "pending", "sent", "dead"}]
      /\ leaseOwner \in [Messages -> Workers \cup {None}]
      /\ attempts \in [Messages -> 0..MaxAttempts]
      /\ takeovers \in [Messages -> 0..(2 * MaxAttempts)]
      /\ accepted \in [Messages -> 0..MaxAttempts]
  BY <1>0 DEF TypeOK
<1>u. RunnerIDs' = RunnerIDs
  BY DEF RunnerIDs, WorkerID
<1> DEFINE Good ==
       /\ takeovers'[n] <= attempts'[n] + MaxAttempts
       /\ accepted'[n] + Cardinality(Calling(n)') <= attempts'[n]
       /\ accepted'[n] + Cardinality(Trying(n)') <= takeovers'[n] + 1
       /\ status'[n] # "sent" /\ leaseOwner'[n] \notin RunnerIDs
            => accepted'[n] + Cardinality(Trying(n)') <= takeovers'[n]
<1>a. SUFFICES Good
  <2>1. Cardinality(Calling(n)') \in Nat /\ Cardinality(Trying(n)') \in Nat
    <3>1. Calling(n)' \in SUBSET Runners /\ Trying(n)' \in SUBSET Runners
      BY DEF Calling, Trying
    <3> QED BY <3>1, RunnersAssumption, FS_Subset, FS_CardinalityType
  <2>2. accepted'[n] \in Nat /\ takeovers'[n] \in Nat /\ attempts'[n] \in Nat
    BY <1>0, Constants DEF TypeOK
  <2> QED BY <1>u, <2>1, <2>2, Constants DEF Counted
<1>b. ASSUME pc' = pc, item' = item,
             UNCHANGED <<status, leaseOwner, attempts, takeovers, accepted>>
      PROVE  Good
  <2>1. Calling(n)' = Calling(n) /\ Trying(n)' = Trying(n)
    BY <1>b, CountsFrame
  <2> QED BY <1>t, <1>b, <2>1
\* A runner's work ends.
<1>c. ASSUME NEW r \in Runners, BecomeIdle(r)
      PROVE  /\ Cardinality(Calling(n)') \in Nat
             /\ Cardinality(Calling(n)') <= Cardinality(Calling(n))
             /\ Cardinality(Trying(n)') \in Nat
             /\ Cardinality(Trying(n)') = Cardinality(Trying(n))
                  - (IF item[r] = n /\ pc[r] \in {"broker", "fail"} THEN 1 ELSE 0)
  <2>1. Calling(n)' \in SUBSET Runners /\ Trying(n)' \in SUBSET Runners
    BY DEF Calling, Trying
  <2>2. Cardinality(Calling(n)') \in Nat /\ Cardinality(Trying(n)') \in Nat
    BY <2>1, RunnersAssumption, FS_Subset, FS_CardinalityType
  <2>3. n # None
    BY NoneAssumption
  <2>4. /\ \A s \in Runners \ {r} : pc'[s] = pc[s] /\ item'[s] = item[s]
        /\ item'[r] = None /\ pc'[r] = "idle"
    BY <1>f, <1>c DEF BecomeIdle
  <2> QED BY <1>t, <2>2, <2>3, <2>4, CountMoves
<1>1. ASSUME NEW m \in Messages, Enqueue(m) PROVE Good
  <2>1. Calling(n)' = Calling(n) /\ Trying(n)' = Trying(n)
    BY <1>1, CountsFrame DEF Enqueue, runnerVars
  <2> QED BY <1>t, <1>f, <1>1, <2>1 DEF Enqueue, historyVars
<1>2. ASSUME NEW r \in Runners, NEW m \in Messages, Claim(r, m) PROVE Good
  <2>0. /\ \A s \in Runners \ {r} : pc'[s] = pc[s] /\ item'[s] = item[s]
        /\ item'[r] = m /\ pc'[r] = "broker" /\ pc[r] = "idle"
    BY <1>f, <1>2 DEF Claim
  <2>1. /\ Cardinality(Calling(n)') = Cardinality(Calling(n)) + (IF m = n THEN 1 ELSE 0)
        /\ Cardinality(Trying(n)') = Cardinality(Trying(n)) + (IF m = n THEN 1 ELSE 0)
    BY <1>t, <1>2, <2>0, CountMoves DEF Claim
  <2>2. CASE m # n
    BY <1>t, <1>f, <1>2, <2>1, <2>2 DEF Claim
  <2>3. CASE m = n
    <3>1. /\ attempts'[n] = attempts[n] + 1 /\ accepted' = accepted
          /\ leaseOwner'[n] = WorkerID(r) /\ status' = status /\ status[n] = "pending"
          /\ takeovers'[n] = IF leaseOwner[n] = None THEN takeovers[n] ELSE takeovers[n] + 1
      BY <1>f, <1>2, <2>3 DEF Claim, Takes, Claimable
    <3> QED BY <1>t, <2>1, <2>3, <3>1, RunnerIDsFacts, Constants
  <2> QED BY <2>2, <2>3
<1>3. ASSUME NEW r \in Runners, Poll(r) PROVE Good
  BY <1>b, <1>3 DEF Poll, tableVars, historyVars
<1>4. ASSUME NEW r \in Runners, BrokerAccepts(r) PROVE Good
  <2>1. /\ \A s \in Runners \ {r} : pc'[s] = pc[s] /\ item'[s] = item[s]
        /\ item'[r] = item[r] /\ pc'[r] = "publish" /\ pc[r] = "broker"
    BY <1>f, <1>4 DEF BrokerAccepts, AfterBroker
  <2>2. item[r] \in Messages
    BY <1>0, <1>4 DEF Honest, BrokerAccepts
  <2>3. /\ Cardinality(Calling(n)') = Cardinality(Calling(n)) - (IF item[r] = n THEN 1 ELSE 0)
        /\ Cardinality(Trying(n)') = Cardinality(Trying(n)) - (IF item[r] = n THEN 1 ELSE 0)
    BY <1>t, <2>1, CountMoves
  <2>4. accepted'[n] = accepted[n] + (IF item[r] = n THEN 1 ELSE 0)
    BY <1>t, <1>f, <1>4, <2>2 DEF BrokerAccepts
  <2>5. UNCHANGED <<status, leaseOwner, attempts, takeovers>>
    BY <1>4 DEF BrokerAccepts, tableVars
  <2> QED BY <1>t, <2>3, <2>4, <2>5
<1>5. ASSUME NEW r \in Runners, BrokerRefuses(r) PROVE Good
  <2>1. /\ \A s \in Runners \ {r} : pc'[s] = pc[s] /\ item'[s] = item[s]
        /\ item'[r] = item[r] /\ pc'[r] = "fail" /\ pc[r] = "broker"
    BY <1>f, <1>5 DEF BrokerRefuses, AfterBroker
  <2>2. /\ Cardinality(Calling(n)') = Cardinality(Calling(n)) - (IF item[r] = n THEN 1 ELSE 0)
        /\ Cardinality(Trying(n)') = Cardinality(Trying(n))
    BY <1>t, <2>1, CountMoves
  <2>3. UNCHANGED <<status, leaseOwner, attempts, takeovers, accepted>>
    BY <1>5 DEF BrokerRefuses, tableVars, historyVars
  <2> QED BY <1>t, <2>2, <2>3
<1>6. ASSUME NEW r \in Runners, Publish(r) PROVE Good
  <2>1. /\ item[r] \in Messages /\ pc[r] = "publish"
    BY <1>0, <1>6 DEF Honest, Publish
  <2>2. UNCHANGED <<attempts, takeovers, accepted>> /\ BecomeIdle(r)
    BY <1>6 DEF Publish, historyVars
  <2>3. \/ UNCHANGED <<status, leaseOwner>>
        \/ /\ status' = [status EXCEPT ![item[r]] = "sent"]
           /\ leaseOwner' = [leaseOwner EXCEPT ![item[r]] = None]
    BY <1>6 DEF Publish
  <2>4. /\ Cardinality(Calling(n)') \in Nat /\ Cardinality(Trying(n)') = Cardinality(Trying(n))
        /\ Cardinality(Calling(n)') <= Cardinality(Calling(n))
    BY <1>t, <1>c, <2>1, <2>2
  <2>5. \/ status'[n] = "sent"
        \/ status'[n] = status[n] /\ leaseOwner'[n] = leaseOwner[n]
    BY <1>f, <2>1, <2>3
  <2> QED BY <1>t, <2>2, <2>4, <2>5
<1>7. ASSUME NEW r \in Runners, Fail(r) PROVE Good
  <2>1. item[r] \in Messages /\ pc[r] = "fail"
    BY <1>0, <1>7 DEF Honest, Fail
  <2>2. UNCHANGED <<attempts, takeovers, accepted>> /\ BecomeIdle(r)
    BY <1>7 DEF Fail, historyVars
  <2>3. \/ UNCHANGED <<status, leaseOwner>>
        \/ /\ \E s \in {"dead", "pending"} : status' = [status EXCEPT ![item[r]] = s]
           /\ leaseOwner' = [leaseOwner EXCEPT ![item[r]] = None]
           /\ status[item[r]] = "pending"
    BY <1>0, <1>7, <2>1, RunnerIDsFacts DEF Fail, OwnsLease, Honest
  <2> QED BY <1>t, <1>f, <1>c, <2>1, <2>2, <2>3
<1>8. ASSUME NEW r \in Runners, Crash(r) PROVE Good
  <2>1. UNCHANGED <<status, leaseOwner, attempts, takeovers, accepted>> /\ BecomeIdle(r)
    BY <1>8 DEF Crash, tableVars, historyVars
  <2> QED BY <1>t, <1>c, <2>1
<1>9. ASSUME Tick PROVE Good
  BY <1>b, <1>9 DEF Tick, tableVars, historyVars
<1> HIDE DEF Good
<1> QED BY <1>1, <1>2, <1>3, <1>4, <1>5, <1>6, <1>7, <1>8, <1>9 DEF Next, RunnerStep

LEMMA HonestStep == IInv /\ Next => Honest'
<1> SUFFICES ASSUME IInv, Next PROVE Honest'
  OBVIOUS
<1>0. TypeOK /\ TypeOK' /\ Honest
  BY TypeStep DEF IInv
<1>f. /\ pc \in [Runners -> {"idle", "broker", "publish", "fail"}]
      /\ item \in [Runners -> Messages \cup {None}]
      /\ status \in [Messages -> {"absent", "pending", "sent", "dead"}]
      /\ leaseOwner \in [Messages -> Workers \cup {None}]
      /\ accepted \in [Messages -> 0..MaxAttempts]
  BY <1>0 DEF TypeOK
<1>b. ASSUME UNCHANGED <<pc, item, status, leaseOwner, accepted>> PROVE Honest'
  BY <1>0, <1>b DEF Honest
<1>1. ASSUME NEW m \in Messages, Enqueue(m) PROVE Honest'
  BY <1>0, <1>f, <1>1 DEF Enqueue, Honest, runnerVars, historyVars
<1>2. ASSUME NEW r \in Runners, NEW m \in Messages, Claim(r, m) PROVE Honest'
  BY <1>0, <1>f, <1>2 DEF Claim, Takes, Claimable, Honest
<1>3. ASSUME NEW r \in Runners, Poll(r) PROVE Honest'
  BY <1>b, <1>3 DEF Poll, tableVars, historyVars
<1>4. ASSUME NEW r \in Runners, BrokerAccepts(r) PROVE Honest'
  BY <1>0, <1>f, <1>4, Constants DEF BrokerAccepts, AfterBroker, Honest, tableVars
<1>5. ASSUME NEW r \in Runners, BrokerRefuses(r) PROVE Honest'
  BY <1>0, <1>f, <1>5 DEF BrokerRefuses, AfterBroker, Honest, tableVars, historyVars
<1>6. ASSUME NEW r \in Runners, Publish(r) PROVE Honest'
  BY <1>0, <1>f, <1>6 DEF Publish, BecomeIdle, Honest, historyVars
<1>7. ASSUME NEW r \in Runners, Fail(r) PROVE Honest'
  BY <1>0, <1>f, <1>7 DEF Fail, BecomeIdle, Honest, historyVars
<1>8. ASSUME NEW r \in Runners, Crash(r) PROVE Honest'
  BY <1>0, <1>f, <1>8 DEF Crash, BecomeIdle, Honest, tableVars, historyVars
<1>9. ASSUME Tick PROVE Honest'
  BY <1>b, <1>9 DEF Tick, tableVars, historyVars
<1> QED BY <1>1, <1>2, <1>3, <1>4, <1>5, <1>6, <1>7, <1>8, <1>9 DEF Next, RunnerStep

LEMMA IInvStep == IInv /\ [Next]_vars => IInv'
<1>1. IInv /\ Next => IInv'
  BY TypeStep, CountedStep, HonestStep DEF IInv
<1>2. IInv /\ UNCHANGED vars => IInv'
  <2> SUFFICES ASSUME IInv, UNCHANGED vars PROVE IInv'
    OBVIOUS
  <2>1. TypeOK' /\ Honest'
    BY DEF IInv, TypeOK, Honest, vars, tableVars, clockVars, runnerVars, historyVars
  <2>2. ASSUME NEW m \in Messages PROVE Counted(m)'
    BY DEF IInv, Counted, Calling, Trying, RunnerIDs, WorkerID,
           vars, tableVars, clockVars, runnerVars, historyVars
  <2> QED BY <2>1, <2>2 DEF IInv
<1> QED BY <1>1, <1>2

-----------------------------------------------------------------------------
(* The steps of the holders keep it, and the holders keep their leases. *)

HolderTypeOK ==
    /\ holds \in [Holders -> Messages \cup {None}]
    /\ until \in [Holders -> Nat]

\* A holder that reckons with a lease reckons with the lease of a message.
HolderInv ==
    /\ HolderTypeOK
    /\ \A h \in Holders : until[h] > 0 => holds[h] \in Messages
    /\ HolderKeepsLease

LEMMA HolderFacts ==
    /\ TTL \in Nat /\ TTL >= 1 /\ TTL \in Times
    /\ \A h \in Holders : h # None /\ h \in Workers
  BY TTLAssumption, Constants, NoneAssumption DEF Times, Workers

Untouched == UNCHANGED <<leaseOwner, left, takeovers>>

\* h takes the lease of m, from nobody, from itself, or from an owner whose lease ends.
Leases(h, m) ==
    /\ leaseOwner' = [leaseOwner EXCEPT ![m] = h]
    /\ left' = [left EXCEPT ![m] = TTL]
    /\ status[m] = "pending"
    /\ \/ leaseOwner[m] \in {None, h} /\ takeovers' = takeovers
       \/ /\ takeovers' = [takeovers EXCEPT ![m] = @ + 1]
          /\ takeovers[m] < MaxAttempts

\* h gives back the lease of m.
Returns(h, m) ==
    /\ leaseOwner' = [leaseOwner EXCEPT ![m] = None]
    /\ left' = [left EXCEPT ![m] = Past]
    /\ leaseOwner[m] = h
    /\ takeovers' = takeovers

\* What a step of a holder does to the table.
LEMMA HolderStepFrame ==
    ASSUME IInv, HolderTypeOK, NEW h \in Holders, HolderStep(h)
    PROVE  /\ UNCHANGED <<status, attempts, due, half, runnerVars, crashes, accepted>>
           /\ Untouched \/ \E m \in Messages : Leases(h, m) \/ Returns(h, m)
<1>1. ASSUME NEW m \in Messages, Acquire(h, m)
      PROVE  /\ UNCHANGED <<status, attempts, due, half, runnerVars, crashes, accepted>>
             /\ Leases(h, m)
  BY <1>1 DEF Acquire, SetLease, Leases, Acquirable
<1>2. ASSUME Renew(h)
      PROVE  /\ UNCHANGED <<status, attempts, due, half, runnerVars, crashes, accepted>>
             /\ Untouched \/ \E m \in Messages : Leases(h, m)
  <2>1. holds[h] \in Messages
    BY <1>2 DEF HolderTypeOK, Renew
  <2>2. leaseOwner[holds[h]] = h => status[holds[h]] = "pending"
    BY <2>1, HolderFacts DEF IInv, Honest
  <2> QED BY <1>2, <2>1, <2>2 DEF Renew, SetLease, Lost, Leases, Untouched, historyVars
<1>3. ASSUME Release(h)
      PROVE  /\ UNCHANGED <<status, attempts, due, half, runnerVars, crashes, accepted>>
             /\ Untouched \/ \E m \in Messages : Returns(h, m)
  <2>1. holds[h] \in Messages
    BY <1>3 DEF HolderTypeOK, Release
  <2> QED BY <1>3, <2>1 DEF Release, SetLease, Lost, Returns, Untouched, historyVars
<1>4. ASSUME Vanish(h)
      PROVE  /\ UNCHANGED <<status, attempts, due, half, runnerVars, crashes, accepted>>
             /\ Untouched
  BY <1>4 DEF Vanish, Lost, Untouched, historyVars
<1> QED BY <1>1, <1>2, <1>3, <1>4 DEF HolderStep

LEMMA HolderKeepsIInv ==
    ASSUME IInv, HolderTypeOK, NEW h \in Holders, HolderStep(h)
    PROVE  IInv'
<1>1. UNCHANGED <<status, attempts, due, half, runnerVars, crashes, accepted>>
  BY HolderStepFrame
<1>2. Untouched \/ \E m \in Messages : Leases(h, m) \/ Returns(h, m)
  BY HolderStepFrame
<1>0. /\ leaseOwner \in [Messages -> Workers \cup {None}]
      /\ left \in [Messages -> Times]
      /\ takeovers \in [Messages -> 0..(2 * MaxAttempts)]
      /\ status \in [Messages -> {"absent", "pending", "sent", "dead"}]
  BY DEF IInv, TypeOK
<1>3. TypeOK'
  <2>1. /\ leaseOwner' \in [Messages -> Workers \cup {None}]
        /\ left' \in [Messages -> Times]
        /\ takeovers' \in [Messages -> 0..(2 * MaxAttempts)]
    BY <1>0, <1>2, HolderFacts, Times0, Constants DEF Untouched, Leases, Returns
  <2> QED BY <1>1, <2>1 DEF IInv, TypeOK, runnerVars
<1>4. Honest'
  BY <1>0, <1>1, <1>2 DEF IInv, Honest, Untouched, Leases, Returns, runnerVars
<1>5. ASSUME NEW n \in Messages PROVE Counted(n)'
  <2>1. Calling(n)' = Calling(n) /\ Trying(n)' = Trying(n) /\ RunnerIDs' = RunnerIDs
    BY <1>1, CountsFrame DEF runnerVars, RunnerIDs, WorkerID
  <2>2. Counted(n) /\ TypeOK
    BY DEF IInv
  <2>3. /\ Cardinality(Calling(n)) \in Nat /\ Cardinality(Trying(n)) \in Nat
        /\ accepted[n] \in Nat /\ takeovers[n] \in Nat /\ attempts[n] \in 0..MaxAttempts
        /\ takeovers[n] <= attempts[n] + MaxAttempts
        /\ accepted[n] + Cardinality(Calling(n)) <= attempts[n]
        /\ accepted[n] + Cardinality(Trying(n)) <= takeovers[n] + 1
        /\ status[n] # "sent" /\ leaseOwner[n] \notin RunnerIDs
             => accepted[n] + Cardinality(Trying(n)) <= takeovers[n]
    BY <2>2, CountTypes
  <2>4. \/ leaseOwner'[n] = leaseOwner[n] /\ takeovers'[n] = takeovers[n]
        \/ leaseOwner[n] \notin RunnerIDs /\ takeovers'[n] = takeovers[n]
        \/ takeovers'[n] = takeovers[n] + 1 /\ takeovers[n] < MaxAttempts
    BY <1>0, <1>2, RunnerIDsFacts DEF Untouched, Leases, Returns
  <2> QED BY <1>1, <2>1, <2>3, <2>4, Constants DEF Counted
<1> QED BY <1>3, <1>4, <1>5 DEF IInv

\* A lease with a second left cannot be taken over: a runner's time is not in the
\* future, and the texts of two times are in order once they are a second apart.
LEMMA LongLeaseSafe ==
    ASSUME TypeOK, NEW m \in Messages, left[m] >= 2, NEW r \in Runners
    PROVE  ~ Before(left[m], -busy[r]) /\ ~ Before(left[m], 0)
<1>1. left[m] \in Int /\ half \in 0..1 /\ busy[r] \in Nat
  BY Constants DEF TypeOK, Times
<1>2. Before(left[m], -busy[r]) => left[m] < -busy[r] + 2
  BY <1>1, TextOrder
<1>3. Before(left[m], 0) => left[m] < 0 + 2
  BY <1>1, TextOrder
<1> QED BY <1>1, <1>2, <1>3

\* No step of a runner or of the planner touches a lease that has a second left and
\* belongs to a holder.
LEMMA OtherStepSpares ==
    ASSUME IInv, Next, half' = half, NEW h \in Holders, NEW m \in Messages,
           leaseOwner[m] = h, left[m] >= 2, status[m] = "pending"
    PROVE  leaseOwner'[m] = h /\ left'[m] = left[m] /\ status'[m] = "pending"
<1>0. TypeOK /\ Honest
  BY DEF IInv
<1>f. /\ item \in [Runners -> Messages \cup {None}]
      /\ status \in [Messages -> {"absent", "pending", "sent", "dead"}]
      /\ leaseOwner \in [Messages -> Workers \cup {None}]
      /\ left \in [Messages -> Times]
      /\ half \in 0..1
  BY <1>0 DEF TypeOK
<1>w. h # None /\ \A r \in Runners : WorkerID(r) # h
  BY HolderFacts, RunnerIDsFacts
<1> DEFINE Good == leaseOwner'[m] = h /\ left'[m] = left[m] /\ status'[m] = "pending"
<1>b. ASSUME UNCHANGED <<leaseOwner, left, status>> PROVE Good
  BY <1>b
<1>1. ASSUME NEW n \in Messages, Enqueue(n) PROVE Good
  BY <1>f, <1>1 DEF Enqueue
<1>2. ASSUME NEW r \in Runners, NEW n \in Messages, Claim(r, n) PROVE Good
  <2>1. ~ Before(left[m], -busy[r])
    BY <1>0, LongLeaseSafe
  <2>2. n # m
    BY <1>2, <1>w, <2>1 DEF Claim, Takes, Claimable
  <2> QED BY <1>f, <1>2, <2>2 DEF Claim
<1>3. ASSUME NEW r \in Runners, Poll(r) \/ BrokerAccepts(r) \/ BrokerRefuses(r) \/ Crash(r)
      PROVE  Good
  BY <1>b, <1>3 DEF Poll, BrokerAccepts, BrokerRefuses, Crash, tableVars, clockVars
<1>4. ASSUME NEW r \in Runners, Publish(r) \/ Fail(r) PROVE Good
  <2>1. item[r] \in Messages
    BY <1>0, <1>4 DEF Honest, Publish, Fail
  <2>2. item[r] = m => ~ OwnsLease(r)
    BY <1>w DEF OwnsLease
  <2> QED BY <1>f, <1>4, <2>1, <2>2 DEF Publish, Fail
<1>5. ~ Tick
  BY <1>f DEF Tick
<1> QED BY <1>1, <1>2, <1>3, <1>4, <1>5 DEF Next, RunnerStep

LEMMA OtherKeepsHolderInv ==
    IInv /\ HolderInv /\ OtherStep => HolderInv'
<1> SUFFICES ASSUME IInv, HolderInv, OtherStep PROVE HolderInv'
  OBVIOUS
<1>0. /\ holds \in [Holders -> Messages \cup {None}] /\ until \in [Holders -> Nat]
      /\ holds' = holds /\ Next
      /\ \A h \in Holders : until[h] > 0 => holds[h] \in Messages
      /\ TypeOK
  BY DEF HolderInv, HolderTypeOK, OtherStep, IInv
<1>1. HolderTypeOK' /\ \A h \in Holders : until'[h] <= until[h]
  BY <1>0 DEF OtherStep, HolderTypeOK
<1>2. \A h \in Holders : until'[h] > 0 => holds'[h] \in Messages
  BY <1>0, <1>1 DEF HolderTypeOK
<1>3. ASSUME NEW h \in Holders, until'[h] >= 2
      PROVE  /\ leaseOwner'[holds'[h]] = h
             /\ left'[holds'[h]] = until'[h]
             /\ status'[holds'[h]] = "pending"
  <2>1. until[h] >= 2 /\ until[h] \in Nat
    BY <1>0, <1>1, <1>3 DEF HolderTypeOK
  <2>2. /\ holds[h] \in Messages /\ leaseOwner[holds[h]] = h
        /\ left[holds[h]] = until[h] /\ status[holds[h]] = "pending"
    BY <1>0, <2>1 DEF HolderInv, HolderKeepsLease
  <2>3. CASE half' = half
    BY <1>0, <2>1, <2>2, <2>3, OtherStepSpares DEF OtherStep
  <2>4. CASE half' # half
    <3>1. Tick
      BY <1>0, <2>4 DEF Next, RunnerStep, Enqueue, Claim, Poll, BrokerAccepts,
                        BrokerRefuses, Publish, Fail, Crash, clockVars
    <3>2. left'[holds[h]] = left[holds[h]] - 1 /\ UNCHANGED <<leaseOwner, status>>
      BY <2>1, <2>2, <3>1, Constants DEF Tick, Elapse, tableVars
    <3>3. until'[h] = until[h] - 1
      BY <2>1, <2>4 DEF OtherStep
    <3> QED BY <1>0, <2>2, <3>2, <3>3
  <2> QED BY <2>3, <2>4
<1> QED BY <1>1, <1>2, <1>3 DEF HolderInv, HolderKeepsLease

LEMMA HolderKeepsHolderInv ==
    ASSUME IInv, HolderInv, NEW g \in Holders, HolderStep(g)
    PROVE  HolderInv'
<1>0. /\ holds \in [Holders -> Messages \cup {None}] /\ until \in [Holders -> Nat]
      /\ \A h \in Holders : until[h] > 0 => holds[h] \in Messages
      /\ TypeOK /\ HolderTypeOK
  BY DEF HolderInv, HolderTypeOK, IInv
<1>f. /\ status \in [Messages -> {"absent", "pending", "sent", "dead"}]
      /\ leaseOwner \in [Messages -> Workers \cup {None}]
      /\ left \in [Messages -> Times]
      /\ status' = status
  BY <1>0, HolderStepFrame DEF TypeOK
\* What it believes is what the table says.
<1>1. \/ /\ \E m \in Messages : Believes(g, m, TTL) /\ SetLease(m, g, TTL) /\ status[m] = "pending"
      \/ Believes(g, None, 0)
  <2>1. ASSUME NEW m \in Messages, Acquire(g, m)
        PROVE  Believes(g, m, TTL) /\ SetLease(m, g, TTL) /\ status[m] = "pending"
    BY <2>1 DEF Acquire, Acquirable
  <2>2. ASSUME Renew(g)
        PROVE  \/ /\ Believes(g, holds[g], TTL) /\ SetLease(holds[g], g, TTL)
                  /\ holds[g] \in Messages /\ status[holds[g]] = "pending"
               \/ Believes(g, None, 0)
    <3>1. holds[g] \in Messages
      BY <1>0, <2>2 DEF Renew
    <3>2. leaseOwner[holds[g]] = g => status[holds[g]] = "pending"
      BY <3>1, HolderFacts DEF IInv, Honest
    <3> QED BY <2>2, <3>1, <3>2 DEF Renew, Lost
  <2>3. ASSUME Release(g) \/ Vanish(g) PROVE Believes(g, None, 0)
    BY <2>3 DEF Release, Vanish, Lost
  <2> QED BY <2>1, <2>2, <2>3 DEF HolderStep
<1>2. HolderTypeOK'
  BY <1>0, <1>1, HolderFacts DEF Believes, HolderTypeOK
<1>3. \A h \in Holders : until'[h] > 0 => holds'[h] \in Messages
  BY <1>0, <1>1, HolderFacts DEF Believes
<1>4. ASSUME NEW h \in Holders, until'[h] >= 2
      PROVE  /\ leaseOwner'[holds'[h]] = h
             /\ left'[holds'[h]] = until'[h]
             /\ status'[holds'[h]] = "pending"
  <2>1. CASE h = g
    BY <1>0, <1>f, <1>1, <1>4, <2>1 DEF Believes, SetLease
  <2>2. CASE h # g
    <3>1. holds'[h] = holds[h] /\ until'[h] = until[h]
      BY <1>0, <1>1, <2>2 DEF Believes
    <3>2. /\ holds[h] \in Messages /\ leaseOwner[holds[h]] = h
          /\ left[holds[h]] = until[h] /\ status[holds[h]] = "pending" /\ until[h] >= 2
      BY <1>0, <1>4, <3>1 DEF HolderInv, HolderKeepsLease
    <3>3. ~ Before(left[holds[h]], 0)
      <4>1. left[holds[h]] \in Int /\ half \in 0..1
        BY <1>0, <3>2 DEF TypeOK
      <4> QED BY <3>2, <4>1, TextOrder
    <3>4. h # None
      BY HolderFacts
    <3>5. leaseOwner'[holds[h]] = leaseOwner[holds[h]] /\ left'[holds[h]] = left[holds[h]]
      <4>1. ASSUME NEW m \in Messages, Acquire(g, m) PROVE m # holds[h] /\ SetLease(m, g, TTL)
        BY <3>2, <3>3, <3>4, <4>1 DEF Acquire, Acquirable
      <4>2. ASSUME Renew(g) \/ Release(g) \/ Vanish(g)
            PROVE  \/ UNCHANGED <<leaseOwner, left>>
                   \/ \E m \in Messages : \E o, t : m # holds[h] /\ SetLease(m, o, t)
        <5>1. holds[g] # None => holds[g] \in Messages
          BY <1>0
        <5> QED BY <2>2, <3>2, <4>2, <5>1 DEF Renew, Release, Vanish, Lost
      <4> QED BY <1>f, <3>2, <4>1, <4>2 DEF HolderStep, SetLease
    <3> QED BY <1>f, <3>1, <3>2, <3>5
  <2> QED BY <2>1, <2>2
<1> QED BY <1>2, <1>3, <1>4 DEF HolderInv, HolderKeepsLease

-----------------------------------------------------------------------------
(* Theorems about the runners with the other holders. *)

HeartbeatInv == IInv /\ HolderInv

LEMMA HeartbeatInvInit == HeartbeatInit => HeartbeatInv
  BY InitIInv DEF HeartbeatInit, HeartbeatInv, HolderInv, HolderTypeOK, HolderKeepsLease

LEMMA HeartbeatInvStep ==
    HeartbeatInv /\ [HeartbeatNext]_<<vars, holderVars>> => HeartbeatInv'
<1>1. ASSUME HeartbeatInv, OtherStep PROVE HeartbeatInv'
  <2>1. IInv'
    BY <1>1, IInvStep DEF HeartbeatInv, OtherStep
  <2> QED BY <1>1, <2>1, OtherKeepsHolderInv DEF HeartbeatInv
<1>2. ASSUME HeartbeatInv, NEW h \in Holders, HolderStep(h) PROVE HeartbeatInv'
  BY <1>2, HolderKeepsIInv, HolderKeepsHolderInv DEF HeartbeatInv, HolderInv
<1>3. ASSUME HeartbeatInv, UNCHANGED <<vars, holderVars>> PROVE HeartbeatInv'
  <2>1. IInv'
    BY <1>3, IInvStep DEF HeartbeatInv
  <2>2. HolderInv'
    BY <1>3 DEF HeartbeatInv, HolderInv, HolderTypeOK, HolderKeepsLease,
                vars, tableVars, clockVars, holderVars
  <2> QED BY <2>1, <2>2 DEF HeartbeatInv
<1> QED BY <1>1, <1>2, <1>3 DEF HeartbeatNext

\* The inductive invariant of the outbox with runners, holders, crashes and the clock.
THEOREM OutboxInductive == HeartbeatSpec => []HeartbeatInv
  BY HeartbeatInvInit, HeartbeatInvStep, PTL DEF HeartbeatSpec

\* Every reachable state is well typed: nothing is accepted more often than claimed.
THEOREM OutboxTypeCorrect == HeartbeatSpec => []TypeOK
<1>1. HeartbeatInv => TypeOK
  BY DEF HeartbeatInv, IInv
<1> QED BY <1>1, OutboxInductive, PTL

\* For any lease, calls of any length and any number of runners and crashes, the broker
\* sees a message at most once more than its lease was taken over.
THEOREM DuplicatesAlwaysByTakeover == HeartbeatSpec => []DuplicateOnlyByTakeover
<1>1. HeartbeatInv => DuplicateOnlyByTakeover
  <2> SUFFICES ASSUME HeartbeatInv, NEW m \in Messages PROVE accepted[m] <= 1 + takeovers[m]
    BY DEF DuplicateOnlyByTakeover
  <2> QED BY CountTypes DEF HeartbeatInv, IInv
<1> QED BY <1>1, OutboxInductive, PTL

\* A holder that reckons with a second or more of its lease holds it.
THEOREM HolderAlwaysKeepsLease == HeartbeatSpec => []HolderKeepsLease
<1>1. HeartbeatInv => HolderKeepsLease
  BY DEF HeartbeatInv, HolderInv
<1> QED BY <1>1, OutboxInductive, PTL

\* No lease is taken over a second or more before its end, for runners and holders alike.
THEOREM TakeoversNearLeaseEnd == HeartbeatSpec => TakeoverNearLeaseEnd
<1>1. HeartbeatInv /\ [HeartbeatNext]_<<vars, holderVars>>
      => [\A m \in Messages : takeovers'[m] # takeovers[m] => left[m] < 2]_vars
  <2> SUFFICES ASSUME HeartbeatInv, HeartbeatNext, NEW m \in Messages,
                      takeovers'[m] # takeovers[m], left[m] >= 2
               PROVE  FALSE
    <3>1. ASSUME UNCHANGED <<vars, holderVars>> PROVE UNCHANGED vars
      BY <3>1
    <3>2. ASSUME HeartbeatInv, NEW m \in Messages PROVE left[m] \in Int
      BY <3>2, Constants DEF HeartbeatInv, IInv, TypeOK, Times
    <3> QED BY <3>1, <3>2
  <2>0. TypeOK /\ takeovers \in [Messages -> 0..(2 * MaxAttempts)]
    BY DEF HeartbeatInv, IInv, TypeOK
  <2>1. ASSUME NEW r \in Runners, NEW n \in Messages, Claim(r, n) PROVE FALSE
    <3>1. n = m /\ leaseOwner[m] # None
      BY <2>0, <2>1 DEF Claim
    <3>2. Before(left[m], -busy[r])
      BY <2>1, <3>1 DEF Claim, Takes, Claimable
    <3> QED BY <2>0, <3>2, LongLeaseSafe
  <2>2. ASSUME NEW h \in Holders, NEW n \in Messages, Acquire(h, n) PROVE FALSE
    <3>1. n = m /\ leaseOwner[m] # None
      BY <2>0, <2>2 DEF Acquire
    <3>2. Before(left[m], 0)
      BY <2>2, <3>1 DEF Acquire, Acquirable
    <3>3. left[m] \in Int /\ half \in 0..1
      BY <2>0 DEF TypeOK, Times
    <3> QED BY <3>2, <3>3, TextOrder
  <2>3. takeovers' # takeovers
    OBVIOUS
  <2> QED BY <2>1, <2>2, <2>3
          DEF HeartbeatNext, OtherStep, Next, RunnerStep, Enqueue, Poll, BrokerAccepts,
              BrokerRefuses, Publish, Fail, Crash, Tick, HolderStep, Renew, Release,
              Vanish, historyVars
<1> QED BY <1>1, OutboxInductive, PTL DEF HeartbeatSpec, TakeoverNearLeaseEnd

-----------------------------------------------------------------------------
(* The refinement of Delivery. *)

LEMMA DeliveryStep ==
    ASSUME IInv, TypeOK', Next PROVE [Promise!Next]_(Promise!deliveryVars)
<1>0. TypeOK /\ Honest
  BY DEF IInv
<1>f. /\ item \in [Runners -> Messages \cup {None}]
      /\ status \in [Messages -> {"absent", "pending", "sent", "dead"}]
      /\ accepted \in [Messages -> 0..MaxAttempts]
      /\ MaxAttempts \in Nat
  BY <1>0, Constants DEF TypeOK
<1> DEFINE Taken == { m \in Messages : accepted[m] > 0 }
<1>b. UNCHANGED <<status, accepted>> => UNCHANGED Promise!deliveryVars
  BY DEF Promise!deliveryVars
<1>c. ASSUME NEW m \in Messages, Promise!Submit(m) \/ Promise!Accept(m)
                                 \/ Promise!Confirm(m) \/ Promise!GiveUp(m)
      PROVE  Promise!Next
  BY <1>c DEF Promise!Next
<1>1. ASSUME NEW m \in Messages, Enqueue(m) PROVE Promise!Submit(m)
  BY <1>1 DEF Enqueue, historyVars, Promise!Submit
<1>2. ASSUME NEW r \in Runners, NEW m \in Messages, Claim(r, m)
      PROVE  UNCHANGED <<status, accepted>>
  BY <1>2 DEF Claim
<1>3. ASSUME NEW r \in Runners, Poll(r) \/ BrokerRefuses(r) \/ Crash(r)
      PROVE  UNCHANGED <<status, accepted>>
  BY <1>3 DEF Poll, BrokerRefuses, Crash, tableVars, historyVars
<1>4. ASSUME NEW r \in Runners, BrokerAccepts(r) PROVE Promise!Next
  <2>1. item[r] \in Messages /\ status[item[r]] # "absent"
    BY <1>0, <1>4 DEF Honest, BrokerAccepts
  <2>2. \A m \in Messages : accepted'[m] = IF m = item[r] THEN accepted[m] + 1 ELSE accepted[m]
    BY <1>f, <1>4 DEF BrokerAccepts
  <2>3. Taken' = Taken \cup {item[r]}
    BY <1>f, <2>1, <2>2
  <2>4. UNCHANGED status
    BY <1>4 DEF BrokerAccepts, tableVars
  <2> QED BY <2>1, <2>3, <2>4 DEF Promise!Accept, Promise!Next
<1>5. ASSUME NEW r \in Runners, Publish(r)
      PROVE  Promise!Confirm(item[r]) \/ UNCHANGED <<status, accepted>>
  <2>1. item[r] \in Messages /\ accepted[item[r]] > 0
    BY <1>0, <1>5 DEF Honest, Publish
  <2>2. OwnsLease(r) => status[item[r]] = "pending"
    BY <1>0, <2>1, RunnerIDsFacts DEF Honest, OwnsLease
  <2> QED BY <1>5, <2>1, <2>2 DEF Publish, historyVars, Promise!Confirm
<1>6. ASSUME NEW r \in Runners, Fail(r)
      PROVE  Promise!GiveUp(item[r]) \/ UNCHANGED <<status, accepted>>
  <2>1. item[r] \in Messages
    BY <1>0, <1>6 DEF Honest, Fail
  <2>2. OwnsLease(r) => status[item[r]] = "pending"
    BY <1>0, <2>1, RunnerIDsFacts DEF Honest, OwnsLease
  <2>3. UNCHANGED accepted
    BY <1>6 DEF Fail, historyVars
  <2>4. CASE OwnsLease(r) /\ attempts[item[r]] >= RetryLimit
    BY <1>6, <2>1, <2>2, <2>3, <2>4 DEF Fail, Promise!GiveUp
  <2>5. CASE OwnsLease(r) /\ ~ attempts[item[r]] >= RetryLimit
    <3>1. status' = [status EXCEPT ![item[r]] = "pending"]
      BY <1>6, <2>5 DEF Fail
    <3> QED BY <1>f, <2>1, <2>2, <2>3, <2>5, <3>1
  <2>6. CASE ~ OwnsLease(r)
    BY <1>6, <2>3, <2>6 DEF Fail
  <2> QED BY <2>4, <2>5, <2>6
<1>7. ASSUME Tick PROVE UNCHANGED <<status, accepted>>
  BY <1>7 DEF Tick, tableVars, historyVars
<1>8. \A r \in Runners : pc[r] \in {"broker", "publish", "fail"} => item[r] \in Messages
  BY <1>0 DEF Honest
<1>9. \A r \in Runners : BrokerAccepts(r) \/ Publish(r) \/ Fail(r) => item[r] \in Messages
  BY <1>8 DEF BrokerAccepts, Publish, Fail
<1>10. ASSUME NEW r \in Runners, RunnerStep(r) \/ Crash(r)
       PROVE  Promise!Next \/ UNCHANGED <<status, accepted>>
  <2>1. CASE BrokerAccepts(r)
    BY <1>4, <2>1
  <2>2. CASE Publish(r)
    BY <1>c, <1>5, <1>9, <2>2
  <2>3. CASE Fail(r)
    BY <1>c, <1>6, <1>9, <2>3
  <2>4. CASE \E m \in Messages : Claim(r, m)
    BY <1>2, <2>4
  <2>5. CASE Poll(r) \/ BrokerRefuses(r) \/ Crash(r)
    BY <1>3, <2>5
  <2> QED BY <1>10, <2>1, <2>2, <2>3, <2>4, <2>5 DEF RunnerStep
<1> QED BY <1>b, <1>c, <1>1, <1>7, <1>10 DEF Next

\* The outbox implements Delivery: a message is reported sent only after the broker took
\* it, and its fate is decided once, whoever crashes, stalls or takes leases over.
THEOREM ImplementsDelivery == HeartbeatSpec => AtLeastOnce
<1>1. HeartbeatInit => Promise!Init
  BY DEF HeartbeatInit, Init, Promise!Init
<1>2. HeartbeatInv /\ HeartbeatInv' /\ [HeartbeatNext]_<<vars, holderVars>>
      => [Promise!Next]_(Promise!deliveryVars)
  <2> SUFFICES ASSUME HeartbeatInv, HeartbeatInv', [HeartbeatNext]_<<vars, holderVars>>
               PROVE  [Promise!Next]_(Promise!deliveryVars)
    OBVIOUS
  <2>1. CASE OtherStep
    BY <2>1, DeliveryStep DEF OtherStep, HeartbeatInv, IInv
  <2>2. ASSUME NEW h \in Holders, HolderStep(h) PROVE UNCHANGED <<status, accepted>>
    BY <2>2, HolderStepFrame DEF HeartbeatInv, HolderInv
  <2>3. ASSUME UNCHANGED <<vars, holderVars>> PROVE UNCHANGED <<status, accepted>>
    BY <2>3 DEF vars, tableVars, historyVars
  <2>4. UNCHANGED <<status, accepted>> => UNCHANGED Promise!deliveryVars
    BY DEF Promise!deliveryVars
  <2> QED BY <2>1, <2>2, <2>3, <2>4 DEF HeartbeatNext
<1> QED BY <1>1, <1>2, OutboxInductive, PTL DEF HeartbeatSpec, AtLeastOnce, Promise!Spec

-----------------------------------------------------------------------------
(* Calls shorter than half a lease, and no crash. *)

\* A runner at work holds the lease of its message, and what is left of that lease
\* is what the call and the ticker's lateness have not used up.  A message is
\* accepted once: then its runner has yet to report it, or it is sent.
Working(r) ==
    /\ leaseOwner[item[r]] = WorkerID(r)
    /\ left[item[r]] = Lease - lag[r] - busy[r]
    /\ pc[r] \in {"broker", "fail"} => accepted[item[r]] = 0

Once(m) ==
    \/ accepted[m] = 0
    \/ /\ accepted[m] = 1
       /\ status[m] = "sent" \/ \E r \in Runners : item[r] = m /\ pc[r] = "publish"

Quiet ==
    /\ \A r \in Runners : pc[r] # "idle" => Working(r)
    /\ \A r, s \in Runners : pc[r] # "idle" /\ pc[s] # "idle" /\ item[r] = item[s] => r = s
    /\ \A m \in Messages : Once(m)

LEMMA QuietStep ==
    ASSUME IInv, Next, Lease >= 2 * MaxCall + 2, crashes' = crashes, Quiet
    PROVE  Quiet'
<1>0. TypeOK /\ Honest /\ TypeOK'
  BY TypeStep DEF IInv
<1>f. /\ pc \in [Runners -> {"idle", "broker", "publish", "fail"}]
      /\ item \in [Runners -> Messages \cup {None}]
      /\ status \in [Messages -> {"absent", "pending", "sent", "dead"}]
      /\ leaseOwner \in [Messages -> Workers \cup {None}]
      /\ left \in [Messages -> Times]
      /\ busy \in [Runners -> 0..MaxCall]
      /\ lag \in [Runners -> 0..MaxCall]
      /\ accepted \in [Messages -> 0..MaxAttempts]
      /\ crashes \in Nat
  BY <1>0, Constants DEF TypeOK
<1>g. ASSUME NEW r \in Runners, pc[r] # "idle"
      PROVE  item[r] \in Messages /\ Working(r) /\ left[item[r]] >= 2
             /\ status[item[r]] = "pending"
  <2>1. item[r] \in Messages /\ Working(r)
    BY <1>0, <1>g DEF Honest, Quiet
  <2>2. leaseOwner[item[r]] # None
    BY <2>1, RunnerIDsFacts DEF Working
  <2> QED BY <1>0, <1>f, <2>1, <2>2, Constants DEF Working, Honest
<1>b. ASSUME UNCHANGED <<leaseOwner, left, pc, item, lag, busy, accepted, status>> PROVE Quiet'
  BY <1>b DEF Quiet, Working, Once, WorkerID
<1>w. \A r \in Runners : WorkerID(r)' = WorkerID(r)
  BY DEF WorkerID
<1>1. ASSUME NEW n \in Messages, Enqueue(n) PROVE Quiet'
  <2>1. /\ UNCHANGED <<leaseOwner, left, pc, item, lag, busy, accepted>>
        /\ status[n] = "absent" /\ status' = [status EXCEPT ![n] = "pending"]
    BY <1>1 DEF Enqueue, runnerVars, historyVars
  <2>2. ASSUME NEW m \in Messages PROVE Once(m)'
    BY <1>f, <2>1 DEF Once, Quiet
  <2> QED BY <2>1, <2>2, <1>w DEF Quiet, Working
<1>2. ASSUME NEW r \in Runners, NEW m \in Messages, Claim(r, m) PROVE Quiet'
  <2>1. ASSUME NEW s \in Runners, pc[s] # "idle" PROVE item[s] # m /\ s # r
    <3>1. ~ Before(left[item[s]], -busy[r])
      BY <1>0, <1>g, <2>1, LongLeaseSafe
    <3>2. leaseOwner[item[s]] # None
      BY <1>g, <2>1, RunnerIDsFacts DEF Working
    <3> QED BY <1>2, <2>1, <3>1, <3>2 DEF Claim, Takes, Claimable
  <2>2. accepted[m] = 0
    BY <1>2, <2>1 DEF Quiet, Once, Claim, Takes, Claimable
  <2>3. AtLeastPast(LeaseFrom(-busy[r])) = Lease - busy[r] - 0
    BY <1>f, Constants DEF AtLeastPast, LeaseFrom
  <2>4. ASSUME NEW s \in Runners, pc'[s] # "idle" PROVE Working(s)'
    <3>1. CASE s = r
      BY <1>f, <1>2, <1>w, <2>2, <2>3, <3>1 DEF Claim, Working
    <3>2. CASE s # r
      <4>1. pc[s] # "idle" /\ item[s] # m
        BY <1>f, <1>2, <2>1, <2>4, <3>2 DEF Claim
      <4> QED BY <1>f, <1>2, <1>g, <1>w, <3>2, <4>1 DEF Claim, Working
    <3> QED BY <3>1, <3>2
  <2>5. ASSUME NEW s \in Runners, NEW d \in Runners,
               pc'[s] # "idle", pc'[d] # "idle", item'[s] = item'[d]
        PROVE  s = d
    BY <1>f, <1>2, <2>1, <2>5 DEF Claim, Quiet
  <2>6. ASSUME NEW n \in Messages PROVE Once(n)'
    BY <1>f, <1>2, <2>1 DEF Claim, Quiet, Once
  <2> QED BY <2>4, <2>5, <2>6 DEF Quiet
<1>3. ASSUME NEW r \in Runners, Poll(r) PROVE Quiet'
  <2>1. /\ UNCHANGED <<leaseOwner, left, pc, item, lag, accepted, status>>
        /\ \A s \in Runners : pc[s] # "idle" => busy'[s] = busy[s]
    BY <1>f, <1>3 DEF Poll, tableVars, clockVars, historyVars
  <2> QED BY <1>w, <2>1 DEF Quiet, Working, Once
<1>4. ASSUME NEW r \in Runners, BrokerAccepts(r) PROVE Quiet'
  <2>1. /\ UNCHANGED <<leaseOwner, left, item, lag, busy, status>>
        /\ pc' = [pc EXCEPT ![r] = "publish"] /\ pc[r] = "broker"
        /\ accepted' = [accepted EXCEPT ![item[r]] = @ + 1]
    BY <1>4 DEF BrokerAccepts, AfterBroker, tableVars, clockVars
  <2>2. item[r] \in Messages /\ accepted[item[r]] = 0
    BY <1>g, <2>1 DEF Working
  <2>3. ASSUME NEW s \in Runners, pc'[s] # "idle" PROVE Working(s)'
    <3>1. CASE s = r
      BY <1>f, <1>g, <1>w, <2>1, <3>1 DEF Working
    <3>2. CASE s # r
      <4>1. pc[s] # "idle" /\ item[s] # item[r]
        BY <1>f, <2>1, <2>3, <3>2 DEF Quiet
      <4> QED BY <1>f, <1>g, <1>w, <2>1, <3>2, <4>1 DEF Working
    <3> QED BY <3>1, <3>2
  <2>4. ASSUME NEW n \in Messages PROVE Once(n)'
    <3>1. CASE n = item[r]
      BY <1>f, <2>1, <2>2, <3>1 DEF Once
    <3>2. CASE n # item[r]
      BY <1>f, <2>1, <2>2, <3>2 DEF Once, Quiet
    <3> QED BY <3>1, <3>2
  <2>5. \A s, d \in Runners : pc'[s] # "idle" /\ pc'[d] # "idle" /\ item'[s] = item'[d] => s = d
    BY <1>f, <2>1 DEF Quiet
  <2> QED BY <2>3, <2>4, <2>5 DEF Quiet
<1>5. ASSUME NEW r \in Runners, BrokerRefuses(r) PROVE Quiet'
  <2>1. /\ UNCHANGED <<leaseOwner, left, item, lag, busy, status, accepted>>
        /\ pc' = [pc EXCEPT ![r] = "fail"] /\ pc[r] = "broker"
    BY <1>5 DEF BrokerRefuses, AfterBroker, tableVars, clockVars, historyVars
  <2>2. ASSUME NEW s \in Runners, pc'[s] # "idle" PROVE Working(s)'
    BY <1>f, <1>g, <1>w, <2>1, <2>2 DEF Working
  <2>3. ASSUME NEW n \in Messages PROVE Once(n)'
    BY <1>f, <2>1 DEF Once, Quiet
  <2>4. \A s, d \in Runners : pc'[s] # "idle" /\ pc'[d] # "idle" /\ item'[s] = item'[d] => s = d
    BY <1>f, <2>1 DEF Quiet
  <2> QED BY <2>2, <2>3, <2>4 DEF Quiet
\* A report: the runner owns the row, and no other runner works on that message.
<1>6. ASSUME NEW r \in Runners, Publish(r) \/ Fail(r) PROVE Quiet'
  <2>1. pc[r] # "idle" /\ OwnsLease(r)
    BY <1>g, <1>6 DEF Publish, Fail, OwnsLease, Working
  <2>2. /\ UNCHANGED <<busy, accepted>>
        /\ pc' = [pc EXCEPT ![r] = "idle"] /\ item' = [item EXCEPT ![r] = None]
        /\ lag' = [lag EXCEPT ![r] = 0]
        /\ leaseOwner' = [leaseOwner EXCEPT ![item[r]] = None]
        /\ left' = [left EXCEPT ![item[r]] = Past]
        /\ \E t \in {"sent", "dead", "pending"} :
              /\ status' = [status EXCEPT ![item[r]] = t]
              /\ pc[r] = "publish" => t = "sent"
              /\ pc[r] # "publish" => pc[r] = "fail"
    BY <1>6, <2>1 DEF Publish, Fail, BecomeIdle, historyVars
  <2>3. ASSUME NEW s \in Runners, pc'[s] # "idle" PROVE Working(s)'
    <3>1. s # r /\ pc[s] # "idle" /\ item[s] # item[r]
      BY <1>f, <2>1, <2>2, <2>3 DEF Quiet
    <3> QED BY <1>f, <1>g, <1>w, <2>1, <2>2, <3>1 DEF Working
  <2>4. ASSUME NEW n \in Messages PROVE Once(n)'
    <3>1. CASE n = item[r] /\ pc[r] = "publish"
      BY <1>f, <2>2, <3>1 DEF Once, Quiet
    <3>2. CASE n = item[r] /\ pc[r] = "fail"
      BY <1>g, <2>2, <3>2 DEF Once, Working
    <3>3. CASE n # item[r]
      BY <1>f, <2>2, <3>3 DEF Once, Quiet
    <3> QED BY <2>2, <3>1, <3>2, <3>3
  <2>5. \A s, d \in Runners : pc'[s] # "idle" /\ pc'[d] # "idle" /\ item'[s] = item'[d] => s = d
    BY <1>f, <2>2 DEF Quiet
  <2> QED BY <2>3, <2>4, <2>5 DEF Quiet
<1>7. ASSUME NEW r \in Runners, Crash(r) PROVE FALSE
  BY <1>f, <1>7 DEF Crash
<1>8. ASSUME Tick PROVE Quiet'
  <2>1. UNCHANGED <<leaseOwner, pc, item, lag, accepted, status>>
    BY <1>8 DEF Tick, tableVars, historyVars
  <2>2. ASSUME NEW s \in Runners, pc'[s] # "idle" PROVE Working(s)'
    <3>1. pc[s] # "idle" /\ busy'[s] = busy[s] + 1
      BY <1>8, <2>1, <2>2 DEF Tick, BehindTicker
    <3>2. left'[item[s]] = left[item[s]] - 1
      BY <1>8, <1>g, <3>1, Constants DEF Tick, Elapse
    <3> QED BY <1>f, <1>g, <1>w, <2>1, <3>1, <3>2, Constants DEF Working
  <2>3. ASSUME NEW n \in Messages PROVE Once(n)'
    BY <2>1 DEF Once, Quiet
  <2> QED BY <2>1, <2>2, <2>3 DEF Quiet
<1> QED BY <1>1, <1>2, <1>3, <1>4, <1>5, <1>6, <1>7, <1>8 DEF Next, RunnerStep

\* No crash so far and every call shorter than half a lease: the broker has seen each
\* message once at most, whatever the order of claims, reports and ticks.
THEOREM AcceptedOnceWithoutCrash ==
    ASSUME Lease >= 2 * MaxCall + 2
    PROVE  Spec => []AcceptedOnce
<1> DEFINE QInv == IInv /\ (crashes = 0 => Quiet)
<1>1. Init => QInv
  <2> SUFFICES ASSUME Init PROVE QInv
    OBVIOUS
  <2>1. Quiet
    BY DEF Init, Quiet, Once
  <2> QED BY <2>1, InitIInv
<1>2. QInv /\ [Next]_vars => QInv'
  <2> SUFFICES ASSUME QInv, [Next]_vars PROVE QInv'
    OBVIOUS
  <2>1. IInv'
    BY IInvStep
  <2>2. ASSUME Next, crashes' = 0 PROVE Quiet'
    <3>1. crashes' = crashes \/ crashes' = crashes + 1
      BY <2>2 DEF Next, RunnerStep, Enqueue, Claim, Poll, BrokerAccepts, BrokerRefuses,
                  Publish, Fail, Crash, Tick
    <3>2. crashes \in Nat
      BY Constants DEF IInv, TypeOK
    <3>3. crashes' = crashes
      BY <2>2, <3>1, <3>2
    <3> QED BY <2>2, <3>3, QuietStep
  <2>3. ASSUME UNCHANGED vars, crashes' = 0 PROVE Quiet'
    BY <2>3 DEF Quiet, Working, Once, WorkerID,
                vars, tableVars, clockVars, runnerVars, historyVars
  <2> QED BY <2>1, <2>2, <2>3
<1>3. QInv => AcceptedOnce
  BY DEF Quiet, Once, AcceptedOnce
<1> QED BY <1>1, <1>2, <1>3, PTL DEF Spec

=============================================================================

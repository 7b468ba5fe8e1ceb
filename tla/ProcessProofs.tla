--------------------------- MODULE ProcessProofs ----------------------------
(***************************************************************************)
(* Proofs about the process, for any number of callers, requests,          *)
(* goroutines, names and paths: the shutdown of the runtime, the           *)
(* lifecycle, the supervisor and the metrics of package app.               *)
(***************************************************************************)
EXTENDS Runtime, Lifecycle, Supervisor, Metrics, CountingProofs, TLAPS

-----------------------------------------------------------------------------
(* The shutdown. *)

\* A fresh process satisfies the invariant (New).
LEMMA IInvInit == Init => IInv
BY CallersAssumption DEF Init, IInv, TypeOK, CallerKnows, OneInCharge, ClosedBySomeone,
                        FlagsMatch, Phases, InCharge

\* The server, the signal and the runner keep the invariant (Start, Run).
LEMMA OtherStep ==
  ASSUME IInv,
         \/ Start \/ Signal \/ Tick \/ Iterated \/ Quit
         \/ \E r \in Requests : Arrive(r) \/ Finish(r)
  PROVE  IInv'
<1> USE DEF IInv, TypeOK, CallerKnows, OneInCharge, ClosedBySomeone, FlagsMatch,
            InCharge
<1>1. CASE Start
  BY <1>1 DEF Start
<1>2. CASE Signal
  BY <1>2 DEF Signal
<1>3. CASE Tick \/ Iterated \/ Quit
  BY <1>3 DEF Tick, Iterated, Quit, WorkerMoves
<1>4. ASSUME NEW r \in Requests, Arrive(r) \/ Finish(r) PROVE IInv'
  <2>1. ASSUME NEW c \in Callers PROVE CallerKnows(c)'
    BY <1>4 DEF Arrive, Finish
  <2>2. TypeOK' /\ OneInCharge' /\ ClosedBySomeone' /\ FlagsMatch'
    BY <1>4 DEF Arrive, Finish
  <2> QED BY <2>1, <2>2
<1> QED BY <1>1, <1>2, <1>3, <1>4

\* Each step of a caller keeps the invariant (main, Shutdown).
LEMMA CallerStep ==
  ASSUME IInv, NEW c \in Callers, Drain(c) \/ Shutdown(c) \/ Expire(c)
  PROVE  IInv'
<1> USE DEF IInv, TypeOK, CallerKnows, OneInCharge, ClosedBySomeone, FlagsMatch,
            InCharge, GoTo, Phases
<1>1. CASE Drain(c)
  BY <1>1 DEF Drain
<1>2. CASE Drained(c)
  BY <1>2 DEF Drained, DrainEnds
<1>3. CASE Mark(c)
  <2>1. CASE runtime # "closed"
    <3> USE <1>3, <2>1 DEF Mark, FirstCall, TurnOff
    <3>1. \A d \in Callers : ~ InCharge(d)
      OBVIOUS
    <3>2. OneInCharge' /\ ClosedBySomeone'
      BY <3>1
    <3>3. TypeOK' /\ FlagsMatch' /\ \A d \in Callers : CallerKnows(d)'
      BY <3>1
    <3> QED BY <3>2, <3>3
  <2>2. CASE runtime = "closed"
    BY <1>3, <2>2 DEF Mark, FirstCall, TurnOff
  <2> QED BY <2>1, <2>2
<1>4. CASE Cancel(c)
  BY <1>4 DEF Cancel, CancelRunner
<1>5. CASE StopWaiting(c)
  BY <1>5 DEF StopWaiting, WorkerGone
<1>6. CASE Close(c)
  BY <1>6 DEF Close
<1>7. CASE Expire(c)
  BY <1>7 DEF Expire
<1> QED BY <1>1, <1>2, <1>3, <1>4, <1>5, <1>6, <1>7 DEF Shutdown

\* The inductive invariant of start and shutdown (main, Runtime, Runner.Run).
THEOREM ShutdownInvariant == Spec => []IInv
<1>1. IInv /\ UNCHANGED vars => IInv'
  BY DEF IInv, TypeOK, CallerKnows, OneInCharge, ClosedBySomeone, FlagsMatch, InCharge, vars
<1>2. IInv /\ [Next]_vars => IInv'
  BY <1>1, OtherStep, CallerStep DEF Next
<1> QED BY IInvInit, <1>2, PTL DEF Spec

\* The runner never works on a closed store (Shutdown waits for it).
THEOREM WorkerAlwaysHasStore == Spec => []WorkerHasStore
<1>1. IInv => WorkerHasStore
  BY DEF IInv, FlagsMatch, WorkerHasStore
<1> QED BY <1>1, ShutdownInvariant, PTL

\* A request loses the store only by a deadline (main drains the server first).
THEOREM RequestAlwaysHasStore == Spec => []RequestHasStore
<1>1. IInv => RequestHasStore
  BY DEF IInv, ClosedBySomeone, CallerKnows, RequestHasStore
<1> QED BY <1>1, ShutdownInvariant, PTL

\* Neither the runner nor, before a deadline, a request works on a closed store
\* (Shutdown, main).
THEOREM StoreAlwaysOutlives == Spec => []StoreOutlivesUsers
<1>1. WorkerHasStore /\ RequestHasStore => StoreOutlivesUsers
  BY DEF StoreOutlivesUsers
<1> QED BY <1>1, WorkerAlwaysHasStore, RequestAlwaysHasStore, PTL

\* One of any number of calls of Shutdown closes the store (closed, under the lock).
THEOREM AlwaysOneCloser == Spec => []OneCloser
<1>1. IInv => OneCloser
  BY CallersAssumption
     DEF IInv, TypeOK, CallerKnows, OneInCharge, ClosedBySomeone, OneCloser, InCharge
<1> QED BY <1>1, ShutdownInvariant, PTL

\* A process that says it is ready has its store and its runner (Ready).
THEOREM ReadyAlwaysServing == Spec => []ReadyMeansServing
<1>1. IInv => ReadyMeansServing
  BY DEF IInv, TypeOK, CallerKnows, FlagsMatch, InCharge, ReadyMeansServing, Ready
<1> QED BY <1>1, ShutdownInvariant, PTL

-----------------------------------------------------------------------------
(* The lifecycle. *)

Flags == [started : BOOLEAN, stopping : BOOLEAN, stopped : BOOLEAN]

LifecycleTypeOK ==
    /\ lifecycle \in Flags
    /\ stopper \in [Stoppers -> {"out", "waits", "nothing to do", "finished"}]

\* A lifecycle that never started is neither stopping nor stopped, so what holds
\* while nobody waits survives each Start.
LifecycleInv == LifecycleTypeOK /\ OneStopWaits

LEMMA LifecycleInitial == LifecycleInit => LifecycleInv
BY DEF LifecycleInit, LifecycleInv, LifecycleTypeOK, Flags, OneStopWaits, LifecycleReady

LEMMA LifecycleStep == LifecycleInv /\ [LifecycleNext]_lifecycleVars => LifecycleInv'
<1> SUFFICES ASSUME LifecycleInv, [LifecycleNext]_lifecycleVars PROVE LifecycleInv'
  OBVIOUS
<1> USE DEF LifecycleInv, LifecycleTypeOK, Flags, OneStopWaits, LifecycleReady
<1>1. CASE StartLifecycle
  BY <1>1 DEF StartLifecycle
<1>2. ASSUME NEW s \in Stoppers, BeginStop(s) PROVE LifecycleInv'
  BY <1>2 DEF BeginStop, MayBegin
<1>3. ASSUME NEW s \in Stoppers, StopInVain(s) PROVE LifecycleInv'
  BY <1>3 DEF StopInVain
<1>4. ASSUME NEW s \in Stoppers, FinishStop(s) PROVE LifecycleInv'
  BY <1>4 DEF FinishStop
<1>5. ASSUME NEW s \in Stoppers, LeaveStop(s) PROVE LifecycleInv'
  BY <1>5 DEF LeaveStop
<1>6. CASE UNCHANGED lifecycleVars
  BY <1>6 DEF lifecycleVars
<1> QED BY <1>1, <1>2, <1>3, <1>4, <1>5, <1>6 DEF LifecycleNext

\* At most one call of Stop waits, and the flags tell whether one does (Lifecycle).
THEOREM OneStopAlwaysWaits == LifecycleSpec => []OneStopWaits
<1>1. LifecycleInv => OneStopWaits
  BY DEF LifecycleInv
<1> QED BY <1>1, LifecycleInitial, LifecycleStep, PTL DEF LifecycleSpec

-----------------------------------------------------------------------------
(* The supervisor. *)

SupervisorTypeOK ==
    /\ workers \in [Names -> Runs \cup {NoRun}]
    /\ halted \in BOOLEAN
    /\ runs \in [Runs -> [name : Names, at : {"new", "running", "returned", "gone"}]]
    /\ cancelled \subseteq Runs

SupervisorInv == SupervisorTypeOK /\ SupervisedOrGone

LEMMA SupervisorInitial == SupervisorInit => SupervisorInv
<1> SUFFICES ASSUME SupervisorInit PROVE SupervisorInv
  OBVIOUS
<1>1. PICK f \in [Runs -> Names] : runs = [r \in Runs |-> [name |-> f[r], at |-> "new"]]
  BY DEF SupervisorInit
<1>2. SupervisorTypeOK
  BY <1>1 DEF SupervisorInit, SupervisorTypeOK
<1>3. SupervisedOrGone
  BY <1>1 DEF SupervisorInit, SupervisedOrGone, Unfinished
<1> QED BY <1>2, <1>3 DEF SupervisorInv

\* Each step of a run keeps the supervision: a name is free when it is given away,
\* and the run that leaves takes out its own entry (Add).
LEMMA RunStep ==
  ASSUME SupervisorInv, NEW r \in Runs,
         AddRun(r) \/ RunReturns(r) \/ Deregister(r) \/ ParentDone(r)
  PROVE  SupervisorInv'
<1> USE NoRunAssumption DEF SupervisorInv, SupervisorTypeOK, SupervisedOrGone, Unfinished
<1>1. CASE AddRun(r)
  BY <1>1 DEF AddRun, NameFree
<1>2. CASE RunReturns(r)
  BY <1>2 DEF RunReturns
<1>3. CASE Deregister(r)
  BY <1>3 DEF Deregister
<1>4. CASE ParentDone(r)
  BY <1>4 DEF ParentDone
<1> QED BY <1>1, <1>2, <1>3, <1>4

\* Stop reaches every running goroutine, because each is in the table (Stop).
LEMMA StopStep == SupervisorInv /\ StopSupervisor => SupervisorInv'
<1> SUFFICES ASSUME SupervisorInv, StopSupervisor PROVE SupervisorInv'
  OBVIOUS
<1> USE NoRunAssumption DEF SupervisorInv, SupervisorTypeOK, SupervisedOrGone, Unfinished
<1>1. \A r \in Runs : runs[r].at = "running" => r \in Cancels
  BY DEF Cancels
<1> QED BY <1>1 DEF StopSupervisor, Cancels

\* No goroutine the supervisor started escapes its table, nor, once it is stopped,
\* its cancellation (Supervisor).
THEOREM AlwaysSupervisedOrGone == SupervisorSpec => []SupervisedOrGone
<1>1. SupervisorInv /\ [SupervisorNext]_supervisorVars => SupervisorInv'
  <2>1. SupervisorInv /\ UNCHANGED supervisorVars => SupervisorInv'
    BY DEF SupervisorInv, SupervisorTypeOK, SupervisedOrGone, Unfinished, supervisorVars
  <2> QED BY <2>1, RunStep, StopStep DEF SupervisorNext
<1>2. SupervisorInv => SupervisedOrGone
  BY DEF SupervisorInv
<1> QED BY <1>1, <1>2, SupervisorInitial, PTL DEF SupervisorSpec

-----------------------------------------------------------------------------
(* The metrics. *)

\* A request that moves on enters the requests that reached a place at most once.
LEMMA ReachedStep ==
  ASSUME MetricsTypeOK, NEW r \in Served, NEW from, NEW to, Step(r, from, to), NEW stages,
         NEW n \in {0, 1}, to \in stages,
         (from \in stages /\ n = 0) \/ (from \notin stages /\ n = 1)
  PROVE  /\ Cardinality(Reached(stages)) \in Nat
         /\ Cardinality(Reached(stages)') = Cardinality(Reached(stages)) + n
<1>1. Reached(stages)' = Reached(stages) \cup {r}
  BY DEF MetricsTypeOK, Step, Reached
<1>2. r \in Reached(stages) <=> n = 0
  BY DEF Step, Reached
<1>3. IsFiniteSet(Reached(stages))
  <2>1. Reached(stages) \subseteq Served
    BY DEF Reached
  <2> QED BY <2>1, FiniteServed, FS_Subset
<1> QED BY <1>1, <1>2, <1>3, FS_AddElement, FS_CardinalityType

\* One that moves on before or beyond a place leaves those that reached it alone.
LEMMA ReachedStays ==
  ASSUME MetricsTypeOK, NEW r \in Served, NEW from, NEW to, Step(r, from, to), NEW stages,
         from \notin stages, to \notin stages
  PROVE  Reached(stages)' = Reached(stages)
BY DEF MetricsTypeOK, Step, Reached

\* A path that is counted once more raises the total of the table by one (CountPath).
LEMMA TableStep ==
  ASSUME MetricsTypeOK, NEW p \in Paths,
         counters' = [counters EXCEPT !.endpoints[p] = @ + 1]
  PROVE  Total(counters'.endpoints, Paths) = Total(counters.endpoints, Paths) + 1
<1>1. /\ counters.endpoints \in [Paths -> Nat]
      /\ counters'.endpoints = [counters.endpoints EXCEPT ![p] = @ + 1]
  BY DEF MetricsTypeOK
<1>2. PICK f, g : f = counters.endpoints /\ g = counters'.endpoints
  OBVIOUS
<1>3. /\ f \in [Paths -> Nat] /\ g \in [Paths -> Nat]
      /\ g[p] = f[p] + 1 /\ \A q \in Paths \ {p} : f[q] = g[q]
  BY <1>1, <1>2
<1>4. PICK rest \in Nat : /\ Total(f, Paths) = (IF p \in Paths THEN f[p] ELSE 0) + rest
                          /\ Total(g, Paths) = (IF p \in Paths THEN g[p] ELSE 0) + rest
  BY <1>3, FiniteServed, TotalButOne
<1>5. Total(g, Paths) = Total(f, Paths) + 1
  BY <1>3, <1>4
<1> QED BY <1>2, <1>5

\* The requests that reached a place, and the total of the table, are numbers.
LEMMA MetricsNumbers ==
  ASSUME MetricsTypeOK
  PROVE  /\ \A stages : Cardinality(Reached(stages)) \in Nat
         /\ Total(counters.endpoints, Paths) \in Nat
         /\ counters.requests \in Nat /\ counters.failures \in Nat /\ counters.active \in Int
<1>1. ASSUME NEW stages PROVE Cardinality(Reached(stages)) \in Nat
  <2>1. Reached(stages) \subseteq Served
    BY DEF Reached
  <2> QED BY <2>1, FiniteServed, FS_Subset, FS_CardinalityType
<1>2. /\ counters.endpoints \in [Paths -> Nat]
      /\ counters.requests \in Nat /\ counters.failures \in Nat /\ counters.active \in Int
  BY DEF MetricsTypeOK
<1>3. Total(counters.endpoints, Paths) \in Nat
  BY <1>2, FiniteServed, TotalType
<1> QED BY <1>1, <1>2, <1>3

\* A new process has counted nothing (NewMetrics).
LEMMA MetricsInitial == MetricsInit => MetricsInv
<1> SUFFICES ASSUME MetricsInit PROVE MetricsInv
  OBVIOUS
<1>1. MetricsTypeOK
  BY DEF MetricsInit, MetricsTypeOK, NotRead
<1>2. /\ Reached({"counted", "active", "served", "failed", "ended"}) = {}
      /\ Reached({"served", "failed", "ended"}) = {} /\ Reached({"ended"}) = {}
  BY DEF MetricsInit, Reached
<1>3. Total(counters.endpoints, Paths) = 0
  <2>1. counters.endpoints = [p \in Paths |-> 0]
    BY DEF MetricsInit
  <2>2. Total([p \in Paths |-> 0], Paths) = Total([p \in Paths |-> 0], {})
    BY TotalOfSome
  <2> QED BY <2>1, <2>2, TotalEmpty
<1>4. CountersInv
  BY <1>2, <1>3, FS_EmptySet DEF CountersInv, MetricsInit
<1>5. SnapshotInv
  BY DEF SnapshotInv, Locked, MetricsInit, NotRead
<1> QED BY <1>1, <1>4, <1>5 DEF MetricsInv

\* What Begin and End count keeps the invariant: one case per counter (Begin, End).
LEMMA CountStep ==
  ASSUME MetricsInv, NEW r \in Served,
         CountRequest(r) \/ CountActive(r) \/ CountPath(r) \/ Leave(r) \/ CountFailure(r)
  PROVE  MetricsInv'
<1> DEFINE begun  == {"counted", "active", "served", "failed", "ended"}
           served == {"served", "failed", "ended"}
           ended  == {"ended"}
<1>1. MetricsTypeOK
  BY DEF MetricsInv
<1>2. /\ counters.requests = Cardinality(Reached(begun))
      /\ Total(counters.endpoints, Paths) = Cardinality(Reached(served))
      /\ counters.failures <= Cardinality(Reached(ended))
  BY DEF MetricsInv, CountersInv
<1>3. /\ \A stages : Cardinality(Reached(stages)) \in Nat
      /\ counters.requests \in Nat /\ counters.failures \in Nat
  BY <1>1, MetricsNumbers
<1>4. SnapshotInv /\ UNCHANGED snapshot
  BY DEF MetricsInv, CountRequest, CountActive, CountPath, Leave, CountFailure
<1>5. MetricsTypeOK'
  BY <1>1 DEF CountRequest, CountActive, CountPath, Leave, CountFailure, Step, MetricsTypeOK
<1> DEFINE Counted == /\ counters'.requests = Cardinality(Reached(begun)')
                      /\ Total(counters'.endpoints, Paths) = Cardinality(Reached(served)')
                      /\ counters'.failures <= Cardinality(Reached(ended)')
           Table   == counters'.endpoints = counters.endpoints \/ ~ Locked
<1>6. ASSUME CountRequest(r) PROVE Counted /\ Table
  <2>1. Step(r, "new", "counted") /\ counters' = [counters EXCEPT !.requests = @ + 1]
    BY <1>6 DEF CountRequest
  <2>2. /\ counters'.requests = counters.requests + 1
        /\ counters'.endpoints = counters.endpoints /\ counters'.failures = counters.failures
    BY <1>1, <2>1 DEF MetricsTypeOK
  <2>3. Cardinality(Reached(begun)') = Cardinality(Reached(begun)) + 1
    BY <1>1, <2>1, ReachedStep
  <2>4. Reached(served)' = Reached(served) /\ Reached(ended)' = Reached(ended)
    BY <1>1, <2>1, ReachedStays
  <2> QED BY <1>2, <2>2, <2>3, <2>4
<1>7. ASSUME CountActive(r) PROVE Counted /\ Table
  <2>1. Step(r, "counted", "active") /\ counters' = [counters EXCEPT !.active = @ + 1]
    BY <1>7 DEF CountActive
  <2>2. /\ counters'.requests = counters.requests
        /\ counters'.endpoints = counters.endpoints /\ counters'.failures = counters.failures
    BY <1>1, <2>1 DEF MetricsTypeOK
  <2>3. Cardinality(Reached(begun)') = Cardinality(Reached(begun)) + 0
    BY <1>1, <2>1, ReachedStep
  <2>4. Reached(served)' = Reached(served) /\ Reached(ended)' = Reached(ended)
    BY <1>1, <2>1, ReachedStays
  <2> QED BY <1>2, <1>3, <2>2, <2>3, <2>4
<1>8. ASSUME CountPath(r) PROVE Counted /\ Table
  <2>1. Step(r, "active", "served") /\ ~ Locked
    BY <1>8 DEF CountPath, MayWrite
  <2>2. PICK p \in Paths : counters' = [counters EXCEPT !.endpoints[p] = @ + 1]
    BY <1>8 DEF CountPath
  <2>3. counters'.requests = counters.requests /\ counters'.failures = counters.failures
    BY <1>1, <2>2 DEF MetricsTypeOK
  <2>4. Total(counters'.endpoints, Paths) = Total(counters.endpoints, Paths) + 1
    BY <1>1, <2>2, TableStep
  <2>5. Cardinality(Reached(begun)') = Cardinality(Reached(begun)) + 0
    BY <1>1, <2>1, ReachedStep
  <2>6. Cardinality(Reached(served)') = Cardinality(Reached(served)) + 1
    BY <1>1, <2>1, ReachedStep
  <2>7. Reached(ended)' = Reached(ended)
    BY <1>1, <2>1, ReachedStays
  <2> QED BY <1>2, <1>3, <2>1, <2>3, <2>4, <2>5, <2>6, <2>7
<1>9. ASSUME Leave(r) PROVE Counted /\ Table
  <2>1. PICK to \in {"failed", "ended"} : Step(r, "served", to)
    BY <1>9 DEF Leave
  <2>2. /\ counters'.requests = counters.requests
        /\ counters'.endpoints = counters.endpoints /\ counters'.failures = counters.failures
    BY <1>1, <1>9 DEF Leave, MetricsTypeOK
  <2>3. Cardinality(Reached(begun)') = Cardinality(Reached(begun)) + 0
    BY <1>1, <2>1, ReachedStep
  <2>4. Cardinality(Reached(served)') = Cardinality(Reached(served)) + 0
    BY <1>1, <2>1, ReachedStep
  <2>5. CASE to = "failed"
    <3>1. Reached(ended)' = Reached(ended)
      BY <1>1, <2>1, <2>5, ReachedStays
    <3> QED BY <1>2, <1>3, <2>2, <2>3, <2>4, <3>1
  <2>6. CASE to = "ended"
    <3>1. Cardinality(Reached(ended)') = Cardinality(Reached(ended)) + 1
      BY <1>1, <2>1, <2>6, ReachedStep
    <3> QED BY <1>2, <1>3, <2>2, <2>3, <2>4, <3>1
  <2> QED BY <2>5, <2>6
<1>10. ASSUME CountFailure(r) PROVE Counted /\ Table
  <2>1. Step(r, "failed", "ended") /\ counters' = [counters EXCEPT !.failures = @ + 1]
    BY <1>10 DEF CountFailure
  <2>2. /\ counters'.requests = counters.requests
        /\ counters'.endpoints = counters.endpoints
        /\ counters'.failures = counters.failures + 1
    BY <1>1, <2>1 DEF MetricsTypeOK
  <2>3. Cardinality(Reached(begun)') = Cardinality(Reached(begun)) + 0
    BY <1>1, <2>1, ReachedStep
  <2>4. Cardinality(Reached(served)') = Cardinality(Reached(served)) + 0
    BY <1>1, <2>1, ReachedStep
  <2>5. Cardinality(Reached(ended)') = Cardinality(Reached(ended)) + 1
    BY <1>1, <2>1, ReachedStep
  <2> QED BY <1>2, <1>3, <2>2, <2>3, <2>4, <2>5
<1> HIDE DEF Counted, Table
<1>11. Counted /\ Table
  BY <1>6, <1>7, <1>8, <1>9, <1>10
<1>12. CountersInv'
  BY <1>11 DEF Counted, CountersInv
<1>13. SnapshotInv'
  BY <1>4, <1>11 DEF Table, SnapshotInv, Locked
<1> QED BY <1>5, <1>12, <1>13 DEF MetricsInv

\* Each reading of a snapshot keeps the invariant: what it has not read yet can only
\* have grown in a way that still adds up (Snapshot).
LEMMA SnapshotStep == MetricsInv /\ TakeSnapshot => MetricsInv'
<1> SUFFICES ASSUME MetricsInv, TakeSnapshot PROVE MetricsInv'
  OBVIOUS
<1>1. MetricsTypeOK /\ CountersInv /\ SnapshotInv /\ UNCHANGED <<counters, serving>>
  BY DEF MetricsInv, TakeSnapshot
<1>2. /\ \A stages : Cardinality(Reached(stages)) \in Nat
      /\ Total(counters.endpoints, Paths) \in Nat
      /\ counters.requests \in Nat /\ counters.failures \in Nat /\ counters.active \in Int
  BY <1>1, MetricsNumbers
<1>3. MetricsTypeOK'
  <2>1. CASE snapshot' = [NotRead EXCEPT !.at = "requests",
                             !.endpoints = Total(counters.endpoints, Paths)]
    <3>1. snapshot' = [at |-> "requests", endpoints |-> Total(counters.endpoints, Paths),
                       requests |-> 0, failures |-> 0, active |-> 0]
      BY <2>1 DEF NotRead
    <3> QED BY <1>1, <1>2, <3>1 DEF MetricsTypeOK
  <2>2. CASE snapshot' = [snapshot EXCEPT !.at = "failures", !.requests = counters.requests]
    BY <1>1, <1>2, <2>2 DEF MetricsTypeOK
  <2>3. CASE snapshot' = [snapshot EXCEPT !.at = "active", !.failures = counters.failures]
    BY <1>1, <1>2, <2>3 DEF MetricsTypeOK
  <2>4. CASE snapshot' = [snapshot EXCEPT !.at = "returned", !.active = counters.active]
    BY <1>1, <1>2, <2>4 DEF MetricsTypeOK
  <2> QED BY <2>1, <2>2, <2>3, <2>4 DEF TakeSnapshot
<1>4. CountersInv'
  BY <1>1 DEF CountersInv, Reached
<1>5. /\ Total(counters.endpoints, Paths) <= counters.requests
      /\ counters.failures <= Total(counters.endpoints, Paths)
  <2> DEFINE begun  == {"counted", "active", "served", "failed", "ended"}
             served == {"served", "failed", "ended"}
             ended  == {"ended"}
  <2>1. /\ Reached(ended) \subseteq Reached(served) /\ Reached(served) \subseteq Reached(begun)
        /\ Reached(begun) \subseteq Served
    BY DEF Reached
  <2>2. IsFiniteSet(Reached(begun)) /\ IsFiniteSet(Reached(served))
    BY <2>1, FiniteServed, FS_Subset
  <2>3. /\ Cardinality(Reached(ended)) <= Cardinality(Reached(served))
        /\ Cardinality(Reached(served)) <= Cardinality(Reached(begun))
    BY <2>1, <2>2, FS_Subset
  <2>4. /\ counters.requests = Cardinality(Reached(begun))
        /\ Total(counters.endpoints, Paths) = Cardinality(Reached(served))
        /\ counters.failures <= Cardinality(Reached(ended))
    BY <1>1 DEF CountersInv
  <2> QED BY <1>2, <2>3, <2>4
<1>6. SnapshotInv'
  <2> DEFINE total == Total(counters.endpoints, Paths)
  <2>1. total' = total
    BY <1>1
  <2> HIDE DEF total
  <2>2. /\ total <= counters.requests /\ counters.failures <= total
        /\ Locked => snapshot.endpoints = total
    BY <1>1, <1>5 DEF total, SnapshotInv
  <2>3. /\ Locked' => snapshot'.endpoints = total
        /\ snapshot'.at \in {"failures", "active", "returned"} => snapshot'.endpoints <= snapshot'.requests
        /\ snapshot'.at \in {"active", "returned"} => snapshot'.failures <= snapshot'.endpoints
    BY <1>1, <2>2 DEF TakeSnapshot, SnapshotInv, MetricsTypeOK, Locked, NotRead, total
  <2> QED BY <2>1, <2>3 DEF SnapshotInv, total
<1> QED BY <1>3, <1>4, <1>6 DEF MetricsInv

\* A snapshot adds up whatever begins and ends while it is taken, for any finite
\* number of requests and paths (Begin, End, Snapshot).
THEOREM SnapshotsAlwaysAddUp == MetricsSpec => []SnapshotAddsUp
<1>1. MetricsInv /\ UNCHANGED metricsVars => MetricsInv'
  BY DEF MetricsInv, MetricsTypeOK, CountersInv, SnapshotInv, Reached, Locked, metricsVars
<1>2. MetricsInv /\ [MetricsNext]_metricsVars => MetricsInv'
  BY <1>1, CountStep, SnapshotStep DEF MetricsNext
<1>3. MetricsInv => SnapshotAddsUp
  BY DEF MetricsInv, SnapshotInv, SnapshotAddsUp
<1> QED BY MetricsInitial, <1>2, <1>3, PTL DEF MetricsSpec

=============================================================================

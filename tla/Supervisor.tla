----------------------------- MODULE Supervisor -----------------------------
(***************************************************************************)
(* app.Supervisor: goroutines started under a name, each with a context of *)
(* its own.  A goroutine leaves the table after its function has returned; *)
(* Stop cancels all of them and does not wait for any.                     *)
(***************************************************************************)
CONSTANTS Names,        \* names given to Add
          Runs,         \* calls of Add that start a goroutine
          NoRun

ASSUME NoRunAssumption == NoRun \notin Runs

VARIABLES workers,      \* the table: the run registered under each name
          halted,       \* Supervisor.stopped
          runs,         \* each goroutine: its name and how far it is
          cancelled     \* the runs whose context is done

supervisorVars == <<workers, halted, runs, cancelled>>

SupervisorInit ==
    /\ workers = [n \in Names |-> NoRun]
    /\ halted = FALSE
    /\ runs \in {[r \in Runs |-> [name |-> f[r], at |-> "new"]] : f \in [Runs -> Names]}
    /\ cancelled = {}

Unfinished(r) == runs[r].at \in {"running", "returned"}

\* BUG: a name in use is taken over.
AnyName(n) == TRUE

NameFree(n) == workers[n] = NoRun

AddRun(r) ==
    /\ runs[r].at = "new"
    /\ ~ halted
    /\ NameFree(runs[r].name)
    /\ workers' = [workers EXCEPT ![runs[r].name] = r]
    /\ runs' = [runs EXCEPT ![r].at = "running"]
    /\ UNCHANGED <<halted, cancelled>>

\* The function may return at any time, or because its context is done.
RunReturns(r) ==
    /\ runs[r].at = "running"
    /\ runs' = [runs EXCEPT ![r].at = "returned"]
    /\ UNCHANGED <<workers, halted, cancelled>>

Deregister(r) ==
    /\ runs[r].at = "returned"
    /\ workers' = [workers EXCEPT ![runs[r].name] = NoRun]
    /\ runs' = [runs EXCEPT ![r].at = "gone"]
    /\ UNCHANGED <<halted, cancelled>>

\* The context of one Add's caller is done, and the run's with it.
ParentDone(r) ==
    /\ runs[r].at = "running"
    /\ r \notin cancelled
    /\ cancelled' = cancelled \cup {r}
    /\ UNCHANGED <<workers, halted, runs>>

\* BUG: Stop marks the supervisor and cancels nobody.
CancelNobody == {}

Cancels == {r \in Runs : \E n \in Names : workers[n] = r}

StopSupervisor ==
    /\ ~ halted
    /\ halted' = TRUE
    /\ cancelled' = cancelled \cup Cancels
    /\ UNCHANGED <<workers, runs>>

SupervisorNext ==
    \/ StopSupervisor
    \/ \E r \in Runs : AddRun(r) \/ RunReturns(r) \/ Deregister(r) \/ ParentDone(r)

SupervisorSpec == SupervisorInit /\ [][SupervisorNext]_supervisorVars

\* A worker that honours its context returns, and its goroutine leaves the table.
SupervisorFairness ==
    \A r \in Runs : WF_supervisorVars((r \in cancelled /\ RunReturns(r)) \/ Deregister(r))

\* Every unfinished goroutine is the one registered under its name, so that Active
\* counts it and Stop reaches it; after Stop each of them has been cancelled,
\* and none is added (Add, Stop).
SupervisedOrGone ==
    /\ \A r \in Runs : Unfinished(r) => workers[runs[r].name] = r
    /\ \A n \in Names : workers[n] # NoRun => Unfinished(workers[n]) /\ runs[workers[n]].name = n
    /\ halted => \A r \in Runs : runs[r].at = "running" => r \in cancelled

\* Stop does not wait, but the table empties after it (Stop, Add).
TableEmpties == halted ~> \A n \in Names : workers[n] = NoRun

=============================================================================

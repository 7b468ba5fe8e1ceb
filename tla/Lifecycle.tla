----------------------------- MODULE Lifecycle ------------------------------
(***************************************************************************)
(* app.Lifecycle: the flags of one start and stop, shared by goroutines    *)
(* that call Start and Stop at any time.  Every method holds the lock, but *)
(* Stop calls wait between BeginStop and FinishStop without it.            *)
(***************************************************************************)
CONSTANTS Stoppers      \* goroutines that call Lifecycle.Stop

VARIABLES lifecycle,    \* its flags started, stopping, stopped
          stopper       \* where each call of Stop is

lifecycleVars == <<lifecycle, stopper>>

LifecycleInit ==
    /\ lifecycle = [started |-> FALSE, stopping |-> FALSE, stopped |-> FALSE]
    /\ stopper = [s \in Stoppers |-> "out"]

LifecycleReady == lifecycle.started /\ ~ lifecycle.stopping /\ ~ lifecycle.stopped

\* Start resets the flags, after a stop too.
StartLifecycle ==
    /\ ~ (lifecycle.started /\ ~ lifecycle.stopped)
    /\ lifecycle' = [started |-> TRUE, stopping |-> FALSE, stopped |-> FALSE]
    /\ UNCHANGED stopper

\* BUG: a stop under way is not looked at.
MayBeginAgain == lifecycle.started /\ ~ lifecycle.stopped

MayBegin == lifecycle.started /\ ~ lifecycle.stopped /\ ~ lifecycle.stopping

\* Stop: BeginStop succeeds and wait runs, or it returns nil at once.
BeginStop(s) ==
    /\ stopper[s] = "out"
    /\ MayBegin
    /\ lifecycle' = [lifecycle EXCEPT !.stopping = TRUE]
    /\ stopper' = [stopper EXCEPT ![s] = "waits"]

StopInVain(s) ==
    /\ stopper[s] = "out"
    /\ ~ MayBegin
    /\ stopper' = [stopper EXCEPT ![s] = "nothing to do"]
    /\ UNCHANGED lifecycle

\* wait has returned, with or without an error: FinishStop either way.
FinishStop(s) ==
    /\ stopper[s] = "waits"
    /\ lifecycle' = [lifecycle EXCEPT !.stopped = TRUE]
    /\ stopper' = [stopper EXCEPT ![s] = "finished"]

\* The goroutine may call Stop once more.
LeaveStop(s) ==
    /\ stopper[s] \in {"nothing to do", "finished"}
    /\ stopper' = [stopper EXCEPT ![s] = "out"]
    /\ UNCHANGED lifecycle

LifecycleNext ==
    \/ StartLifecycle
    \/ \E s \in Stoppers : BeginStop(s) \/ StopInVain(s) \/ FinishStop(s) \/ LeaveStop(s)

LifecycleSpec == LifecycleInit /\ [][LifecycleNext]_lifecycleVars

\* While one call of Stop waits, no other waits, the lifecycle is neither ready nor
\* stopped, and no Start resets it; without one the flags say that it runs or does
\* not (Start, BeginStop, FinishStop, Stop).
OneStopWaits ==
    /\ \A s, t \in Stoppers : stopper[s] = "waits" /\ stopper[t] = "waits" => s = t
    /\ (\E s \in Stoppers : stopper[s] = "waits")
          <=> lifecycle.started /\ lifecycle.stopping /\ ~ lifecycle.stopped
    /\ (\E s \in Stoppers : stopper[s] = "waits") => ~ LifecycleReady

=============================================================================

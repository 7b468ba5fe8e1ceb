------------------------------ MODULE Runtime -------------------------------
(***************************************************************************)
(* Start and shutdown of the process: the HTTP server, the outbox runner   *)
(* and the store they share (cmd/server/main.go, app.Runtime).  A signal   *)
(* cancels the runner and makes main drain the server and shut the runtime *)
(* down under one deadline.  Shutdown may be called by several goroutines; *)
(* its steps are separate where it lets go of its lock.                    *)
(***************************************************************************)
CONSTANTS Callers,     \* goroutines that drain the server and call Shutdown
          Requests     \* HTTP requests

ASSUME CallersAssumption == Callers # {}

VARIABLES runtime,     \* its flags: neither, "ready", or "closed" and not ready
          server,      \* the HTTP server: before, while and after it listens
          done,        \* the contexts that are done: of main, of the runner
          request,     \* each HTTP request
          worker,      \* the runner: before Start, in its select, in an
                       \* iteration, or returned from Run
          store,
          caller,      \* where each caller is
          expired      \* callers whose deadline has passed

vars == <<runtime, server, done, request, worker, store, caller, expired>>

Phases == {"running", "draining", "entering", "marked", "waiting", "closing",
           "stopped", "timed out"}

TypeOK ==
    /\ runtime \in {"new", "ready", "closed"}
    /\ server  \in {"new", "listening", "closed"}
    /\ done    \subseteq {"main", "runner"}
    /\ request \in [Requests -> {"new", "running", "done"}]
    /\ worker  \in {"none", "waiting", "working", "done"}
    /\ store   \in {"open", "closed"}
    /\ caller  \in [Callers -> Phases]
    /\ expired \subseteq Callers

\* After New, which opens the store.
Init ==
    /\ runtime = "new"
    /\ server  = "new"
    /\ done    = {}
    /\ request = [r \in Requests |-> "new"]
    /\ worker  = "none"
    /\ store   = "open"
    /\ caller  = [c \in Callers |-> "running"]
    /\ expired = {}

\* ready && !closed, under the lock
Ready == runtime = "ready"

\* The call has marked the runtime closed and not closed the store yet.
InCharge(c) == caller[c] \in {"marked", "waiting", "closing", "timed out"}

Returned(c) == caller[c] \in {"stopped", "timed out"}

-----------------------------------------------------------------------------
(* Runtime.Start, the server and the signal. *)

Start ==
    /\ worker = "none"
    /\ runtime' = "ready"
    /\ worker'  = "waiting"
    /\ server'  = "listening"
    /\ UNCHANGED <<done, request, store, caller, expired>>

\* SIGTERM, SIGINT, or stop() after the server failed; the runner's context is a
\* child of main's.
Signal ==
    /\ worker # "none"
    /\ "main" \notin done
    /\ done' = {"main", "runner"}
    /\ UNCHANGED <<runtime, server, request, worker, store, caller, expired>>

Arrive(r) ==
    /\ server = "listening"
    /\ request[r] = "new"
    /\ request' = [request EXCEPT ![r] = "running"]
    /\ UNCHANGED <<runtime, server, done, worker, store, caller, expired>>

Finish(r) ==
    /\ request[r] = "running"
    /\ request' = [request EXCEPT ![r] = "done"]
    /\ UNCHANGED <<runtime, server, done, worker, store, caller, expired>>

-----------------------------------------------------------------------------
(* Runner.Run: the select takes either case when both are ready. *)

WorkerMoves(from, to) ==
    /\ worker = from
    /\ worker' = to
    /\ UNCHANGED <<runtime, server, done, request, store, caller, expired>>

Tick == WorkerMoves("waiting", "working")

Iterated == WorkerMoves("working", "waiting")

Quit == "runner" \in done /\ WorkerMoves("waiting", "done")

-----------------------------------------------------------------------------
(* The callers of Shutdown. *)

GoTo(c, from, to) == caller[c] = from /\ caller' = [caller EXCEPT ![c] = to]

\* server.Shutdown closes the listener and waits for the running requests: main
\* after the signal, the integration tests at any time after Start.
Drain(c) ==
    /\ worker # "none"
    /\ GoTo(c, "running", "draining")
    /\ server' = "closed"
    /\ UNCHANGED <<runtime, done, request, worker, store, expired>>

\* BUG: the server is closed without waiting for the requests.
NoDraining(c) == TRUE

\* Its error is dropped.
DrainEnds(c) == c \in expired \/ \A r \in Requests : request[r] # "running"

Drained(c) ==
    /\ DrainEnds(c)
    /\ GoTo(c, "draining", "entering")
    /\ UNCHANGED <<runtime, server, done, request, worker, store, expired>>

\* BUG: the flag is not looked at.
AlwaysFirst == TRUE

FirstCall == runtime # "closed"

\* BUG: the runtime stays ready until its store is closed.
TurnOffLater == UNCHANGED runtime

TurnOff == runtime' = "closed"

\* The part of Shutdown under the lock.
Mark(c) ==
    /\ \/ FirstCall /\ GoTo(c, "entering", "marked") /\ TurnOff
       \/ ~ FirstCall /\ GoTo(c, "entering", "stopped") /\ UNCHANGED runtime
    /\ UNCHANGED <<server, done, request, worker, store, expired>>

\* BUG: Shutdown relies on the signal to cancel the runner.
CancelNothing == UNCHANGED done

CancelRunner == done' = done \cup {"runner"}

Cancel(c) ==
    /\ GoTo(c, "marked", "waiting")
    /\ CancelRunner
    /\ UNCHANGED <<runtime, server, request, worker, store, expired>>

\* BUG: Wait returns while the runner is in its last iteration.
WorkerCancelled == "runner" \in done

\* Worker.Wait has returned.
WorkerGone == worker = "done"

\* The select of Shutdown; with an expired deadline it may choose either case.
StopWaiting(c) ==
    /\ \/ WorkerGone /\ GoTo(c, "waiting", "closing")
       \/ c \in expired /\ GoTo(c, "waiting", "timed out")
    /\ UNCHANGED <<runtime, server, done, request, worker, store, expired>>

Close(c) ==
    /\ GoTo(c, "closing", "stopped")
    /\ store' = "closed"
    /\ UNCHANGED <<runtime, server, done, request, worker, expired>>

Expire(c) ==
    /\ caller[c] # "running"
    /\ c \notin expired
    /\ expired' = expired \cup {c}
    /\ UNCHANGED <<runtime, server, done, request, worker, store, caller>>

Shutdown(c) == Drained(c) \/ Mark(c) \/ Cancel(c) \/ StopWaiting(c) \/ Close(c)

Next ==
    \/ Start \/ Signal \/ Tick \/ Iterated \/ Quit
    \/ \E r \in Requests : Arrive(r) \/ Finish(r)
    \/ \E c \in Callers : Drain(c) \/ Shutdown(c) \/ Expire(c)

Spec == Init /\ [][Next]_vars

\* The goroutines run; a handler ends, its transactions being short; the select of
\* Run chooses at random, so it cannot prefer the ticker for ever.  No deadline is
\* relied on.
Fairness ==
    /\ WF_vars(Iterated) /\ SF_vars(Quit)
    /\ \A r \in Requests : WF_vars(Finish(r))
    /\ \A c \in Callers : WF_vars("main" \in done /\ Drain(c)) /\ WF_vars(Shutdown(c))

FairSpec == Spec /\ Fairness

-----------------------------------------------------------------------------
(* Properties. *)

\* The runner never works on a closed store, whoever of the callers closes it
\* and whatever deadlines pass (Shutdown waits for the runner).
WorkerHasStore == store = "closed" => worker = "done"

\* A running request loses the store only when a caller gave up draining the
\* server at its deadline (main, Shutdown).
RequestHasStore ==
    store = "closed" /\ (\E r \in Requests : request[r] = "running") => expired # {}

\* Nobody works on a closed store, the runner never and a request only after a
\* deadline (Shutdown, main).
StoreOutlivesUsers == WorkerHasStore /\ RequestHasStore

\* Of any number of calls one closes the store; it alone can leave it open, by its
\* deadline, and then it stays open although all the others report success
\* (Shutdown).
OneCloser ==
    /\ \A c, d \in Callers : InCharge(c) /\ InCharge(d) => c = d
    /\ (\E c \in Callers : caller[c] = "timed out") => store = "open"
    /\ (\A c \in Callers : caller[c] = "stopped") => store = "closed"

\* A process that reports that it is ready has its store, and its runner unless it
\* was signalled; nobody is shutting it down (Ready, Start, Shutdown).
ReadyMeansServing ==
    Ready => /\ store = "open"
             /\ worker \in {"waiting", "working"} \/ "main" \in done
             /\ \A c \in Callers : ~ InCharge(c)

\* Every call of Shutdown returns, and main makes one after a signal, even when no
\* deadline passes (Runner.Run, Shutdown).
Stops == \A c \in Callers : "main" \in done \/ caller[c] # "running" ~> Returned(c)

-----------------------------------------------------------------------------
(* The inductive invariant behind the safety properties. *)

\* What each phase of a caller says of the runner, the server and the requests.
CallerKnows(c) ==
    /\ caller[c] = "closing" => worker = "done"
    /\ InCharge(c) => runtime = "closed" /\ store = "open"
    /\ caller[c] = "stopped" => runtime = "closed"
    /\ caller[c] # "running" => worker # "none" /\ server = "closed"
    /\ caller[c] \notin {"running", "draining"} /\ c \notin expired
          => \A r \in Requests : request[r] # "running"

OneInCharge == \A c, d \in Callers : InCharge(c) /\ InCharge(d) => c = d

\* A runtime marked closed has a closer or no store.
ClosedBySomeone ==
    /\ runtime = "closed" => store = "closed" \/ \E c \in Callers : InCharge(c)
    /\ store = "closed" => \E c \in Callers : caller[c] = "stopped"

FlagsMatch ==
    /\ runtime = "new" <=> worker = "none"
    /\ store = "closed" => worker = "done" /\ runtime = "closed"
    /\ worker = "done" => "runner" \in done
    /\ "runner" \in done => "main" \in done \/ runtime = "closed"

\* The inductive invariant of the process (main, Runtime, Runner.Run).
IInv ==
    /\ TypeOK
    /\ \A c \in Callers : CallerKnows(c)
    /\ OneInCharge
    /\ ClosedBySomeone
    /\ FlagsMatch

=============================================================================

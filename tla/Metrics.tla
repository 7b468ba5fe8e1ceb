------------------------------ MODULE Metrics -------------------------------
(***************************************************************************)
(* app.Metrics: three atomic counters and a table of counts under a lock.  *)
(* Begin, End and Snapshot touch them one after the other; the steps of    *)
(* several requests and of a snapshot interleave between the atomic ones.  *)
(***************************************************************************)
EXTENDS Counting

CONSTANTS Served,       \* requests, each with one Begin and one End
          Paths

ASSUME FiniteServed == IsFiniteSet(Served) /\ IsFiniteSet(Paths)

VARIABLES counters,     \* requests, failures, active and the endpoints table
          serving,      \* how far each request is
          snapshot      \* the Snapshot: what it has read so far

metricsVars == <<counters, serving, snapshot>>

NotRead == [at |-> "idle", endpoints |-> 0, requests |-> 0, failures |-> 0, active |-> 0]

MetricsInit ==
    /\ counters = [requests |-> 0, failures |-> 0, active |-> 0, endpoints |-> [p \in Paths |-> 0]]
    /\ serving = [r \in Served |-> "new"]
    /\ snapshot = NotRead

\* Snapshot holds the lock for reading from its copy of the table to its return.
Locked == snapshot.at \notin {"idle", "returned"}

Step(r, from, to) == serving[r] = from /\ serving' = [serving EXCEPT ![r] = to]

\* Begin: requests.Add, active.Add, then the table under the lock.
CountRequest(r) ==
    /\ Step(r, "new", "counted")
    /\ counters' = [counters EXCEPT !.requests = @ + 1]
    /\ UNCHANGED snapshot

CountActive(r) ==
    /\ Step(r, "counted", "active")
    /\ counters' = [counters EXCEPT !.active = @ + 1]
    /\ UNCHANGED snapshot

\* BUG: the table is written without the lock.
Unguarded == TRUE

MayWrite == ~ Locked

CountPath(r) ==
    /\ MayWrite
    /\ Step(r, "active", "served")
    /\ \E p \in Paths : counters' = [counters EXCEPT !.endpoints[p] = @ + 1]
    /\ UNCHANGED snapshot

\* End: active.Add(-1), then failures.Add(1) unless the request succeeded.
Leave(r) ==
    /\ \E to \in {"failed", "ended"} : Step(r, "served", to)
    /\ counters' = [counters EXCEPT !.active = @ - 1]
    /\ UNCHANGED snapshot

CountFailure(r) ==
    /\ Step(r, "failed", "ended")
    /\ counters' = [counters EXCEPT !.failures = @ + 1]
    /\ UNCHANGED snapshot

TakeSnapshot ==
    /\ \/ /\ snapshot.at \in {"idle", "returned"}
          /\ snapshot' = [NotRead EXCEPT !.at = "requests",
                 !.endpoints = Total(counters.endpoints, Paths)]
       \/ /\ snapshot.at = "requests"
          /\ snapshot' = [snapshot EXCEPT !.at = "failures", !.requests = counters.requests]
       \/ /\ snapshot.at = "failures"
          /\ snapshot' = [snapshot EXCEPT !.at = "active", !.failures = counters.failures]
       \/ /\ snapshot.at = "active"
          /\ snapshot' = [snapshot EXCEPT !.at = "returned", !.active = counters.active]
    /\ UNCHANGED <<counters, serving>>

MetricsNext ==
    \/ TakeSnapshot
    \/ \E r \in Served :
          CountRequest(r) \/ CountActive(r) \/ CountPath(r) \/ Leave(r) \/ CountFailure(r)

MetricsSpec == MetricsInit /\ [][MetricsNext]_metricsVars

\* A snapshot adds up although its counters are read one after the other while
\* requests begin and end: it has no more failures than requests on its
\* endpoints, and no more of those than requests, because the lock it holds keeps
\* every new request out of End (Begin, End, Snapshot).
SnapshotAddsUp ==
    snapshot.at = "returned" =>
        /\ snapshot.failures <= snapshot.endpoints
        /\ snapshot.endpoints <= snapshot.requests

-----------------------------------------------------------------------------
(* The inductive invariant behind SnapshotAddsUp. *)

MetricsTypeOK ==
    /\ counters \in [requests : Nat, failures : Nat, active : Int, endpoints : [Paths -> Nat]]
    /\ serving \in [Served -> {"new", "counted", "active", "served", "failed", "ended"}]
    /\ snapshot \in [at : {"idle", "requests", "failures", "active", "returned"},
                     endpoints : Nat, requests : Nat, failures : Nat, active : Int]

Reached(stages) == { r \in Served : serving[r] \in stages }

\* Each counter counts the requests that are past the place where it is raised, and
\* a request is past those places one after the other (Begin, End).
CountersInv ==
    /\ counters.requests = Cardinality(Reached({"counted", "active", "served", "failed", "ended"}))
    /\ Total(counters.endpoints, Paths) = Cardinality(Reached({"served", "failed", "ended"}))
    /\ counters.failures <= Cardinality(Reached({"ended"}))

\* The lock keeps the table as it was copied until the snapshot has read the rest.
SnapshotInv ==
    /\ Locked => snapshot.endpoints = Total(counters.endpoints, Paths)
    /\ snapshot.at \in {"failures", "active", "returned"} => snapshot.endpoints <= snapshot.requests
    /\ snapshot.at \in {"active", "returned"} => snapshot.failures <= snapshot.endpoints

MetricsInv == MetricsTypeOK /\ CountersInv /\ SnapshotInv

=============================================================================

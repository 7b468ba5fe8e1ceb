----------------------------- MODULE AuditPages -----------------------------
(***************************************************************************)
(* A walk through the audit trail (internal/audit): calls of Service.Page  *)
(* follow each other with the cursor of the last, while other requests     *)
(* record events.  created_at is text and compared as text (TimeText).     *)
(* Identifiers are random, so an event may have any of them.  One tenant;  *)
(* Page filters by tenant.                                                 *)
(***************************************************************************)
EXTENDS TimeText, Counting, SequencesExt

CONSTANTS Events,      \* identifiers, a set of numbers that stands for the order of UUIDs
          Limits,      \* the limits callers ask for
          LastHalf     \* bound: the half seconds the clock runs

ASSUME EventAssumption == Events \subseteq Nat \ {0} /\ IsFiniteSet(Events)
ASSUME LimitAssumption == Limits \subseteq Nat
ASSUME LastHalfAssumption == LastHalf \in Nat

VARIABLES trailHalf,   \* the clock
          stamp,       \* created_at of each event, Unrecorded before the insert
          pages,       \* the events returned so far
          walk,        \* "new", "going" or "done"
          \* history variables
          begun,       \* the events the first call found in the table
          last         \* the events the last call found in the table

auditVars == <<trailHalf, stamp, pages, walk, begun, last>>

Unrecorded == LastHalf + 1

Recorded == { e \in Events : stamp[e] # Unrecorded }

AuditInit ==
    /\ trailHalf = 0
    /\ stamp = [e \in Events |-> Unrecorded]
    /\ pages = << >>
    /\ walk = "new"
    /\ begun = {} /\ last = {}

Second(e) == SecondOf(stamp[e])

\* ORDER BY created_at, id
Precedes(e, f) ==
    \/ TextRank(stamp[e]) < TextRank(stamp[f])
    \/ stamp[e] = stamp[f] /\ e < f

\* The rows of some events as a query returns them.
TrailOrder == { p \in Events \X Events : Precedes(p[1], p[2]) }

InOrder(rows) == Ranked(rows, TrailOrder)

\* BUG: events with the timestamp of the cursor are passed over.
LaterThanCursor(c) == { e \in Recorded : TextRank(stamp[c]) < TextRank(stamp[e]) }

\* created_at>? OR (created_at=? AND id>?)
BeyondCursor(c) == { e \in Recorded : Precedes(c, e) }

\* A limit out of range becomes the default.
PageLimit(n) == IF n = 0 \/ n > 100 THEN 25 ELSE n

Record(e) ==
    /\ stamp[e] = Unrecorded
    /\ stamp' = [stamp EXCEPT ![e] = trailHalf]
    /\ UNCHANGED <<trailHalf, pages, walk, begun, last>>

Tick ==
    /\ trailHalf < LastHalf
    /\ trailHalf' = trailHalf + 1
    /\ UNCHANGED <<stamp, pages, walk, begun, last>>

\* One row more than the limit is read: it says whether there is another page.
Page(n) ==
    LET limit == PageLimit(n)
        after == IF walk = "new" THEN Recorded ELSE BeyondCursor(Last(pages))
        rows  == InOrder(after)
    IN  /\ walk # "done"
        /\ pages' = pages \o SubSeq(rows, 1, Min({limit, Len(rows)}))
        /\ walk' = IF Len(rows) > limit THEN "going" ELSE "done"
        /\ begun' = IF walk = "new" THEN Recorded ELSE begun
        /\ last' = Recorded
        /\ UNCHANGED <<trailHalf, stamp>>

AuditNext == Tick \/ (\E e \in Events : Record(e)) \/ (\E n \in Limits : Page(n))

AuditSpec == AuditInit /\ [][AuditNext]_auditVars

\* Created.Before, with times compared as times.
TimeOrder ==
    { p \in Events \X Events :
        \/ stamp[p[1]] < stamp[p[2]]
        \/ stamp[p[1]] = stamp[p[2]] /\ p[1] < p[2] }

\* The events of a walk between two times, which belong to the range.
FilterEvents(found, from, until) ==
    Ranked({ e \in Range(found) : stamp[e] >= from /\ stamp[e] <= until }, TimeOrder)

\* Service.List: the oldest events, without a cursor.
List(n) ==
    LET rows == InOrder(Recorded)
    IN  SubSeq(rows, 1, Min({Len(rows), IF n = 0 \/ n > 200 THEN 50 ELSE n}))

\* A walk returns no event twice and is out of order only within a second, where
\* FilterEvents puts it right; when it is done it has returned every event that
\* was there when it began, and of those recorded meanwhile it misses only some
\* of a second that it had already begun to return.  List shows the beginning of
\* a walk nothing interfered with (Page, Record, FilterEvents, List).
WalkIsComplete ==
    LET returned == Range(pages)
        sorted   == FilterEvents(pages, 0, LastHalf)
    IN  /\ Len(pages) = Cardinality(returned)
        /\ \A i, j \in DOMAIN pages : i < j => Second(pages[i]) <= Second(pages[j])
        /\ \A i \in DOMAIN pages : Second(sorted[i]) = Second(pages[i])
        /\ walk = "done" =>
              /\ begun \subseteq returned
              /\ \A e \in last \ returned : \E f \in returned : Second(e) = Second(f)
              /\ Recorded = begun => \A n \in Limits : IsPrefix(List(n), pages)

=============================================================================

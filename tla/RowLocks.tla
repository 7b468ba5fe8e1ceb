------------------------------ MODULE RowLocks ------------------------------
(***************************************************************************)
(* storage.AcquireRow and ReleaseRow on the rows of bunker_windows, beside *)
(* the planners of module Schedule.  The lock and the claim share one      *)
(* column, owner_id.  A lock has no end: its ttl and the time are ignored. *)
(* transfer_orders, the other table AcquireRow admits, has no owner_id, so *)
(* there every call fails.                                                 *)
(***************************************************************************)
EXTENDS Schedule, FiniteSets

VARIABLES \* history variables
          granted,     \* who acquired each window and has not released it
          seized       \* how often each window was claimed or cancelled under a lock

lockVars == <<granted, seized>>

LockInit ==
    /\ ScheduleInit
    /\ granted = [w \in Windows |-> {}]
    /\ seized = [w \in Windows |-> 0]

\* BUG: any row of the table may be acquired.
AnyRow(w, who) == window[w] # "absent"

\* owner_id IS NULL OR owner_id=?
FreeFor(w, who) == window[w] # "absent" /\ owner[w] \in {None, who}

AcquireRow(w, who) ==
    /\ FreeFor(w, who)
    /\ owner' = [owner EXCEPT ![w] = who]
    /\ granted' = [granted EXCEPT ![w] = @ \cup {who}]
    /\ UNCHANGED <<terminal, window, site, span, seized>>

ReleaseRow(w, who) ==
    /\ owner[w] = who
    /\ owner' = [owner EXCEPT ![w] = None]
    /\ granted' = [granted EXCEPT ![w] = @ \ {who}]
    /\ UNCHANGED <<terminal, window, site, span, seized>>

\* ClaimWindow and CancelWindow overwrite owner_id whoever holds the row.
PlannerStep ==
    /\ \/ \E t \in Terminals : CreateTerminal(t)
       \/ \E w \in Windows, t \in Terminals, from, until \in 0..Horizon :
              CreateWindow(w, t, <<from, until>>)
       \/ \E w \in Windows, who \in Owners : ClaimWindow(w, who)
       \/ \E w \in Windows : CancelWindow(w, {})
    /\ seized' = [w \in Windows |->
                     IF window[w] # window'[w] /\ granted[w] # {} THEN seized[w] + 1 ELSE seized[w]]
    /\ UNCHANGED granted

LockNext == PlannerStep \/ \E w \in Windows, who \in Owners : AcquireRow(w, who) \/ ReleaseRow(w, who)

LockSpec == LockInit /\ [][LockNext]_<<scheduleVars, lockVars>>

\* Every holder finds its name in the row, but one for each time a planner claimed or
\* cancelled the window under a lock; so a lock nobody seized has one holder, a seizure
\* lets in one more at most, and releases never open the row to a second one
\* (AcquireRow, ReleaseRow, ClaimWindow, CancelWindow).
OneHolderPerSeizure ==
    \A w \in Windows : Cardinality(granted[w] \ {owner[w]}) <= seized[w]

=============================================================================

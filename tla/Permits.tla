------------------------------ MODULE Permits -------------------------------
(***************************************************************************)
(* Safety permits as values (internal/permit): every operation returns a   *)
(* changed copy and leaves its receiver alone.  Holders keep a value each  *)
(* and hand values to each other, so an old value may be used again.       *)
(***************************************************************************)
EXTENDS Naturals, FiniteSets

CONSTANTS Holders,
          Codes,       \* the codes of StandardChecks, all of them required
          Terms,       \* durations a permit is issued for
          LastDay,     \* bound: the days the clock runs
          MaxVersion   \* bound: how often one value is changed

ASSUME TermAssumption == Terms \subseteq Nat \ {0}
ASSUME CodesAssumption == IsFiniteSet(Codes)
ASSUME LastDayAssumption == LastDay \in Nat

VARIABLES held,        \* the value each holder keeps
          done,        \* its completed checks: the slice, which copies could share
          today,
          \* history variable
          doneBy       \* the checks completed in the calls that led to each value

permitVars == <<held, done, today, doneBy>>

Fresh == [status |-> "pending", issued |-> 0, expires |-> 0, version |-> 1]

\* New, for every holder.
PermitInit ==
    /\ held = [h \in Holders |-> Fresh]
    /\ done = [h \in Holders |-> {}]
    /\ today = 0
    /\ doneBy = [h \in Holders |-> {}]

Changed(h, value) == held' = [held EXCEPT ![h] = [value EXCEPT !.version = @ + 1]]

Missing(h) == Codes \ done[h]

\* BUG: the slice of checks is not copied: values of one version share it.
MarkShared(h, code) ==
    done' = [g \in Holders |-> IF g = h \/ held[g].version = held[h].version
                               THEN done[g] \cup {code} ELSE done[g]]

\* Copy copies the slice before the check is marked.
Mark(h, code) == done' = [done EXCEPT ![h] = @ \cup {code}]

\* A check can be completed again, by another actor.
Complete(h, code) ==
    /\ held[h].status = "pending" /\ held[h].version < MaxVersion
    /\ Mark(h, code)
    /\ Changed(h, held[h])
    /\ doneBy' = [doneBy EXCEPT ![h] = @ \cup {code}]
    /\ UNCHANGED today

Ready(h) == held[h].status = "pending" /\ Missing(h) = {}

Issue(h, term) ==
    /\ Ready(h)
    /\ Changed(h, [held[h] EXCEPT !.status = "approved", !.issued = today, !.expires = today + term])
    /\ UNCHANGED <<done, today, doneBy>>

Active(h, day) == held[h].status = "approved" /\ held[h].issued <= day /\ day < held[h].expires

\* An expired permit can be revoked, too.
Revoke(h) ==
    /\ held[h].status = "approved"
    /\ Changed(h, [held[h] EXCEPT !.status = "revoked"])
    /\ UNCHANGED <<done, today, doneBy>>

\* A holder replaces its value by another's.
HandOver(h, g) ==
    /\ held' = [held EXCEPT ![g] = held[h]]
    /\ done' = [done EXCEPT ![g] = done[h]]
    /\ doneBy' = [doneBy EXCEPT ![g] = doneBy[h]]
    /\ UNCHANGED today

NextDay ==
    /\ today < LastDay
    /\ today' = today + 1
    /\ UNCHANGED <<held, done, doneBy>>

PermitNext ==
    \/ NextDay
    \/ \E h \in Holders :
          \/ \E code \in Codes : Complete(h, code)
          \/ \E term \in Terms : Issue(h, term)
          \/ Revoke(h)
          \/ \E g \in Holders \ {h} : HandOver(h, g)

PermitSpec == PermitInit /\ [][PermitNext]_permitVars

\* A value that was ever issued has every required check completed by a call that led
\* to this value, none of another holder's; its version counts those calls at
\* least, and it is active on the days of its term only (Complete, Issue, Copy).
PermitEarned ==
    \A h \in Holders :
        /\ done[h] = doneBy[h]
        /\ held[h].version > Cardinality(done[h])
        /\ held[h].status # "pending" => Missing(h) = {} /\ held[h].issued < held[h].expires
        /\ \A day \in 0..(LastDay + 1) :
              Active(h, day) => doneBy[h] = Codes /\ day \in held[h].issued..(held[h].expires - 1)

=============================================================================

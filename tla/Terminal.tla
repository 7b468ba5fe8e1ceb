------------------------------ MODULE Terminal ------------------------------
(***************************************************************************)
(* Archiving a terminal (terminal.Service.Archive), composed with          *)
(* everything it counts: the windows of the terminal, the leases of their  *)
(* orders and the pending messages of the outbox.  Archive runs its count  *)
(* and its update as two statements without a transaction, so any handler  *)
(* of module Bunkering can come between them.                              *)
(*                                                                         *)
(* lease_until is modelled by what now is to it.  Both are texts, which    *)
(* may be compared either way while now is within the second of            *)
(* lease_until (TimeText), so there is a state between a lease that runs   *)
(* and one that is over.  The outbox is modelled by whether any message is *)
(* pending.                                                                *)
(***************************************************************************)
EXTENDS Bunkering

VARIABLES archive,   \* where the call of Archive on each terminal is
          live,      \* orders whose lease runs on for a second or more
          ending,    \* orders whose lease ends within the second
          backlog,   \* some message of the outbox is pending
          \* history variable
          late       \* windows created between the two statements of an Archive

archiveVars  == <<archive, live, ending, backlog, late>>
terminalVars == <<vars, archiveVars>>

ArchiveTypeOK ==
    /\ archive \in [Terminals -> {"idle", "counted"}]
    /\ live    \subseteq Orders
    /\ ending  \subseteq Orders \ live
    /\ backlog \in BOOLEAN
    /\ late    \subseteq Windows

TerminalInit ==
    /\ Init
    /\ archive = [t \in Terminals |-> "idle"]
    /\ live    = {}
    /\ ending  = {}
    /\ backlog = FALSE
    /\ late    = {}

\* BUG: claimed windows are not counted.
NothingActiveButClaims(t) ==
    \A w \in Windows :
        site[w] = t => window[w] # "open" /\ ActiveOrders(w) \cap live = {} /\ ~ backlog

\* The count is zero.  A terminal without windows is never busy; one with a
\* cancelled window waits for the leases of the window's active orders, which
\* recovery may have left there, and for the whole outbox.  A lease that ends
\* within the second may be counted or not; here it is not.
NothingActive(t) ==
    \A w \in Windows :
        site[w] = t =>
            /\ window[w] = "cancelled"
            /\ ActiveOrders(w) \cap live = {}
            /\ ~ backlog

Count(t) ==
    /\ archive[t] = "idle"
    /\ NothingActive(t)
    /\ archive' = [archive EXCEPT ![t] = "counted"]
    /\ UNCHANGED <<vars, live, ending, backlog, late>>

\* UPDATE ... WHERE status='active'; or the call is cut off before it.
Update(t) ==
    /\ archive[t] = "counted"
    /\ archive' = [archive EXCEPT ![t] = "idle"]
    /\ \/ terminal[t] = "active" /\ terminal' = [terminal EXCEPT ![t] = "archived"]
       \/ UNCHANGED terminal
    /\ UNCHANGED <<orderVars, invoice, trailVars, historyVars, fuelVars, qualityVars,
                   window, site, span, owner, live, ending, backlog, late>>

\* BUG: whether the lease still runs is not asked.
MayRenewAtAnyTime(o, who) == state[o] = "transferring" /\ lease[o] = who

\* lease_until>?
MayRenew(o, who) ==
    /\ state[o] = "transferring"
    /\ lease[o] = who
    /\ o \in live \cup ending

\* lease_until is five minutes from now, which the caller hands in; here it is the clock.
RenewLease(o, who) ==
    /\ MayRenew(o, who)
    /\ live' = live \cup {o}
    /\ ending' = ending \ {o}
    /\ UNCHANGED <<vars, archive, backlog, late>>

LeaseNearsEnd(o) ==
    /\ o \in live
    /\ live' = live \ {o}
    /\ ending' = ending \cup {o}
    /\ UNCHANGED <<vars, archive, backlog, late>>

LeaseEnds(o) ==
    /\ o \in ending
    /\ ending' = ending \ {o}
    /\ UNCHANGED <<vars, archive, live, backlog, late>>

\* The runner has sent or given up every message (module Outbox).
Drain ==
    /\ backlog
    /\ backlog' = FALSE
    /\ UNCHANGED <<vars, archive, live, ending, late>>

\* The leases that run after a handler: a new one does, a cleared one does not.
LeasesFollow ==
    /\ live' = { o \in Orders : lease'[o] # None /\ (o \in live \/ lease[o] = None) }
    /\ ending' = { o \in ending : lease'[o] # None }

LateFollows ==
    late' = late \cup { w \in Windows : /\ window[w] = "absent"
                                        /\ window'[w] = "open"
                                        /\ archive[site'[w]] = "counted" }

AnnouncedStep ==
    \/ \E o \in Orders : AnnouncedOrderStep(o)
    \/ /\ AnnouncedWindowStep
       /\ UNCHANGED <<orderVars, invoice, trailVars, historyVars, fuelVars, qualityVars>>

QuietStep ==
    \/ \E o \in Orders : QuietOrderStep(o)
    \/ \E batch \in SUBSET Orders : BatchComplete(batch)
    \/ /\ QuietWindowStep
       /\ UNCHANGED <<orderVars, invoice, trailVars, historyVars, fuelVars, qualityVars>>
    \/ /\ LotStep
       /\ UNCHANGED <<orderVars, invoice, trailVars, historyVars, qualityVars, scheduleVars>>
    \/ /\ ReviewStep
       /\ UNCHANGED <<orderVars, invoice, trailVars, historyVars, fuelVars, scheduleVars>>

HandlerStep ==
    /\ \/ AnnouncedStep /\ backlog' = TRUE
       \/ QuietStep /\ UNCHANGED backlog
    /\ LeasesFollow
    /\ LateFollows
    /\ UNCHANGED archive

ArchiveStep ==
    \/ \E t \in Terminals : Count(t) \/ Update(t)
    \/ \E o \in Orders : \/ LeaseNearsEnd(o) \/ LeaseEnds(o)
                         \/ \E who \in Workers : RenewLease(o, who)
    \/ Drain

TerminalNext == HandlerStep \/ ArchiveStep

TerminalSpec == TerminalInit /\ [][TerminalNext]_terminalVars

-----------------------------------------------------------------------------
(* internal/schedule/calendar.go, on the windows of one terminal. *)

\* Slots: those marked available.
AvailableSlots(t, now) ==
    { w \in Windows : site[w] = t /\ window[w] = "open" /\ span[w][1] > now /\ terminal[t] = "active" }

AvailableAt(w, at) == window[w] = "open" /\ span[w][1] <= at /\ at < span[w][2]

-----------------------------------------------------------------------------
(* Properties. *)

\* The handlers keep their invariants when terminals are archived under them.
TerminalTypeOK == TypeOK /\ ArchiveTypeOK

\* A window is open or claimed at an archived terminal only if it was created
\* between the two statements of Archive (Archive, CreateWindow).
ArchivedIdleExceptLate ==
    \A w \in Windows :
        window[w] \in {"open", "claimed"} /\ terminal[site[w]] = "archived" => w \in late

\* An order is under way at an archived terminal only through such a window, or
\* because recovery returned it to planning afterwards (Archive, Create, Replay).
StrandedOnlyByRaceOrReplay ==
    \A o \in Orders :
        state[o] \in ActiveStates /\ terminal[site[berth[o]]] = "archived"
            => berth[o] \in late \/ replays[o] > 0

\* A lease begins to run only when its order draws its fuel, and once it is over
\* nothing revives it: neither a late renewal nor recovery, an incident or a batch that
\* left the lease behind (StartTransfer, RenewLease, Replay, Open, BatchComplete).
LeaseOverForGood ==
    [][\A o \in live' \ (live \cup ending) : draws'[o] = draws[o] + 1]_terminalVars

\* The second that a window ends in is the one that the other begins in.
MeetIn(v, w, second) == SecondOf(span[v][2]) = second /\ SecondOf(span[w][1]) = second

\* The calendar offers two windows of a terminal at one moment only within a second in
\* which one of them ends and the other begins, and available slots start at one time
\* only if one of them is over within the second; so windows of whole seconds never
\* overlap and their sort has one result, whatever was claimed, cancelled or created in
\* between (CreateWindow compares the texts of 'open' windows only; Slots, AvailableAt).
OverlapWithinSecond ==
    \A t \in Terminals, v, w \in Windows : v # w /\ {site[v], site[w]} = {t} =>
        \A at \in 0..Horizon :
            /\ AvailableAt(v, at) /\ AvailableAt(w, at) =>
                  MeetIn(v, w, SecondOf(at)) \/ MeetIn(w, v, SecondOf(at))
            /\ {v, w} \subseteq AvailableSlots(t, at) /\ span[v][1] = span[w][1] =>
                  \E x \in {v, w} : MeetIn(x, x, SecondOf(span[x][1]))

\* terminal/service.go: "terminal has active windows": an archived terminal has
\* none (Archive counts and archives in two statements).
ArchivedHasNoActiveWindow ==
    \A w \in Windows :
        window[w] \in {"open", "claimed"} => terminal[site[w]] # "archived"

=============================================================================

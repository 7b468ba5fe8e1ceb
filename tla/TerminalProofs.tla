--------------------------- MODULE TerminalProofs ---------------------------
(***************************************************************************)
(* What holds while terminals are archived under the handlers, for any     *)
(* terminals, windows, orders and lengths of a lease.  A handler step of   *)
(* Terminal is a step of Bunkering, whose invariant is taken from          *)
(* BunkeringProofs; what is new is the state between the two statements of *)
(* Archive, the running leases and the order of the windows.               *)
(***************************************************************************)
EXTENDS Terminal, BunkeringProofs

\* A window on record is at a terminal and ends after it starts; one not on record
\* is nowhere.
Placed(w) ==
    /\ window[w] = "absent" => site[w] = None
    /\ window[w] # "absent" => site[w] \in Terminals /\ span[w][1] < span[w][2]

\* From the count on, the only windows of the terminal are late ones; the archived
\* terminal gets no others.
Emptied(t) ==
    archive[t] = "counted" \/ terminal[t] = "archived" =>
        \A w \in Windows : site[w] = t /\ window[w] \in {"open", "claimed"} => w \in late

\* Why an order still has a lease.
Earned(o) ==
    lease[o] # None =>
        \/ state[o] \in {"transferring", "sampled"}
        \/ "incident.opened" \in outbox[o]
        \/ state[o] = "completed" /\ "bunkering.completed" \notin outbox[o]

Apart(v, w) ==
    site[v] = site[w] /\ window[v] = "open" /\ window[w] = "open" => ~ Overlap(span[v], span[w])

TInv ==
    /\ IInv
    /\ ArchiveTypeOK
    /\ \A w \in Windows : Placed(w)
    /\ \A t \in Terminals : Emptied(t)
    /\ \A o \in Orders : Earned(o)
    /\ \A o \in live \cup ending : lease[o] # None
    /\ \A v, w \in Windows : v # w => Apart(v, w)

\* Texts of different seconds are in the order of the times.
LEMMA TextOrder ==
    \A t, u \in Nat :
        /\ TextRank(t) \in Nat /\ SecondOf(t) \in Nat
        /\ TextRank(t) = TextRank(u) => t = u
        /\ TextRank(t) <= TextRank(u) => SecondOf(t) <= SecondOf(u)
        /\ t <= u => SecondOf(t) <= SecondOf(u)
BY DEF TextRank, SecondOf

\* The empty database.
LEMMA TInvInit == TerminalInit => TInv
<1> SUFFICES ASSUME TerminalInit PROVE TInv
  OBVIOUS
<1>1. IInv
  BY IInvInit DEF TerminalInit
<1>2. ArchiveTypeOK /\ \A t \in Terminals : Emptied(t)
  BY DEF TerminalInit, Init, ScheduleInit, ArchiveTypeOK, Emptied
<1>3. /\ \A w \in Windows : Placed(w)
      /\ \A o \in Orders : Earned(o)
      /\ \A o \in live \cup ending : lease[o] # None
      /\ \A v, w \in Windows : v # w => Apart(v, w)
  BY DEF TerminalInit, Init, ScheduleInit, Placed, Earned, Apart
<1> QED BY <1>1, <1>2, <1>3 DEF TInv

-----------------------------------------------------------------------------
(* The handlers. *)

\* The announced and the quiet handlers are the handlers of Bunkering.
LEMMA HandlerIsStep == HandlerStep => Next
BY DEF HandlerStep, AnnouncedStep, QuietStep, Next, OrderStep, ScheduleStep

\* A handler of the windows, or one that leaves them alone.
LEMMA ScheduleCases ==
    ASSUME Next
    PROVE  UNCHANGED scheduleVars \/ ScheduleStep
BY DEF Next, OrderStep, AnnouncedOrderStep, QuietOrderStep, Create, Approve, MarkAlongside,
       StartTransfer, CompleteStep, Complete, Abort, OpenIncident, Replay, Generate,
       ReceiveSamples, BatchComplete, LotStep, ReviewStep

\* What the handlers of windows do to one of them: create it, claim it or cancel it.
LEMMA WindowMoves ==
    ASSUME ScheduleTypeOK, Next, NEW w \in Windows
    PROVE  \/ window'[w] = window[w] /\ site'[w] = site[w] /\ span'[w] = span[w]
           \/ /\ window[w] = "absent" /\ window'[w] = "open"
              /\ site'[w] \in Terminals /\ terminal[site'[w]] = "active"
              /\ span'[w][1] < span'[w][2]
              /\ Clashes(site'[w], span'[w]) = {}
              /\ \A v \in Windows \ {w} :
                    window'[v] = window[v] /\ site'[v] = site[v] /\ span'[v] = span[v]
           \/ /\ window[w] \in {"open", "claimed"} /\ window'[w] \in {"claimed", "cancelled"}
              /\ site'[w] = site[w] /\ span'[w] = span[w]
<1>1. CASE UNCHANGED scheduleVars
  BY <1>1 DEF scheduleVars
<1> USE DEF ScheduleTypeOK
<1>2. ASSUME NEW t \in Terminals, CreateTerminal(t) PROVE UNCHANGED <<window, site, span>>
  BY <1>2 DEF CreateTerminal
<1>3. ASSUME NEW x \in Windows, NEW t \in Terminals, NEW from \in 0..Horizon,
             NEW until \in 0..Horizon, CreateWindow(x, t, <<from, until>>)
      PROVE  \/ window'[w] = window[w] /\ site'[w] = site[w] /\ span'[w] = span[w]
             \/ /\ window[w] = "absent" /\ window'[w] = "open"
                /\ site'[w] \in Terminals /\ terminal[site'[w]] = "active"
                /\ span'[w][1] < span'[w][2]
                /\ Clashes(site'[w], span'[w]) = {}
                /\ \A v \in Windows \ {w} :
                      window'[v] = window[v] /\ site'[v] = site[v] /\ span'[v] = span[v]
  <2>1. /\ window' = [window EXCEPT ![x] = "open"]
        /\ site' = [site EXCEPT ![x] = t]
        /\ span' = [span EXCEPT ![x] = <<from, until>>]
        /\ window[x] = "absent" /\ from < until /\ terminal[t] = "active"
        /\ Clashes(t, <<from, until>>) = {}
    BY <1>3 DEF CreateWindow, InsertWindow
  <2>2. CASE x # w
    BY <2>1, <2>2
  <2>3. CASE x = w
    <3>1. window'[w] = "open" /\ site'[w] = t /\ span'[w] = <<from, until>>
      BY <2>1, <2>3
    <3>2. Clashes(site'[w], span'[w]) = {}
      BY <2>1, <3>1
    <3> QED BY <2>1, <2>3, <3>1, <3>2
  <2> QED BY <2>2, <2>3
<1>4. ASSUME NEW x \in Windows, NEW who \in Owners, ClaimWindow(x, who)
      PROVE  \/ window'[w] = window[w] /\ site'[w] = site[w] /\ span'[w] = span[w]
             \/ /\ window[w] \in {"open", "claimed"} /\ window'[w] \in {"claimed", "cancelled"}
                /\ site'[w] = site[w] /\ span'[w] = span[w]
  BY <1>4 DEF ClaimWindow
<1>5. ASSUME NEW x \in Windows, CancelWindow(x, ActiveOrders(x))
      PROVE  \/ window'[w] = window[w] /\ site'[w] = site[w] /\ span'[w] = span[w]
             \/ /\ window[w] \in {"open", "claimed"} /\ window'[w] \in {"claimed", "cancelled"}
                /\ site'[w] = site[w] /\ span'[w] = span[w]
  BY <1>5 DEF CancelWindow, MayCancelWindow
<1> QED BY <1>1, <1>2, <1>3, <1>4, <1>5, ScheduleCases
        DEF ScheduleStep, AnnouncedWindowStep, QuietWindowStep

\* No handler archives a terminal.
LEMMA TerminalMoves ==
    ASSUME ScheduleTypeOK, Next, NEW t \in Terminals, terminal'[t] = "archived"
    PROVE  terminal[t] = "archived"
<1>1. ASSUME NEW x \in Terminals, CreateTerminal(x) PROVE terminal[t] = "archived"
  BY <1>1 DEF CreateTerminal, ScheduleTypeOK
<1> QED BY <1>1, ScheduleCases
        DEF ScheduleStep, AnnouncedWindowStep, QuietWindowStep, scheduleVars, CreateWindow,
            InsertWindow, ClaimWindow, CancelWindow

\* An order keeps a reason for its lease: Complete and Abort end the lease, an incident
\* is announced, a batch announces nothing.
LEMMA EarnedStep ==
    ASSUME TypeOK, Next, NEW x \in Orders, Core(x), Earned(x)
    PROVE  Earned(x)'
<1> USE DEF Earned, TypeOK, OrderTypeOK, MoveTo, Announce, Record, Enqueue, historyVars,
            trailVars, orderVars
<1>1. ASSUME NEW w \in Windows, NEW l \in Lots, NEW q \in Quantities, Create(x, w, l, q)
      PROVE  Earned(x)'
  BY <1>1 DEF Create
<1>2. CASE Approve(x)
  BY <1>2 DEF Approve, MayApprove
<1>3. CASE MarkAlongside(x)
  BY <1>3 DEF MarkAlongside
<1>4. ASSUME NEW who \in Workers, StartTransfer(x, who)
      PROVE  Earned(x)'
  BY <1>4 DEF StartTransfer
<1>5. ASSUME NEW p \in Positions, CompleteStep(x, p)
      PROVE  Earned(x)'
  BY <1>5 DEF CompleteStep
<1>6. CASE Complete(x)
  BY <1>6 DEF Complete, EndLease
<1>7. CASE Abort(x)
  BY <1>7 DEF Abort, EndLease
<1>8. CASE OpenIncident(x)
  BY <1>8 DEF OpenIncident
<1>9. CASE Replay(x)
  BY <1>9 DEF Replay, MayReplay
<1>10. CASE Generate(x)
  BY <1>10 DEF Generate
<1>11. ASSUME NEW refs \in SUBSET Samples, ReceiveSamples(x, refs)
       PROVE  Earned(x)'
  BY <1>11 DEF ReceiveSamples
<1>12. ASSUME NEW batch \in SUBSET Orders, BatchComplete(batch)
       PROVE  Earned(x)'
  BY <1>12 DEF BatchComplete, Core
<1> HIDE DEF Earned, TypeOK, OrderTypeOK, MoveTo, Announce, Record, Enqueue, historyVars,
             trailVars, orderVars
<1>13. ASSUME NEW o \in Orders, OrderStep(o), o # x
       PROVE  Earned(x)'
  BY <1>13, OrderStepFrame DEF RowsOf, Earned
<1>14. CASE OtherStep
  BY <1>14 DEF OtherStep, Earned, orderVars, trailVars
<1>15. OrderStep(x) => Earned(x)'
  BY <1>1, <1>2, <1>3, <1>4, <1>5, <1>6, <1>7, <1>8, <1>9, <1>10, <1>11
     DEF OrderStep, AnnouncedOrderStep, QuietOrderStep
<1> QED BY <1>12, <1>13, <1>14, <1>15, StepCases

\* A handler keeps the whole invariant.
LEMMA HandlerKeepsTInv == TInv /\ HandlerStep => TInv'
<1> SUFFICES ASSUME TInv, HandlerStep PROVE TInv'
  OBVIOUS
<1>0. Next /\ LeasesFollow /\ LateFollows /\ archive' = archive
  BY HandlerIsStep DEF HandlerStep
<1>1. IInv /\ IInv'
  BY <1>0, IInvStep DEF TInv
<1>2. TypeOK /\ ScheduleTypeOK /\ ScheduleTypeOK' /\ \A o \in Orders : Core(o)
  BY <1>1, IInvByOrder DEF TypeOK, IInv
<1>3. ArchiveTypeOK'
  BY <1>0 DEF TInv, ArchiveTypeOK, HandlerStep, LeasesFollow, LateFollows
<1>4. ASSUME NEW w \in Windows PROVE Placed(w)'
  BY <1>0, <1>2, WindowMoves DEF TInv, Placed
<1>5. ASSUME NEW t \in Terminals PROVE Emptied(t)'
  <2> SUFFICES ASSUME archive'[t] = "counted" \/ terminal'[t] = "archived",
                      NEW w \in Windows, site'[w] = t, window'[w] \in {"open", "claimed"}
               PROVE  w \in late'
    BY DEF Emptied
  <2>1. archive[t] = "counted" \/ terminal[t] = "archived"
    BY <1>0, <1>2, TerminalMoves
  <2>2. CASE window[w] = "absent" /\ window'[w] = "open" /\ terminal[t] = "active"
    BY <1>0, <2>1, <2>2 DEF LateFollows
  <2>3. CASE site[w] = t /\ window[w] \in {"open", "claimed"}
    BY <1>0, <2>1, <2>3 DEF TInv, Emptied, LateFollows
  <2> QED BY <1>0, <1>2, <2>2, <2>3, WindowMoves
<1>6. ASSUME NEW o \in Orders PROVE Earned(o)'
  BY <1>0, <1>2, EarnedStep DEF TInv
<1>7. \A o \in live' \cup ending' : lease'[o] # None
  BY <1>0 DEF LeasesFollow
<1>8. ASSUME NEW v \in Windows, NEW w \in Windows, v # w,
             site'[v] = site'[w], window'[v] = "open", window'[w] = "open"
      PROVE  ~ Overlap(span[v], span[w])'
  <2> DEFINE Same(x) == window'[x] = window[x] /\ site'[x] = site[x] /\ span'[x] = span[x]
             Created(x, y) == /\ Clashes(site'[x], span'[x]) = {}
                              /\ Same(y)
  <2>1. (Same(v) /\ Same(w)) \/ Created(v, w) \/ Created(w, v)
    BY <1>0, <1>2, <1>8, WindowMoves
  <2>2. CASE Same(v) /\ Same(w)
    BY <1>8, <2>2 DEF TInv, Apart, Overlap
  <2>3. ASSUME NEW x \in Windows, NEW y \in Windows, Created(x, y),
               site'[x] = site'[y], window'[y] = "open"
        PROVE  ~ Overlap(span'[y], span'[x])
    BY <2>3 DEF Clashes
  <2>4. Overlap(span'[v], span'[w]) <=> Overlap(span'[w], span'[v])
    BY <1>2, TextOrder, HorizonAssumption DEF Overlap, ScheduleTypeOK
  <2>5. Overlap(span[v], span[w])' <=> Overlap(span'[v], span'[w])
    BY DEF Overlap
  <2> HIDE DEF Created
  <2> QED BY <1>8, <2>1, <2>2, <2>3, <2>4, <2>5
<1>9. \A v, w \in Windows : v # w => Apart(v, w)'
  BY <1>8 DEF Apart
<1> QED BY <1>1, <1>3, <1>4, <1>5, <1>6, <1>7, <1>9 DEF TInv

-----------------------------------------------------------------------------
(* Archive, the clock and the outbox. *)

\* The invariant of the orders does not ask whether a terminal is archived.
LEMMA UpdateKeepsIInv ==
    ASSUME IInv, NEW t \in Terminals, Update(t)
    PROVE  IInv'
<1>1. /\ UNCHANGED <<orderVars, invoice, trailVars, historyVars, fuelVars, qualityVars,
                     window, site, span, owner>>
      /\ terminal' \in {terminal, [terminal EXCEPT ![t] = "archived"]}
  BY DEF Update
<1>2. TypeOK'
  <2>1. OrderTypeOK' /\ FuelTypeOK' /\ QualityTypeOK'
    BY <1>1 DEF IInv, TypeOK, OrderTypeOK, FuelTypeOK, QualityTypeOK, orderVars, trailVars,
                historyVars, fuelVars, qualityVars
  <2>2. ScheduleTypeOK'
    BY <1>1 DEF IInv, TypeOK, ScheduleTypeOK
  <2> QED BY <2>1, <2>2 DEF TypeOK
<1>3. ASSUME NEW o \in Orders
      PROVE  (FreshUntilApproved(o) /\ RowIsWhole(o))'
  BY <1>1 DEF IInv, FreshUntilApproved, RowIsWhole, orderVars, trailVars, historyVars
<1>4. DrawnOnce' /\ StepsInOrder' /\ ActiveOrderHasWindow'
  BY <1>1 DEF IInv, DrawnOnce, HoldsFuel, StepsInOrder, ActiveOrderHasWindow, orderVars,
              trailVars, historyVars
<1>5. CompletionBacked'
  BY <1>1 DEF IInv, CompletionBacked, ApprovedForOrder, orderVars, trailVars, historyVars,
              qualityVars
<1> QED BY <1>2, <1>3, <1>4, <1>5 DEF IInv

\* Statements that read the tables and change none.
LEMMA FrameKeepsTInv ==
    ASSUME TInv, UNCHANGED vars, UNCHANGED late,
           live' \cup ending' \subseteq live \cup ending, live' \cap ending' = {},
           archive' \in [Terminals -> {"idle", "counted"}], backlog' \in BOOLEAN,
           \A t \in Terminals : Emptied(t)'
    PROVE  TInv'
<1>1. IInv'
  BY IInvStep DEF TInv
<1>2. UNCHANGED <<window, site, span, state, lease, outbox>>
  BY DEF vars, orderVars, trailVars, scheduleVars
<1>3. ArchiveTypeOK'
  BY DEF TInv, ArchiveTypeOK
<1>4. /\ \A w \in Windows : Placed(w)'
      /\ \A o \in Orders : Earned(o)'
      /\ \A o \in live' \cup ending' : lease'[o] # None
      /\ \A v, w \in Windows : v # w => Apart(v, w)'
  BY <1>2 DEF TInv, Placed, Earned, Apart, Overlap
<1> QED BY <1>1, <1>3, <1>4 DEF TInv

LEMMA ArchiveKeepsTInv == TInv /\ ArchiveStep => TInv'
<1> SUFFICES ASSUME TInv, ArchiveStep PROVE TInv'
  OBVIOUS
<1>0. archive \in [Terminals -> {"idle", "counted"}] /\ backlog \in BOOLEAN
  BY DEF TInv, ArchiveTypeOK
<1>d. live \cap ending = {}
  BY DEF TInv, ArchiveTypeOK
<1>s. UNCHANGED vars => UNCHANGED <<window, site, terminal>>
  BY DEF vars, scheduleVars
<1>1. ASSUME NEW t \in Terminals, Count(t) PROVE TInv'
  <2>1. ASSUME NEW x \in Terminals PROVE Emptied(x)'
    <3>1. CASE x = t
      BY <1>0, <1>1, <1>s, <3>1 DEF Count, NothingActive, Emptied
    <3>2. CASE x # t
      BY <1>0, <1>1, <1>s, <3>2 DEF Count, Emptied, TInv
    <3> QED BY <3>1, <3>2
  <2> QED BY <1>0, <1>1, <1>d, <2>1, FrameKeepsTInv DEF Count
<1>2. ASSUME NEW t \in Terminals, Update(t) PROVE TInv'
  <2>1. IInv'
    BY <1>2, UpdateKeepsIInv DEF TInv
  <2>2. /\ UNCHANGED <<window, site, span, state, lease, outbox, live, ending, backlog, late>>
        /\ archive[t] = "counted" /\ archive' = [archive EXCEPT ![t] = "idle"]
        /\ terminal' \in {terminal, [terminal EXCEPT ![t] = "archived"]}
    BY <1>2 DEF Update, orderVars, trailVars
  <2>3. ASSUME NEW x \in Terminals PROVE Emptied(x)'
    <3>1. terminal \in [Terminals -> {"absent", "active", "archived"}]
      BY DEF TInv, IInv, TypeOK, ScheduleTypeOK
    <3>2. archive'[x] = "counted" \/ terminal'[x] = "archived"
          => archive[x] = "counted" \/ terminal[x] = "archived"
      BY <1>0, <2>2, <3>1
    <3> QED BY <2>2, <3>2 DEF TInv, Emptied
  <2>4. /\ ArchiveTypeOK'
        /\ \A w \in Windows : Placed(w)'
        /\ \A o \in Orders : Earned(o)'
        /\ \A o \in live' \cup ending' : lease'[o] # None
        /\ \A v, w \in Windows : v # w => Apart(v, w)'
    BY <1>0, <2>2 DEF TInv, ArchiveTypeOK, Placed, Earned, Apart, Overlap
  <2> QED BY <2>1, <2>3, <2>4 DEF TInv
<1>3. ASSUME UNCHANGED <<vars, archive, late>>, backlog' \in BOOLEAN,
             live' \cup ending' \subseteq live \cup ending, live' \cap ending' = {}
      PROVE  TInv'
  <2>1. \A t \in Terminals : Emptied(t)'
    BY <1>3, <1>s DEF TInv, Emptied
  <2> QED BY <1>0, <1>3, <2>1, FrameKeepsTInv
<1>4. ASSUME NEW o \in Orders, LeaseNearsEnd(o) \/ LeaseEnds(o) PROVE TInv'
  BY <1>0, <1>3, <1>4, <1>d DEF LeaseNearsEnd, LeaseEnds
<1>5. ASSUME NEW o \in Orders, NEW who \in Workers, RenewLease(o, who) PROVE TInv'
  BY <1>0, <1>3, <1>5, <1>d DEF RenewLease, MayRenew
<1>6. ASSUME Drain PROVE TInv'
  BY <1>3, <1>6, <1>d DEF Drain
<1> QED BY <1>1, <1>2, <1>4, <1>5, <1>6 DEF ArchiveStep

\* The inductive invariant of archiving beside the handlers.
THEOREM TerminalInductive == TerminalSpec => []TInv
<1>1. TInv /\ UNCHANGED terminalVars => TInv'
  <2> SUFFICES ASSUME TInv, UNCHANGED terminalVars PROVE TInv'
    OBVIOUS
  <2>1. UNCHANGED vars /\ UNCHANGED <<archive, live, ending, backlog, late>>
    BY DEF terminalVars, archiveVars
  <2>2. UNCHANGED <<window, site, terminal>>
    BY <2>1 DEF vars, scheduleVars
  <2>3. \A t \in Terminals : Emptied(t)'
    BY <2>1, <2>2 DEF TInv, Emptied
  <2> QED BY <2>1, <2>3, FrameKeepsTInv DEF TInv, ArchiveTypeOK
<1>2. TInv /\ [TerminalNext]_terminalVars => TInv'
  BY <1>1, HandlerKeepsTInv, ArchiveKeepsTInv DEF TerminalNext
<1> QED BY <1>2, TInvInit, PTL DEF TerminalSpec

-----------------------------------------------------------------------------
(* What follows. *)

\* The handlers keep their types, and their own invariant, when terminals are archived
\* under them.
THEOREM TerminalTypeCorrect == TerminalSpec => [](TerminalTypeOK /\ IInv)
<1>1. TInv => TerminalTypeOK /\ IInv
  BY DEF TInv, TerminalTypeOK, IInv
<1> QED BY <1>1, TerminalInductive, PTL

\* An order that recovery has not touched keeps its window, with archiving too.
THEOREM WindowKeptWhileArchiving == TerminalSpec => []ActiveOrderHasWindow
<1>1. TInv => ActiveOrderHasWindow
  BY DEF TInv, IInv
<1> QED BY <1>1, TerminalInductive, PTL

LEMMA LateOnly == TInv => ArchivedIdleExceptLate
<1> SUFFICES ASSUME TInv, NEW w \in Windows, window[w] \in {"open", "claimed"},
                    terminal[site[w]] = "archived"
             PROVE  w \in late
  BY DEF ArchivedIdleExceptLate
<1>1. site[w] \in Terminals
  BY DEF TInv, Placed
<1> QED BY <1>1 DEF TInv, Emptied

\* An archived terminal has no window but those created between the two statements of
\* Archive.
THEOREM ArchivedAlwaysIdleExceptLate == TerminalSpec => []ArchivedIdleExceptLate
BY LateOnly, TerminalInductive, PTL

\* Only such a window, or recovery, leaves an order under way at an archived terminal.
THEOREM AlwaysStrandedByRaceOrReplay == TerminalSpec => []StrandedOnlyByRaceOrReplay
<1>1. TInv => StrandedOnlyByRaceOrReplay
  <2> SUFFICES ASSUME TInv, NEW o \in Orders, state[o] \in ActiveStates,
                      terminal[site[berth[o]]] = "archived", ~ replays[o] > 0
               PROVE  berth[o] \in late
    BY DEF StrandedOnlyByRaceOrReplay
  <2>1. replays[o] = 0
    BY ReplayAssumption DEF TInv, IInv, TypeOK, OrderTypeOK
  <2>2. window[berth[o]] \in {"open", "claimed"}
    BY <2>1 DEF TInv, IInv, ActiveOrderHasWindow
  <2>3. berth[o] \in Windows
    BY DEF TInv, IInv, RowIsWhole, ActiveStates, OperationStates
  <2> QED BY <2>2, <2>3, LateOnly DEF ArchivedIdleExceptLate
<1> QED BY <1>1, TerminalInductive, PTL

\* A lease that is not over belongs to an order that has drawn its fuel and that neither
\* Complete nor Abort finished: it is under transfer, or an incident or a batch left the
\* lease behind (StartTransfer, Complete, Abort, Open, BatchComplete).
LiveLeaseIsEarned ==
    \A o \in live \cup ending :
        /\ lease[o] # None
        /\ draws[o] = 1
        /\ \/ state[o] \in {"transferring", "sampled"}
           \/ "incident.opened" \in outbox[o]
           \/ state[o] = "completed" /\ "bunkering.completed" \notin outbox[o]

\* So nobody but such an order keeps a terminal from being archived by its lease.
THEOREM LiveLeaseAlwaysEarned == TerminalSpec => []LiveLeaseIsEarned
<1>1. TInv => LiveLeaseIsEarned
  <2> SUFFICES ASSUME TInv, NEW o \in live \cup ending
               PROVE  /\ lease[o] # None
                      /\ draws[o] = 1
                      /\ \/ state[o] \in {"transferring", "sampled"}
                         \/ "incident.opened" \in outbox[o]
                         \/ state[o] = "completed" /\ "bunkering.completed" \notin outbox[o]
    BY DEF LiveLeaseIsEarned
  <2>1. o \in Orders /\ lease[o] # None
    BY DEF TInv, ArchiveTypeOK
  <2> QED BY <2>1 DEF TInv, Earned, IInv, DrawnOnce, HoldsFuel
<1> QED BY <1>1, TerminalInductive, PTL

\* StartTransfer gives an order its lease and draws its fuel; no other handler gives one.
LEMMA LeaseGiven ==
    ASSUME TypeOK, Next, NEW x \in Orders, lease[x] = None, lease'[x] # None
    PROVE  draws'[x] = draws[x] + 1
<1> USE DEF TypeOK, OrderTypeOK, historyVars
<1>1. ASSUME NEW w \in Windows, NEW l \in Lots, NEW q \in Quantities, Create(x, w, l, q)
      PROVE  FALSE
  BY <1>1 DEF Create
<1>2. ASSUME NEW who \in Workers, StartTransfer(x, who)
      PROVE  draws'[x] = draws[x] + 1
  BY <1>2 DEF StartTransfer
<1>3. ASSUME Complete(x) \/ Abort(x)
      PROVE  FALSE
  BY <1>3 DEF Complete, Abort, EndLease
<1>4. ASSUME Approve(x) \/ OpenIncident(x) \/ Replay(x) \/ Generate(x)
      PROVE  FALSE
  BY <1>4 DEF Approve, OpenIncident, Replay, Generate, orderVars
<1>9. CASE MarkAlongside(x)
  BY <1>9 DEF MarkAlongside
<1>10. ASSUME NEW p \in Positions, CompleteStep(x, p)
       PROVE  FALSE
  BY <1>10 DEF CompleteStep
<1>11. ASSUME NEW refs \in SUBSET Samples, ReceiveSamples(x, refs)
       PROVE  FALSE
  BY <1>11 DEF ReceiveSamples, orderVars
<1> HIDE DEF TypeOK, OrderTypeOK, historyVars
<1>5. ASSUME NEW batch \in SUBSET Orders, BatchComplete(batch)
      PROVE  FALSE
  BY <1>5 DEF BatchComplete
<1>6. ASSUME NEW o \in Orders, OrderStep(o), o # x
      PROVE  FALSE
  BY <1>6, OrderStepFrame DEF RowsOf
<1>7. CASE OtherStep
  BY <1>7 DEF OtherStep, orderVars, trailVars
<1>8. OrderStep(x) => draws'[x] = draws[x] + 1
  BY <1>1, <1>2, <1>3, <1>4, <1>9, <1>10, <1>11
     DEF OrderStep, AnnouncedOrderStep, QuietOrderStep
<1> QED BY <1>5, <1>6, <1>7, <1>8, StepCases

\* A lease that is over stays over: only an order that draws its fuel gets one that runs.
THEOREM LeaseAlwaysOverForGood == TerminalSpec => LeaseOverForGood
<1>1. ASSUME TInv, [TerminalNext]_terminalVars, NEW o \in live', o \notin live \cup ending
      PROVE  draws'[o] = draws[o] + 1
  <2>1. TypeOK /\ live \subseteq Orders
    BY <1>1, IInvByOrder DEF TInv, ArchiveTypeOK, IInv, TypeOK
  <2>2. CASE HandlerStep
    <3>1. o \in Orders /\ lease[o] = None /\ lease'[o] # None
      BY <1>1, <2>2 DEF HandlerStep, LeasesFollow
    <3> QED BY <2>1, <2>2, <3>1, LeaseGiven, HandlerIsStep
  <2>3. CASE ArchiveStep
    BY <1>1, <2>3 DEF ArchiveStep, Count, Update, LeaseNearsEnd, LeaseEnds, RenewLease, MayRenew, Drain
  <2>4. CASE UNCHANGED terminalVars
    BY <1>1, <2>4 DEF terminalVars, archiveVars
  <2> QED BY <1>1, <2>2, <2>3, <2>4 DEF TerminalNext
<1>2. TInv /\ [TerminalNext]_terminalVars
      => [\A o \in live' \ (live \cup ending) : draws'[o] = draws[o] + 1]_terminalVars
  BY <1>1
<1> QED BY <1>2, TerminalInductive, PTL DEF TerminalSpec, LeaseOverForGood

\* Two open windows of a terminal overlap within a second at most, in which one ends and
\* the other begins.
THEOREM OverlapAlwaysWithinSecond == TerminalSpec => []OverlapWithinSecond
<1>1. TInv => OverlapWithinSecond
  <2> SUFFICES ASSUME TInv, NEW t \in Terminals, NEW v \in Windows, NEW w \in Windows,
                      v # w, {site[v], site[w]} = {t}, NEW at \in 0..Horizon
               PROVE  /\ AvailableAt(v, at) /\ AvailableAt(w, at) =>
                            MeetIn(v, w, SecondOf(at)) \/ MeetIn(w, v, SecondOf(at))
                      /\ {v, w} \subseteq AvailableSlots(t, at) /\ span[v][1] = span[w][1] =>
                            \E x \in {v, w} : MeetIn(x, x, SecondOf(span[x][1]))
    BY DEF OverlapWithinSecond
  <2>0. /\ span[v][1] \in Nat /\ span[v][2] \in Nat /\ span[w][1] \in Nat /\ span[w][2] \in Nat
        /\ at \in Nat
    BY HorizonAssumption DEF TInv, IInv, TypeOK, ScheduleTypeOK
  <2>1. window[v] = "open" /\ window[w] = "open" =>
          \/ TextRank(span[w][2]) <= TextRank(span[v][1])
          \/ TextRank(span[v][2]) <= TextRank(span[w][1])
    <3>1. site[v] = site[w] /\ (window[v] = "open" /\ window[w] = "open"
            => ~ (TextRank(span[v][1]) < TextRank(span[w][2]) /\ TextRank(span[v][2]) > TextRank(span[w][1])))
      BY DEF TInv, Apart, Overlap
    <3>2. \A i \in {1, 2} : TextRank(span[v][i]) \in Nat /\ TextRank(span[w][i]) \in Nat
      BY <2>0, TextOrder
    <3> QED BY <3>1, <3>2
  <2>2. window[v] = "open" /\ window[w] = "open" =>
          SecondOf(span[w][2]) <= SecondOf(span[v][1]) \/ SecondOf(span[v][2]) <= SecondOf(span[w][1])
    BY <2>0, <2>1, TextOrder
  <2>3. /\ window[v] = "open" => span[v][1] < span[v][2]
        /\ window[w] = "open" => span[w][1] < span[w][2]
    BY DEF TInv, Placed
  <2>4. ASSUME AvailableAt(v, at), AvailableAt(w, at)
        PROVE  MeetIn(v, w, SecondOf(at)) \/ MeetIn(w, v, SecondOf(at))
    <3>1. /\ SecondOf(span[v][1]) <= SecondOf(at) /\ SecondOf(at) <= SecondOf(span[v][2])
          /\ SecondOf(span[w][1]) <= SecondOf(at) /\ SecondOf(at) <= SecondOf(span[w][2])
      BY <2>0, <2>4, TextOrder DEF AvailableAt
    <3>2. /\ SecondOf(span[v][1]) \in Nat /\ SecondOf(span[v][2]) \in Nat
          /\ SecondOf(span[w][1]) \in Nat /\ SecondOf(span[w][2]) \in Nat /\ SecondOf(at) \in Nat
      BY <2>0, TextOrder
    <3>3. SecondOf(span[w][2]) <= SecondOf(span[v][1]) \/ SecondOf(span[v][2]) <= SecondOf(span[w][1])
      BY <2>2, <2>4 DEF AvailableAt
    <3>4. CASE SecondOf(span[v][2]) <= SecondOf(span[w][1])
      <4>1. SecondOf(span[v][2]) = SecondOf(at) /\ SecondOf(span[w][1]) = SecondOf(at)
        BY <3>1, <3>2, <3>4
      <4> QED BY <4>1 DEF MeetIn
    <3>5. CASE SecondOf(span[w][2]) <= SecondOf(span[v][1])
      <4>1. SecondOf(span[w][2]) = SecondOf(at) /\ SecondOf(span[v][1]) = SecondOf(at)
        BY <3>1, <3>2, <3>5
      <4> QED BY <4>1 DEF MeetIn
    <3> QED BY <3>3, <3>4, <3>5
  <2>5. ASSUME {v, w} \subseteq AvailableSlots(t, at), span[v][1] = span[w][1]
        PROVE  \E x \in {v, w} : MeetIn(x, x, SecondOf(span[x][1]))
    <3>1. window[v] = "open" /\ window[w] = "open"
      BY <2>5 DEF AvailableSlots
    <3>2. /\ SecondOf(span[v][1]) <= SecondOf(span[v][2])
          /\ SecondOf(span[w][1]) <= SecondOf(span[w][2])
      BY <2>0, <2>3, <3>1, TextOrder
    <3>3. SecondOf(span[w][2]) = SecondOf(span[w][1]) \/ SecondOf(span[v][2]) = SecondOf(span[v][1])
      <4>1. \A i \in {1, 2} : SecondOf(span[v][i]) \in Nat /\ SecondOf(span[w][i]) \in Nat
        BY <2>0, TextOrder
      <4>2. SecondOf(span[v][1]) = SecondOf(span[w][1])
        BY <2>5
      <4> QED BY <2>2, <3>1, <3>2, <4>1, <4>2
    <3> QED BY <3>3 DEF MeetIn
  <2> QED BY <2>4, <2>5
<1> QED BY <1>1, TerminalInductive, PTL

=============================================================================

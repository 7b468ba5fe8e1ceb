------------------------------ MODULE Schedule ------------------------------
(***************************************************************************)
(* Terminals and their bunker windows (internal/schedule/service.go and    *)
(* the creation of terminals in internal/terminal/service.go).  Times are  *)
(* half seconds 0..Horizon, stored and compared as texts (TimeText); the   *)
(* test that a window starts in the future is an input check that every    *)
(* time passes.                                                            *)
(***************************************************************************)
EXTENDS TimeText

CONSTANTS Terminals, Windows,
          Owners,      \* who may claim a window
          Horizon,     \* bound: the last time a window may end at
          None         \* no terminal, no owner

ASSUME HorizonAssumption == Horizon \in Nat \ {0}
ASSUME NoneAssumption == None \notin Terminals \cup Owners

VARIABLES terminal,    \* status of each terminal
          window,      \* status of each window
          site,        \* the terminal of each window
          span,        \* <<starts_at, ends_at>> of each window
          owner        \* owner_id of each window

scheduleVars == <<terminal, window, site, span, owner>>

WindowStates == {"absent", "open", "claimed", "cancelled"}

ScheduleTypeOK ==
    /\ terminal \in [Terminals -> {"absent", "active", "archived"}]
    /\ window   \in [Windows -> WindowStates]
    /\ site     \in [Windows -> Terminals \cup {None}]
    /\ span     \in [Windows -> (0..Horizon) \X (0..Horizon)]
    /\ owner    \in [Windows -> Owners \cup {None}]

ScheduleInit ==
    /\ terminal = [t \in Terminals |-> "absent"]
    /\ window   = [w \in Windows |-> "absent"]
    /\ site     = [w \in Windows |-> None]
    /\ span     = [w \in Windows |-> <<0, 0>>]
    /\ owner    = [w \in Windows |-> None]

CreateTerminal(t) ==
    /\ terminal[t] = "absent"
    /\ terminal' = [terminal EXCEPT ![t] = "active"]
    /\ UNCHANGED <<window, site, span, owner>>

\* BUG: only windows that start at the same time overlap.
SameStart(s, t) == s[1] = t[1]

\* starts_at<? AND ends_at>?, of texts.
Overlap(s, t) ==
    /\ TextRank(s[1]) < TextRank(t[2])
    /\ TextRank(s[2]) > TextRank(t[1])

\* The query counts the windows of the terminal whose status is 'open'.
Clashes(t, s) ==
    { w \in Windows : site[w] = t /\ window[w] = "open" /\ Overlap(span[w], s) }

InsertWindow(w, t, s) ==
    /\ window' = [window EXCEPT ![w] = "open"]
    /\ site'   = [site   EXCEPT ![w] = t]
    /\ span'   = [span   EXCEPT ![w] = s]
    /\ UNCHANGED <<terminal, owner>>

\* EndsAt.After(StartsAt) compares the times themselves.
CreateWindow(w, t, s) ==
    /\ window[w] = "absent"
    /\ s[1] < s[2]
    /\ terminal[t] = "active"
    /\ Clashes(t, s) = {}
    /\ InsertWindow(w, t, s)

\* UPDATE ... WHERE status='open'; no row is an ErrConflict.
ClaimWindow(w, who) ==
    /\ window[w] = "open"
    /\ window' = [window EXCEPT ![w] = "claimed"]
    /\ owner'  = [owner  EXCEPT ![w] = who]
    /\ UNCHANGED <<terminal, site, span>>

\* BUG: the count of active transfers is dropped.
MayCancelAnyWindow(w, active) == window[w] \in {"open", "claimed"}

\* active: the orders of the window that are neither completed nor cancelled.
\* A window that is cancelled already returns nil and changes nothing; no code
\* sets 'released'.
MayCancelWindow(w, active) == window[w] \in {"open", "claimed"} /\ active = {}

CancelWindow(w, active) ==
    /\ MayCancelWindow(w, active)
    /\ window' = [window EXCEPT ![w] = "cancelled"]
    /\ owner'  = [owner  EXCEPT ![w] = None]
    /\ UNCHANGED <<terminal, site, span>>

=============================================================================

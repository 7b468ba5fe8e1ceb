------------------------------ MODULE Sessions ------------------------------
(***************************************************************************)
(* Sessions (auth.Service) and the calls they authenticate (httpapi        *)
(* Router).  Login reads the user in one statement and inserts the session *)
(* in another; a call is authenticated in one statement and handled later, *)
(* while logouts, revocations and the end of sessions come in between.     *)
(* A token, a fresh uuid, stands for its session.                          *)
(***************************************************************************)
EXTENDS Naturals

CONSTANTS Users, Tokens, Calls,
          SessionTTL,      \* hours a session lasts
          LastHour         \* bound: the clock

ASSUME SessionTTLAssumption == SessionTTL \in Nat \ {0}
ASSUME LastHourAssumption == LastHour \in Nat

VARIABLES sessions,        \* the session of each token, from its login on
          calls,           \* the HTTP calls: token, operation and how far they are
          hour             \* time.Now

sessionVars == <<sessions, calls, hour>>

Operations == {"logout", "other"}

SessionInit ==
    /\ sessions \in {[t \in Tokens |-> [user |-> f[t], at |-> "none", expires |-> 0]] : f \in [Tokens -> Users]}
    /\ calls = [c \in Calls |-> [at |-> "none", token |-> CHOOSE t \in Tokens : TRUE,
                                 operation |-> "other", late |-> FALSE]]
    /\ hour = 0

-----------------------------------------------------------------------------
(* Sessions. *)

\* Login: the user has this password and is active; the end of the session is
\* reckoned before its row is inserted.
CheckCredentials(t) ==
    /\ sessions[t].at = "none"
    /\ sessions' = [sessions EXCEPT ![t].at = "checked", ![t].expires = hour + SessionTTL]
    /\ UNCHANGED <<calls, hour>>

\* The insert, or an error of it.
InsertSession(t) ==
    /\ sessions[t].at = "checked"
    /\ \E to \in {"open", "failed"} : sessions' = [sessions EXCEPT ![t].at = to]
    /\ UNCHANGED <<calls, hour>>

\* BUG: the time of revocation is not read.
ValidUntilExpiry(t) == sessions[t].at \in {"open", "revoked"} /\ sessions[t].expires > hour

\* What Authenticate accepts: a row that is neither revoked nor expired.
Valid(t) == sessions[t].at = "open" /\ sessions[t].expires > hour

\* revoked_at=? ... AND revoked_at IS NULL
Revoked(some) ==
    [t \in Tokens |-> IF t \in some /\ sessions[t].at = "open"
                      THEN [sessions[t] EXCEPT !.at = "revoked"] ELSE sessions[t]]

RevokeAll(u) ==
    /\ sessions' = Revoked({t \in Tokens : sessions[t].user = u})
    /\ UNCHANGED <<calls, hour>>

HourPasses ==
    /\ hour < LastHour
    /\ hour' = hour + 1
    /\ UNCHANGED <<sessions, calls>>

-----------------------------------------------------------------------------
(* Calls. *)

\* The session has been usable and is no more.
Ended(t) == sessions[t].at = "revoked" \/ (sessions[t].at = "open" /\ sessions[t].expires <= hour)

\* ServeHTTP, for any path but health and login; a token may be one nobody has
\* been given.
Arrive(c, t, op) ==
    /\ calls[c].at = "none"
    /\ calls' = [calls EXCEPT ![c] = [at |-> "arrived", token |-> t, operation |-> op, late |-> Ended(t)]]
    /\ UNCHANGED <<sessions, hour>>

Authenticate(c) ==
    /\ calls[c].at = "arrived"
    /\ calls' = [calls EXCEPT ![c].at = IF Valid(calls[c].token) THEN "handling" ELSE "refused"]
    /\ UNCHANGED <<sessions, hour>>

\* The handler does what was asked; it does not look at the session again.
Handle(c) ==
    /\ calls[c].at = "handling"
    /\ calls[c].operation = "other"
    /\ calls' = [calls EXCEPT ![c].at = "handled"]
    /\ UNCHANGED <<sessions, hour>>

Logout(c) ==
    /\ calls[c].at = "handling"
    /\ calls[c].operation = "logout"
    /\ sessions' = Revoked({calls[c].token})
    /\ calls' = [calls EXCEPT ![c].at = "handled"]
    /\ UNCHANGED hour

SessionNext ==
    \/ \E t \in Tokens : CheckCredentials(t) \/ InsertSession(t)
    \/ \E u \in Users : RevokeAll(u)
    \/ \E c \in Calls, t \in Tokens, op \in Operations : Arrive(c, t, op)
    \/ \E c \in Calls : Authenticate(c) \/ Handle(c) \/ Logout(c)
    \/ HourPasses

SessionSpec == SessionInit /\ [][SessionNext]_sessionVars

-----------------------------------------------------------------------------

\* A call that arrives after its session was logged out, revoked or expired is
\* never handled, however long it takes to be authenticated and whatever logins,
\* logouts and revocations come in between (Authenticate, Logout, RevokeAll).
LateCallRefused ==
    \A c \in Calls : calls[c].at \in {"handling", "handled"} => ~ calls[c].late

=============================================================================

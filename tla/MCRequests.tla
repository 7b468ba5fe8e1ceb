----------------------------- MODULE MCRequests -----------------------------
(***************************************************************************)
(* Requests that are repeated and requests that come late, for TLC: a      *)
(* behaviour follows either the idempotent creation of orders or the       *)
(* sessions, which share no state.                                         *)
(***************************************************************************)
EXTENDS Idempotency, Sessions

VARIABLE part              \* the part this behaviour follows

RequestsInit ==
    /\ Init /\ SessionInit
    /\ part \in {"create", "session"}
    /\ part # "session" => \A t \in Tokens : sessions[t].user = CHOOSE u \in Users : TRUE

CreateStep  == part = "create" /\ Next /\ UNCHANGED <<sessionVars, part>>
SessionStep == part = "session" /\ SessionNext /\ UNCHANGED <<vars, part>>

RequestsSpec == RequestsInit /\ [][CreateStep \/ SessionStep]_<<vars, sessionVars, part>>

=============================================================================

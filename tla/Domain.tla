------------------------------- MODULE Domain -------------------------------
(***************************************************************************)
(* The operation states of a transfer order and the moves the domain       *)
(* package allows between them (internal/domain/state.go).  "absent" is    *)
(* the state of an order whose row has not been inserted yet.              *)
(***************************************************************************)
EXTENDS Naturals

OperationStates == {"planned", "approved", "alongside", "transferring",
                    "sampled", "completed", "cancelled"}

RowStates == OperationStates \cup {"absent"}

\* OperationState.CanMove: the only moves between operation states.
Moves ==
    { <<"planned", "approved">>,       <<"approved", "alongside">>,
      <<"alongside", "transferring">>, <<"transferring", "sampled">>,
      <<"sampled", "completed">> }
    \cup { <<s, "cancelled">> : s \in OperationStates \ {"completed", "cancelled"} }

CanMove(s, t) == <<s, t>> \in Moves

\* The orders CancelWindow and Archive count as active:
\* state NOT IN ('completed','cancelled').
ActiveStates == OperationStates \ {"completed", "cancelled"}

\* connect, precheck, transfer, disconnect.
Positions == 1..4

=============================================================================

---------------------------- MODULE Idempotency -----------------------------
(***************************************************************************)
(* Idempotent creation of orders (bunkering.Service.Create with            *)
(* idempotency.Service).  A call looks its Idempotency-Key up outside any  *)
(* transaction and inserts the order and the key in one transaction later, *)
(* so calls with one key, with the same body or another, overlap.  Clients *)
(* repeat calls whose answer they did not get.                             *)
(*                                                                         *)
(* What a new order does to the rest of the system is in module Bunkering. *)
(* An order's id, a fresh uuid, is its position in the table.              *)
(***************************************************************************)
EXTENDS Naturals, Sequences

CONSTANTS Clients, Keys,
          Bodies,      \* request bodies, told apart by their hash
          NoKey,       \* no Idempotency-Key header
          None,        \* no row, no request
          MaxOrders    \* bound: rows of transfer_orders

Requests == [key : Keys \cup {NoKey}, body : Bodies]
OrderIds == 1..MaxOrders
KeyRows  == [body : Bodies, order : OrderIds]
Answers  == [request : Requests, order : OrderIds]

ASSUME NoKeyAssumption == NoKey \notin Keys
ASSUME NoneAssumption == None \notin Requests \cup KeyRows
ASSUME MaxOrdersAssumption == MaxOrders \in Nat

VARIABLES orders,      \* transfer_orders: the request each row was made of
          saved,       \* idempotency_keys: order and hashed body of each key
          accepting,   \* bodies whose vessel, window and lot allow an order
          pc,          \* what each client's call does next
          request,     \* its request
          reply,       \* the order it is about to return
          \* history variables
          answers,     \* the answers that reached a client
          collided     \* keys that an insert found taken

tableVars   == <<orders, saved>>
callVars    == <<pc, request, reply>>
historyVars == <<answers, collided>>
vars == <<tableVars, accepting, callVars, historyVars>>

TypeOK ==
    /\ orders    \in Seq(Requests)
    /\ Len(orders) <= MaxOrders
    /\ saved     \in [Keys -> KeyRows \cup {None}]
    /\ accepting \subseteq Bodies
    /\ pc        \in [Clients -> {"idle", "insert", "answer"}]
    /\ request   \in [Clients -> Requests \cup {None}]
    /\ reply     \in [Clients -> OrderIds \cup {0}]
    /\ \A c \in Clients : /\ pc[c] # "idle" => request[c] \in Requests
                          /\ pc[c] = "answer" => reply[c] \in 1..Len(orders)
    /\ answers   \subseteq Answers
    /\ collided  \subseteq Keys

Init ==
    /\ orders    = <<>>
    /\ saved     = [k \in Keys |-> None]
    /\ accepting = Bodies
    /\ pc        = [c \in Clients |-> "idle"]
    /\ request   = [c \in Clients |-> None]
    /\ reply     = [c \in Clients |-> 0]
    /\ answers   = {}
    /\ collided  = {}

-----------------------------------------------------------------------------

\* BUG: the row of a key answers any body.
SameRequestByKey(r) == r.key # NoKey /\ saved[r.key] # None

\* Lookup finds a row of the key with the hash of this body.
SameRequest(r) ==
    /\ r.key # NoKey
    /\ saved[r.key] # None
    /\ saved[r.key].body = r.body

\* No row of the key yet, or no key at all.
FreshRequest(r) == r.key # NoKey => saved[r.key] = None

Proceed(c, phase, r, o) ==
    /\ pc'      = [pc      EXCEPT ![c] = phase]
    /\ request' = [request EXCEPT ![c] = r]
    /\ reply'   = [reply   EXCEPT ![c] = o]

\* The call is over: it returned, or its context or its process ended.
Return(c) == Proceed(c, "idle", None, 0)

\* A call that finds its key with another body returns ErrIdempotency at once.
Lookup(c, r) ==
    /\ pc[c] = "idle"
    /\ \/ SameRequest(r) /\ Proceed(c, "answer", r, saved[r.key].order)
       \/ FreshRequest(r) /\ Proceed(c, "insert", r, 0)
    /\ UNCHANGED <<tableVars, accepting, historyVars>>

KeyTaken(k) == \E i \in 1..Len(orders) : orders[i].key = k

\* BUG: the tables have no UNIQUE constraint on the key.
NoConstraint(r) == TRUE

\* UNIQUE(tenant_id, idempotency_key) of transfer_orders, where NULL is no value,
\* and UNIQUE(tenant_id, key_value) of idempotency_keys.
UniqueKey(r) == r.key # NoKey => ~ KeyTaken(r.key) /\ saved[r.key] = None

\* BUG: the key is saved after the transaction, and the process dies before.
SaveLost(r, o) == UNCHANGED saved

SaveKey(r, o) ==
    saved' = IF r.key = NoKey THEN saved
             ELSE [saved EXCEPT ![r.key] = [body |-> r.body, order |-> o]]

\* The transaction of Create: the order and its key, or neither.
Insert(c) ==
    /\ pc[c] = "insert"
    /\ Len(orders) < MaxOrders
    /\ request[c].body \in accepting
    /\ UniqueKey(request[c])
    /\ orders' = Append(orders, request[c])
    /\ SaveKey(request[c], Len(orders) + 1)
    /\ Proceed(c, "answer", request[c], Len(orders) + 1)
    /\ UNCHANGED <<accepting, historyVars>>

\* It is rolled back: a constraint, a refused vessel, window or lot, a failing
\* insert or a cancelled context.
Rollback(c) ==
    /\ pc[c] = "insert"
    /\ collided' = IF UniqueKey(request[c]) THEN collided
                   ELSE collided \cup {request[c].key}
    /\ Return(c)
    /\ UNCHANGED <<tableVars, accepting, answers>>

Answer(c) ==
    /\ pc[c] = "answer"
    /\ answers' = answers \cup {[request |-> request[c], order |-> reply[c]]}
    /\ Return(c)
    /\ UNCHANGED <<tableVars, accepting, collided>>

\* The client never gets the answer.
LoseAnswer(c) ==
    /\ pc[c] = "answer"
    /\ Return(c)
    /\ UNCHANGED <<tableVars, accepting, historyVars>>

\* The window of a body is cancelled (schedule.Service.CancelWindow).
Withdraw(b) ==
    /\ b \in accepting
    /\ accepting' = accepting \ {b}
    /\ UNCHANGED <<tableVars, callVars, historyVars>>

Next ==
    \/ \E c \in Clients :
          \/ \E r \in Requests : Lookup(c, r)
          \/ Insert(c)
          \/ Rollback(c)
          \/ Answer(c)
          \/ LoseAnswer(c)
    \/ \E b \in Bodies : Withdraw(b)

Spec == Init /\ [][Next]_vars

-----------------------------------------------------------------------------
(* Properties. *)

\* Whoever sends a key, as often as he does and with whatever body, every answer
\* with an order is about one order and one body (Lookup, the UNIQUE constraints).
OneAnswerPerKey ==
    \A a, b \in answers :
        a.request.key = b.request.key /\ a.request.key # NoKey => a = b

\* The order a client is told is the one that was made of its request, also when
\* another call made it (Lookup compares the hash of the body).
AnswerIsOwnOrder ==
    \A a \in answers : a.order <= Len(orders) /\ orders[a.order] = a.request

\* An order has its key's row and a row its order, so that the call that lost the
\* race for a key is answered when it is repeated (Insert and Save in one
\* transaction).
KeysMatchOrders ==
    \A k \in Keys :
        /\ KeyTaken(k) <=> saved[k] # None
        /\ saved[k] # None =>
              /\ saved[k].order <= Len(orders)
              /\ orders[saved[k].order] = [key |-> k, body |-> saved[k].body]
        /\ k \in collided => saved[k] # None

\* A key is bound once, to one order and one body for ever (idempotency_keys).
BoundForEver ==
    [][\A k \in Keys : saved[k] # None => saved'[k] = saved[k]]_vars

\* The inductive invariant: what the calls under way are about to answer is as
\* good as what was answered (Lookup, Insert).
IInv ==
    /\ TypeOK
    /\ KeysMatchOrders
    /\ \A i, j \in 1..Len(orders) :
           orders[i].key = orders[j].key /\ orders[i].key # NoKey => i = j
    /\ \A c \in Clients : pc[c] = "answer" => orders[reply[c]] = request[c]
    /\ AnswerIsOwnOrder

=============================================================================

------------------------- MODULE IdempotencyProofs --------------------------
(***************************************************************************)
(* Proofs about the idempotent creation of orders, for any sets of         *)
(* clients, keys and bodies and any number of orders: the inductive        *)
(* invariant, one operation at a time, and what follows from it.           *)
(***************************************************************************)
EXTENDS Integers, Idempotency, TLAPS

\* Empty tables and clients that have asked nothing satisfy the invariant
\* (storage.Open on a new file).
LEMMA IInvInit == Init => IInv
<1> SUFFICES ASSUME Init PROVE IInv
  OBVIOUS
<1> USE DEF Init
<1>1. TypeOK
  BY MaxOrdersAssumption DEF TypeOK, OrderIds
<1>2. KeysMatchOrders
  BY DEF KeysMatchOrders, KeyTaken
<1>3. AnswerIsOwnOrder
  BY DEF AnswerIsOwnOrder
<1> QED BY <1>1, <1>2, <1>3 DEF IInv

\* A call that only moves on, with a request and an order that fit, keeps the
\* invariant (Lookup, and every return).
LEMMA ProceedStep ==
  ASSUME IInv, UNCHANGED <<tableVars, accepting>>,
         NEW c \in Clients, NEW phase \in {"idle", "insert", "answer"},
         NEW r \in Requests \cup {None}, NEW o \in OrderIds \cup {0},
         Proceed(c, phase, r, o),
         phase # "idle" => r \in Requests,
         phase = "answer" => o \in 1..Len(orders) /\ orders[o] = r,
         answers' \subseteq Answers, collided' \subseteq Keys,
         \A k \in collided' : saved[k] # None,
         \A a \in answers' : a.order <= Len(orders) /\ orders[a.order] = a.request
  PROVE  IInv'
<1> USE DEF tableVars, Proceed
<1>1. TypeOK'
  BY DEF IInv, TypeOK
<1>2. KeysMatchOrders'
  BY DEF IInv, KeysMatchOrders, KeyTaken
<1>3. \A d \in Clients : pc'[d] = "answer" => orders'[reply'[d]] = request'[d]
  BY DEF IInv, TypeOK
<1>4. AnswerIsOwnOrder'
  BY DEF AnswerIsOwnOrder
<1>5. \A i, j \in 1..Len(orders') :
        orders'[i].key = orders'[j].key /\ orders'[i].key # NoKey => i = j
  BY DEF IInv
<1> QED BY <1>1, <1>2, <1>3, <1>4, <1>5 DEF IInv

\* The transaction of Create keeps the invariant: the UNIQUE constraints make the
\* new order the only one of its key (Insert).
LEMMA InsertStep ==
  ASSUME IInv, NEW c \in Clients, Insert(c)
  PROVE  IInv'
<1> DEFINE r == request[c]
           n == Len(orders) + 1
<1>1. /\ r \in Requests
      /\ n \in OrderIds
      /\ Len(orders) \in Nat
      /\ r.key \in Keys \cup {NoKey} /\ r.body \in Bodies
  BY MaxOrdersAssumption DEF IInv, TypeOK, Insert, OrderIds, Requests
<1>2. /\ orders' \in Seq(Requests)
      /\ Len(orders') = n
      /\ \A i \in 1..Len(orders) : orders'[i] = orders[i]
      /\ orders'[n] = r
  BY <1>1 DEF IInv, TypeOK, Insert
<1>3. \A k \in Keys :
        saved'[k] = IF k = r.key THEN [body |-> r.body, order |-> n] ELSE saved[k]
  BY NoKeyAssumption DEF IInv, TypeOK, Insert, SaveKey
<1>4. [body |-> r.body, order |-> n] \in KeyRows
  BY <1>1 DEF KeyRows
<1>5. saved' \in [Keys -> KeyRows \cup {None}]
  BY <1>4 DEF IInv, TypeOK, Insert, SaveKey
<1>6. TypeOK'
  <2>1. /\ pc' \in [Clients -> {"idle", "insert", "answer"}]
        /\ request' \in [Clients -> Requests \cup {None}]
        /\ reply' \in [Clients -> OrderIds \cup {0}]
    BY <1>1 DEF IInv, TypeOK, Insert, Proceed
  <2>2. \A d \in Clients : /\ pc'[d] # "idle" => request'[d] \in Requests
                           /\ pc'[d] = "answer" => reply'[d] \in 1..Len(orders')
    BY <1>1, <1>2 DEF IInv, TypeOK, Insert, Proceed
  <2>3. Len(orders') <= MaxOrders
    BY <1>1, <1>2, MaxOrdersAssumption DEF OrderIds
  <2> QED BY <1>2, <1>5, <2>1, <2>2, <2>3 DEF IInv, TypeOK, Insert, historyVars
<1>7. \A k \in Keys : KeyTaken(k)' <=> KeyTaken(k) \/ k = r.key
  <2> TAKE k \in Keys
  <2>1. ASSUME KeyTaken(k)' PROVE KeyTaken(k) \/ k = r.key
    BY <2>1, <1>1, <1>2 DEF KeyTaken
  <2>2. ASSUME KeyTaken(k) PROVE KeyTaken(k)'
    <3>1. PICK i \in 1..Len(orders) : orders[i].key = k
      BY <2>2 DEF KeyTaken
    <3> QED BY <3>1, <1>1, <1>2 DEF KeyTaken
  <2>3. ASSUME k = r.key PROVE KeyTaken(k)'
    BY <2>3, <1>1, <1>2 DEF KeyTaken
  <2> QED BY <2>1, <2>2, <2>3
<1>8. KeysMatchOrders'
  <2> SUFFICES ASSUME NEW k \in Keys
               PROVE  /\ KeyTaken(k)' <=> saved'[k] # None
                      /\ saved'[k] # None =>
                            /\ saved'[k].order <= Len(orders')
                            /\ orders'[saved'[k].order] = [key |-> k, body |-> saved'[k].body]
                      /\ k \in collided' => saved'[k] # None
    BY DEF KeysMatchOrders
  <2>1. CASE k = r.key
    <3>1. saved'[k] = [body |-> r.body, order |-> n] /\ saved'[k] # None
      BY <2>1, <1>3, <1>4, NoneAssumption
    <3>2. r = [key |-> k, body |-> saved'[k].body]
      BY <3>1, <2>1, <1>1 DEF Requests
    <3>3. KeyTaken(k)' /\ orders'[saved'[k].order] = r /\ saved'[k].order <= Len(orders')
      BY <3>1, <2>1, <1>1, <1>2, <1>7
    <3> QED BY <3>1, <3>2, <3>3
  <2>2. CASE k # r.key
    <3>1. saved'[k] = saved[k] /\ (KeyTaken(k)' <=> KeyTaken(k)) /\ collided' = collided
      BY <2>2, <1>3, <1>7 DEF Insert, historyVars
    <3>2. ASSUME saved[k] # None PROVE saved[k].order \in 1..Len(orders)
      <4>1. saved[k] \in KeyRows /\ saved[k].order <= Len(orders)
        BY <3>2 DEF IInv, TypeOK, KeysMatchOrders
      <4>2. saved[k].order \in 1..MaxOrders
        BY <4>1 DEF KeyRows, OrderIds
      <4> QED BY <4>1, <4>2, <1>1
    <3> QED BY <3>1, <3>2, <1>1, <1>2 DEF IInv, KeysMatchOrders
  <2> QED BY <2>1, <2>2
<1>9. \A i, j \in 1..Len(orders') :
        orders'[i].key = orders'[j].key /\ orders'[i].key # NoKey => i = j
  <2> SUFFICES ASSUME NEW i \in 1..n, NEW j \in 1..n,
                      orders'[i].key = orders'[j].key, orders'[i].key # NoKey
               PROVE  i = j
    BY <1>2
  <2>1. \A x \in 1..Len(orders) : orders[x].key = r.key => r.key = NoKey
    BY <1>1 DEF Insert, UniqueKey, KeyTaken
  <2> QED BY <2>1, <1>1, <1>2 DEF IInv
<1>10. \A d \in Clients : pc'[d] = "answer" => orders'[reply'[d]] = request'[d]
  BY <1>1, <1>2 DEF IInv, TypeOK, Insert, Proceed
<1>11. AnswerIsOwnOrder'
  BY <1>1, <1>2 DEF IInv, TypeOK, AnswerIsOwnOrder, Answers, OrderIds, Insert, historyVars
<1> QED BY <1>6, <1>8, <1>9, <1>10, <1>11 DEF IInv

\* The invariant is preserved by every step of every client (Create).
LEMMA IInvStep == IInv /\ [Next]_vars => IInv'
<1> SUFFICES ASSUME IInv, [Next]_vars PROVE IInv'
  OBVIOUS
<1>1. ASSUME NEW c \in Clients, NEW r \in Requests, Lookup(c, r) PROVE IInv'
  <2>1. CASE SameRequest(r) /\ Proceed(c, "answer", r, saved[r.key].order)
    <3>1. r.key \in Keys /\ saved[r.key] \in KeyRows
      BY <2>1 DEF SameRequest, Requests, IInv, TypeOK
    <3>2. /\ saved[r.key].order \in 1..Len(orders)
          /\ orders[saved[r.key].order] = [key |-> r.key, body |-> r.body]
      BY <2>1, <3>1 DEF SameRequest, KeyRows, OrderIds, IInv, TypeOK, KeysMatchOrders
    <3>3. r = [key |-> r.key, body |-> r.body] /\ saved[r.key].order \in OrderIds
      BY <3>1 DEF Requests, KeyRows
    <3>4. /\ answers' = answers /\ collided' = collided
          /\ UNCHANGED <<tableVars, accepting>>
          /\ answers \subseteq Answers /\ collided \subseteq Keys
          /\ \A k \in collided : saved[k] # None
          /\ \A a \in answers : a.order <= Len(orders) /\ orders[a.order] = a.request
      BY <1>1 DEF Lookup, historyVars, IInv, TypeOK, KeysMatchOrders, AnswerIsOwnOrder
    <3> DEFINE o == saved[r.key].order
    <3>5. Proceed(c, "answer", r, o) /\ o \in OrderIds /\ o \in 1..Len(orders) /\ orders[o] = r
      BY <2>1, <3>2, <3>3
    <3> HIDE DEF o
    <3> QED BY <3>4, <3>5, ProceedStep
  <2>2. CASE FreshRequest(r) /\ Proceed(c, "insert", r, 0)
    BY <1>1, <2>2, ProceedStep
       DEF Lookup, historyVars, IInv, TypeOK, KeysMatchOrders, AnswerIsOwnOrder
  <2> QED BY <1>1, <2>1, <2>2 DEF Lookup
<1>2. ASSUME NEW c \in Clients, Insert(c) PROVE IInv'
  BY <1>2, InsertStep
<1>3. ASSUME NEW c \in Clients, Rollback(c) PROVE IInv'
  <2>1. /\ collided' \subseteq Keys
        /\ \A k \in collided' : saved[k] # None
    BY <1>3 DEF Rollback, UniqueKey, IInv, TypeOK, KeysMatchOrders, Requests
  <2> QED BY <1>3, <2>1, ProceedStep
          DEF Rollback, Return, IInv, TypeOK, AnswerIsOwnOrder
<1>4. ASSUME NEW c \in Clients, Answer(c) PROVE IInv'
  <2> DEFINE a == [request |-> request[c], order |-> reply[c]]
  <2>1. a \in Answers /\ a.order <= Len(orders) /\ orders[a.order] = a.request
    BY <1>4 DEF Answer, Answers, IInv, TypeOK, OrderIds
  <2>2. /\ answers' \subseteq Answers
        /\ \A b \in answers' : b.order <= Len(orders) /\ orders[b.order] = b.request
    BY <1>4, <2>1 DEF Answer, IInv, TypeOK, AnswerIsOwnOrder
  <2> QED BY <1>4, <2>2, ProceedStep DEF Answer, Return, IInv, TypeOK, KeysMatchOrders
<1>5. ASSUME NEW c \in Clients, LoseAnswer(c) PROVE IInv'
  BY <1>5, ProceedStep
     DEF LoseAnswer, Return, historyVars, IInv, TypeOK, KeysMatchOrders, AnswerIsOwnOrder
<1>6. ASSUME NEW b \in Bodies, Withdraw(b) PROVE IInv'
  <2> USE <1>6 DEF Withdraw, tableVars, callVars, historyVars
  <2>1. TypeOK'
    BY DEF IInv, TypeOK
  <2>2. KeysMatchOrders' /\ AnswerIsOwnOrder'
    BY DEF IInv, KeysMatchOrders, KeyTaken, AnswerIsOwnOrder
  <2> QED BY <2>1, <2>2 DEF IInv
<1>7. CASE UNCHANGED vars
  <2> USE <1>7 DEF vars, tableVars, callVars, historyVars
  <2>1. TypeOK'
    BY DEF IInv, TypeOK
  <2>2. KeysMatchOrders' /\ AnswerIsOwnOrder'
    BY DEF IInv, KeysMatchOrders, KeyTaken, AnswerIsOwnOrder
  <2> QED BY <2>1, <2>2 DEF IInv
<1> QED BY <1>1, <1>2, <1>3, <1>4, <1>5, <1>6, <1>7 DEF Next

\* The inductive invariant of Create with keys (Create, Lookup, Save).
THEOREM CreateInvariant == Spec => []IInv
<1> QED BY IInvInit, IInvStep, PTL DEF Spec

\* An order has its key's row and a row its order (Insert and Save in one
\* transaction).
THEOREM KeysAlwaysMatch == Spec => []KeysMatchOrders
<1>1. IInv => KeysMatchOrders
  BY DEF IInv
<1> QED BY <1>1, CreateInvariant, PTL

\* All answers to a key are the same, for any number of clients that repeat it
\* (Lookup, the UNIQUE constraints).
THEOREM OneAnswerAlways == Spec => []OneAnswerPerKey
<1>1. IInv => OneAnswerPerKey
  <2> SUFFICES ASSUME IInv, NEW a \in answers, NEW b \in answers,
                      a.request.key = b.request.key, a.request.key # NoKey
               PROVE  a = b
    BY DEF OneAnswerPerKey
  <2>1. /\ a \in Answers /\ a.order \in 1..Len(orders) /\ orders[a.order] = a.request
        /\ b \in Answers /\ b.order \in 1..Len(orders) /\ orders[b.order] = b.request
    BY DEF IInv, TypeOK, AnswerIsOwnOrder, Answers, OrderIds
  <2>2. a.order = b.order
    BY <2>1 DEF IInv
  <2> QED BY <2>1, <2>2 DEF Answers
<1> QED BY <1>1, CreateInvariant, PTL

\* The row of a key never changes (idempotency_keys is only inserted into).
THEOREM BoundAlways == Spec => BoundForEver
<1>1. IInv /\ [Next]_vars =>
        [\A k \in Keys : saved[k] # None => saved'[k] = saved[k]]_vars
  <2> SUFFICES ASSUME IInv, Next, NEW k \in Keys, saved[k] # None
               PROVE  saved'[k] = saved[k]
    BY DEF vars
  <2>1. ASSUME NEW c \in Clients, Insert(c) PROVE saved'[k] = saved[k]
    BY <2>1 DEF Insert, UniqueKey, SaveKey, IInv, TypeOK
  <2> QED BY <2>1 DEF Next, Lookup, Rollback, Answer, LoseAnswer, Withdraw, tableVars
<1> QED BY <1>1, CreateInvariant, PTL DEF Spec, BoundForEver

=============================================================================

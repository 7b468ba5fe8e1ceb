---------------------------- MODULE PartsProofs -----------------------------
(***************************************************************************)
(* Proofs about seven components that no handler composes: the sessions,   *)
(* the row locks, the payment ledger, the permits, the weighing, the       *)
(* calculations and the audit trail, for any number of users, owners,      *)
(* windows, keys, attempts, holders, checks, readings, entries and events. *)
(***************************************************************************)
EXTENDS Sessions, RowLocks, PaymentLedger, Permits, Weighing, Calculations,
        AuditPages, SequenceTheorems, CountingProofs, TLAPS

-----------------------------------------------------------------------------
(* Sessions. *)

SessionRows == [user : Users, at : {"none", "checked", "open", "revoked", "failed"}, expires : Nat]

CallRows == [at : {"none", "arrived", "handling", "handled", "refused"},
             token : Tokens \cup {CHOOSE t \in Tokens : TRUE},
             operation : Operations, late : BOOLEAN]

SessionTypeOK ==
    /\ sessions \in [Tokens -> SessionRows]
    /\ calls \in [Calls -> CallRows]
    /\ hour \in Nat

\* A session that has ended stays so: a late call is about an ended session.
LateMeansEnded ==
    \A c \in Calls : calls[c].late =>
        /\ calls[c].token \in Tokens
        /\ Ended(calls[c].token)
        /\ calls[c].at \in {"arrived", "refused"}

SessionInv == SessionTypeOK /\ LateMeansEnded

LEMMA SessionInitial == SessionInit => SessionInv
<1> SUFFICES ASSUME SessionInit PROVE SessionInv
  OBVIOUS
<1>1. PICK f \in [Tokens -> Users] :
          sessions = [t \in Tokens |-> [user |-> f[t], at |-> "none", expires |-> 0]]
  BY DEF SessionInit
<1>2. SessionTypeOK
  BY <1>1 DEF SessionInit, SessionTypeOK, SessionRows, CallRows, Operations
<1>3. LateMeansEnded
  BY DEF SessionInit, LateMeansEnded
<1> QED BY <1>2, <1>3 DEF SessionInv

\* Steps of logins, revocations and the clock: what has ended stays ended (Login,
\* RevokeAll).
LEMMA SessionStep ==
  ASSUME SessionInv,
         \/ \E t \in Tokens : CheckCredentials(t) \/ InsertSession(t)
         \/ \E u \in Users : RevokeAll(u)
         \/ HourPasses
  PROVE  SessionInv'
<1> USE SessionTTLAssumption DEF SessionInv, SessionTypeOK, SessionRows, CallRows, LateMeansEnded, Ended
<1>1. ASSUME NEW t \in Tokens, CheckCredentials(t) PROVE SessionInv'
  BY <1>1 DEF CheckCredentials
<1>2. ASSUME NEW t \in Tokens, InsertSession(t) PROVE SessionInv'
  BY <1>2 DEF InsertSession
<1>3. ASSUME NEW u \in Users, RevokeAll(u) PROVE SessionInv'
  BY <1>3 DEF RevokeAll, Revoked
<1>4. CASE HourPasses
  BY <1>4 DEF HourPasses
<1> QED BY <1>1, <1>2, <1>3, <1>4

\* Steps of a call (ServeHTTP, Authenticate, Logout).
LEMMA CallStep ==
  ASSUME SessionInv, NEW c \in Calls,
         \/ \E t \in Tokens, op \in Operations : Arrive(c, t, op)
         \/ Authenticate(c) \/ Handle(c) \/ Logout(c)
  PROVE  SessionInv'
<1> USE DEF SessionInv, SessionTypeOK, SessionRows, CallRows, LateMeansEnded, Ended
<1>1. ASSUME NEW t \in Tokens, NEW op \in Operations, Arrive(c, t, op) PROVE SessionInv'
  BY <1>1 DEF Arrive
<1>2. CASE Authenticate(c)
  BY <1>2 DEF Authenticate, Valid
<1>3. CASE Handle(c)
  BY <1>3 DEF Handle
<1>4. CASE Logout(c)
  <2>1. \A t \in Tokens : Ended(t) => Ended(t)'
    BY <1>4 DEF Logout, Revoked
  <2>2. SessionTypeOK'
    <3>1. sessions' \in [Tokens -> SessionRows]
      BY <1>4 DEF Logout, Revoked
    <3>2. [calls[c] EXCEPT !.at = "handled"] \in CallRows
      OBVIOUS
    <3> QED BY <1>4, <3>1, <3>2 DEF Logout
  <2>3. calls' = [calls EXCEPT ![c].at = "handled"] /\ calls[c].at = "handling"
    BY <1>4 DEF Logout
  <2>4. \A d \in Calls : calls'[d].late => calls[d].late /\ calls'[d] = calls[d]
    BY <2>3
  <2> QED BY <2>1, <2>2, <2>4
<1> QED BY <1>1, <1>2, <1>3, <1>4

\* A call that came after the end of its session is never handled (Router, Service).
THEOREM LateCallAlwaysRefused == SessionSpec => []LateCallRefused
<1>1. SessionInv /\ [SessionNext]_sessionVars => SessionInv'
  <2>1. SessionInv /\ UNCHANGED sessionVars => SessionInv'
    BY DEF SessionInv, SessionTypeOK, LateMeansEnded, Ended, sessionVars
  <2> QED BY <2>1, SessionStep, CallStep DEF SessionNext
<1>2. SessionInv => LateCallRefused
  BY DEF SessionInv, LateMeansEnded, LateCallRefused
<1> QED BY <1>1, <1>2, SessionInitial, PTL DEF SessionSpec

-----------------------------------------------------------------------------
(* Row locks. *)

LockInv ==
    /\ ScheduleTypeOK
    /\ granted \in [Windows -> SUBSET Owners]
    /\ \A w \in Windows : IsFiniteSet(granted[w])
    /\ seized \in [Windows -> Nat]
    /\ OneHolderPerSeizure

LEMMA LockInitial == LockInit => LockInv
<1> SUFFICES ASSUME LockInit PROVE LockInv
  OBVIOUS
<1>1. ScheduleTypeOK /\ granted \in [Windows -> SUBSET Owners] /\ seized \in [Windows -> Nat]
  BY HorizonAssumption DEF LockInit, ScheduleInit, ScheduleTypeOK, WindowStates
<1>2. ASSUME NEW w \in Windows
      PROVE  IsFiniteSet(granted[w]) /\ Cardinality(granted[w] \ {owner[w]}) <= seized[w]
  <2>1. granted[w] = {} /\ granted[w] \ {owner[w]} = {} /\ seized[w] = 0
    BY DEF LockInit
  <2> QED BY <2>1, FS_EmptySet
<1> QED BY <1>1, <1>2 DEF LockInv, OneHolderPerSeizure

\* Another name in the row leaves at most one holder more without its own.
LEMMA AnotherName ==
    ASSUME NEW holders, IsFiniteSet(holders), NEW old, NEW new
    PROVE  /\ Cardinality(holders \ {old}) \in Nat /\ Cardinality(holders \ {new}) \in Nat
           /\ Cardinality(holders \ {new}) <= Cardinality(holders \ {old}) + 1
<1>1. IsFiniteSet(holders \ {old}) /\ IsFiniteSet((holders \ {old}) \cup {old})
  BY FS_Subset, FS_AddElement
<1>2. Cardinality((holders \ {old}) \cup {old}) = Cardinality(holders \ {old}) + 1
  BY <1>1, FS_AddElement
<1>3. holders \ {new} \subseteq (holders \ {old}) \cup {old}
  OBVIOUS
<1>4. Cardinality(holders \ {new}) <= Cardinality((holders \ {old}) \cup {old})
  BY <1>1, <1>3, FS_Subset
<1>5. IsFiniteSet(holders \ {new})
  BY FS_Subset
<1> QED BY <1>1, <1>2, <1>4, <1>5, FS_CardinalityType

\* A planner who changes the status of a locked window seizes it; a new window was
\* locked by nobody (CreateWindow, ClaimWindow, CancelWindow).
LEMMA PlannerKeepsLocks == LockInv /\ PlannerStep => LockInv'
<1> SUFFICES ASSUME LockInv, PlannerStep PROVE LockInv'
  OBVIOUS
<1>0. /\ ScheduleTypeOK /\ seized \in [Windows -> Nat] /\ granted' = granted
      /\ \A w \in Windows : IsFiniteSet(granted[w])
  BY DEF LockInv, PlannerStep
<1>1. ScheduleTypeOK' /\ \A w \in Windows : window'[w] # window[w] \/ owner'[w] = owner[w]
  <2> USE <1>0 DEF ScheduleTypeOK, WindowStates
  <2>1. ASSUME NEW t \in Terminals, CreateTerminal(t)
        PROVE  ScheduleTypeOK' /\ \A w \in Windows : window'[w] # window[w] \/ owner'[w] = owner[w]
    BY <2>1 DEF CreateTerminal
  <2>2. ASSUME NEW w \in Windows, NEW t \in Terminals, NEW from \in 0..Horizon,
               NEW until \in 0..Horizon, CreateWindow(w, t, <<from, until>>)
        PROVE  ScheduleTypeOK' /\ \A x \in Windows : window'[x] # window[x] \/ owner'[x] = owner[x]
    BY <2>2 DEF CreateWindow, InsertWindow
  <2>3. ASSUME NEW w \in Windows, NEW who \in Owners, ClaimWindow(w, who)
        PROVE  ScheduleTypeOK' /\ \A x \in Windows : window'[x] # window[x] \/ owner'[x] = owner[x]
    BY <2>3 DEF ClaimWindow
  <2>4. ASSUME NEW w \in Windows, CancelWindow(w, {})
        PROVE  ScheduleTypeOK' /\ \A x \in Windows : window'[x] # window[x] \/ owner'[x] = owner[x]
    BY <2>4 DEF CancelWindow, MayCancelWindow
  <2> QED BY <2>1, <2>2, <2>3, <2>4 DEF PlannerStep
<1>2. seized' = [w \in Windows |->
                   IF window[w] # window'[w] /\ granted[w] # {} THEN seized[w] + 1 ELSE seized[w]]
  BY DEF PlannerStep
<1>3. seized' \in [Windows -> Nat]
  BY <1>0, <1>2
<1>4. ASSUME NEW w \in Windows
      PROVE  Cardinality(granted[w] \ {owner'[w]}) <= seized'[w]
  <2>1. Cardinality(granted[w] \ {owner[w]}) <= seized[w] /\ seized[w] \in Nat
    BY <1>0 DEF LockInv, OneHolderPerSeizure
  <2>2. CASE granted[w] = {}
    <3>1. granted[w] \ {owner'[w]} = {}
      BY <2>2
    <3>2. seized'[w] \in Nat
      BY <1>3
    <3>3. Cardinality(granted[w] \ {owner'[w]}) = 0
      BY <3>1, FS_EmptySet
    <3> QED BY <3>2, <3>3
  <2>3. CASE granted[w] # {} /\ window'[w] # window[w]
    <3>1. seized'[w] = seized[w] + 1
      BY <1>2, <2>3
    <3>2. IsFiniteSet(granted[w])
      BY <1>0
    <3>3. /\ Cardinality(granted[w] \ {owner[w]}) \in Nat
          /\ Cardinality(granted[w] \ {owner'[w]}) \in Nat
          /\ Cardinality(granted[w] \ {owner'[w]}) <= Cardinality(granted[w] \ {owner[w]}) + 1
      BY <3>2, AnotherName
    <3> QED BY <2>1, <3>1, <3>3
  <2>4. CASE window'[w] = window[w]
    BY <1>1, <1>2, <2>1, <2>4
  <2> QED BY <2>2, <2>3, <2>4
<1> QED BY <1>0, <1>1, <1>3, <1>4 DEF LockInv, OneHolderPerSeizure

\* A lock is given only on a row that is free or has the same name in it
\* (AcquireRow), and taken back only by that name (ReleaseRow).
LEMMA LockingKeepsLocks ==
  ASSUME LockInv, NEW w \in Windows, NEW who \in Owners, AcquireRow(w, who) \/ ReleaseRow(w, who)
  PROVE  LockInv'
<1>0. /\ ScheduleTypeOK /\ seized \in [Windows -> Nat] /\ granted \in [Windows -> SUBSET Owners]
      /\ \A x \in Windows : IsFiniteSet(granted[x])
  BY DEF LockInv
<1>1. /\ UNCHANGED <<terminal, window, site, span, seized>>
      /\ \/ /\ owner[w] \in {None, who} /\ owner' = [owner EXCEPT ![w] = who]
            /\ granted' = [granted EXCEPT ![w] = @ \cup {who}]
         \/ /\ owner[w] = who /\ owner' = [owner EXCEPT ![w] = None]
            /\ granted' = [granted EXCEPT ![w] = @ \ {who}]
  BY Zenon DEF AcquireRow, ReleaseRow, FreeFor
<1>2. ScheduleTypeOK' /\ granted' \in [Windows -> SUBSET Owners]
  <2>1. owner' \in [Windows -> Owners \cup {None}]
    BY <1>0, <1>1 DEF ScheduleTypeOK
  <2>2. granted' \in [Windows -> SUBSET Owners]
    BY <1>0, <1>1
  <2> QED BY <1>0, <1>1, <2>1, <2>2 DEF ScheduleTypeOK
<1>3. ASSUME NEW x \in Windows
      PROVE  /\ IsFiniteSet(granted'[x])
             /\ granted'[x] \ {owner'[x]} \subseteq granted[x] \ {owner[x]}
  <2>1. CASE x # w
    BY <1>0, <1>1, <2>1 DEF ScheduleTypeOK
  <2>2. CASE x = w
    <3>1. IsFiniteSet(granted[w] \cup {who}) /\ IsFiniteSet(granted[w] \ {who})
      BY <1>0, FS_AddElement, FS_Subset
    <3>2. granted'[w] \in {granted[w] \cup {who}, granted[w] \ {who}}
      BY <1>0, <1>1
    <3>3. granted'[w] \ {owner'[w]} \subseteq granted[w] \ {owner[w]}
      BY <1>0, <1>1, NoneAssumption DEF ScheduleTypeOK
    <3> QED BY <2>2, <3>1, <3>2, <3>3
  <2> QED BY <2>1, <2>2
<1>4. ASSUME NEW x \in Windows
      PROVE  Cardinality(granted'[x] \ {owner'[x]}) <= seized'[x]
  <2>1. Cardinality(granted[x] \ {owner[x]}) <= seized[x] /\ seized' = seized /\ seized[x] \in Nat
    BY <1>0, <1>1 DEF LockInv, OneHolderPerSeizure
  <2>2. IsFiniteSet(granted[x] \ {owner[x]})
    BY <1>0, FS_Subset
  <2>3. Cardinality(granted'[x] \ {owner'[x]}) <= Cardinality(granted[x] \ {owner[x]})
    BY <1>3, <2>2, FS_Subset
  <2>4. /\ Cardinality(granted[x] \ {owner[x]}) \in Nat
        /\ Cardinality(granted'[x] \ {owner'[x]}) \in Nat
    BY <1>3, <2>2, FS_Subset, FS_CardinalityType
  <2> QED BY <2>1, <2>3, <2>4
<1> QED BY <1>0, <1>1, <1>2, <1>3, <1>4 DEF LockInv, OneHolderPerSeizure

\* Seizures by planners account for every holder beside the first, for any windows and
\* owners (AcquireRow, ClaimWindow, CancelWindow).
THEOREM AlwaysOneHolderPerSeizure == LockSpec => []OneHolderPerSeizure
<1>1. LockInv /\ [LockNext]_<<scheduleVars, lockVars>> => LockInv'
  <2>1. LockInv /\ UNCHANGED <<scheduleVars, lockVars>> => LockInv'
    BY DEF LockInv, ScheduleTypeOK, OneHolderPerSeizure, scheduleVars, lockVars
  <2> QED BY <2>1, PlannerKeepsLocks, LockingKeepsLocks DEF LockNext
<1>2. LockInv => OneHolderPerSeizure
  BY DEF LockInv
<1> QED BY <1>1, <1>2, LockInitial, PTL DEF LockSpec

-----------------------------------------------------------------------------
(* The payment ledger. *)

AttemptRows == [invoice : LedgerInvoices, key : LedgerKeys, amount : Amounts,
                state : {"started", "succeeded", "failed"}]

KeysUnique ==
    \A m, n \in DOMAIN attempts : attempts[m].key = attempts[n].key => m = n

\* What was answered is still what the ledger holds.
AnswersKept ==
    \A s \in answered :
        /\ s \in [id : Nat, invoice : LedgerInvoices, key : LedgerKeys, amount : Amounts]
        /\ s.id \in DOMAIN attempts
        /\ attempts[s.id].invoice = s.invoice
        /\ attempts[s.id].key = s.key
        /\ attempts[s.id].amount = s.amount

LedgerInv == attempts \in Seq(AttemptRows) /\ KeysUnique /\ AnswersKept

LEMMA LedgerInitial == LedgerInit => LedgerInv
BY DEF LedgerInit, LedgerInv, KeysUnique, AnswersKept

\* A call of Start adds an attempt under a key that is new, or answers with the
\* attempt of its key (Start).
LEMMA StartStep ==
  ASSUME LedgerInv, NEW i \in LedgerInvoices, NEW k \in LedgerKeys, NEW a \in Amounts,
         StartAttempt(i, k, a)
  PROVE  LedgerInv' /\ \A n \in DOMAIN attempts : attempts'[n] = attempts[n]
<1> USE DEF LedgerInv, KeysUnique, AnswersKept, AttemptRows
<1>1. CASE /\ Known(i, k) = {}
           /\ attempts' = Append(attempts, Attempt(i, k, a))
           /\ answered' = answered \cup
                {[id |-> Len(attempts) + 1, invoice |-> i, key |-> k, amount |-> a]}
  <2>1. Attempt(i, k, a) \in AttemptRows
    BY DEF Attempt
  <2>2. /\ attempts' \in Seq(AttemptRows)
        /\ Len(attempts') = Len(attempts) + 1
        /\ \A n \in DOMAIN attempts : attempts'[n] = attempts[n]
        /\ attempts'[Len(attempts) + 1] = Attempt(i, k, a)
    BY <1>1, <2>1
  <2>3. \A n \in DOMAIN attempts : attempts[n].key # k
    BY <1>1 DEF Known
  <2>4. KeysUnique'
    BY <2>2, <2>3 DEF Attempt
  <2>5. AnswersKept'
    BY <1>1, <2>2 DEF Attempt
  <2> QED BY <2>2, <2>4, <2>5
<1>2. ASSUME NEW n \in Known(i, k), attempts[n].invoice = i, attempts[n].amount = a,
             answered' = answered \cup {[id |-> n, invoice |-> i, key |-> k, amount |-> a]},
             UNCHANGED attempts
      PROVE  LedgerInv' /\ \A m \in DOMAIN attempts : attempts'[m] = attempts[m]
  BY <1>2 DEF Known
<1> QED BY <1>1, <1>2 DEF StartAttempt

\* A report changes the state of its attempt alone, and no state that is final for
\* it (Succeed, Fail).
LEMMA ReportStep ==
  ASSUME LedgerInv, NEW n \in DOMAIN attempts, SucceedAttempt(n) \/ FailAttempt(n)
  PROVE  /\ LedgerInv'
         /\ \A m \in DOMAIN attempts :
               /\ attempts[m].state = "succeeded" => attempts'[m] = attempts[m]
               /\ attempts[m].state = "failed" => attempts'[m].state = "failed"
<1> PICK s \in {"succeeded", "failed"} :
        /\ attempts' = [attempts EXCEPT ![n].state = s]
        /\ attempts[n].state # "succeeded"
        /\ attempts[n].state = "failed" => s = "failed"
        /\ answered' = answered
  BY DEF SucceedAttempt, FailAttempt, SetState
<1>0. attempts[n] \in AttemptRows
  BY DEF LedgerInv
<1>1. attempts' \in Seq(AttemptRows) /\ DOMAIN attempts' = DOMAIN attempts
  <2>1. [attempts[n] EXCEPT !.state = s] \in AttemptRows
    BY <1>0 DEF AttemptRows
  <2> QED BY <2>1, ExceptSeq DEF LedgerInv
<1> USE DEF LedgerInv, KeysUnique, AnswersKept, AttemptRows
<1>2. \A m \in DOMAIN attempts :
         /\ attempts'[m].key = attempts[m].key
         /\ attempts'[m].invoice = attempts[m].invoice
         /\ attempts'[m].amount = attempts[m].amount
         /\ attempts'[m].state = IF m = n THEN s ELSE attempts[m].state
         /\ m # n => attempts'[m] = attempts[m]
  OBVIOUS
<1>3. KeysUnique' /\ AnswersKept'
  BY <1>1, <1>2
<1> QED BY <1>1, <1>2, <1>3

\* All answers to a key are about one attempt, and no attempt that succeeded or
\* failed is paid again (Ledger).
THEOREM KeysAlwaysNameOneAttempt == LedgerSpec => KeysNameOneAttempt
<1> DEFINE Settled == \A n \in DOMAIN attempts :
              /\ attempts[n].state = "succeeded" => attempts'[n] = attempts[n]
              /\ attempts[n].state = "failed" => attempts'[n].state = "failed"
           OneAnswer == \A s, t \in answered : s.key = t.key => s = t
<1>1. LedgerInv /\ [LedgerNext]_ledgerVars => LedgerInv' /\ [Settled]_ledgerVars
  <2>1. LedgerInv /\ UNCHANGED ledgerVars => LedgerInv'
    BY DEF LedgerInv, KeysUnique, AnswersKept, ledgerVars
  <2>2. ASSUME LedgerInv, NEW i \in LedgerInvoices, NEW k \in LedgerKeys, NEW a \in Amounts,
               StartAttempt(i, k, a)
        PROVE  LedgerInv' /\ Settled
    BY <2>2, StartStep
  <2>3. ASSUME LedgerInv, NEW n \in DOMAIN attempts, SucceedAttempt(n) \/ FailAttempt(n)
        PROVE  LedgerInv' /\ Settled
    BY <2>3, ReportStep
  <2> QED BY <2>1, <2>2, <2>3 DEF LedgerNext
<1>2. LedgerInv => OneAnswer
  BY DEF LedgerInv, KeysUnique, AnswersKept
<1> QED BY <1>1, <1>2, LedgerInitial, PTL DEF LedgerSpec, KeysNameOneAttempt

-----------------------------------------------------------------------------
(* Permits. *)

PermitRows == [status : {"pending", "approved", "revoked"}, issued : Nat, expires : Nat,
               version : Nat]

PermitTypeOK ==
    /\ held \in [Holders -> PermitRows]
    /\ done \in [Holders -> SUBSET Codes]
    /\ today \in Nat

\* Each check that is done raised the version, and a value that left "pending" had
\* none missing and a term.
Earned(h) ==
    /\ done[h] = doneBy[h]
    /\ held[h].version > Cardinality(done[h])
    /\ held[h].status # "pending" => Missing(h) = {} /\ held[h].issued < held[h].expires

PermitInv ==
    /\ PermitTypeOK
    /\ doneBy \in [Holders -> SUBSET Codes]
    /\ \A h \in Holders : Earned(h)

LEMMA PermitInitial == PermitInit => PermitInv
<1> SUFFICES ASSUME PermitInit PROVE PermitInv
  OBVIOUS
<1>1. PermitTypeOK /\ doneBy \in [Holders -> SUBSET Codes]
  BY DEF PermitInit, PermitTypeOK, PermitRows, Fresh
<1>2. Cardinality({}) = 0
  BY FS_EmptySet
<1>3. ASSUME NEW h \in Holders PROVE Earned(h)
  BY <1>2 DEF PermitInit, Earned, Fresh
<1> QED BY <1>1, <1>3 DEF PermitInv

\* One more check is one more element at most.
LEMMA OneMoreCheck ==
  ASSUME NEW S \in SUBSET Codes, NEW code \in Codes
  PROVE  /\ Cardinality(S) \in Nat /\ Cardinality(S \cup {code}) \in Nat
         /\ Cardinality(S \cup {code}) <= Cardinality(S) + 1
<1>1. IsFiniteSet(S) /\ IsFiniteSet(S \cup {code})
  BY CodesAssumption, FS_Subset
<1>2. Cardinality(S) \in Nat /\ Cardinality(S \cup {code}) \in Nat
  BY <1>1, FS_CardinalityType
<1>3. ASSUME code \in S PROVE Cardinality(S \cup {code}) = Cardinality(S)
  <2>1. S \cup {code} = S
    BY <1>3
  <2> QED BY <2>1
<1>4. ASSUME code \notin S PROVE Cardinality(S \cup {code}) = Cardinality(S) + 1
  BY <1>1, <1>4, FS_AddElement
<1>5. \/ Cardinality(S \cup {code}) = Cardinality(S)
      \/ Cardinality(S \cup {code}) = Cardinality(S) + 1
  BY <1>3, <1>4
<1> QED BY <1>2, <1>5

LEMMA PermitStep == PermitInv /\ [PermitNext]_permitVars => PermitInv'
<1> SUFFICES ASSUME PermitInv, [PermitNext]_permitVars PROVE PermitInv'
  OBVIOUS
<1>t. /\ held \in [Holders -> PermitRows] /\ today \in Nat
      /\ done \in [Holders -> SUBSET Codes] /\ doneBy \in [Holders -> SUBSET Codes]
  BY DEF PermitInv, PermitTypeOK
<1>e. \A h \in Holders : Earned(h)
  BY DEF PermitInv
\* A holder whose value no call touched.
<1>f. ASSUME NEW g \in Holders, held'[g] = held[g], done'[g] = done[g], doneBy'[g] = doneBy[g]
      PROVE  Earned(g)'
  BY <1>e, <1>f DEF Earned, Missing
<1>1. ASSUME NEW h \in Holders, NEW code \in Codes, Complete(h, code) PROVE PermitInv'
  <2>1. /\ held' = [held EXCEPT ![h] = [held[h] EXCEPT !.version = @ + 1]]
        /\ done' = [done EXCEPT ![h] = @ \cup {code}]
        /\ doneBy' = [doneBy EXCEPT ![h] = @ \cup {code}]
        /\ today' = today /\ held[h].status = "pending"
    BY <1>1 DEF Complete, Changed, Mark
  <2>2. [held[h] EXCEPT !.version = @ + 1] \in PermitRows
    BY <1>t DEF PermitRows
  <2>3. PermitTypeOK' /\ doneBy' \in [Holders -> SUBSET Codes]
    BY <1>t, <2>1, <2>2 DEF PermitTypeOK
  <2>4. Earned(h)'
    <3>1. /\ held'[h].version = held[h].version + 1 /\ held'[h].status = "pending"
          /\ done'[h] = done[h] \cup {code} /\ doneBy'[h] = doneBy[h] \cup {code}
          /\ held[h].version \in Nat
      BY <1>t, <2>1 DEF PermitRows
    <3>2. /\ Cardinality(done[h]) \in Nat /\ Cardinality(done[h] \cup {code}) \in Nat
          /\ Cardinality(done[h] \cup {code}) <= Cardinality(done[h]) + 1
      BY <1>t, OneMoreCheck
    <3> QED BY <1>e, <3>1, <3>2 DEF Earned
  <2>5. \A g \in Holders \ {h} : Earned(g)'
    BY <1>t, <1>f, <2>1
  <2> QED BY <2>3, <2>4, <2>5 DEF PermitInv
\* Issue and Revoke leave the checks alone and raise the version.
<1>2. ASSUME NEW h \in Holders, NEW value \in PermitRows, Changed(h, value),
             UNCHANGED <<done, today, doneBy>>, value.version = held[h].version,
             Missing(h) = {}, value.issued < value.expires
      PROVE  PermitInv'
  <2>1. [value EXCEPT !.version = @ + 1] \in PermitRows
    BY DEF PermitRows
  <2>2. held' = [held EXCEPT ![h] = [value EXCEPT !.version = @ + 1]]
    BY <1>2 DEF Changed
  <2>3. PermitTypeOK' /\ doneBy' \in [Holders -> SUBSET Codes]
    BY <1>t, <1>2, <2>1, <2>2 DEF PermitTypeOK
  <2>4. Earned(h)'
    <3>1. /\ held'[h].version = held[h].version + 1
          /\ held'[h].issued = value.issued /\ held'[h].expires = value.expires
          /\ held[h].version \in Nat
      BY <1>t, <1>2, <2>2 DEF PermitRows
    <3>2. Missing(h)' = {} /\ Cardinality(done[h]) \in Nat
      BY <1>t, <1>2, CodesAssumption, FS_Subset, FS_CardinalityType DEF Missing
    <3> QED BY <1>e, <1>2, <3>1, <3>2 DEF Earned
  <2>5. \A g \in Holders \ {h} : Earned(g)'
    BY <1>t, <1>f, <1>2, <2>2
  <2> QED BY <2>3, <2>4, <2>5 DEF PermitInv
<1>3. ASSUME NEW h \in Holders, NEW term \in Terms, Issue(h, term) PROVE PermitInv'
  <2> DEFINE value == [held[h] EXCEPT !.status = "approved", !.issued = today,
                                      !.expires = today + term]
  <2>1. term \in Nat /\ term > 0 /\ today + term \in Nat /\ today < today + term
    BY <1>t, TermAssumption
  <2>a. held[h] \in PermitRows
    BY <1>t
  <2>b. /\ value \in PermitRows /\ value.version = held[h].version
        /\ value.issued = today /\ value.expires = today + term
    BY <1>t, <2>a, <2>1 DEF PermitRows
  <2>2. /\ value \in PermitRows /\ value.version = held[h].version
        /\ value.issued < value.expires
    BY <2>b, <2>1
  <2>3. Changed(h, value) /\ UNCHANGED <<done, today, doneBy>> /\ Missing(h) = {}
    BY <1>3 DEF Issue, Ready
  <2> HIDE DEF value
  <2> QED BY <1>2, <2>2, <2>3
<1>4. ASSUME NEW h \in Holders, Revoke(h) PROVE PermitInv'
  <2> DEFINE value == [held[h] EXCEPT !.status = "revoked"]
  <2>1. value \in PermitRows /\ value.version = held[h].version
        /\ value.issued = held[h].issued /\ value.expires = held[h].expires
    BY <1>t DEF PermitRows
  <2>2. Changed(h, value) /\ UNCHANGED <<done, today, doneBy>> /\ held[h].status = "approved"
    BY <1>4 DEF Revoke
  <2>3. Missing(h) = {} /\ held[h].issued < held[h].expires
    BY <1>e, <2>2 DEF Earned
  <2> HIDE DEF value
  <2> QED BY <1>2, <2>1, <2>2, <2>3
<1>5. ASSUME NEW h \in Holders, NEW g \in Holders, HandOver(h, g) PROVE PermitInv'
  <2>1. PermitTypeOK' /\ doneBy' \in [Holders -> SUBSET Codes]
    BY <1>t, <1>5 DEF HandOver, PermitTypeOK
  <2>2. Earned(g)'
    BY <1>t, <1>e, <1>5 DEF HandOver, Earned, Missing
  <2>3. \A x \in Holders \ {g} : Earned(x)'
    BY <1>t, <1>f, <1>5 DEF HandOver
  <2> QED BY <2>1, <2>2, <2>3 DEF PermitInv
<1>6. CASE NextDay
  BY <1>t, <1>f, <1>6 DEF NextDay, PermitInv, PermitTypeOK
<1>7. CASE UNCHANGED permitVars
  BY <1>t, <1>f, <1>7 DEF permitVars, PermitInv, PermitTypeOK
<1> QED BY <1>1, <1>3, <1>4, <1>5, <1>6, <1>7 DEF PermitNext

\* A permit that was ever issued has every required check done by a call that led to
\* this value, and is active on the days of its term only, whoever keeps or hands over
\* old values (Complete, Issue, Copy).
THEOREM PermitsAlwaysEarned == PermitSpec => []PermitEarned
<1>1. PermitInv => PermitEarned
  <2> SUFFICES ASSUME PermitInv, NEW h \in Holders, NEW day \in 0..(LastDay + 1), Active(h, day)
               PROVE  doneBy[h] = Codes /\ day \in held[h].issued..(held[h].expires - 1)
    BY DEF PermitInv, Earned, PermitEarned
  <2>1. day \in Int /\ held[h].issued \in Int /\ held[h].expires \in Int
    BY LastDayAssumption DEF PermitInv, PermitTypeOK, PermitRows
  <2>2. held[h].status # "pending" /\ held[h].issued <= day /\ day < held[h].expires
    BY DEF Active
  <2>3. Earned(h) /\ doneBy[h] \in SUBSET Codes
    BY DEF PermitInv
  <2>4. Codes \ done[h] = {} /\ done[h] = doneBy[h]
    BY <2>2, <2>3 DEF Earned, Missing
  <2>5. doneBy[h] = Codes
    BY <2>3, <2>4
  <2>6. day \in held[h].issued..(held[h].expires - 1)
    BY <2>1, <2>2
  <2> QED BY <2>5, <2>6
<1>2. PermitSpec => []PermitInv
  BY PermitInitial, PermitStep, PTL DEF PermitSpec
<1> QED BY <1>1, <1>2, PTL

-----------------------------------------------------------------------------
(* Weighing. *)

WeighingTypeOK ==
    /\ net \in [Taken -> Nets]
    /\ at \in [Taken -> Times]
    /\ series \in Seq(Taken)

\* A reading has a number, a weight and a time.
LEMMA ReadingValues ==
  ASSUME WeighingTypeOK, NEW r \in Taken
  PROVE  Number(r) \in 1..Readings /\ Number(r) \in Nat /\ net[r] \in Nat /\ at[r] \in Nat
<1>1. r[2] \in 1..Readings /\ r[2] \in Nat
  BY ReadingsAssumption DEF Taken
<1>2. net[r] \in Nets /\ at[r] \in Times
  BY DEF WeighingTypeOK
<1> QED BY <1>1, <1>2, ReadingsAssumption DEF Number

\* Ordered lists the readings of a series, all of them and nothing else.
LEMMA OrderedLists ==
  ASSUME WeighingTypeOK, NEW s \in Seq(Taken)
  PROVE  /\ Ordered(s) \in [1..Len(s) -> Taken]
         /\ { Ordered(s)[i] : i \in 1..Len(s) } = { s[i] : i \in 1..Len(s) }
<1> DEFINE D == DOMAIN s
           Before(i, j) == \/ Number(s[i]) < Number(s[j])
                           \/ Number(s[i]) = Number(s[j]) /\ at[s[i]] < at[s[j]]
                           \/ Number(s[i]) = Number(s[j]) /\ at[s[i]] = at[s[j]] /\ i < j
           before == { p \in D \X D : Before(p[1], p[2]) }
           places == Ranked(D, before)
<1>1. Len(s) \in Nat /\ D = 1..Len(s) /\ \A i \in D : s[i] \in Taken
  BY LenProperties, ElementOfSeq
<1>2. IsFiniteSet(D) /\ Cardinality(D) = Len(s)
  <2>1. \A n \in Nat : IsFiniteSet(1..n) /\ Cardinality(1..n) = n
    BY FS_Interval
  <2> QED BY <1>1, <2>1
<1>3. \A i, j \in D : <<i, j>> \in before <=> Before(i, j)
  OBVIOUS
<1>4. StrictOrder(D, before)
  <2>1. \A i \in D : i \in Nat /\ Number(s[i]) \in Nat /\ at[s[i]] \in Nat
    BY <1>1, ReadingValues
  <2>2. \A i \in D : ~ Before(i, i)
    BY <2>1
  <2>3. \A i, j \in D : i # j => Before(i, j) \/ Before(j, i)
    BY <2>1
  <2>4. \A i, j, k \in D : Before(i, j) /\ Before(j, k) => Before(i, k)
    BY <2>1
  <2> HIDE DEF D, before, Before
  <2> QED BY <1>3, <2>2, <2>3, <2>4 DEF StrictOrder
<1>5. Ordered(s) = [n \in D |-> s[places[n]]]
  BY DEF Ordered
<1> HIDE DEF D, before
<1>6. /\ places \in [1..Len(s) -> D]
      /\ \A x \in D : \E i \in 1..Len(s) : places[i] = x
  BY <1>2, <1>4, RankedLists
<1> HIDE DEF places
<1>7. Ordered(s) \in [1..Len(s) -> Taken]
  BY <1>1, <1>5, <1>6
<1>8. \A i \in 1..Len(s) : Ordered(s)[i] = s[places[i]] /\ places[i] \in 1..Len(s)
  BY <1>1, <1>5, <1>6
<1>9. ASSUME NEW x \in 1..Len(s) PROVE s[x] \in { Ordered(s)[i] : i \in 1..Len(s) }
  <2>1. PICK i \in 1..Len(s) : places[i] = x
    BY <1>1, <1>6
  <2> QED BY <1>8, <2>1
<1>10. { Ordered(s)[i] : i \in 1..Len(s) } = { s[i] : i \in 1..Len(s) }
  <2>1. \A y \in { Ordered(s)[i] : i \in 1..Len(s) } : y \in { s[i] : i \in 1..Len(s) }
    BY <1>8
  <2>2. \A y \in { s[i] : i \in 1..Len(s) } : y \in { Ordered(s)[i] : i \in 1..Len(s) }
    BY <1>9
  <2> QED BY <2>1, <2>2
<1> QED BY <1>7, <1>10

\* A valid series has at each place of its order the reading with the number of the
\* place, in the order of the times: a step back anywhere would be a step back between
\* two neighbours.
LEMMA ValidSeries ==
  ASSUME WeighingTypeOK, Validated(series)
  PROVE  /\ \A i \in 1..Len(series) : Ordered(series)[i] \in Taken /\ Number(Ordered(series)[i]) = i
         /\ \A i \in 1..Len(series) : \E k \in 1..Len(series) : Ordered(series)[i] = series[k]
         /\ \A k \in 1..Len(series) : /\ Number(series[k]) \in 1..Len(series)
                                      /\ Ordered(series)[Number(series[k])] = series[k]
         /\ \A i, j \in 1..Len(series) : i < j => at[Ordered(series)[i]] <= at[Ordered(series)[j]]
<1> DEFINE n == Len(series)
           o == Ordered(series)
<1>1. n \in Nat
  BY DEF WeighingTypeOK
<1>2. /\ o \in [1..n -> Taken]
      /\ { o[i] : i \in 1..n } = { series[i] : i \in 1..n }
  BY OrderedLists DEF WeighingTypeOK
<1>3. \A i \in 1..n : Number(o[i]) = i /\ ~ (i > 1 /\ at[o[i]] < at[o[i - 1]])
  BY <1>2 DEF Validated, InSequence, TimeMovedBackwards
<1>4. \A i \in 1..n : o[i] \in Taken /\ at[o[i]] \in Nat
  BY <1>2, ReadingValues
<1>5. ASSUME NEW k \in 1..n PROVE Number(series[k]) \in 1..n /\ o[Number(series[k])] = series[k]
  <2>1. PICK i \in 1..n : o[i] = series[k]
    BY <1>2
  <2> QED BY <1>3, <2>1
<1>6. \A i \in 1..n : \E k \in 1..n : o[i] = series[k]
  BY <1>2
<1> HIDE DEF n, o
<1>7. ASSUME NEW i \in 1..n, NEW j \in 1..n, i < j, at[o[j]] < at[o[i]] PROVE FALSE
  <2> DEFINE back == { k \in 1..n : i < k /\ at[o[k]] < at[o[i]] }
  <2>1. back \subseteq Nat /\ back # {}
    BY <1>1, <1>7
  <2>2. PICK m \in back : \A k \in back : m <= k
    BY <2>1, LeastNumber
  <2>3. m \in 1..n /\ m - 1 \in 1..n /\ m > 1 /\ m - 1 \in Nat /\ i <= m - 1
    BY <1>1, <2>2
  <2>4. ~ (at[o[m]] < at[o[m - 1]])
    BY <1>3, <2>3
  <2>5. m - 1 \in back
    BY <1>4, <2>2, <2>3, <2>4
  <2> QED BY <2>2, <2>3, <2>5
<1>8. \A i, j \in 1..n : i < j => at[o[i]] <= at[o[j]]
  BY <1>4, <1>7
<1> QED BY <1>3, <1>4, <1>5, <1>6, <1>8 DEF n, o

\* Whatever is captured in whatever order, a series that Validate accepts has the
\* numbers from 1 on, each once and in the order of the times, and if all of it is of
\* one device, its quantity is the difference between what the device showed last and
\* first (Capture, Ordered, Validate, DeliveredKG, WithinTolerance).
THEOREM SeriesAlwaysAsMeasured == WeighingSpec => []SeriesAsMeasured
<1>1. WeighingInit => WeighingTypeOK
  BY DEF WeighingInit, WeighingTypeOK
<1>2. WeighingTypeOK /\ [WeighingNext]_weighingVars => WeighingTypeOK'
  <2> SUFFICES ASSUME WeighingTypeOK, [WeighingNext]_weighingVars PROVE WeighingTypeOK'
    OBVIOUS
  <2>1. ASSUME NEW r \in Taken, Capture(r) PROVE WeighingTypeOK'
    <3>1. Append(series, r) \in Seq(Taken)
      BY AppendProperties DEF WeighingTypeOK
    <3> QED BY <2>1, <3>1 DEF WeighingTypeOK, Capture
  <2>2. CASE UNCHANGED weighingVars
    BY <2>2 DEF WeighingTypeOK, weighingVars
  <2> QED BY <2>1, <2>2 DEF WeighingNext
<1>3. WeighingTypeOK => SeriesAsMeasured
  <2> SUFFICES ASSUME WeighingTypeOK, Validated(series) PROVE SeriesAsMeasured
    BY DEF SeriesAsMeasured
  <2> DEFINE n == Len(series)
             o == Ordered(series)
  <2>1. n \in Nat /\ DOMAIN series = 1..n
    BY DEF WeighingTypeOK
  <2>2. /\ \A i \in 1..n : o[i] \in Taken /\ Number(o[i]) = i
        /\ \A i \in 1..n : \E k \in 1..n : o[i] = series[k]
        /\ \A k \in 1..n : Number(series[k]) \in 1..n /\ o[Number(series[k])] = series[k]
        /\ \A i, j \in 1..n : i < j => at[o[i]] <= at[o[j]]
    BY ValidSeries
  <2> HIDE DEF n, o
  <2>3. { Number(series[i]) : i \in DOMAIN series } = 1..n
    <3>1. \A i \in 1..n : i \in { Number(series[k]) : k \in 1..n }
      BY <2>2
    <3>2. \A x \in { Number(series[k]) : k \in 1..n } : x \in 1..n
      BY <2>2
    <3>3. { Number(series[k]) : k \in 1..n } = 1..n
      BY <3>1, <3>2
    <3> QED BY <2>1, <3>3
  <2>4. ASSUME NEW i \in DOMAIN series, NEW j \in DOMAIN series, Number(series[i]) < Number(series[j])
        PROVE  at[series[i]] <= at[series[j]]
    <3>1. /\ Number(series[i]) \in 1..n /\ o[Number(series[i])] = series[i]
          /\ Number(series[j]) \in 1..n /\ o[Number(series[j])] = series[j]
      BY <2>1, <2>2
    <3>2. at[o[Number(series[i])]] <= at[o[Number(series[j])]]
      BY <2>2, <2>4, <3>1
    <3> QED BY <3>1, <3>2
  <2>5. ASSUME NEW d \in Devices, \A i \in DOMAIN series : series[i][1] = d,
               NEW target \in Nets \ {0}, WithinTolerance(series, target, 0)
        PROVE  net[<<d, n>>] = net[<<d, 1>>] + target
    <3>1. 1 \in 1..n /\ n \in 1..n /\ net[o[n]] >= net[o[1]]
      BY <2>1, <2>5 DEF WithinTolerance, HasDelivered, n, o
    <3>2. ASSUME NEW i \in 1..n PROVE o[i] = <<d, i>> /\ net[o[i]] \in Nat
      <4>1. o[i][1] = d /\ o[i][2] = i
        <5>1. PICK k \in 1..n : o[i] = series[k]
          BY <2>2
        <5>2. series[k][1] = d
          BY <2>1, <2>5
        <5>3. Number(o[i]) = i
          BY <2>2
        <5> QED BY <5>1, <5>2, <5>3 DEF Number
      <4>2. o[i] \in Taken
        BY <2>2
      <4>3. net[o[i]] \in Nat
        BY <4>2, ReadingValues
      <4>4. o[i] = <<o[i][1], o[i][2]>>
        BY <4>2 DEF Taken
      <4> QED BY <4>1, <4>3, <4>4
    <3>3. o[n] = <<d, n>> /\ o[1] = <<d, 1>> /\ net[o[n]] \in Nat /\ net[o[1]] \in Nat /\ target \in Nat
      BY <3>1, <3>2, ReadingsAssumption
    <3>4. DeliveredKG(series) = net[o[n]] - net[o[1]]
      BY DEF DeliveredKG, n, o
    <3>5. (IF DeliveredKG(series) < target THEN target - DeliveredKG(series)
                                           ELSE DeliveredKG(series) - target) * 100 <= target * 0
      BY <2>5 DEF WithinTolerance
    <3>6. net[o[n]] = net[o[1]] + target
      BY <3>3, <3>4, <3>5
    <3> QED BY <3>3, <3>6
  <2> QED BY <2>3, <2>4, <2>5 DEF SeriesAsMeasured, n
<1> QED BY <1>1, <1>2, <1>3, PTL DEF WeighingSpec

-----------------------------------------------------------------------------
(* Prices and taxes. *)

\* The quantities of every band are priced in multiples of ten cents.
LEMMA BandCents ==
  ASSUME NEW kg \in Nat
  PROVE  Band(kg).cents \in {120, 100, 80}
<1> DEFINE Fits(i) == kg >= Bands[i].from /\ \A j \in DOMAIN Bands : kg >= Bands[j].from => j <= i
<1>1. DOMAIN Bands = 1..3
  BY SMT DEF Bands
<1>2. Bands[1].from = 0 /\ Bands[2].from = 10000 /\ Bands[3].from = 50000
  BY SMT DEF Bands
<1>3. \E i \in 1..3 : Fits(i)
  <2>1. CASE kg < 10000
    <3>1. Fits(1)
      BY <1>1, <1>2, <2>1, SMT
    <3> QED BY <3>1, SMT
  <2>2. CASE kg >= 10000 /\ kg < 50000
    <3>1. Fits(2)
      BY <1>1, <1>2, <2>2, SMT
    <3> QED BY <3>1, SMT
  <2>3. CASE kg >= 50000
    <3>1. Fits(3)
      BY <1>1, <1>2, <2>3, SMT
    <3> QED BY <3>1, SMT
  <2> QED BY <2>1, <2>2, <2>3, SMT
<1> HIDE DEF Fits
<1>4. \E i \in 1..3 : Band(kg) = Bands[i]
  BY <1>1, <1>3, SMT DEF Band, Fits
<1> QED BY <1>4, SMT DEF Bands

\* A multiple of ten cents is converted without a fraction.
LEMMA ConvertWhole ==
  ASSUME NEW a \in Nat, NEW currency \in DOMAIN Multiplier
  PROVE  Convert(10 * a, currency) = a * Multiplier[currency] /\ Multiplier[currency] \in {10, 71}
<1>1. currency \in {"USD", "CNY"}
  BY DEF Multiplier
<1>2. CASE currency = "USD"
  <2>1. Multiplier[currency] = 10
    BY <1>2 DEF Multiplier
  <2>2. ((10 * a) * 10) \div 10 = a * 10
    OBVIOUS
  <2> QED BY <2>1, <2>2 DEF Convert
<1>3. CASE currency = "CNY"
  <2>1. Multiplier[currency] = 71
    BY <1>3 DEF Multiplier
  <2>2. ((10 * a) * 71) \div 10 = a * 71
    OBVIOUS
  <2> QED BY <2>1, <2>2 DEF Convert
<1> QED BY <1>1, <1>2, <1>3

\* Rounding a sum and rounding its parts differ by a cent at most.
LEMMA RoundedParts ==
  ASSUME NEW a \in Nat, NEW b \in Nat, NEW rate \in Nat
  PROVE  Apply(rate, a + b) - (Apply(rate, a) + Apply(rate, b)) \in -1..1
<1>1. PICK x \in Nat : x = a * rate
  OBVIOUS
<1>2. PICK y \in Nat : y = b * rate
  OBVIOUS
<1>3. (a + b) * rate = x + y
  BY <1>1, <1>2
<1>4. (x + y + 50) \div 100 - ((x + 50) \div 100 + (y + 50) \div 100) \in -1..1
  OBVIOUS
<1>5. /\ Apply(rate, a + b) = a + b + (x + y + 50) \div 100
      /\ Apply(rate, a) = a + (x + 50) \div 100
      /\ Apply(rate, b) = b + (y + 50) \div 100
  BY <1>1, <1>2, <1>3 DEF Apply
<1>6. PICK p \in Int : p = (x + y + 50) \div 100
  OBVIOUS
<1>7. PICK q \in Int : q = (x + 50) \div 100
  OBVIOUS
<1>8. PICK s \in Int : s = (y + 50) \div 100
  OBVIOUS
<1>9. p - (q + s) \in -1..1
  BY <1>4, <1>6, <1>7, <1>8
<1> QED BY <1>5, <1>6, <1>7, <1>8, <1>9

\* The parts of every quote add up (DefaultPolicy, Quote, Apply).
LEMMA QuoteSound == call \in Computations => QuoteAddsUp
<1> SUFFICES ASSUME call \in Computations, call.what = "quote" PROVE QuoteAddsUp
  BY SMT DEF QuoteAddsUp
<1>1. /\ call.kg \in Nat /\ call.rate \in Nat
      /\ call.currency \in DOMAIN Multiplier
  <2>1. call \in [what : {"quote"}, kg : Weights, hour : 0..23, hazardous : BOOLEAN,
                  currency : DOMAIN Multiplier, rate : Rates]
    BY SMT DEF Computations
  <2>2. Weights \subseteq Nat /\ Rates \subseteq Nat
    BY WeightAssumption, SMT
  <2> QED BY <2>1, <2>2
<1> DEFINE cents == Band(call.kg).cents
           surcharge == (IF IsNight(call.hour) THEN 10000 ELSE 0) + (IF call.hazardous THEN 15000 ELSE 0)
           q == Quote(call.kg, call.hour, call.hazardous, call.currency)
           times == Multiplier[call.currency]
<1>2. PICK m \in Nat : 5000 + call.kg * cents = 10 * m
  <2>1. cents \in {120, 100, 80}
    BY <1>1, BandCents, SMT
  <2> HIDE DEF cents
  <2>2. CASE cents = 120
    <3>1. 500 + call.kg * 12 \in Nat /\ 5000 + call.kg * cents = 10 * (500 + call.kg * 12)
      BY <1>1, <2>2, SMT
    <3> QED BY <3>1, SMT
  <2>3. CASE cents = 100
    <3>1. 500 + call.kg * 10 \in Nat /\ 5000 + call.kg * cents = 10 * (500 + call.kg * 10)
      BY <1>1, <2>3, SMT
    <3> QED BY <3>1, SMT
  <2>4. CASE cents = 80
    <3>1. 500 + call.kg * 8 \in Nat /\ 5000 + call.kg * cents = 10 * (500 + call.kg * 8)
      BY <1>1, <2>4, SMT
    <3> QED BY <3>1, SMT
  <2> QED BY <2>1, <2>2, <2>3, <2>4, SMT
<1>3. PICK n \in Nat : surcharge = 10 * n
  <2>1. surcharge = 10 * ((IF IsNight(call.hour) THEN 1000 ELSE 0) + (IF call.hazardous THEN 1500 ELSE 0))
    BY SMT
  <2>2. (IF IsNight(call.hour) THEN 1000 ELSE 0) + (IF call.hazardous THEN 1500 ELSE 0) \in Nat
    BY SMT
  <2> HIDE DEF surcharge
  <2> QED BY <2>1, <2>2, SMT
<1>4. /\ q.subtotal = Convert(10 * m, call.currency)
      /\ q.surcharges = Convert(10 * n, call.currency)
      /\ q.total = Convert(10 * m + 10 * n, call.currency)
  <2>1. q = [subtotal |-> Convert(5000 + call.kg * cents, call.currency),
             surcharges |-> Convert(surcharge, call.currency),
             total |-> Convert(5000 + call.kg * cents + surcharge, call.currency)]
    BY SMT DEF Quote
  <2> HIDE DEF cents, surcharge, q
  <2> QED BY <1>2, <1>3, <2>1, SMT
<1> HIDE DEF cents, surcharge, q, times
<1>5. 10 * m + 10 * n = 10 * (m + n) /\ m + n \in Nat
  BY SMT
<1>6. /\ q.subtotal = m * times /\ q.surcharges = n * times /\ q.total = (m + n) * times
      /\ times \in {10, 71}
  BY <1>1, <1>4, <1>5, ConvertWhole, SMT DEF times
<1>7. q.subtotal \in Nat /\ q.surcharges \in Nat /\ q.total = q.subtotal + q.surcharges
  BY <1>6, SMT
<1>8. Apply(call.rate, q.total) - (Apply(call.rate, q.subtotal) + Apply(call.rate, q.surcharges)) \in -1..1
  BY <1>1, <1>7, RoundedParts, SMT
<1> QED BY <1>7, <1>8, SMT DEF QuoteAddsUp, q

-----------------------------------------------------------------------------
(* Opening hours. *)

\* Quotient and remainder.
LEMMA DivisionRule ==
  ASSUME NEW n \in Int, n > 0, NEW l \in Int
  PROVE  l = n * (l \div n) + (l % n)
BY SMT

\* The day and the minute of the day of a clock reading.
LEMMA DayAndMinute ==
  ASSUME NEW l \in Int
  PROVE  /\ l \div Day \in Int /\ l % Day \in 0..(Day - 1) /\ l = (l \div Day) * Day + (l % Day)
         /\ \E k \in Int, m \in 0..(Day - 1) : l = k * Day + m
<1>1. PICK d \in Int : d = Day /\ d > 0
  BY DayAssumption
<1>2. l \div d \in Int /\ l % d \in 0..(d - 1)
  BY <1>1
<1>3. PICK q \in Int, r \in 0..(d - 1) : q = l \div d /\ r = l % d
  BY <1>2
<1>4. l = d * (l \div d) + (l % d)
  BY <1>1, DivisionRule
<1>5. l = q * d + r
  BY <1>1, <1>3, <1>4
<1>6. l \div Day = q /\ l % Day = r
  BY <1>1, <1>3, Zenon
<1>7. r \in 0..(Day - 1) /\ l = q * Day + r
  BY <1>1, <1>5, Zenon
<1>8. l \div Day \in Int /\ l % Day \in 0..(Day - 1) /\ l = (l \div Day) * Day + (l % Day)
  <2>1. l \div Day \in Int /\ l % Day \in 0..(Day - 1)
    BY <1>6, <1>7, Zenon
  <2>2. (l \div Day) * Day + (l % Day) = q * Day + r
    BY <1>6, Zenon
  <2> QED BY <1>7, <2>1, <2>2, Zenon
<1>9. \E k \in Int, m \in 0..(Day - 1) : l = k * Day + m
  BY <1>7, Zenon
<1> QED BY <1>8, <1>9, Zenon

\* No reading has two of them.
LEMMA MinuteOfDay ==
  ASSUME NEW k \in Int, NEW m \in 0..(Day - 1)
  PROVE  (k * Day + m) % Day = m /\ (k * Day + m) \div Day = k
<1>1. PICK d \in Nat \ {0} : d = Day
  BY DayAssumption
<1>2. PICK l \in Int : l = k * d + m
  BY <1>1
<1>3. PICK q \in Int, r \in 0..(d - 1) : q = l \div d /\ r = l % d /\ l = q * d + r
  BY <1>1, DayAndMinute
<1>4. (k - q) * d = r - m
  BY <1>1, <1>2, <1>3
<1>5. CASE k = q
  BY <1>1, <1>2, <1>3, <1>5
<1>6. CASE k > q
  <2>1. (k - q) * d >= d
    BY <1>6
  <2> QED BY <1>1, <1>3, <1>4, <2>1
<1>7. CASE k < q
  <2>1. (q - k) * d >= d /\ (q - k) * d = 0 - (k - q) * d
    BY <1>7
  <2> QED BY <1>1, <1>3, <1>4, <2>1
<1> QED BY <1>5, <1>6, <1>7

Zones == [change : Int, before : Int, after : Int]

\* What is open on a clock that reads m minutes of the day.
OpenMinute(from, until, m) ==
    IF from <= until THEN from <= m /\ m <= until ELSE from <= m \/ m <= until

LEMMA OpenOfMinute ==
  ASSUME NEW from, NEW until, NEW zone, NEW t, NEW k \in Int, NEW m \in 0..(Day - 1),
         Local(zone, t) = k * Day + m
  PROVE  OpenAt(from, until, zone, t) <=> OpenMinute(from, until, m)
<1>1. Local(zone, t) % Day = m
  BY MinuteOfDay
<1> QED BY <1>1 DEF OpenAt, OpenMinute

\* A clock reading is the moment less one of the two offsets.
LEMMA ClockReadings ==
  ASSUME NEW zone \in Zones, NEW t \in Int
  PROVE  /\ Offset(zone, t) \in {zone.before, zone.after}
         /\ zone.before \in Int /\ zone.after \in Int /\ zone.change \in Int
         /\ Offset(zone, t) \in Int
         /\ Local(zone, t) = t + Offset(zone, t) /\ Local(zone, t) \in Int
         /\ \E o \in {zone.before, zone.after} : Date(zone, t) = t - o
         /\ Date(zone, t) \in Int
<1>1. zone.before \in Int /\ zone.after \in Int /\ zone.change \in Int
  BY DEF Zones
<1>2. \A u \in Int : Offset(zone, u) \in {zone.before, zone.after}
  BY DEF Offset
<1>3. t - Offset(zone, t) \in Int
  BY <1>1, <1>2
<1>4. Offset(zone, t - Offset(zone, t)) \in {zone.before, zone.after}
  BY <1>2, <1>3
<1> QED BY <1>1, <1>2, <1>4 DEF Local, Date

\* When the clocks are left alone: the days follow one another as Day says.
LEMMA OpeningOnCalmDay ==
  ASSUME NEW from \in 0..(Day - 1), NEW until \in 0..(Day - 1), NEW zone \in Zones, NEW time \in Int,
         NEW next \in Int, next = NextOpening(from, until, zone, time),
         ClocksLeftAlone(zone, time, next)
  PROVE  /\ next >= time /\ next < time + Day
         /\ OpenAt(from, until, zone, next)
         /\ \A t \in time..(next - 1) : ~ OpenAt(from, until, zone, t)
<1>1. PICK o \in Int : o = Offset(zone, time)
  BY ClockReadings
<1>2. PICK k \in Int, m \in 0..(Day - 1) : Local(zone, time) = k * Day + m
  <2>1. Local(zone, time) \in Int
    BY ClockReadings
  <2>2. PICK l \in Int : l = Local(zone, time)
    BY <2>1
  <2>3. \E k \in Int, m \in 0..(Day - 1) : l = k * Day + m
    BY DayAndMinute
  <2> QED BY <2>2, <2>3, Zenon
<1>3. PICK e \in Int : e = k * Day
  BY DayAssumption
<1>4. time = e + m - o
  <2>1. Local(zone, time) = time + o
    BY <1>1, ClockReadings
  <2>2. m \in Int
    BY DayAssumption
  <2>3. time + o = e + m
    BY <1>2, <1>3, <2>1
  <2> QED BY <2>2, <2>3
<1>5. (Local(zone, time) \div Day) * Day = e
  BY <1>2, <1>3, MinuteOfDay
<1>6. Midnight(zone, time) = e - o /\ Midnight(zone, time) \in Int
  <2>1. Midnight(zone, time) \in Int
    BY <1>5, ClockReadings DEF Midnight
  <2>2. Local(zone, Midnight(zone, time)) = e /\ Offset(zone, Midnight(zone, time)) = o
    BY <1>1, <1>5 DEF ClocksLeftAlone
  <2>3. Local(zone, Midnight(zone, time)) = Midnight(zone, time) + o
    BY <2>1, <2>2, ClockReadings
  <2> QED BY <2>1, <2>2, <2>3
<1>7. ASSUME NEW t \in time..next PROVE Local(zone, t) = t + o
  <2>1. Offset(zone, next) = o
    BY <1>1 DEF ClocksLeftAlone
  <2>2. Offset(zone, t) = o
    BY <1>1, <2>1, ClockReadings DEF Offset
  <2> QED BY <2>2 DEF Local
<1>8. next = IF OpenMinute(from, until, m) THEN time
             ELSE IF m < from THEN e + from - o ELSE e + from - o + Day
  <2>1. OpenAt(from, until, zone, time) <=> OpenMinute(from, until, m)
    BY <1>2, OpenOfMinute, Zenon
  <2>2. (e - o) + from > time <=> m < from
    BY <1>4
  <2> QED BY <1>4, <1>6, <2>1, <2>2 DEF NextOpening
<1>9. ASSUME NEW t \in time..next, NEW j \in 0..(Day - 1), t = e + j - o
      PROVE  OpenAt(from, until, zone, t) <=> OpenMinute(from, until, j)
  <2>1. Local(zone, t) = k * Day + j
    BY <1>3, <1>7, <1>9
  <2> QED BY <2>1, OpenOfMinute, Zenon
<1>10. ASSUME NEW t \in time..next, NEW j \in 0..(Day - 1), t = e + Day + j - o
       PROVE  OpenAt(from, until, zone, t) <=> OpenMinute(from, until, j)
  <2>1. (k + 1) * Day = k * Day + Day
    BY DayAssumption
  <2>2. Local(zone, t) = (k + 1) * Day + j
    BY <1>3, <1>7, <1>10, <2>1, DayAssumption
  <2>3. k + 1 \in Int
    OBVIOUS
  <2> QED BY <2>2, <2>3, OpenOfMinute, Zenon
<1>11. CASE OpenMinute(from, until, m)
  <2>1. next = time
    BY <1>8, <1>11
  <2>2. OpenAt(from, until, zone, next)
    BY <1>4, <1>9, <1>11, <2>1
  <2> QED BY <2>1, <2>2, DayAssumption
<1>12. CASE ~ OpenMinute(from, until, m) /\ m < from
  <2>1. next = e + from - o
    BY <1>8, <1>12
  <2>2. next >= time /\ next < time + Day
    BY <1>4, <1>12, <2>1, DayAssumption
  <2>3. OpenMinute(from, until, from)
    BY DayAssumption DEF OpenMinute
  <2>4. OpenAt(from, until, zone, next)
    BY <1>9, <2>1, <2>2, <2>3
  <2>5. ASSUME NEW t \in time..(next - 1) PROVE ~ OpenAt(from, until, zone, t)
    <3>1. PICK j \in Int : j = t - e + o
      OBVIOUS
    <3>2. j \in 0..(Day - 1) /\ t = e + j - o /\ m <= j /\ j < from /\ t \in time..next
      BY <1>4, <2>1, <3>1, DayAssumption
    <3>3. ~ OpenMinute(from, until, j)
      BY <1>12, <3>2, DayAssumption DEF OpenMinute
    <3> QED BY <1>9, <3>2, <3>3
  <2> QED BY <2>2, <2>4, <2>5
<1>13. CASE ~ OpenMinute(from, until, m) /\ m >= from
  <2>1. next = e + Day + from - o
    BY <1>8, <1>13, DayAssumption
  <2>2. from <= until /\ until < m
    BY <1>13, DayAssumption DEF OpenMinute
  <2>3. next >= time /\ next < time + Day
    BY <1>4, <2>1, <2>2, DayAssumption
  <2>4. OpenMinute(from, until, from)
    BY DayAssumption DEF OpenMinute
  <2>5. OpenAt(from, until, zone, next)
    BY <1>10, <2>1, <2>3, <2>4
  <2>6. ASSUME NEW t \in time..(next - 1) PROVE ~ OpenAt(from, until, zone, t)
    <3>1. PICK j \in Int : j = t - e + o
      OBVIOUS
    <3>2. j >= m /\ j < Day + from /\ t \in time..next
      BY <1>4, <2>1, <3>1, DayAssumption
    <3>3. CASE j < Day
      <4>1. j \in 0..(Day - 1) /\ t = e + j - o
        BY <3>1, <3>2, <3>3, DayAssumption
      <4>2. ~ OpenMinute(from, until, j)
        BY <2>2, <3>2, DayAssumption DEF OpenMinute
      <4> QED BY <1>9, <3>2, <4>1, <4>2
    <3>4. CASE j >= Day
      <4>1. j - Day \in 0..(Day - 1) /\ t = e + Day + (j - Day) - o /\ j - Day < from
        BY <3>1, <3>2, <3>4, DayAssumption
      <4>2. ~ OpenMinute(from, until, j - Day)
        BY <2>2, <4>1, DayAssumption DEF OpenMinute
      <4> QED BY <1>10, <3>2, <4>1, <4>2
    <3> QED BY <3>1, <3>2, <3>3, <3>4, DayAssumption
  <2> QED BY <2>3, <2>5, <2>6
<1> QED BY <1>11, <1>12, <1>13

\* When they are set: the moment and the time of day are off by no more.
LEMMA OpeningIsNear ==
  ASSUME NEW from \in 0..(Day - 1), NEW until \in 0..(Day - 1), NEW zone \in Zones, NEW time \in Int,
         NEW next \in Int, next = NextOpening(from, until, zone, time), next # time,
         NEW set \in Int, set = zone.after - zone.before
  PROVE  /\ \E off \in {0, set, 0 - set} : next > time + off
         /\ \E off \in {0, set, 0 - set} : next < time + Day + off
         /\ \E off \in {0, set, 0 - set} : (Local(zone, next) - from - off) % Day = 0
<1>1. PICK o \in Int : o = Offset(zone, time) /\ o \in {zone.before, zone.after}
  BY ClockReadings
<1>2. PICK k \in Int, m \in 0..(Day - 1) : Local(zone, time) = k * Day + m
  <2>1. Local(zone, time) \in Int
    BY ClockReadings
  <2>2. PICK l \in Int : l = Local(zone, time)
    BY <2>1
  <2>3. \E k \in Int, m \in 0..(Day - 1) : l = k * Day + m
    BY DayAndMinute
  <2> QED BY <2>2, <2>3, Zenon
<1>3. PICK e \in Int : e = k * Day
  BY DayAssumption
<1>4. time = e + m - o
  <2>1. Local(zone, time) = time + o
    BY <1>1, ClockReadings
  <2>2. m \in Int
    BY DayAssumption
  <2>3. time + o = e + m
    BY <1>2, <1>3, <2>1
  <2> QED BY <1>1, <1>3, <2>2, <2>3
<1>5. PICK p \in Int : Midnight(zone, time) = e - p /\ p \in {zone.before, zone.after}
  <2>1. (Local(zone, time) \div Day) * Day = e
    BY <1>2, <1>3, MinuteOfDay
  <2> QED BY <2>1, ClockReadings DEF Midnight
<1>6. PICK q \in Int : Local(zone, next) = next + q /\ q \in {zone.before, zone.after}
  BY ClockReadings
<1>7. /\ ~ OpenMinute(from, until, m)
      /\ next = IF e - p + from > time THEN e - p + from ELSE e - p + from + Day
  <2>1. OpenAt(from, until, zone, time) <=> OpenMinute(from, until, m)
    BY <1>2, OpenOfMinute, Zenon
  <2> QED BY <1>5, <2>1 DEF NextOpening
<1>8. m # from
  BY <1>7, DayAssumption DEF OpenMinute
<1>9. o - p \in {0, set, 0 - set} /\ q - p \in {0, set, 0 - set}
  <2>1. zone.before \in Int /\ zone.after \in Int
    BY ClockReadings
  <2>2. PICK b \in Int, a \in Int : b = zone.before /\ a = zone.after
    BY <2>1
  <2>3. o \in {b, a} /\ p \in {b, a} /\ q \in {b, a} /\ set = a - b
    BY <1>1, <1>5, <1>6, <2>2, Zenon
  <2> HIDE <2>2
  <2> QED BY <2>3
<1>10. \E off \in {0, set, 0 - set} : next > time + off
  <2>1. next > time \/ next > time + (o - p)
    BY <1>1, <1>4, <1>5, <1>7, DayAssumption
  <2> QED BY <1>9, <2>1
<1>11. \E off \in {0, set, 0 - set} : next < time + Day + off
  <2>1. CASE e - p + from > time
    <3>1. next < time + Day + (o - p)
      BY <1>1, <1>4, <1>5, <1>7, <2>1, DayAssumption
    <3> QED BY <1>9, <3>1
  <2>2. CASE ~ (e - p + from > time)
    <3>1. next <= time + Day
      BY <1>1, <1>4, <1>5, <1>7, <2>2, DayAssumption
    <3>2. next < time + Day + (o - p) \/ next < time + Day + 0 \/ set # 0
      BY <1>1, <1>4, <1>5, <1>7, <1>8, <1>9, <2>2, DayAssumption
    <3> QED BY <1>9, <3>1, <3>2, DayAssumption
  <2> QED BY <2>1, <2>2
<1>12. \E off \in {0, set, 0 - set} : (Local(zone, next) - from - off) % Day = 0
  <2>1. (k + 1) * Day = e + Day
    BY <1>3, DayAssumption
  <2>2. Local(zone, next) - from - (q - p) = e \/ Local(zone, next) - from - (q - p) = e + Day
    BY <1>4, <1>5, <1>6, <1>7, DayAssumption
  <2>3. e % Day = 0 /\ (e + Day) % Day = 0
    <3>1. 0 \in 0..(Day - 1)
      BY DayAssumption
    <3>2. (k * Day + 0) % Day = 0 /\ ((k + 1) * Day + 0) % Day = 0
      BY <3>1, MinuteOfDay
    <3> QED BY <1>3, <2>1, <3>2, DayAssumption
  <2>4. (Local(zone, next) - from - (q - p)) % Day = 0
    BY <2>2, <2>3
  <2> QED BY <1>9, <2>4
<1> QED BY <1>10, <1>11, <1>12

\* NextOpening is the first open moment of a day whose clocks are left alone, and off
\* by what they are set by on another (OpenAt, NextOpening).
LEMMA OpeningSound == call \in Computations => NextOpeningIsFirst
<1> SUFFICES ASSUME call \in Computations, call.what = "hours" PROVE NextOpeningIsFirst
  BY DEF NextOpeningIsFirst
<1>1. PICK from \in 0..(Day - 1), until \in 0..(Day - 1), time \in Int,
           zone \in [change : Changes, before : Offsets, after : Offsets] :
          call.from = from /\ call.until = until /\ call.time = time /\ call.zone = zone
  BY DayAssumption DEF Computations
<1>2. zone \in Zones
  BY ClockAssumption DEF Zones
<1>3. PICK next : next = NextOpening(from, until, zone, time)
  OBVIOUS
<1>4. next \in Int
  <2>1. Midnight(zone, time) \in Int
    <3>1. Local(zone, time) \in Int
      BY <1>2, ClockReadings
    <3>2. (Local(zone, time) \div Day) * Day \in Int
      BY <3>1, DayAssumption
    <3> QED BY <1>2, <3>2, ClockReadings DEF Midnight
  <2> QED BY <1>3, <2>1, DayAssumption DEF NextOpening
<1>5. PICK set \in Int : set = zone.after - zone.before
  BY <1>2, ClockReadings
<1>6. ClocksLeftAlone(zone, time, next) =>
        /\ next >= time /\ next < time + Day
        /\ OpenAt(from, until, zone, next)
        /\ \A t \in time..(next - 1) : ~ OpenAt(from, until, zone, t)
  BY <1>2, <1>3, <1>4, OpeningOnCalmDay
<1>7. next # time =>
        /\ \E off \in {0, set, 0 - set} : next > time + off
        /\ \E off \in {0, set, 0 - set} : next < time + Day + off
        /\ \E off \in {0, set, 0 - set} : (Local(zone, next) - from - off) % Day = 0
  BY <1>2, <1>3, <1>4, <1>5, OpeningIsNear
<1> QED BY <1>1, <1>3, <1>5, <1>6, <1>7 DEF NextOpeningIsFirst

-----------------------------------------------------------------------------
(* The ledger of a lot. *)

\* Entries of one ledger, and the facts of their sums: the balance grows with what
\* came in and shrinks with what went out.
LEMMA BalanceGrows ==
  ASSUME NEW n \in Nat, NEW entries \in [1..n -> Entries], NEW opening \in Nat,
         NEW S, S \subseteq 1..n, NEW T, T \subseteq 1..n
  PROVE  /\ Balance(entries, S, opening) \in Int
         /\ (/\ S \subseteq T
             /\ \A i \in T \ S : entries[i].direction = "in")
               => Balance(entries, S, opening) <= Balance(entries, T, opening)
         /\ (/\ S \subseteq T
             /\ \A i \in T \ S : entries[i].direction # "in")
               => Balance(entries, T, opening) <= Balance(entries, S, opening)
<1> DEFINE kg == [i \in 1..n |-> entries[i].kg]
           came(X) == { i \in X : entries[i].direction = "in" }
<1>1. \A i \in 1..n : kg[i] \in Nat
  BY EntryAssumption DEF Entries
<1>2. \A X \in SUBSET (1..n) : Balance(entries, X, opening) = opening + Total(kg, came(X)) - Total(kg, X \ came(X))
  BY DEF Balance
<1> HIDE DEF kg
<1>3. \A X \in SUBSET (1..n) : \A Y \in SUBSET X :
        /\ Total(kg, Y) \in Nat /\ Total(kg, X) \in Nat
        /\ Total(kg, Y) <= Total(kg, X)
  <2>1. \A X \in SUBSET (1..n) : IsFiniteSet(X)
    <3>1. IsFiniteSet(1..n)
      BY FS_Interval
    <3> QED BY <3>1, FS_Subset
  <2> QED BY <1>1, <2>1, TotalGrows
<1>4. \A X \in SUBSET (1..n) : /\ Total(kg, came(X)) \in Nat
                              /\ Total(kg, X \ came(X)) \in Nat
  BY <1>3
<1>5. ASSUME S \subseteq T, \A i \in T \ S : entries[i].direction = "in"
      PROVE  Balance(entries, S, opening) <= Balance(entries, T, opening)
  <2>1. T \ came(T) = S \ came(S) /\ came(S) \in SUBSET came(T) /\ came(T) \in SUBSET (1..n)
    BY <1>5
  <2>2. Total(kg, came(S)) <= Total(kg, came(T)) /\ Total(kg, T \ came(T)) = Total(kg, S \ came(S))
    BY <1>3, <2>1
  <2>3. /\ Total(kg, came(S)) \in Nat /\ Total(kg, S \ came(S)) \in Nat
        /\ Total(kg, came(T)) \in Nat /\ Total(kg, T \ came(T)) \in Nat
    BY <1>4
  <2>4. /\ Balance(entries, S, opening) = opening + Total(kg, came(S)) - Total(kg, S \ came(S))
        /\ Balance(entries, T, opening) = opening + Total(kg, came(T)) - Total(kg, T \ came(T))
    BY <1>2
  <2> HIDE DEF came
  <2> QED BY <2>2, <2>3, <2>4
<1>6. ASSUME S \subseteq T, \A i \in T \ S : entries[i].direction # "in"
      PROVE  Balance(entries, T, opening) <= Balance(entries, S, opening)
  <2>1. came(T) = came(S) /\ S \ came(S) \in SUBSET (T \ came(T)) /\ T \ came(T) \in SUBSET (1..n)
    BY <1>6
  <2>2. Total(kg, S \ came(S)) <= Total(kg, T \ came(T)) /\ Total(kg, came(T)) = Total(kg, came(S))
    BY <1>3, <2>1
  <2>3. /\ Total(kg, came(S)) \in Nat /\ Total(kg, S \ came(S)) \in Nat
        /\ Total(kg, came(T)) \in Nat /\ Total(kg, T \ came(T)) \in Nat
    BY <1>4
  <2>4. /\ Balance(entries, S, opening) = opening + Total(kg, came(S)) - Total(kg, S \ came(S))
        /\ Balance(entries, T, opening) = opening + Total(kg, came(T)) - Total(kg, T \ came(T))
    BY <1>2
  <2> HIDE DEF came
  <2> QED BY <2>2, <2>3, <2>4
<1>7. Balance(entries, S, opening) \in Int
  <2>1. /\ Total(kg, came(S)) \in Nat /\ Total(kg, S \ came(S)) \in Nat
        /\ Balance(entries, S, opening) = opening + Total(kg, came(S)) - Total(kg, S \ came(S))
    BY <1>2, <1>4
  <2> HIDE DEF came
  <2> QED BY <2>1
<1> QED BY <1>5, <1>6, <1>7

\* A sorting takes every entry once, by time.
LEMMA SortingLists ==
  ASSUME NEW n \in Nat, NEW entries \in [1..n -> Entries], NEW order \in Sortings(entries)
  PROVE  /\ order \in [1..n -> 1..n]
         /\ \A x \in 1..n : \E k \in 1..n : order[k] = x
         /\ \A i, j \in 1..n : i < j => entries[order[i]].at <= entries[order[j]].at
<1>1. DOMAIN entries = 1..n
  OBVIOUS
<1>2. IsFiniteSet(1..n) /\ Cardinality(1..n) = n
  BY FS_Interval
<1>3. order \in SetToSeqs(1..n) /\ \A i, j \in DOMAIN order : i < j => entries[order[i]].at <= entries[order[j]].at
  BY <1>1 DEF Sortings
<1>4. order \in [1..n -> 1..n] /\ \A i, j \in 1..n : i # j => order[i] # order[j]
  BY <1>2, <1>3 DEF SetToSeqs
<1>5. order \in Surjection(1..n, 1..n)
  <2>1. order \in Injection(1..n, 1..n)
    BY <1>4 DEF Injection, IsInjective
  <2> QED BY <1>2, <2>1, FS_Injection
<1> QED BY <1>3, <1>4, <1>5 DEF Surjection

\* What an accepted sorting counts before some moment, or up to it, is not negative:
\* the entries up to there are the beginning of every sorting.
LEMMA AcceptedUpTo ==
  ASSUME NEW n \in Nat, NEW entries \in [1..n -> Entries], NEW opening \in Nat,
         NEW order \in Sortings(entries), Validate(order, entries, opening),
         NEW early, early \subseteq 1..n,
         \A i \in early, j \in (1..n) \ early : entries[i].at < entries[j].at
  PROVE  Balance(entries, early, opening) >= 0
<1>1. /\ order \in [1..n -> 1..n]
      /\ \A x \in 1..n : \E k \in 1..n : order[k] = x
      /\ \A i, j \in 1..n : i < j => entries[order[i]].at <= entries[order[j]].at
  BY SortingLists
<1>2. \A i \in 1..n : entries[i].at \in Nat
  BY EntryAssumption DEF Entries
<1> DEFINE ends == { k \in 0..n : \A j \in 1..n : j > k => order[j] \notin early }
<1>3. PICK q \in ends : \A k \in ends : q <= k
  <2>1. n \in ends /\ ends \subseteq Nat
    OBVIOUS
  <2> QED BY <2>1, LeastNumber
<1>4. ASSUME NEW k \in 1..n, k <= q, order[k] \notin early PROVE FALSE
  <2>1. \A j \in 1..n : j >= k => order[j] \notin early
    <3> SUFFICES ASSUME NEW j \in 1..n, j >= k, order[j] \in early PROVE FALSE
      OBVIOUS
    <3>1. order[j] \in 1..n /\ order[k] \in 1..n
      BY <1>1
    <3>2. entries[order[j]].at < entries[order[k]].at
      BY <1>4, <3>1
    <3>3. k < j
      BY <1>4
    <3>4. entries[order[k]].at <= entries[order[j]].at
      BY <1>1, <3>3, Zenon
    <3> HIDE DEF ends
    <3>5. entries[order[k]].at \in Nat /\ entries[order[j]].at \in Nat
      BY <1>2, <3>1, Zenon
    <3> QED BY <3>2, <3>4, <3>5, SMT
  <2>2. k - 1 \in ends
    BY <2>1
  <2> QED BY <1>3, <1>4, <2>2
<1>5. early = { order[k] : k \in 1..q }
  <2>1. \A k \in 1..q : k \in 1..n
    BY <1>3
  <2>2. ASSUME NEW x \in early PROVE x \in { order[k] : k \in 1..q }
    <3>1. PICK k \in 1..n : order[k] = x
      BY <1>1
    <3>2. k <= q
      BY <1>3, <3>1
    <3>3. k \in 1..q
      BY <1>3, <3>2
    <3> QED BY <3>1, <3>3
  <2>3. ASSUME NEW k \in 1..q PROVE order[k] \in early
    <3>1. k \in 1..n /\ k <= q
      BY <2>1, <1>3
    <3> QED BY <1>4, <3>1
  <2> QED BY <2>2, <2>3
<1>6. CASE q = 0
  <2>1. early = {}
    BY <1>5, <1>6
  <2>2. \A f : Total(f, {}) = 0
    BY TotalEmpty
  <2>3. { i \in early : entries[i].direction = "in" } = {} /\ early \ {} = {}
    BY <2>1
  <2>4. Balance(entries, early, opening) = opening + 0 - 0
    BY <2>2, <2>3 DEF Balance
  <2> QED BY <2>4
<1>7. CASE q # 0
  <2>1. q \in 1..n
    BY <1>3, <1>7
  <2>2. DOMAIN order = 1..n
    BY <1>1
  <2> QED BY <1>5, <2>1, <2>2 DEF Validate
<1> QED BY <1>6, <1>7

\* Two sortings of a ledger disagree only if fuel came in and went out at one time.
LEMMA SortingsAgree ==
  ASSUME NEW n \in Nat, NEW entries \in [1..n -> Entries], NEW opening \in Nat,
         NEW a \in Sortings(entries), Validate(a, entries, opening),
         NEW b \in Sortings(entries), ~ Validate(b, entries, opening)
  PROVE  \E i, j \in 1..n : /\ entries[i].at = entries[j].at
                            /\ entries[i].direction = "in" /\ entries[j].direction = "out"
<1> SUFFICES ASSUME \A i, j \in 1..n : ~ (/\ entries[i].at = entries[j].at
                                          /\ entries[i].direction = "in"
                                          /\ entries[j].direction = "out")
             PROVE  FALSE
  OBVIOUS
<1>1. /\ a \in [1..n -> 1..n] /\ b \in [1..n -> 1..n]
      /\ \A x \in 1..n : \E k \in 1..n : a[k] = x
      /\ \A x \in 1..n : \E k \in 1..n : b[k] = x
      /\ \A i, j \in 1..n : i < j => entries[b[i]].at <= entries[b[j]].at
  <2>1. /\ a \in [1..n -> 1..n]
        /\ \A x \in 1..n : \E k \in 1..n : a[k] = x
    BY SortingLists
  <2>2. /\ b \in [1..n -> 1..n]
        /\ \A x \in 1..n : \E k \in 1..n : b[k] = x
        /\ \A i, j \in 1..n : i < j => entries[b[i]].at <= entries[b[j]].at
    BY SortingLists
  <2> QED BY <2>1, <2>2, Zenon
<1>2. \A x \in 1..n : entries[x].direction \in {"in", "out"}
  BY <1>1 DEF Validate
<1>3. \A i \in 1..n : entries[i].at \in Nat
  BY EntryAssumption DEF Entries
<1>4. PICK m \in 1..n : ~ (Balance(entries, { b[i] : i \in 1..m }, opening) >= 0)
  BY <1>1, <1>2 DEF Validate
<1> DEFINE seen == { b[i] : i \in 1..m }
           time == entries[b[m]].at
           before == { i \in 1..n : entries[i].at < time }
           upto == { i \in 1..n : entries[i].at <= time }
<1>5. b[m] \in 1..n /\ time \in Nat
  BY <1>1, <1>3
<1>6. \A i \in 1..m : i \in 1..n
  OBVIOUS
<1>7. seen \subseteq upto
  <2> SUFFICES ASSUME NEW i \in 1..m PROVE b[i] \in upto
    OBVIOUS
  <2>1. i \in 1..n /\ b[i] \in 1..n /\ (i < m \/ i = m)
    <3>1. i \in 1..n /\ (i < m \/ i = m)
      OBVIOUS
    <3> QED BY <1>1, <3>1
  <2>2. CASE i = m
    BY <1>5, <2>1, <2>2
  <2>3. CASE i < m
    <3>1. entries[b[i]].at <= time
      BY <1>1, <2>1, <2>3, Zenon
    <3> QED BY <2>1, <3>1
  <2> QED BY <2>1, <2>2, <2>3
<1>8. before \subseteq seen
  <2> SUFFICES ASSUME NEW x \in before PROVE x \in seen
    OBVIOUS
  <2>1. PICK k \in 1..n : b[k] = x
    BY <1>1
  <2>2. ASSUME m < k PROVE FALSE
    <3>1. time <= entries[b[k]].at
      BY <1>1, <2>1, <2>2, Zenon
    <3>2. entries[x].at < time /\ entries[x].at \in Nat
      BY <1>3
    <3> HIDE DEF time
    <3> QED BY <1>5, <2>1, <3>1, <3>2
  <2> QED BY <2>1, <2>2
<1>9. /\ before \subseteq 1..n /\ upto \subseteq 1..n /\ seen \subseteq 1..n
      /\ \A i \in upto \ before : entries[i].at = time
  BY <1>3, <1>5, <1>7
<1>10. Balance(entries, before, opening) >= 0 /\ Balance(entries, upto, opening) >= 0
  <2>1. \A i \in before, j \in (1..n) \ before : entries[i].at < entries[j].at
    BY <1>3, <1>5
  <2>2. \A i \in upto, j \in (1..n) \ upto : entries[i].at < entries[j].at
    BY <1>3, <1>5
  <2> HIDE DEF before, upto
  <2> QED BY <1>9, <2>1, <2>2, AcceptedUpTo
<1> HIDE DEF seen, before, upto
<1>11. CASE entries[b[m]].direction = "in"
  <2>1. \A i \in seen \ before : entries[i].direction = "in"
    BY <1>2, <1>5, <1>7, <1>9, <1>11 DEF time
  <2>2. /\ Balance(entries, before, opening) \in Int /\ Balance(entries, seen, opening) \in Int
        /\ Balance(entries, before, opening) <= Balance(entries, seen, opening)
    BY <1>8, <1>9, <2>1, BalanceGrows
  <2> QED BY <1>4, <1>10, <2>2 DEF seen
<1>12. CASE entries[b[m]].direction = "out"
  <2>1. \A i \in upto \ seen : entries[i].direction # "in"
    BY <1>2, <1>5, <1>8, <1>9, <1>12 DEF time
  <2>2. /\ Balance(entries, upto, opening) \in Int /\ Balance(entries, seen, opening) \in Int
        /\ Balance(entries, upto, opening) <= Balance(entries, seen, opening)
    BY <1>7, <1>9, <2>1, BalanceGrows
  <2> QED BY <1>4, <1>10, <2>2 DEF seen
<1> QED BY <1>2, <1>5, <1>11, <1>12

\* Ledgers of any length (Append, Balance, Validate).
LEMMA LedgerSound == call \in Computations => LedgerBalances
<1> SUFFICES ASSUME call \in Computations, call.what = "ledger" PROVE LedgerBalances
  BY DEF LedgerBalances
<1>1. PICK n \in Nat : call.entries \in [1..n -> Entries] /\ call.opening \in Nat
  <2>1. call \in [what : {"ledger"}, entries : UNION { [1..n -> Entries] : n \in 0..MaxEntries },
                  opening : Openings]
    BY DEF Computations
  <2>2. PICK n \in 0..MaxEntries : call.entries \in [1..n -> Entries]
    BY <2>1
  <2>3. n \in Nat
    BY <2>2
  <2> QED BY <2>1, <2>2, <2>3, EntryAssumption
<1>2. DOMAIN call.entries = 1..n
  BY <1>1
<1>3. ASSUME NEW a \in Sortings(call.entries), Validate(a, call.entries, call.opening)
      PROVE  Balance(call.entries, DOMAIN call.entries, call.opening) >= 0
  <2>1. \A i \in 1..n, j \in (1..n) \ (1..n) : call.entries[i].at < call.entries[j].at
    OBVIOUS
  <2> QED BY <1>1, <1>2, <1>3, <2>1, AcceptedUpTo
<1>4. ASSUME NEW a \in Sortings(call.entries), Validate(a, call.entries, call.opening),
             NEW b \in Sortings(call.entries), ~ Validate(b, call.entries, call.opening)
      PROVE  \E i, j \in DOMAIN call.entries :
                 /\ call.entries[i].at = call.entries[j].at
                 /\ call.entries[i].direction = "in" /\ call.entries[j].direction = "out"
  BY <1>1, <1>2, <1>4, SortingsAgree
<1> DEFINE accepted == { order \in Sortings(call.entries) : Validate(order, call.entries, call.opening) }
<1>5. accepted # {} => Balance(call.entries, DOMAIN call.entries, call.opening) >= 0
  BY <1>3
<1>6. accepted \notin {{}, Sortings(call.entries)} =>
         \E a, b \in Sortings(call.entries) :
             Validate(a, call.entries, call.opening) /\ ~ Validate(b, call.entries, call.opening)
  OBVIOUS
<1> QED BY <1>4, <1>5, <1>6 DEF LedgerBalances

-----------------------------------------------------------------------------
(* The delay of a retry. *)

LEMMA DelayTable ==
  /\ Delays(0) = {1} /\ Delays(1) = {1} /\ Delays(2) = {2} /\ Delays(3) = {4}
  /\ Delays(4) = {8} /\ Delays(5) = {16}
  /\ \A n \in 6..9 : Delays(n) \subseteq 1..256
  /\ \A n \in Nat : n >= 10 /\ n <= 34 => Delays(n) = {300}
  /\ \A n \in Nat : n >= 35 => Delays(n) = {300, 0 - 2 ^ 30}
<1>1. /\ 2 ^ 0 = 1 /\ 2 ^ 1 = 2 /\ 2 ^ 2 = 4 /\ 2 ^ 3 = 8 /\ 2 ^ 4 = 16
      /\ 2 ^ 5 = 32 /\ 2 ^ 6 = 64 /\ 2 ^ 7 = 128 /\ 2 ^ 8 = 256
  OBVIOUS
<1>2. /\ Delays(0) = {1} /\ Delays(1) = {2 ^ 0} /\ Delays(2) = {2 ^ 1} /\ Delays(3) = {2 ^ 2}
      /\ Delays(4) = {2 ^ 3} /\ Delays(5) = {2 ^ 4} /\ Delays(6) = {2 ^ 5} /\ Delays(7) = {2 ^ 6}
      /\ Delays(8) = {2 ^ 7} /\ Delays(9) = {2 ^ 8}
  BY DEF Delays
<1>3. ASSUME NEW n \in 6..9 PROVE Delays(n) \subseteq 1..256
  <2>1. n = 6 \/ n = 7 \/ n = 8 \/ n = 9
    OBVIOUS
  <2> QED BY <1>1, <1>2, <2>1
<1>4. ASSUME NEW n \in Nat, n >= 10, n <= 34 PROVE Delays(n) = {300}
  BY <1>4 DEF Delays
<1>5. ASSUME NEW n \in Nat, n >= 35 PROVE Delays(n) = {300, 0 - 2 ^ 30}
  BY <1>5 DEF Delays
<1> QED BY <1>1, <1>2, <1>3, <1>4, <1>5

\* Delays within the policy double and stay below its maximum (Delay, Terminal).
LEMMA DelaySound == call \in Computations => DelaysGrow
<1> SUFFICES ASSUME call \in Computations, call.what = "retry" PROVE DelaysGrow
  BY DEF DelaysGrow
<1>1. call.attempt \in Nat
  <2>1. call \in [what : {"retry"}, attempt : 0..LastAttempt]
    BY DEF Computations
  <2> QED BY <2>1
<1>2. PICK n \in Nat : n = call.attempt
  BY <1>1
<1>3. \A d \in Delays(n) : d \in Int /\ d <= 300 /\ (d < 0 => n >= 35)
  <2>1. 2 ^ 30 \in Nat
    OBVIOUS
  <2>2. n = 0 \/ n = 1 \/ n = 2 \/ n = 3 \/ n = 4 \/ n = 5 \/ n \in 6..9 \/ (n >= 10 /\ n <= 34) \/ n >= 35
    OBVIOUS
  <2> QED BY <2>1, <2>2, DelayTable
<1>4. n < 5 => \A d \in Delays(n), e \in Delays(n + 1) : 0 < d /\ d <= e
  <2>1. n < 5 => n = 0 \/ n = 1 \/ n = 2 \/ n = 3 \/ n = 4
    OBVIOUS
  <2> QED BY <2>1, DelayTable
<1>5. Terminal(n) <=> n >= 5
  BY DEF Terminal
<1>6. n >= 35 => Terminal(n - 30)
  BY DEF Terminal
<1> QED BY <1>2, <1>3, <1>4, <1>5, <1>6 DEF DelaysGrow

\* Every calculation, with any quantities, rates, hours, entries and attempts, keeps
\* what it promises (pricing.go, tax.go, policy.go, ledger.go, backoff.go).
THEOREM CalculationsAlwaysAgree == CalculationsSpec => []CalculationsAgree
<1>1. CalculationsInit => call \in Computations
  BY DEF CalculationsInit
<1>2. call \in Computations /\ [FALSE]_call => (call \in Computations)'
  OBVIOUS
<1>3. call \in Computations => CalculationsAgree
  BY QuoteSound, OpeningSound, LedgerSound, DelaySound DEF CalculationsAgree
<1> QED BY <1>1, <1>2, <1>3, PTL DEF CalculationsSpec

-----------------------------------------------------------------------------
(* The audit trail. *)

AuditTypeOK ==
    /\ trailHalf \in 0..LastHalf
    /\ stamp \in [Events -> 0..Unrecorded]
    /\ \A e \in Recorded : stamp[e] <= trailHalf
    /\ pages \in Seq(Events)
    /\ walk \in {"new", "going", "done"}

Returned == { pages[i] : i \in 1..Len(pages) }

\* A returned event is of the second of e.
SecondBegun(e) == \E f \in Returned : Second(f) = Second(e)

\* The walk is in the order of the trail and returns what was recorded.
PagesInOrder ==
    /\ Returned \subseteq Recorded
    /\ begun \subseteq Recorded /\ last \subseteq Recorded
    /\ \A i, j \in 1..Len(pages) : i < j => Precedes(pages[i], pages[j])

\* What the walk has still to return: what was there when it began, and of the rest
\* all but some events of seconds it has begun to return.
StillToCome ==
    /\ walk = "new" => pages = << >>
    /\ walk = "going" =>
          /\ pages # << >>
          /\ \A e \in begun \ Returned : Precedes(Last(pages), e)
          /\ \A e \in Recorded \ Returned : Precedes(Last(pages), e) \/ SecondBegun(e)
    /\ walk = "done" =>
          /\ begun \subseteq Returned
          /\ \A e \in last \ Returned : SecondBegun(e)

AuditInv == AuditTypeOK /\ PagesInOrder /\ StillToCome

\* The order of the texts is an order of the times, but within a second.
LEMMA TextOrder ==
  \A t, u \in Nat : /\ TextRank(t) \in Nat
                    /\ TextRank(t) = TextRank(u) => t = u
                    /\ TextRank(t) <= TextRank(u) => t \div 2 <= u \div 2
                    /\ t <= u => t \div 2 <= u \div 2
BY DEF TextRank, SecondOf

\* Precedes is a strict order of the recorded events that never goes back a second.
LEMMA TrailIsOrdered ==
  ASSUME AuditTypeOK
  PROVE  /\ \A e, f \in Events : Precedes(e, f) => Second(e) <= Second(f)
         /\ \A e \in Events : ~ Precedes(e, e) /\ stamp[e] \in Nat /\ Second(e) \in Nat
         /\ \A e, f, g \in Events : Precedes(e, f) /\ Precedes(f, g) => Precedes(e, g)
         /\ \A e, f \in Events : e = f \/ Precedes(e, f) \/ Precedes(f, e)
<1>1. \A e \in Events : stamp[e] \in Nat /\ e \in Nat /\ TextRank(stamp[e]) \in Nat /\ Second(e) \in Nat
  BY TextOrder, EventAssumption, LastHalfAssumption DEF AuditTypeOK, Unrecorded, Second, SecondOf
<1>2. ASSUME NEW e \in Events, NEW f \in Events, Precedes(e, f) PROVE Second(e) <= Second(f)
  <2>1. TextRank(stamp[e]) <= TextRank(stamp[f])
    BY <1>1, <1>2 DEF Precedes
  <2> QED BY <1>1, <2>1, TextOrder DEF Second, SecondOf
<1>3. ASSUME NEW e \in Events PROVE ~ Precedes(e, e)
  BY <1>1 DEF Precedes
<1>4. ASSUME NEW e \in Events, NEW f \in Events, NEW g \in Events, Precedes(e, f), Precedes(f, g)
      PROVE  Precedes(e, g)
  BY <1>1, <1>4 DEF Precedes
<1>5. ASSUME NEW e \in Events, NEW f \in Events PROVE e = f \/ Precedes(e, f) \/ Precedes(f, e)
  <2>1. TextRank(stamp[e]) = TextRank(stamp[f]) => stamp[e] = stamp[f]
    BY <1>1, TextOrder
  <2> QED BY <1>1, <2>1 DEF Precedes
<1> QED BY <1>1, <1>2, <1>3, <1>4, <1>5

\* What a query returns: each of its events once, in the order of the trail.
LEMMA QueryLists ==
  ASSUME AuditTypeOK, NEW found, found \subseteq Recorded
  PROVE  LET n    == Cardinality(found)
             rows == InOrder(found)
         IN  /\ n \in Nat /\ IsFiniteSet(found)
             /\ StrictOrder(found, TrailOrder)
             /\ rows \in [1..n -> found]
             /\ \A e \in found : \E i \in 1..n : rows[i] = e
             /\ \A i, j \in 1..n : i < j => Precedes(rows[i], rows[j])
<1>1. found \subseteq Events
  BY DEF Recorded
<1>2. IsFiniteSet(found)
  BY <1>1, EventAssumption, FS_Subset
<1>3. \A e, f \in Events : <<e, f>> \in TrailOrder <=> Precedes(e, f)
  BY DEF TrailOrder
<1>4. StrictOrder(found, TrailOrder)
  BY <1>1, <1>3, TrailIsOrdered DEF StrictOrder
<1> DEFINE n    == Cardinality(found)
           rows == Ranked(found, TrailOrder)
<1>5. /\ n \in Nat
      /\ rows \in [1..n -> found]
      /\ \A e \in found : \E i \in 1..n : rows[i] = e
      /\ \A i, j \in 1..n : i < j => <<rows[i], rows[j]>> \in TrailOrder
  BY <1>2, <1>4, RankedLists
<1> HIDE DEF n, rows
<1>6. \A i, j \in 1..n : i < j => Precedes(rows[i], rows[j])
  BY <1>1, <1>3, <1>5
<1> QED BY <1>2, <1>4, <1>5, <1>6 DEF n, rows, InOrder

\* Nothing but the clock moves.
LEMMA ClockStep ==
  ASSUME AuditInv, Tick \/ UNCHANGED auditVars
  PROVE  AuditInv'
<1>1. UNCHANGED <<stamp, pages, walk, begun, last>> /\ trailHalf' \in 0..LastHalf /\ trailHalf <= trailHalf'
  BY LastHalfAssumption DEF Tick, auditVars, AuditInv, AuditTypeOK
<1>2. Recorded' = Recorded /\ Returned' = Returned
  BY <1>1 DEF Recorded, Returned
<1>3. \A e \in Events : stamp[e] \in Nat
  BY LastHalfAssumption DEF AuditInv, AuditTypeOK, Unrecorded
<1>4. \A e \in Recorded : e \in Events
  BY DEF Recorded
<1>5. AuditTypeOK'
  BY <1>1, <1>2, <1>3, <1>4, LastHalfAssumption DEF AuditInv, AuditTypeOK, Unrecorded
<1>6. PagesInOrder'
  BY <1>1, <1>2 DEF AuditInv, PagesInOrder, Precedes
<1>7. StillToCome'
  BY <1>1, <1>2 DEF AuditInv, StillToCome, SecondBegun, Second, Precedes
<1> QED BY <1>5, <1>6, <1>7 DEF AuditInv

\* An event recorded during the walk follows its cursor or belongs to the cursor's
\* second, since its time is not before that of any event.
LEMMA RecordStep ==
  ASSUME AuditInv, NEW e \in Events, Record(e)
  PROVE  AuditInv'
<1>1. /\ stamp[e] = Unrecorded /\ stamp' = [stamp EXCEPT ![e] = trailHalf]
      /\ UNCHANGED <<trailHalf, pages, walk, begun, last>>
  BY DEF Record
<1>2. /\ trailHalf \in 0..LastHalf /\ stamp \in [Events -> 0..Unrecorded] /\ Unrecorded' = Unrecorded
      /\ Unrecorded = LastHalf + 1
  BY DEF AuditInv, AuditTypeOK, Unrecorded
<1>3. /\ stamp' \in [Events -> 0..Unrecorded] /\ stamp'[e] = trailHalf
      /\ \A f \in Events \ {e} : stamp'[f] = stamp[f]
  BY <1>1, <1>2, LastHalfAssumption
<1>4. e \notin Recorded /\ Recorded' = Recorded \cup {e} /\ Recorded \subseteq Events
  <2>1. trailHalf # Unrecorded
    BY <1>2, LastHalfAssumption
  <2> QED BY <1>1, <1>2, <1>3, <2>1 DEF Recorded
<1>5. AuditTypeOK'
  <2>1. \A f \in Recorded' : stamp'[f] <= trailHalf'
    BY <1>1, <1>2, <1>3, <1>4 DEF AuditInv, AuditTypeOK
  <2> QED BY <1>1, <1>2, <1>3, <2>1 DEF AuditInv, AuditTypeOK
<1>6. Returned' = Returned /\ Returned \subseteq Recorded
  BY <1>1 DEF Returned, AuditInv, PagesInOrder
<1>7. /\ \A f \in Recorded : Second(f)' = Second(f)
      /\ \A f, g \in Recorded : Precedes(f, g)' <=> Precedes(f, g)
  BY <1>3, <1>4 DEF Second, Precedes
<1>8. \A i \in 1..Len(pages) : pages[i] \in Recorded
  BY <1>6 DEF Returned
<1>9. PagesInOrder'
  BY <1>1, <1>4, <1>6, <1>7, <1>8 DEF AuditInv, PagesInOrder
<1>10. \A f \in Recorded : SecondBegun(f) => SecondBegun(f)'
  BY <1>6, <1>7 DEF SecondBegun
<1>11. StillToCome'
  <2>1. CASE walk = "going"
    <3>1. Len(pages) \in 1..Len(pages) /\ pages # << >>
      BY <2>1, EmptySeq, LenProperties DEF AuditInv, AuditTypeOK, StillToCome
    <3>2. Last(pages) \in Recorded /\ Last(pages) \in Returned /\ Last(pages)' = Last(pages)
      BY <1>1, <1>8, <3>1 DEF Last, Returned
    <3>3. Precedes(Last(pages), e)' \/ SecondBegun(e)'
      <4>1. /\ stamp'[Last(pages)] = stamp[Last(pages)] /\ stamp[Last(pages)] \in Nat
            /\ stamp[Last(pages)] <= trailHalf /\ trailHalf \in Nat
        BY <1>2, <1>3, <1>4, <3>2, LastHalfAssumption DEF AuditInv, AuditTypeOK
      <4>2. CASE TextRank(stamp[Last(pages)]) < TextRank(trailHalf)
        BY <1>3, <3>2, <4>1, <4>2 DEF Precedes
      <4>3. CASE ~ (TextRank(stamp[Last(pages)]) < TextRank(trailHalf))
        <5>1. TextRank(trailHalf) <= TextRank(stamp[Last(pages)])
          BY <4>1, <4>3, TextOrder
        <5>2. trailHalf \div 2 = stamp[Last(pages)] \div 2
          BY <4>1, <5>1, TextOrder
        <5>3. Second(Last(pages))' = Second(e)'
          BY <1>3, <3>2, <4>1, <5>2 DEF Second, SecondOf
        <5> QED BY <1>6, <3>2, <5>3 DEF SecondBegun
      <4> QED BY <4>2, <4>3
    <3>4. \A f \in begun \ Returned : Precedes(Last(pages), f)'
      BY <1>7, <2>1, <3>2 DEF AuditInv, StillToCome, PagesInOrder
    <3>5. \A f \in Recorded \ Returned : Precedes(Last(pages), f)' \/ SecondBegun(f)'
      BY <1>7, <1>10, <2>1, <3>2 DEF AuditInv, StillToCome, PagesInOrder
    <3>6. \A f \in (Recorded \ Returned)' : Precedes(Last(pages), f)' \/ SecondBegun(f)'
      BY <1>4, <1>6, <3>3, <3>5
    <3> QED BY <1>1, <1>6, <2>1, <3>1, <3>4, <3>6 DEF StillToCome
  <2>2. CASE walk = "done"
    BY <1>1, <1>6, <1>10, <2>2 DEF AuditInv, StillToCome, PagesInOrder
  <2>3. CASE walk = "new"
    BY <1>1, <2>3 DEF AuditInv, StillToCome
  <2> QED BY <2>1, <2>2, <2>3 DEF AuditInv, AuditTypeOK
<1> QED BY <1>5, <1>9, <1>11 DEF AuditInv

\* The first rows of a query, appended to what the walk has returned.
LEMMA PageAppended ==
  ASSUME NEW S, NEW s \in Seq(S), NEW n \in Nat, NEW rows \in [1..n -> S], NEW k \in 0..n
  PROVE  LET t == s \o SubSeq(rows, 1, k)
         IN  /\ t \in Seq(S) /\ Len(t) = Len(s) + k /\ Len(s) \in Nat
             /\ \A i \in 1..Len(s) : t[i] = s[i]
             /\ \A i \in 1..k : t[Len(s) + i] = rows[i]
<1> DEFINE page == SubSeq(rows, 1, k)
           t == s \o page
<1>1. \A i \in 1..k : rows[i] \in S
  OBVIOUS
<1>2. page \in Seq(S) /\ Len(page) = k /\ \A i \in 1..k : page[i] = rows[i]
  <2>1. /\ page \in Seq(S) /\ Len(page) = (IF 1 <= k THEN k - 1 + 1 ELSE 0)
        /\ \A i \in 1..(k - 1 + 1) : page[i] = rows[1 + i - 1]
    BY <1>1, SubSeqProperties
  <2> HIDE DEF page
  <2> QED BY <2>1
<1> HIDE DEF page
<1>3. Len(s) \in Nat
  BY LenProperties
<1>4. /\ t \in Seq(S) /\ Len(t) = Len(s) + Len(page)
      /\ \A i \in 1..(Len(s) + Len(page)) : t[i] = IF i <= Len(s) THEN s[i] ELSE page[i - Len(s)]
  BY <1>2, ConcatProperties
<1> HIDE DEF t
<1>5. \A i \in 1..Len(s) : t[i] = s[i]
  BY <1>2, <1>3, <1>4
<1>6. ASSUME NEW i \in 1..k PROVE t[Len(s) + i] = rows[i]
  <2>1. Len(s) + i \in 1..(Len(s) + Len(page)) /\ ~ (Len(s) + i <= Len(s)) /\ Len(s) + i - Len(s) = i
    BY <1>2, <1>3
  <2> QED BY <1>2, <1>4, <2>1
<1> QED BY <1>2, <1>3, <1>4, <1>5, <1>6 DEF t, page

\* A page: its rows follow everything returned, and what it leaves follows its last row.
LEMMA PageStep ==
  ASSUME AuditInv, NEW limit \in Limits, Page(limit)
  PROVE  AuditInv'
<1> DEFINE after == IF walk = "new" THEN Recorded ELSE BeyondCursor(Last(pages))
           rows  == InOrder(after)
           n     == Cardinality(after)
           most  == PageLimit(limit)
           k     == Min({most, Len(rows)})
           L     == Len(pages)
<1>1. /\ walk # "done"
      /\ pages' = pages \o SubSeq(rows, 1, k)
      /\ walk' = IF Len(rows) > most THEN "going" ELSE "done"
      /\ begun' = IF walk = "new" THEN Recorded ELSE begun
      /\ last' = Recorded
      /\ UNCHANGED <<trailHalf, stamp>>
  BY DEF Page
<1>2. after \subseteq Recorded /\ Recorded \subseteq Events
  BY DEF BeyondCursor, Recorded
<1>3. /\ n \in Nat
      /\ rows \in [1..n -> after]
      /\ \A e \in after : \E i \in 1..n : rows[i] = e
      /\ \A i, j \in 1..n : i < j => Precedes(rows[i], rows[j])
  <2> HIDE DEF after
  <2> QED BY <1>2, QueryLists DEF AuditInv
<1>4. most \in Nat \ {0}
  BY LimitAssumption DEF PageLimit
<1>5. pages \in Seq(Events) /\ L \in Nat /\ walk \in {"new", "going", "done"}
  BY LenProperties DEF AuditInv, AuditTypeOK
<1> HIDE DEF after, n, rows, most
<1>6. rows \in [1..n -> Events] /\ Len(rows) = n
  BY <1>2, <1>3
<1>7. k \in 0..n /\ (n > most => k = most) /\ (~ (n > most) => k = n)
  <2>1. CASE n > most
    <3>1. \A y \in {most, n} : most <= y
      BY <1>3, <1>4, <2>1
    <3>2. \A x \in {most, n} : (\A y \in {most, n} : x <= y) => x = most
      BY <1>3, <1>4, <2>1
    <3>3. Min({most, n}) = most
      BY <3>1, <3>2 DEF Min
    <3> QED BY <1>3, <1>4, <1>6, <2>1, <3>3
  <2>2. CASE ~ (n > most)
    <3>1. \A y \in {most, n} : n <= y
      BY <1>3, <1>4, <2>2
    <3>2. \A x \in {most, n} : (\A y \in {most, n} : x <= y) => x = n
      BY <1>3, <1>4, <2>2
    <3>3. Min({most, n}) = n
      BY <3>1, <3>2 DEF Min
    <3> QED BY <1>3, <1>4, <1>6, <2>2, <3>3
  <2> QED BY <2>1, <2>2
<1> HIDE DEF k
<1>8. /\ pages' \in Seq(Events) /\ Len(pages') = L + k
      /\ \A i \in 1..L : pages'[i] = pages[i]
      /\ \A i \in 1..k : pages'[L + i] = rows[i]
  BY <1>1, <1>3, <1>5, <1>6, <1>7, PageAppended
<1>9. \A i \in 1..L : pages[i] \in Recorded /\ pages[i] \in Returned /\ pages[i] \in Events
  BY <1>2 DEF AuditInv, PagesInOrder, Returned
<1>10. \A i \in 1..k : i \in 1..n /\ rows[i] \in after /\ rows[i] \in Recorded
  <2>1. \A i \in 1..k : i \in 1..n
    BY <1>3, <1>7
  <2> QED BY <1>2, <1>3, <2>1
<1>11. Returned' = Returned \cup { rows[i] : i \in 1..k }
  <2>1. ASSUME NEW e \in Returned' PROVE e \in Returned \cup { rows[i] : i \in 1..k }
    <3>1. PICK i \in 1..(L + k) : e = pages'[i]
      BY <1>8 DEF Returned
    <3>2. i \in 1..L \/ (i - L \in 1..k /\ i = L + (i - L))
      BY <1>5, <1>7
    <3> QED BY <1>8, <1>9, <3>1, <3>2
  <2>2. ASSUME NEW e \in Returned PROVE e \in Returned'
    <3>1. PICK i \in 1..L : e = pages[i]
      BY DEF Returned
    <3>2. i \in 1..(L + k)
      BY <1>5, <1>7
    <3> QED BY <1>8, <3>1, <3>2 DEF Returned
  <2>3. ASSUME NEW i \in 1..k PROVE rows[i] \in Returned'
    <3>1. L + i \in 1..(L + k)
      BY <1>5, <1>7
    <3> QED BY <1>8, <3>1 DEF Returned
  <2> QED BY <2>1, <2>2, <2>3
<1>12. /\ Recorded' = Recorded /\ \A e \in Events : Second(e)' = Second(e)
       /\ \A e, f \in Events : Precedes(e, f)' <=> Precedes(e, f)
  BY <1>1 DEF Recorded, Second, Precedes, Unrecorded
<1>13. AuditTypeOK'
  BY <1>1, <1>8, <1>12 DEF AuditInv, AuditTypeOK, Unrecorded
<1>14. \A i \in 1..L : \A e \in after : Precedes(pages[i], e)
  <2>1. CASE walk = "new"
    <3>1. L = 0
      BY <2>1 DEF AuditInv, StillToCome
    <3> QED BY <3>1
  <2>2. CASE walk # "new"
    <3> SUFFICES ASSUME NEW i \in 1..L, NEW e \in after PROVE Precedes(pages[i], e)
      OBVIOUS
    <3>1. Precedes(Last(pages), e) /\ e \in Events
      BY <1>2, <2>2 DEF after, BeyondCursor
    <3>2. Last(pages) = pages[L] /\ L \in 1..L /\ (i = L \/ i < L)
      BY <1>5 DEF Last
    <3>3. i < L => Precedes(pages[i], pages[L])
      BY <3>2 DEF AuditInv, PagesInOrder
    <3> QED BY <1>9, <3>1, <3>2, <3>3, TrailIsOrdered DEF AuditInv
  <2> QED BY <2>1, <2>2
<1>15. PagesInOrder'
  <2>1. Returned' \subseteq Recorded'
    BY <1>10, <1>11, <1>12 DEF AuditInv, PagesInOrder
  <2>2. begun' \subseteq Recorded' /\ last' \subseteq Recorded'
    BY <1>1, <1>12 DEF AuditInv, PagesInOrder
  <2>3. ASSUME NEW i \in 1..(L + k), NEW j \in 1..(L + k), i < j
        PROVE  Precedes(pages'[i], pages'[j])
    <3>1. CASE j \in 1..L
      <4>1. i \in 1..L
        BY <1>5, <2>3, <3>1
      <4> QED BY <1>8, <2>3, <3>1, <4>1 DEF AuditInv, PagesInOrder
    <3>2. CASE i \in 1..L /\ j \notin 1..L
      <4>1. j - L \in 1..k /\ j = L + (j - L)
        BY <1>5, <1>7, <3>2
      <4>2. pages'[j] = rows[j - L] /\ rows[j - L] \in after
        BY <1>8, <1>10, <4>1
      <4> QED BY <1>8, <1>14, <3>2, <4>2
    <3>3. CASE i \notin 1..L
      <4>1. /\ i - L \in 1..k /\ i = L + (i - L) /\ j - L \in 1..k /\ j = L + (j - L)
            /\ i - L < j - L
        BY <1>5, <1>7, <2>3, <3>3
      <4>2. pages'[i] = rows[i - L] /\ pages'[j] = rows[j - L]
        BY <1>8, <4>1
      <4> QED BY <1>3, <1>10, <4>1, <4>2
    <3> QED BY <1>5, <2>3, <3>1, <3>2, <3>3
  <2>4. (\A i, j \in 1..Len(pages) : i < j => Precedes(pages[i], pages[j]))'
    BY <1>1, <1>8, <2>3 DEF Precedes
  <2> QED BY <2>1, <2>2, <2>4 DEF PagesInOrder
<1>16. \A e \in after \ Returned' : \E i \in 1..n : rows[i] = e /\ i > k
  <2> SUFFICES ASSUME NEW e \in after, e \notin Returned' PROVE \E i \in 1..n : rows[i] = e /\ i > k
    OBVIOUS
  <2>1. PICK i \in 1..n : rows[i] = e
    BY <1>3
  <2>2. i \notin 1..k
    BY <1>11, <2>1
  <2> QED BY <1>7, <2>1, <2>2
<1>17. \A e \in Recorded \ after : e \in Returned \/ (SecondBegun(e) /\ walk = "going")
  BY <1>1, <1>5 DEF AuditInv, StillToCome, after, BeyondCursor
<1>18. \A e \in Recorded : SecondBegun(e) => SecondBegun(e)'
  <2>1. Returned \subseteq Events
    BY <1>2 DEF AuditInv, PagesInOrder
  <2> QED BY <1>2, <1>11, <1>12, <2>1 DEF SecondBegun
<1>19. \A e \in begun' : e \in after \/ e \in Returned'
  BY <1>1, <1>5, <1>11 DEF AuditInv, StillToCome, PagesInOrder, after, BeyondCursor
<1>20. StillToCome'
  <2>1. CASE n > most
    <3>1. walk' = "going" /\ k = most /\ k \in 1..k /\ k \in 1..n
      BY <1>1, <1>3, <1>4, <1>6, <1>7, <2>1
    <3>2. pages' # << >> /\ Last(pages') = rows[k]
      <4>1. Len(pages') = L + k /\ Len(pages') # 0
        BY <1>5, <1>8, <3>1
      <4>2. pages' # << >>
        BY <4>1, EmptySeq
      <4> QED BY <1>8, <3>1, <4>1, <4>2 DEF Last
    <3>3. \A e \in after \ Returned' : Precedes(Last(pages), e)'
      <4> SUFFICES ASSUME NEW e \in after \ Returned' PROVE Precedes(Last(pages), e)'
        OBVIOUS
      <4>1. PICK i \in 1..n : rows[i] = e /\ i > k
        BY <1>16
      <4>2. Precedes(rows[k], e)
        BY <1>3, <3>1, <4>1
      <4> QED BY <1>1, <3>2, <4>2 DEF Precedes
    <3>4. \A e \in (begun \ Returned)' : Precedes(Last(pages), e)'
      BY <1>19, <3>3
    <3>5. \A e \in (Recorded \ Returned)' : Precedes(Last(pages), e)' \/ SecondBegun(e)'
      BY <1>11, <1>12, <1>17, <1>18, <3>3
    <3> QED BY <3>1, <3>2, <3>4, <3>5 DEF StillToCome
  <2>2. CASE ~ (n > most)
    <3>1. walk' = "done" /\ k = n
      BY <1>1, <1>6, <1>7, <2>2
    <3>2. after \subseteq Returned'
      <4> SUFFICES ASSUME NEW e \in after, e \notin Returned' PROVE FALSE
        OBVIOUS
      <4>1. PICK i \in 1..n : i > k
        BY <1>16
      <4> QED BY <1>3, <3>1, <4>1
    <3>3. begun' \subseteq Returned'
      BY <1>19, <3>2
    <3>4. \A e \in last' \ Returned' : SecondBegun(e)'
      BY <1>1, <1>11, <1>17, <1>18, <3>2
    <3> QED BY <3>1, <3>3, <3>4 DEF StillToCome
  <2> QED BY <2>1, <2>2
<1> QED BY <1>13, <1>15, <1>20 DEF AuditInv

LEMMA AuditInductive == AuditSpec => []AuditInv
<1>1. AuditInit => AuditInv
  <2> SUFFICES ASSUME AuditInit PROVE AuditInv
    OBVIOUS
  <2>1. Unrecorded \in 0..Unrecorded /\ 0 \in 0..LastHalf
    BY LastHalfAssumption DEF Unrecorded
  <2>2. Recorded = {} /\ pages \in Seq(Events) /\ Len(pages) = 0 /\ Returned = {}
    BY EmptySeq DEF AuditInit, Recorded, Returned
  <2> QED BY <2>1, <2>2 DEF AuditInit, AuditInv, AuditTypeOK, PagesInOrder, StillToCome
<1>2. AuditInv /\ [AuditNext]_auditVars => AuditInv'
  BY ClockStep, RecordStep, PageStep DEF AuditNext
<1> QED BY <1>1, <1>2, PTL DEF AuditSpec

\* What FilterEvents makes of a walk has the seconds of the walk at each place.
LEMMA FilterKeepsSeconds ==
  ASSUME AuditInv
  PROVE  LET sorted == FilterEvents(pages, 0, LastHalf)
         IN  \A i \in DOMAIN pages : Second(sorted[i]) = Second(pages[i])
<1> DEFINE n == Len(pages)
           R == Range(pages)
           sorted == Ranked(R, TimeOrder)
           w == [e \in R |-> Second(e)]
<1>1. pages \in [1..n -> Events] /\ n \in Nat /\ DOMAIN pages = 1..n
  BY LenProperties DEF AuditInv, AuditTypeOK
<1>2. R \subseteq Recorded /\ R \subseteq Events /\ R = { pages[i] : i \in 1..n }
  BY <1>1 DEF AuditInv, PagesInOrder, Returned, Range, Recorded
<1>3. \A e \in R : stamp[e] \in Nat /\ stamp[e] <= LastHalf /\ e \in Nat
  <2> SUFFICES ASSUME NEW e \in R
               PROVE  stamp[e] \in Nat /\ stamp[e] <= LastHalf /\ e \in Nat
    OBVIOUS
  <2>1. e \in Events /\ stamp[e] # Unrecorded /\ e \in Nat
    BY <1>2, EventAssumption DEF Recorded
  <2>2. stamp[e] \in 0..LastHalf + 1
    BY <2>1 DEF AuditInv, AuditTypeOK, Unrecorded
  <2> QED BY <2>1, <2>2, LastHalfAssumption DEF Unrecorded
<1>4. FilterEvents(pages, 0, LastHalf) = sorted
  <2>1. { e \in Range(pages) : stamp[e] >= 0 /\ stamp[e] <= LastHalf } = R
    BY <1>3
  <2> QED BY <2>1 DEF FilterEvents
<1> HIDE DEF R
<1>5. IsFiniteSet(R)
  BY <1>2, EventAssumption, FS_Subset
<1>6. \A e, f \in R : <<e, f>> \in TimeOrder <=> stamp[e] < stamp[f] \/ (stamp[e] = stamp[f] /\ e < f)
  <2>1. \A e, f \in Events :
           <<e, f>> \in TimeOrder <=> stamp[e] < stamp[f] \/ (stamp[e] = stamp[f] /\ e < f)
    BY DEF TimeOrder
  <2> QED BY <1>2, <2>1
<1>7. StrictOrder(R, TimeOrder)
  BY <1>3, <1>6 DEF StrictOrder
<1>8. ListsOnce(pages, n, R)
  <2>1. \A i, j \in 1..n : i < j => pages[i] # pages[j]
    BY <1>1, TrailIsOrdered DEF AuditInv, PagesInOrder
  <2>2. \A i, j \in 1..n : pages[i] = pages[j] => i = j
    BY <2>1
  <2> QED BY <1>1, <1>2, <2>2 DEF ListsOnce
<1>9. Cardinality(R) = n
  <2>1. pages \in Bijection(1..n, R)
    BY <1>8 DEF ListsOnce, Bijection, Injection, Surjection, IsInjective
  <2> QED BY <1>1, <2>1, CardinalityUpTo, FS_Bijection DEF ExistsBijection
<1>10. /\ sorted \in [1..n -> R]
       /\ \A e \in R : \E i \in 1..n : sorted[i] = e
       /\ \A i, j \in 1..n : i < j => <<sorted[i], sorted[j]>> \in TimeOrder
  BY <1>5, <1>7, <1>9, RankedLists
<1> HIDE DEF sorted
<1>11. ListsOnce(sorted, n, R)
  <2>1. \A i, j \in 1..n : i < j => sorted[i] # sorted[j]
    BY <1>7, <1>10 DEF StrictOrder
  <2>2. \A i, j \in 1..n : sorted[i] = sorted[j] => i = j
    BY <1>1, <2>1
  <2> QED BY <1>10, <2>2 DEF ListsOnce
<1>12. w \in [R -> Nat]
  BY <1>3, TextOrder DEF Second, SecondOf
<1>13. Climbs(pages, n, w)
  <2> SUFFICES ASSUME NEW i \in 1..n, NEW j \in 1..n, i < j PROVE w[pages[i]] <= w[pages[j]]
    BY DEF Climbs
  <2>1. Precedes(pages[i], pages[j]) /\ pages[i] \in R /\ pages[j] \in R
    BY <1>2 DEF AuditInv, PagesInOrder
  <2> QED BY <1>2, <2>1, TrailIsOrdered DEF AuditInv
<1>14. Climbs(sorted, n, w)
  <2> SUFFICES ASSUME NEW i \in 1..n, NEW j \in 1..n, i < j PROVE w[sorted[i]] <= w[sorted[j]]
    BY DEF Climbs
  <2>1. sorted[i] \in R /\ sorted[j] \in R /\ <<sorted[i], sorted[j]>> \in TimeOrder
    BY <1>10
  <2>2. stamp[sorted[i]] \in Nat /\ stamp[sorted[j]] \in Nat /\ stamp[sorted[i]] <= stamp[sorted[j]]
    BY <1>3, <1>6, <2>1
  <2> QED BY <2>1, <2>2, TextOrder DEF Second, SecondOf
<1> HIDE DEF w
<1>15. \A i \in 1..n : w[sorted[i]] = w[pages[i]]
  BY <1>1, <1>8, <1>11, <1>12, <1>13, <1>14, SameWeights
<1>16. \A i \in 1..n : Second(sorted[i]) = Second(pages[i])
  BY <1>8, <1>11, <1>15 DEF w, ListsOnce
<1> QED BY <1>1, <1>4, <1>16

\* A walk that nothing interfered with has returned what one query would return.
LEMMA UndisturbedWalk ==
  ASSUME AuditInv, walk = "done", Recorded = begun
  PROVE  pages = InOrder(Recorded)
<1> DEFINE n == Len(pages)
<1>1. pages \in [1..n -> Events] /\ n \in Nat
  BY LenProperties DEF AuditInv, AuditTypeOK
<1>2. Recorded = Returned
  BY DEF AuditInv, StillToCome, PagesInOrder
<1>3. pages \in [1..n -> Recorded] /\ \A e \in Recorded : \E i \in 1..n : pages[i] = e
  BY <1>1, <1>2 DEF Returned
<1>4. IsFiniteSet(Recorded) /\ StrictOrder(Recorded, TrailOrder)
  BY QueryLists DEF AuditInv
<1>5. \A i, j \in 1..n : i < j => <<pages[i], pages[j]>> \in TrailOrder
  BY <1>1 DEF AuditInv, PagesInOrder, TrailOrder
<1> HIDE DEF n
<1>6. n = Cardinality(Recorded) /\ pages = Ranked(Recorded, TrailOrder)
  BY <1>1, <1>3, <1>4, <1>5, RankedUnique
<1> QED BY <1>6 DEF InOrder

\* A walk through the trail, with any limits and any events recorded meanwhile, is in
\* order but within a second, repeats nothing, returns all that was there when it began
\* and misses only events of a second it had begun to return (Page, Record, List,
\* FilterEvents).
THEOREM WalkAlwaysComplete == AuditSpec => []WalkIsComplete
<1>1. AuditInv => WalkIsComplete
  <2> SUFFICES ASSUME AuditInv PROVE WalkIsComplete
    OBVIOUS
  <2> DEFINE n == Len(pages)
  <2>1. pages \in Seq(Events) /\ pages \in [1..n -> Events] /\ n \in Nat /\ DOMAIN pages = 1..n
    BY LenProperties DEF AuditInv, AuditTypeOK
  <2>2. Range(pages) = Returned
    BY <2>1 DEF Range, Returned
  <2>3. Len(pages) = Cardinality(Range(pages))
    <3>1. \A i, j \in 1..n : i < j => pages[i] # pages[j]
      BY <2>1, TrailIsOrdered DEF AuditInv, PagesInOrder
    <3>2. \A i, j \in 1..n : pages[i] = pages[j] => i = j
      BY <3>1
    <3>3. pages \in Bijection(1..n, Returned)
      BY <2>1, <3>2 DEF Returned, Bijection, Injection, Surjection, IsInjective
    <3> QED BY <2>1, <2>2, <3>3, CardinalityUpTo, FS_Bijection DEF ExistsBijection
  <2>4. \A i, j \in DOMAIN pages : i < j => Second(pages[i]) <= Second(pages[j])
    BY <2>1, TrailIsOrdered DEF AuditInv, PagesInOrder
  <2>5. \A i \in DOMAIN pages : Second(FilterEvents(pages, 0, LastHalf)[i]) = Second(pages[i])
    BY FilterKeepsSeconds
  <2>6. ASSUME walk = "done"
        PROVE  /\ begun \subseteq Returned
               /\ \A e \in last \ Returned : \E f \in Returned : Second(e) = Second(f)
    BY <2>6 DEF AuditInv, StillToCome, SecondBegun
  <2>7. ASSUME walk = "done", Recorded = begun, NEW limit \in Limits
        PROVE  IsPrefix(List(limit), pages)
    <3>1. pages = InOrder(Recorded)
      BY <2>7, UndisturbedWalk
    <3> DEFINE most == IF limit = 0 \/ limit > 200 THEN 50 ELSE limit
               k == Min({n, most})
    <3>2. List(limit) = SubSeq(pages, 1, k)
      BY <3>1 DEF List
    <3>3. most \in Nat /\ limit \in Nat
      BY LimitAssumption
    <3>4. k \in 0..n
      <4> HIDE DEF most, n
      <4>1. n <= most \/ most <= n
        BY <2>1, <3>3
      <4>2. \E x \in {n, most} : \A y \in {n, most} : x <= y
        BY <2>1, <3>3, <4>1
      <4>3. k \in {n, most} /\ \A y \in {n, most} : k <= y
        BY <4>2 DEF Min
      <4> QED BY <2>1, <3>3, <4>3
    <3> HIDE DEF k
    <3>5. Len(SubSeq(pages, 1, k)) = k
      BY <2>1, <3>4, SubSeqProperties
    <3>6. SubSeq(SubSeq(pages, 1, k), 1, k) = SubSeq(pages, 1, k)
      <4>1. SubSeq(pages, 1, k) \in Seq(Events)
        BY <2>1, <3>4, SubSeqProperties
      <4> QED BY <3>5, <4>1, SubSeqFull
    <3> QED BY <2>1, <3>2, <3>4, <3>5, <3>6 DEF IsPrefix
  <2> QED BY <2>2, <2>3, <2>4, <2>5, <2>6, <2>7 DEF WalkIsComplete
<1> QED BY <1>1, AuditInductive, PTL

=============================================================================

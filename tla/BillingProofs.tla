---------------------------- MODULE BillingProofs ---------------------------
(***************************************************************************)
(* Proofs about billing.Service.Pay: an invoice is charged at most once,   *)
(* for any number of invoices, keys and concurrent calls; and about the    *)
(* gateway it charges, whose counts concurrent charges race on.            *)
(***************************************************************************)
EXTENDS Gateway, TLAPS

\* The type invariant is preserved by every step of every call (Pay).
LEMMA TypeStep == TypeOK /\ [Next]_vars => TypeOK'
<1> SUFFICES ASSUME TypeOK, [Next]_vars
             PROVE  TypeOK'
  OBVIOUS
<1> USE DEF TypeOK, Phases, GoTo, Return, tableVars, callVars, historyVars
<1>1. ASSUME NEW c \in Calls, NEW i \in Invoices, NEW k \in Keys, Read(c, i, k)
      PROVE  TypeOK'
  BY <1>1 DEF Read
<1>2. ASSUME NEW c \in Calls, Claim(c)
      PROVE  TypeOK'
  BY <1>2 DEF Claim
<1>3. ASSUME NEW c \in Calls, ChargeSucceeds(c)
      PROVE  TypeOK'
  BY <1>3 DEF ChargeSucceeds
<1>4. ASSUME NEW c \in Calls, ChargeFails(c)
      PROVE  TypeOK'
  BY <1>4 DEF ChargeFails, AfterRefusal
<1>5. ASSUME NEW c \in Calls, Clear(c)
      PROVE  TypeOK'
  BY <1>5 DEF Clear
<1>6. ASSUME NEW c \in Calls, Settle(c)
      PROVE  TypeOK'
  BY <1>6 DEF Settle
<1>7. ASSUME NEW c \in Calls, Die(c)
      PROVE  TypeOK'
  BY <1>7 DEF Die
<1>8. CASE UNCHANGED vars
  BY <1>8 DEF vars
<1> QED BY <1>1, <1>2, <1>3, <1>4, <1>5, <1>6, <1>7, <1>8 DEF Next

\* Issued invoices without a key and no call under way satisfy the invariant (Pay).
LEMMA IInvInit == Init => IInv
BY DEF Init, IInv, TypeOK, Phases, ChargedOnce, ChargedKeyKept, PaidIsChargedOrJoined,
       ClaimHolder, SettleHasReason, KeyRecorded

\* The invariant is preserved by every step of every call (Pay).
LEMMA IInvStep == IInv /\ [Next]_vars => IInv'
<1> SUFFICES ASSUME IInv, [Next]_vars
             PROVE  IInv'
  OBVIOUS
<1>0. TypeOK'
  BY TypeStep DEF IInv
<1> USE <1>0, NoKeyAssumption
    DEF IInv, TypeOK, Phases, ChargedOnce, ChargedKeyKept, PaidIsChargedOrJoined,
        ClaimHolder, SettleHasReason, KeyRecorded, GoTo, Return, tableVars, callVars,
        historyVars
<1>1. ASSUME NEW c \in Calls, NEW i \in Invoices, NEW k \in Keys, Read(c, i, k)
      PROVE  IInv'
  BY <1>1 DEF Read
<1>2. ASSUME NEW c \in Calls, Claim(c)
      PROVE  IInv'
  BY <1>2 DEF Claim, Claimable
<1>3. ASSUME NEW c \in Calls, ChargeSucceeds(c)
      PROVE  IInv'
  BY <1>3 DEF ChargeSucceeds
<1>4. ASSUME NEW c \in Calls, ChargeFails(c)
      PROVE  IInv'
  BY <1>4 DEF ChargeFails, AfterRefusal
<1>5. ASSUME NEW c \in Calls, Clear(c)
      PROVE  IInv'
  BY <1>5 DEF Clear
<1>6. ASSUME NEW c \in Calls, Settle(c)
      PROVE  IInv'
  BY <1>6 DEF Settle
<1>7. ASSUME NEW c \in Calls, Die(c)
      PROVE  IInv'
  BY <1>7 DEF Die
<1>8. CASE UNCHANGED vars
  BY <1>8 DEF vars
<1> QED BY <1>1, <1>2, <1>3, <1>4, <1>5, <1>6, <1>7, <1>8 DEF Next

\* The inductive invariant of Pay holds whatever calls race, fail or die.
THEOREM PayInvariant == Spec => []IInv
BY IInvInit, IInvStep, PTL DEF Spec

\* No invoice is charged twice, with any number of calls and keys (Claim,
\* ChargeSucceeds, Clear).
THEOREM NoDoubleCharge == Spec => []ChargedOnce
<1>1. IInv => ChargedOnce
  BY DEF IInv
<1> QED BY <1>1, PayInvariant, PTL

\* The key of a charge is never taken off its invoice (Clear, Die).
THEOREM ChargedKeyStays == Spec => []ChargedKeyKept
<1>1. IInv => ChargedKeyKept
  BY DEF IInv
<1> QED BY <1>1, PayInvariant, PTL

\* A paid invoice was charged or its claim was joined by a retry (Read, Settle).
THEOREM PaidHasReason == Spec => []PaidIsChargedOrJoined
<1>1. IInv => PaidIsChargedOrJoined
  BY DEF IInv
<1> QED BY <1>1, PayInvariant, PTL

\* A paid invoice stays paid under its key: neither a late compensation nor a late
\* settlement changes it (Clear, Settle, Claim).
THEOREM PaidStaysPaid == Spec => PaidIsFinal
<1>1. IInv /\ [Next]_vars =>
        [\A i \in Invoices : state[i] = "paid" =>
            state'[i] = "paid" /\ paymentKey'[i] = paymentKey[i] ]_vars
  <2> SUFFICES ASSUME IInv, Next, NEW i \in Invoices, state[i] = "paid"
               PROVE  state'[i] = "paid" /\ paymentKey'[i] = paymentKey[i]
    BY DEF vars
  <2> USE DEF IInv, TypeOK, tableVars, Return, GoTo
  <2>1. ASSUME NEW c \in Calls, NEW j \in Invoices, NEW k \in Keys, Read(c, j, k)
        PROVE  state'[i] = "paid" /\ paymentKey'[i] = paymentKey[i]
    BY <2>1 DEF Read
  <2>2. ASSUME NEW c \in Calls, Claim(c)
        PROVE  state'[i] = "paid" /\ paymentKey'[i] = paymentKey[i]
    BY <2>2 DEF Claim, Claimable
  <2>3. ASSUME NEW c \in Calls, ChargeSucceeds(c) \/ ChargeFails(c) \/ Die(c)
        PROVE  state'[i] = "paid" /\ paymentKey'[i] = paymentKey[i]
    BY <2>3 DEF ChargeSucceeds, ChargeFails, Die
  <2>4. ASSUME NEW c \in Calls, Clear(c)
        PROVE  state'[i] = "paid" /\ paymentKey'[i] = paymentKey[i]
    BY <2>4 DEF Clear
  <2>5. ASSUME NEW c \in Calls, Settle(c)
        PROVE  state'[i] = "paid" /\ paymentKey'[i] = paymentKey[i]
    BY <2>5 DEF Settle
  <2> QED BY <2>1, <2>2, <2>3, <2>4, <2>5 DEF Next
<1> QED BY <1>1, PayInvariant, PTL DEF Spec, PaidIsFinal

-----------------------------------------------------------------------------
(* The gateway. *)

Readings == [made : BOOLEAN, count : Nat, inside : BOOLEAN]

GatewayTypeOK ==
    /\ counted \in [Keys -> Nat] /\ attempted \in [Keys -> Nat]
    /\ readings \in [Calls -> Readings]
    /\ made \in BOOLEAN /\ overlapped \in BOOLEAN

\* A call inside Charge stays at the charge, and what it read never exceeds what was
\* tried; the map that is not made yet counts nothing; and until two calls overlapped,
\* the one inside has read what still is there.
GatewayInv ==
    /\ IInv
    /\ GatewayTypeOK
    /\ \A c \in Calls : Inside(c) => /\ pc[c] = "charge"
                                     /\ readings[c].count <= attempted[key[c]]
    /\ \A k \in Keys : counted[k] <= attempted[k]
    /\ ~ made => \A k \in Keys : counted[k] = 0
    /\ ~ overlapped =>
          /\ \A k \in Keys : counted[k] = attempted[k]
          /\ \A c \in Calls : Inside(c) => /\ readings[c].made = made
                                           /\ readings[c].count = counted[key[c]]
          /\ \A c, d \in Calls : Inside(c) /\ Inside(d) => c = d

\* Nothing was charged, nobody is inside (NewGateway).
LEMMA GatewayInitial == GatewayInit => GatewayInv
<1> SUFFICES ASSUME GatewayInit PROVE GatewayInv
  OBVIOUS
<1>1. IInv
  BY IInvInit DEF GatewayInit
<1>2. \A c \in Calls : ~ Inside(c)
  BY DEF GatewayInit, Inside, NoReading
<1>3. GatewayTypeOK
  BY DEF GatewayInit, GatewayTypeOK, Readings, NoReading
<1> QED BY <1>1, <1>2, <1>3 DEF GatewayInit, GatewayInv

\* Billing's invariant survives every step with the gateway.
LEMMA GatewayKeepsIInv == IInv /\ [GatewayNext]_<<vars, gatewayVars>> => IInv'
<1>1. ASSUME NEW c \in Calls, OtherCallStep(c) PROVE Next
  BY <1>1 DEF OtherCallStep, Next
<1>2. ASSUME NEW c \in Calls, LeaveCharge(c) PROVE Next
  BY <1>2 DEF LeaveCharge, Next
<1>3. ASSUME NEW c \in Calls, EnterCharge(c) PROVE UNCHANGED vars
  BY <1>3 DEF EnterCharge
<1> QED BY <1>1, <1>2, <1>3, IInvStep DEF GatewayNext

\* A call's own step leaves the other calls' phase and key alone.
LEMMA OtherCalls ==
  ASSUME TypeOK, NEW c \in Calls, NEW d \in Calls \ {c},
         \/ \E i \in Invoices, k \in Keys : Read(c, i, k)
         \/ Claim(c) \/ Clear(c) \/ Settle(c) \/ Die(c) \/ ChargeFails(c) \/ ChargeSucceeds(c)
  PROVE  pc'[d] = pc[d] /\ key'[d] = key[d]
BY DEF TypeOK, Read, Claim, Clear, Settle, Die, ChargeFails, ChargeSucceeds, GoTo, Return

LEMMA GatewayStep ==
  GatewayInv /\ [GatewayNext]_<<vars, gatewayVars>> => GatewayInv'
<1> SUFFICES ASSUME GatewayInv, [GatewayNext]_<<vars, gatewayVars>> PROVE GatewayInv'
  OBVIOUS
<1>0. IInv' /\ TypeOK
  BY GatewayKeepsIInv DEF GatewayInv, IInv
<1>t. /\ counted \in [Keys -> Nat] /\ attempted \in [Keys -> Nat]
      /\ readings \in [Calls -> Readings] /\ made \in BOOLEAN /\ overlapped \in BOOLEAN
  BY DEF GatewayInv, GatewayTypeOK
<1>k. \A c \in Calls : pc[c] = "charge" => key[c] \in Keys
  BY <1>0 DEF TypeOK
<1>1. ASSUME NEW c \in Calls, EnterCharge(c) PROVE GatewayInv'
  <2>1. /\ UNCHANGED <<pc, key, counted, made, attempted>>
        /\ pc[c] = "charge" /\ ~ Inside(c)
        /\ readings' = [readings EXCEPT ![c] =
                          [made |-> made, count |-> counted[key[c]], inside |-> TRUE]]
        /\ overlapped' = (overlapped \/ \E d \in Calls : Inside(d))
    BY <1>1 DEF EnterCharge, vars, callVars
  <2>2. /\ readings'[c] = [made |-> made, count |-> counted[key[c]], inside |-> TRUE]
        /\ \A d \in Calls \ {c} : readings'[d] = readings[d]
    BY <1>t, <2>1
  <2>3. GatewayTypeOK'
    BY <1>t, <1>k, <2>1 DEF GatewayTypeOK, Readings
  <2>4. ASSUME NEW d \in Calls, Inside(d)'
        PROVE  pc'[d] = "charge" /\ readings'[d].count <= attempted'[key'[d]]
    BY <1>t, <1>k, <2>1, <2>2, <2>4 DEF GatewayInv, Inside
  <2>5. ASSUME ~ overlapped'
        PROVE  /\ \A k \in Keys : counted'[k] = attempted'[k]
               /\ \A d \in Calls : Inside(d)' => /\ readings'[d].made = made'
                                                 /\ readings'[d].count = counted'[key'[d]]
               /\ \A b, d \in Calls : Inside(b)' /\ Inside(d)' => b = d
    <3>1. ~ overlapped /\ \A d \in Calls : ~ Inside(d)
      BY <1>t, <2>1, <2>5
    <3>2. \A k \in Keys : counted'[k] = attempted'[k]
      BY <2>1, <3>1 DEF GatewayInv
    <3>3. \A d \in Calls : Inside(d)' => d = c
      BY <2>2, <3>1 DEF Inside
    <3>4. readings'[c].made = made' /\ readings'[c].count = counted'[key'[c]]
      BY <2>1, <2>2
    <3> QED BY <3>2, <3>3, <3>4
  <2> QED BY <1>0, <2>1, <2>3, <2>4, <2>5 DEF GatewayInv
<1>2. ASSUME NEW c \in Calls, LeaveCharge(c) PROVE GatewayInv'
  <2>1. /\ Inside(c) /\ made' = TRUE /\ overlapped' = overlapped
        /\ readings' = [readings EXCEPT ![c] = NoReading]
        /\ attempted' = [attempted EXCEPT ![key[c]] = @ + 1]
        /\ \/ readings[c].made /\ counted' = [counted EXCEPT ![key[c]] = readings[c].count + 1]
           \/ /\ ~ readings[c].made
              /\ counted' = [[k \in Keys |-> 0] EXCEPT ![key[c]] = readings[c].count + 1]
    BY <1>2 DEF LeaveCharge, CountsRefused
  <2>2. pc[c] = "charge" /\ key[c] \in Keys /\ readings[c].count \in Nat
        /\ readings[c].count <= attempted[key[c]]
    BY <1>t, <1>k, <2>1 DEF GatewayInv, Readings
  <2>3. GatewayTypeOK'
    <3>1. readings' \in [Calls -> Readings]
      BY <1>t, <2>1 DEF Readings, NoReading
    <3>2. counted' \in [Keys -> Nat] /\ attempted' \in [Keys -> Nat]
      BY <1>t, <2>1, <2>2
    <3> QED BY <1>t, <2>1, <3>1, <3>2 DEF GatewayTypeOK
  <2>4. ~ Inside(c)' /\ \A d \in Calls \ {c} : readings'[d] = readings[d]
    BY <1>t, <2>1 DEF Inside, NoReading
  <2>5. \A d \in Calls \ {c} : pc'[d] = pc[d] /\ key'[d] = key[d]
    BY <1>0, <1>2, OtherCalls DEF LeaveCharge
  <2>6. ASSUME NEW d \in Calls, Inside(d)'
        PROVE  pc'[d] = "charge" /\ readings'[d].count <= attempted'[key'[d]]
    <3>1. d # c /\ Inside(d)
      BY <2>4, <2>6 DEF Inside
    <3>2. pc[d] = "charge" /\ key[d] \in Keys /\ readings[d].count <= attempted[key[d]]
          /\ readings[d].count \in Nat
      BY <1>t, <1>k, <3>1 DEF GatewayInv, Readings
    <3> QED BY <1>t, <2>1, <2>2, <2>4, <2>5, <3>1, <3>2
  <2>7. \A k \in Keys : counted'[k] <= attempted'[k]
    BY <1>t, <2>1, <2>2 DEF GatewayInv
  <2>8. ASSUME ~ overlapped'
        PROVE  /\ \A k \in Keys : counted'[k] = attempted'[k]
               /\ \A d \in Calls : ~ Inside(d)'
    <3>1. /\ readings[c].count = counted[key[c]] /\ readings[c].made = made
          /\ \A k \in Keys : counted[k] = attempted[k]
          /\ \A d \in Calls : Inside(d) => d = c
      BY <2>1, <2>8 DEF GatewayInv
    <3>2. ~ readings[c].made => \A k \in Keys : counted[k] = 0
      BY <1>t, <3>1 DEF GatewayInv, Readings
    <3>3. \A k \in Keys : counted'[k] = attempted'[k]
      BY <1>t, <2>1, <2>2, <3>1, <3>2
    <3> QED BY <2>4, <3>1, <3>3 DEF Inside
  <2> QED BY <1>0, <2>1, <2>3, <2>6, <2>7, <2>8 DEF GatewayInv
<1>3. ASSUME NEW c \in Calls, OtherCallStep(c) PROVE GatewayInv'
  <2>1. UNCHANGED gatewayVars /\ ~ Inside(c)
    BY <1>3 DEF OtherCallStep
  <2>2. \A d \in Calls \ {c} : pc'[d] = pc[d] /\ key'[d] = key[d]
    BY <1>0, <1>3, OtherCalls DEF OtherCallStep
  <2> QED BY <1>0, <2>1, <2>2 DEF GatewayInv, GatewayTypeOK, Inside, gatewayVars
<1>4. ASSUME UNCHANGED <<vars, gatewayVars>> PROVE GatewayInv'
  BY <1>0, <1>4 DEF GatewayInv, GatewayTypeOK, Inside, vars, callVars, gatewayVars
<1> QED BY <1>1, <1>2, <1>3, <1>4 DEF GatewayNext

\* The inductive invariant of Pay with the inside of its gateway.
THEOREM GatewayInductive == GatewaySpec => []GatewayInv
BY GatewayInitial, GatewayStep, PTL DEF GatewaySpec

\* The gateway loses a count only if two charges overlapped, and never counts one too
\* many, for any calls and keys (LocalGateway.Charge).
THEOREM CountsAlwaysLostByOverlap == GatewaySpec => []CountsLostOnlyByOverlap
<1>1. GatewayInv => CountsLostOnlyByOverlap
  BY DEF GatewayInv, GatewayTypeOK, CountsLostOnlyByOverlap
<1> QED BY <1>1, GatewayInductive, PTL

\* No invoice is charged twice when the gateway's map is raced on (Charge, Claim).
THEOREM ChargedOnceWithGateway == GatewaySpec => []ChargedOnce
<1>1. GatewayInv => ChargedOnce
  BY DEF GatewayInv, IInv
<1> QED BY <1>1, GatewayInductive, PTL

=============================================================================

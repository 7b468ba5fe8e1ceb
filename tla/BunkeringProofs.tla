--------------------------- MODULE BunkeringProofs --------------------------
(***************************************************************************)
(* Proofs about the transfer orders, for any sets of orders, lots, samples,*)
(* terminals, windows, owners and workers: first the type invariant, then  *)
(* the inductive invariant order by order, then what follows from it, and  *)
(* last the refinement of OrderLifecycle.                                  *)
(***************************************************************************)
EXTENDS Integers, Reports, CountingProofs, TLAPS

-----------------------------------------------------------------------------
(* Types: one lemma per component's operation, then one per order handler. *)

\* Reserving fuel keeps the lot well typed, in particular not negative: the test
\* of available_kg in the UPDATE is what it needs (fuel.Service.Reserve).
LEMMA ReserveType ==
  ASSUME FuelTypeOK, NEW l, NEW q \in Int, Reserve(l, q)
  PROVE  FuelTypeOK'
<1>1. CASE l \in Lots
  BY <1>1 DEF FuelTypeOK, Reserve
<1>2. CASE l \notin Lots
  <2>1. available' = available
    BY <1>2 DEF FuelTypeOK, Reserve
  <2> QED BY <2>1 DEF FuelTypeOK, Reserve
<1> QED BY <1>1, <1>2

\* Giving fuel back keeps the lot well typed (fuel.Service.Release).
LEMMA ReleaseType ==
  ASSUME FuelTypeOK, NEW l, NEW q \in Nat, Release(l, q)
  PROVE  FuelTypeOK'
<1>1. CASE l \in Lots
  BY <1>1 DEF FuelTypeOK, Release
<1>2. CASE l \notin Lots
  <2>1. available' = available
    BY <1>2 DEF FuelTypeOK, Release
  <2> QED BY <2>1 DEF FuelTypeOK, Release
<1> QED BY <1>1, <1>2

\* Each handler of an order keeps the variables of the orders well typed (all order
\* handlers).
LEMMA OrderTypeStep ==
  ASSUME OrderTypeOK, NEW o \in Orders, OrderStep(o)
  PROVE  OrderTypeOK'
<1> USE DEF OrderTypeOK, RowStates, OperationStates, MoveTo, Announce, Record,
            Enqueue, AuditActions, Topics, historyVars
<1>1. ASSUME NEW w \in Windows, NEW l \in Lots, NEW q \in Quantities, Create(o, w, l, q)
      PROVE  OrderTypeOK'
  BY <1>1, QuantityAssumption DEF Create
<1>2. CASE Approve(o)
  BY <1>2 DEF Approve
<1>3. CASE MarkAlongside(o)
  BY <1>3 DEF MarkAlongside
<1>4. ASSUME NEW who \in Workers, StartTransfer(o, who)
      PROVE  OrderTypeOK'
  BY <1>4 DEF StartTransfer
<1>5. ASSUME NEW p \in Positions, CompleteStep(o, p)
      PROVE  OrderTypeOK'
  BY <1>5 DEF CompleteStep
<1>6. CASE Complete(o)
  BY <1>6 DEF Complete, EndLease
<1>7. CASE Abort(o)
  BY <1>7 DEF Abort, EndLease
<1>8. CASE OpenIncident(o)
  BY <1>8 DEF OpenIncident
<1>9. CASE Replay(o)
  BY <1>9, ReplayAssumption DEF Replay, trailVars
<1>10. CASE Generate(o)
  BY <1>10 DEF Generate, orderVars
<1>11. ASSUME NEW refs \in SUBSET Samples, ReceiveSamples(o, refs)
       PROVE  OrderTypeOK'
  BY <1>11 DEF ReceiveSamples, orderVars
<1> HIDE DEF OrderTypeOK, RowStates, OperationStates, MoveTo, Announce, Record,
             Enqueue, AuditActions, Topics, historyVars
<1> QED BY <1>1, <1>2, <1>3, <1>4, <1>5, <1>6, <1>7, <1>8, <1>9, <1>10, <1>11
        DEF OrderStep, AnnouncedOrderStep, QuietOrderStep

\* Each handler of an order keeps lots, samples and windows well typed; the only
\* handlers that touch a lot are StartTransfer and Abort.
LEMMA OrderStepOthers ==
  ASSUME TypeOK, NEW o \in Orders, OrderStep(o)
  PROVE  FuelTypeOK' /\ QualityTypeOK' /\ ScheduleTypeOK'
<1>1. FuelTypeOK'
  <2>1. ASSUME NEW who \in Workers, StartTransfer(o, who)
        PROVE  FuelTypeOK'
    <3>1. target[o] - transferred[o] \in Int
      BY DEF TypeOK, OrderTypeOK
    <3> QED BY <2>1, <3>1, ReserveType DEF StartTransfer, TypeOK
  <2>2. CASE Abort(o)
    <3>1. target[o] \in Nat
      BY DEF TypeOK, OrderTypeOK
    <3> QED BY <2>2, <3>1, ReleaseType DEF Abort, TypeOK
  <2>3. CASE UNCHANGED fuelVars
    BY <2>3 DEF TypeOK, FuelTypeOK, fuelVars
  <2> QED BY <2>1, <2>2, <2>3
          DEF OrderStep, AnnouncedOrderStep, QuietOrderStep, Create, Approve,
              MarkAlongside, CompleteStep, Complete, OpenIncident, Replay, Generate,
              ReceiveSamples
<1>2. QualityTypeOK'
  <2>1. ASSUME NEW refs \in SUBSET Samples, InsertSamples(o, refs)
        PROVE  QualityTypeOK'
    BY <2>1 DEF InsertSamples, TypeOK, QualityTypeOK
  <2>2. CASE UNCHANGED qualityVars
    BY <2>2 DEF TypeOK, QualityTypeOK, qualityVars
  <2> QED BY <2>1, <2>2
          DEF OrderStep, AnnouncedOrderStep, QuietOrderStep, Create, Approve,
              MarkAlongside, StartTransfer, CompleteStep, Complete, Abort,
              OpenIncident, Replay, Generate, ReceiveSamples
<1>3. UNCHANGED scheduleVars
  BY DEF OrderStep, AnnouncedOrderStep, QuietOrderStep, Create, Approve, MarkAlongside,
         StartTransfer, CompleteStep, Complete, Abort, OpenIncident, Replay, Generate,
         ReceiveSamples
<1>4. ScheduleTypeOK'
  BY <1>3 DEF TypeOK, ScheduleTypeOK, scheduleVars
<1> QED BY <1>1, <1>2, <1>4

\* The handlers of terminals and windows keep them well typed (schedule.Service).
LEMMA ScheduleTypeStep ==
  ASSUME ScheduleTypeOK, ScheduleStep
  PROVE  ScheduleTypeOK'
<1> USE DEF ScheduleTypeOK, WindowStates
<1>1. ASSUME NEW t \in Terminals, CreateTerminal(t)
      PROVE  ScheduleTypeOK'
  BY <1>1 DEF CreateTerminal
<1>2. ASSUME NEW w \in Windows, NEW t \in Terminals, NEW from \in 0..Horizon,
             NEW until \in 0..Horizon, CreateWindow(w, t, <<from, until>>)
      PROVE  ScheduleTypeOK'
  BY <1>2 DEF CreateWindow, InsertWindow
<1>3. ASSUME NEW w \in Windows, NEW who \in Owners, ClaimWindow(w, who)
      PROVE  ScheduleTypeOK'
  BY <1>3 DEF ClaimWindow
<1>4. ASSUME NEW w \in Windows, CancelWindow(w, ActiveOrders(w))
      PROVE  ScheduleTypeOK'
  BY <1>4 DEF CancelWindow
<1> QED BY <1>1, <1>2, <1>3, <1>4 DEF ScheduleStep, AnnouncedWindowStep,
                                      QuietWindowStep

\* The type invariant is preserved by every step (all handlers).
LEMMA TypeStep == TypeOK /\ [Next]_vars => TypeOK'
<1> SUFFICES ASSUME TypeOK, [Next]_vars
             PROVE  TypeOK'
  OBVIOUS
<1>1. ASSUME NEW o \in Orders, OrderStep(o)
      PROVE  TypeOK'
  BY <1>1, OrderTypeStep, OrderStepOthers DEF TypeOK
<1>2. ASSUME NEW batch \in SUBSET Orders, BatchComplete(batch)
      PROVE  TypeOK'
  <2>1. OrderTypeOK'
    BY <1>2 DEF BatchComplete, TypeOK, OrderTypeOK, RowStates, OperationStates,
                trailVars, historyVars
  <2> QED BY <1>2, <2>1 DEF BatchComplete, TypeOK, FuelTypeOK, QualityTypeOK,
                            ScheduleTypeOK, fuelVars, qualityVars, scheduleVars
<1>3. CASE UNCHANGED <<orderVars, invoice, trailVars, historyVars>>
           /\ [LotStep]_fuelVars /\ [ReviewStep]_qualityVars /\ [ScheduleStep]_scheduleVars
  <2>1. OrderTypeOK'
    BY <1>3 DEF TypeOK, OrderTypeOK, orderVars, trailVars, historyVars
  <2>2. FuelTypeOK'
    BY <1>3, QuantityAssumption
       DEF TypeOK, FuelTypeOK, fuelVars, LotStep, ReceiveLot
  <2>3. QualityTypeOK'
    BY <1>3 DEF TypeOK, QualityTypeOK, qualityVars, ReviewStep, Review, Verdicts
  <2>4. ScheduleTypeOK'
    BY <1>3, ScheduleTypeStep DEF TypeOK, ScheduleTypeOK, scheduleVars
  <2> QED BY <2>1, <2>2, <2>3, <2>4 DEF TypeOK
<1> QED BY <1>1, <1>2, <1>3 DEF Next, vars

\* The empty database is well typed (storage.Open on a new file).
LEMMA InitType == Init => TypeOK
  BY HorizonAssumption, ReplayAssumption
     DEF Init, TypeOK, OrderTypeOK, RowStates, FuelInit, FuelTypeOK, QualityInit,
         QualityTypeOK, Verdicts, ScheduleInit, ScheduleTypeOK, WindowStates

\* Every variable keeps its type; in particular no lot is ever overdrawn, since
\* available_kg is a natural number (Reserve).
THEOREM TypeCorrect == Spec => []TypeOK
<1>1. Init => TypeOK
  BY InitType
<1>2. TypeOK /\ [Next]_vars => TypeOK'
  BY TypeStep
<1> QED BY <1>1, <1>2, PTL DEF Spec

-----------------------------------------------------------------------------
(* The inductive invariant, order by order. *)

\* The part of IInv that speaks of one order's own rows.
Core(o) ==
    /\ FreshUntilApproved(o)
    /\ RowIsWhole(o)
    /\ draws[o] <= 1
    /\ HoldsFuel(o) => draws[o] = 1
    /\ \A p \in steps[o] : \A q \in Positions : q < p => q \in steps[o]
    /\ state[o] = "transferring" => 4 \notin steps[o]
    /\ state[o] \in {"sampled", "completed"} => steps[o] = Positions
    /\ "bunkering.completed" \in outbox[o] =>
          state[o] = "completed" /\ transferred[o] = target[o] /\ invoice[o] = "issued"

\* A handler of an order preserves what the invariant says of that order: one case
\* per handler (all order handlers).
LEMMA CoreOrderStep ==
  ASSUME TypeOK, TypeOK', NEW o \in Orders, Core(o), OrderStep(o)
  PROVE  Core(o)'
<1> USE DEF Core, FreshUntilApproved, RowIsWhole, HoldsFuel, TypeOK, OrderTypeOK,
            MoveTo, Announce, Record, Enqueue, historyVars, trailVars, orderVars
<1>1. ASSUME NEW w \in Windows, NEW l \in Lots, NEW q \in Quantities, Create(o, w, l, q)
      PROVE  Core(o)'
  BY <1>1 DEF Create
<1>2. CASE Approve(o)
  BY <1>2 DEF Approve, MayApprove
<1>3. CASE MarkAlongside(o)
  BY <1>3 DEF MarkAlongside
<1>4. ASSUME NEW who \in Workers, StartTransfer(o, who)
      PROVE  Core(o)'
  BY <1>4 DEF StartTransfer
<1>5. ASSUME NEW p \in Positions, CompleteStep(o, p)
      PROVE  Core(o)'
  BY <1>5 DEF CompleteStep, StepReady, Positions
<1>6. CASE Complete(o)
  BY <1>6 DEF Complete, EndLease
<1>7. CASE Abort(o)
  BY <1>7 DEF Abort, EndLease, ActiveStates, OperationStates
<1>8. CASE OpenIncident(o)
  BY <1>8 DEF OpenIncident
<1>9. CASE Replay(o)
  BY <1>9 DEF Replay, MayReplay
<1>10. CASE Generate(o)
  BY <1>10 DEF Generate
<1>11. ASSUME NEW refs \in SUBSET Samples, ReceiveSamples(o, refs)
       PROVE  Core(o)'
  BY <1>11 DEF ReceiveSamples
<1> HIDE DEF Core, FreshUntilApproved, RowIsWhole, HoldsFuel, TypeOK, OrderTypeOK,
             MoveTo, Announce, Record, Enqueue, historyVars, trailVars, orderVars
<1> QED BY <1>1, <1>2, <1>3, <1>4, <1>5, <1>6, <1>7, <1>8, <1>9, <1>10, <1>11
        DEF OrderStep, AnnouncedOrderStep, QuietOrderStep

\* The rows Core(o) and HasWindow(o) read.
RowsOf(o) == <<state[o], berth[o], fuelLot[o], target[o], transferred[o], lease[o],
               permit[o], steps[o], invoice[o], outbox[o], draws[o], unearned[o],
               replays[o]>>

\* A handler of one order leaves the rows of every other order as they are: the
\* UPDATE statements name the order by its id (all order handlers).
LEMMA OrderStepFrame ==
  ASSUME TypeOK, NEW o \in Orders, OrderStep(o), NEW x \in Orders, x # o
  PROVE  RowsOf(x)' = RowsOf(x)
<1> USE DEF RowsOf, TypeOK, OrderTypeOK, MoveTo, Announce, Record, Enqueue,
            historyVars, trailVars, orderVars
<1>1. ASSUME NEW w \in Windows, NEW l \in Lots, NEW q \in Quantities, Create(o, w, l, q)
      PROVE  RowsOf(x)' = RowsOf(x)
  BY <1>1 DEF Create
<1>2. CASE Approve(o)
  BY <1>2 DEF Approve
<1>3. CASE MarkAlongside(o)
  BY <1>3 DEF MarkAlongside
<1>4. ASSUME NEW who \in Workers, StartTransfer(o, who)
      PROVE  RowsOf(x)' = RowsOf(x)
  BY <1>4 DEF StartTransfer
<1>5. ASSUME NEW p \in Positions, CompleteStep(o, p)
      PROVE  RowsOf(x)' = RowsOf(x)
  BY <1>5 DEF CompleteStep
<1>6. CASE Complete(o)
  BY <1>6 DEF Complete, EndLease
<1>7. CASE Abort(o)
  BY <1>7 DEF Abort, EndLease
<1>8. CASE OpenIncident(o)
  BY <1>8 DEF OpenIncident
<1>9. CASE Replay(o)
  BY <1>9 DEF Replay
<1>10. CASE Generate(o)
  BY <1>10 DEF Generate
<1>11. ASSUME NEW refs \in SUBSET Samples, ReceiveSamples(o, refs)
       PROVE  RowsOf(x)' = RowsOf(x)
  BY <1>11 DEF ReceiveSamples
<1> HIDE DEF RowsOf, TypeOK, OrderTypeOK, MoveTo, Announce, Record, Enqueue,
             historyVars, trailVars, orderVars
<1> QED BY <1>1, <1>2, <1>3, <1>4, <1>5, <1>6, <1>7, <1>8, <1>9, <1>10, <1>11
        DEF OrderStep, AnnouncedOrderStep, QuietOrderStep

\* What the invariant says of an order depends on that order's rows alone (all order
\* handlers).
LEMMA CoreFrame ==
  ASSUME NEW x \in Orders, Core(x), RowsOf(x)' = RowsOf(x)
  PROVE  Core(x)'
BY DEF Core, RowsOf, FreshUntilApproved, RowIsWhole, HoldsFuel

\* The steps of Next by what they do to the orders: a handler of one order, the
\* batch, or a handler of lots, samples and windows.
OtherStep ==
    /\ UNCHANGED <<orderVars, invoice, trailVars, historyVars>>
    /\ [LotStep]_fuelVars /\ [ReviewStep]_qualityVars /\ [ScheduleStep]_scheduleVars

\* Every step is a handler of one order, a batch, or a handler of lots, samples or
\* windows (Next).
LEMMA StepCases ==
  ASSUME [Next]_vars
  PROVE  \/ \E o \in Orders : OrderStep(o)
         \/ \E batch \in SUBSET Orders : BatchComplete(batch)
         \/ OtherStep
BY DEF Next, vars, OtherStep

\* What the invariant says of an order is preserved by every step (all handlers).
LEMMA CoreStep ==
  ASSUME TypeOK, TypeOK', [Next]_vars, NEW x \in Orders, Core(x)
  PROVE  Core(x)'
<1>1. ASSUME NEW o \in Orders, OrderStep(o)
      PROVE  Core(x)'
  BY <1>1, CoreOrderStep, OrderStepFrame, CoreFrame
<1>2. ASSUME NEW batch \in SUBSET Orders, BatchComplete(batch)
      PROVE  Core(x)'
  BY <1>2 DEF BatchComplete, Core, FreshUntilApproved, RowIsWhole, HoldsFuel,
              TypeOK, OrderTypeOK, historyVars, trailVars
<1>3. CASE OtherStep
  BY <1>3, CoreFrame DEF OtherStep, RowsOf, orderVars, historyVars, trailVars
<1> QED BY <1>1, <1>2, <1>3, StepCases

\* An approved sample stays approved and stays with its order.
LEMMA EvidenceStays ==
  ASSUME TypeOK, [Next]_vars, NEW x \in Orders, ApprovedForOrder(x)
  PROVE  ApprovedForOrder(x)'
<1>1. PICK s \in Samples : sampleOrder[s] = x /\ verdict[s] = "approved"
  BY DEF ApprovedForOrder
<1>2. ASSUME NEW o \in Orders, OrderStep(o)
      PROVE  sampleOrder'[s] = x /\ verdict'[s] = "approved"
  <2>1. CASE UNCHANGED qualityVars
    BY <1>1, <2>1 DEF qualityVars
  <2>2. ASSUME NEW refs \in SUBSET Samples, InsertSamples(o, refs)
        PROVE  sampleOrder'[s] = x /\ verdict'[s] = "approved"
    BY <1>1, <2>2, NoOrderAssumption DEF InsertSamples
  <2> QED BY <1>2, <2>1, <2>2
          DEF OrderStep, AnnouncedOrderStep, QuietOrderStep, Create, Approve,
              MarkAlongside, StartTransfer, CompleteStep, Complete, Abort,
              OpenIncident, Replay, Generate, ReceiveSamples
<1>3. ASSUME NEW batch \in SUBSET Orders, BatchComplete(batch)
      PROVE  sampleOrder'[s] = x /\ verdict'[s] = "approved"
  BY <1>1, <1>3 DEF BatchComplete, qualityVars
<1>4. ASSUME OtherStep
      PROVE  sampleOrder'[s] = x /\ verdict'[s] = "approved"
  BY <1>1, <1>4 DEF OtherStep, ReviewStep, Review, MayReview, qualityVars, TypeOK,
                    QualityTypeOK
<1>5. sampleOrder'[s] = x /\ verdict'[s] = "approved"
  BY <1>2, <1>3, <1>4, StepCases
<1> QED BY <1>5 DEF ApprovedForOrder

\* A completion is announced only when an approved sample is there, which then stays
\* (Complete, Review).
LEMMA EvidenceStep ==
  ASSUME TypeOK, [Next]_vars, NEW x \in Orders, Core(x),
         "bunkering.completed" \in outbox[x] => ApprovedForOrder(x),
         "bunkering.completed" \in outbox'[x]
  PROVE  ApprovedForOrder(x)'
<1>1. CASE "bunkering.completed" \in outbox[x]
  BY <1>1, EvidenceStays
<1>2. CASE outbox'[x] # outbox[x] /\ "bunkering.completed" \notin outbox[x]
  <2>1. OrderStep(x)
    BY <1>2, StepCases, OrderStepFrame DEF RowsOf, BatchComplete, OtherStep, trailVars
  <2>2. Complete(x)
    BY <1>2, <2>1 DEF OrderStep, AnnouncedOrderStep, QuietOrderStep, Create, Approve,
                      MarkAlongside, StartTransfer, CompleteStep, Abort, OpenIncident,
                      Replay, Generate, ReceiveSamples, Announce, Enqueue, trailVars,
                      TypeOK, OrderTypeOK
  <2> QED BY <2>2, EvidenceStays DEF Complete
<1> QED BY <1>1, <1>2

-----------------------------------------------------------------------------
(* Windows. *)

HasWindow(o) ==
    state[o] \in ActiveStates /\ replays[o] = 0 => window[berth[o]] \in {"open", "claimed"}

\* Handlers of orders leave the windows alone, and an order becomes active without
\* being replayed only in Create, which looks at the window.
LEMMA WindowOrderStep ==
  ASSUME TypeOK, NEW o \in Orders, Core(o), HasWindow(o), OrderStep(o)
  PROVE  HasWindow(o)'
<1> USE DEF HasWindow, MoveTo, TypeOK, OrderTypeOK, historyVars, scheduleVars,
            orderVars, ActiveStates, OperationStates
<1>1. ASSUME NEW w \in Windows, NEW l \in Lots, NEW q \in Quantities, Create(o, w, l, q)
      PROVE  HasWindow(o)'
  BY <1>1 DEF Create
<1>2. CASE Approve(o)
  BY <1>2 DEF Approve, MayApprove
<1>3. CASE MarkAlongside(o)
  BY <1>3 DEF MarkAlongside
<1>4. ASSUME NEW who \in Workers, StartTransfer(o, who)
      PROVE  HasWindow(o)'
  BY <1>4 DEF StartTransfer
<1>5. ASSUME NEW p \in Positions, CompleteStep(o, p)
      PROVE  HasWindow(o)'
  BY <1>5 DEF CompleteStep
<1>6. CASE Complete(o)
  BY <1>6 DEF Complete
<1>7. CASE Abort(o)
  BY <1>7 DEF Abort
<1>8. CASE OpenIncident(o)
  BY <1>8 DEF OpenIncident
<1>9. CASE Replay(o)
  BY <1>9 DEF Replay
<1>10. CASE Generate(o)
  BY <1>10 DEF Generate
<1>11. ASSUME NEW refs \in SUBSET Samples, ReceiveSamples(o, refs)
       PROVE  HasWindow(o)'
  BY <1>11 DEF ReceiveSamples
<1> HIDE DEF HasWindow, MoveTo, TypeOK, OrderTypeOK, historyVars, scheduleVars,
             orderVars, ActiveStates, OperationStates
<1> QED BY <1>1, <1>2, <1>3, <1>4, <1>5, <1>6, <1>7, <1>8, <1>9, <1>10, <1>11
        DEF OrderStep, AnnouncedOrderStep, QuietOrderStep

\* CancelWindow finds no active order on the window it takes away.
LEMMA WindowOtherStep ==
  ASSUME TypeOK, NEW x \in Orders, Core(x), HasWindow(x), OtherStep
  PROVE  HasWindow(x)'
<1>1. state'[x] = state[x] /\ replays'[x] = replays[x] /\ berth'[x] = berth[x]
  BY DEF OtherStep, orderVars, historyVars
<1> SUFFICES ASSUME state[x] \in ActiveStates, replays[x] = 0
             PROVE  window'[berth[x]] \in {"open", "claimed"}
  BY <1>1 DEF HasWindow
<1>2. window[berth[x]] \in {"open", "claimed"} /\ berth[x] \in Windows
  BY DEF HasWindow, Core, RowIsWhole, ActiveStates, OperationStates
<1>3. ASSUME NEW w \in Windows, CancelWindow(w, ActiveOrders(w))
      PROVE  window'[berth[x]] \in {"open", "claimed"}
  <2>1. berth[x] # w
    BY <1>3 DEF CancelWindow, MayCancelWindow, ActiveOrders
  <2> QED BY <1>2, <1>3, <2>1 DEF CancelWindow, TypeOK, ScheduleTypeOK
<1>4. CASE UNCHANGED window
  BY <1>2, <1>4
<1>5. ASSUME NEW w \in Windows, NEW t \in Terminals, NEW from \in 0..Horizon,
             NEW until \in 0..Horizon, CreateWindow(w, t, <<from, until>>)
      PROVE  window'[berth[x]] \in {"open", "claimed"}
  BY <1>2, <1>5 DEF CreateWindow, InsertWindow, TypeOK, ScheduleTypeOK
<1>6. ASSUME NEW w \in Windows, NEW who \in Owners, ClaimWindow(w, who)
      PROVE  window'[berth[x]] \in {"open", "claimed"}
  BY <1>2, <1>6 DEF ClaimWindow, TypeOK, ScheduleTypeOK
<1> QED BY <1>3, <1>4, <1>5, <1>6
        DEF OtherStep, ScheduleStep, AnnouncedWindowStep, QuietWindowStep,
            scheduleVars, CreateTerminal

\* No step takes the window from an active order that was not replayed (Create,
\* CancelWindow).
LEMMA WindowStep ==
  ASSUME TypeOK, [Next]_vars, NEW x \in Orders, Core(x), HasWindow(x)
  PROVE  HasWindow(x)'
<1>1. ASSUME NEW o \in Orders, OrderStep(o)
      PROVE  HasWindow(x)'
  <2>1. CASE x = o
    BY <1>1, <2>1, WindowOrderStep
  <2>2. CASE x # o
    <3>1. UNCHANGED window
      BY <1>1 DEF OrderStep, AnnouncedOrderStep, QuietOrderStep, Create, Approve,
                  MarkAlongside, StartTransfer, CompleteStep, Complete, Abort,
                  OpenIncident, Replay, Generate, ReceiveSamples, scheduleVars
    <3> QED BY <1>1, <2>2, <3>1, OrderStepFrame DEF HasWindow, RowsOf
  <2> QED BY <2>1, <2>2
<1>2. ASSUME NEW batch \in SUBSET Orders, BatchComplete(batch)
      PROVE  HasWindow(x)'
  BY <1>2 DEF BatchComplete, HasWindow, historyVars, scheduleVars, ActiveStates,
              OperationStates, TypeOK, OrderTypeOK
<1>3. CASE OtherStep
  BY <1>3, WindowOtherStep
<1> QED BY <1>1, <1>2, <1>3, StepCases

-----------------------------------------------------------------------------
(* The invariant and what follows from it. *)

\* The inductive invariant, order by order (all order handlers).
LEMMA IInvByOrder ==
  IInv <=> /\ TypeOK
           /\ \A o \in Orders : /\ Core(o)
                                /\ "bunkering.completed" \in outbox[o] => ApprovedForOrder(o)
                                /\ HasWindow(o)
BY DEF IInv, Core, DrawnOnce, StepsInOrder, CompletionBacked, ActiveOrderHasWindow,
       HasWindow

\* The empty database satisfies the invariant (storage.Open on a new file).
LEMMA IInvInit == Init => IInv
<1> SUFFICES ASSUME Init
             PROVE  IInv
  OBVIOUS
<1>1. TypeOK
  BY InitType
<1>2. ASSUME NEW o \in Orders
      PROVE  Core(o) /\ HasWindow(o) /\ "bunkering.completed" \notin outbox[o]
  BY DEF Init, Core, FreshUntilApproved, RowIsWhole, HoldsFuel, HasWindow, ActiveStates,
         OperationStates
<1> QED BY <1>1, <1>2, IInvByOrder

\* The invariant is preserved by every step (all handlers).
LEMMA IInvStep == IInv /\ [Next]_vars => IInv'
<1> SUFFICES ASSUME IInv, [Next]_vars
             PROVE  IInv'
  OBVIOUS
<1>1. TypeOK /\ TypeOK'
  BY TypeStep DEF IInv
<1>2. ASSUME NEW x \in Orders
      PROVE  /\ Core(x)'
             /\ "bunkering.completed" \in outbox'[x] => ApprovedForOrder(x)'
             /\ HasWindow(x)'
  <2>1. /\ Core(x) /\ HasWindow(x)
        /\ "bunkering.completed" \in outbox[x] => ApprovedForOrder(x)
    BY IInvByOrder
  <2> QED BY <1>1, <2>1, CoreStep, EvidenceStep, WindowStep
<1>3. IInv' <=> /\ TypeOK'
                /\ \A o \in Orders : /\ Core(o)'
                                     /\ "bunkering.completed" \in outbox'[o] => ApprovedForOrder(o)'
                                     /\ HasWindow(o)'
  BY DEF IInv, Core, DrawnOnce, StepsInOrder, CompletionBacked, ActiveOrderHasWindow,
         HasWindow
<1> QED BY <1>1, <1>2, <1>3

\* The inductive invariant holds in every reachable state, for any number of
\* orders, lots, samples, windows and replays.
THEOREM Inductive == Spec => []IInv
BY IInvInit, IInvStep, PTL DEF Spec

\* No order draws fuel twice, and one that holds fuel has drawn it, whatever
\* recovery replays (StartTransfer, Approve, Replay).
THEOREM DrawnOnceAlways == Spec => []DrawnOnce
<1>1. IInv => DrawnOnce
  BY DEF IInv
<1> QED BY <1>1, Inductive, PTL

\* Transfer steps are confirmed in order, all of them before the order can be
\* completed (CompleteStep).
THEOREM StepsAlwaysInOrder == Spec => []StepsInOrder
<1>1. IInv => StepsInOrder
  BY DEF IInv
<1> QED BY <1>1, Inductive, PTL

\* An announced completion stays billed, fully transferred and backed by an
\* approved sample (Complete, Review, Replay).
THEOREM CompletionAlwaysBacked == Spec => []CompletionBacked
<1>1. IInv => CompletionBacked
  BY DEF IInv
<1> QED BY <1>1, Inductive, PTL

\* Only delivered orders are ever billed (Complete, Generate).
THEOREM BilledAlwaysDelivered == Spec => []BilledIsDelivered
<1>1. IInv => BilledIsDelivered
  BY DEF IInv, RowIsWhole, DrawnOnce, HoldsFuel, BilledIsDelivered
<1> QED BY <1>1, Inductive, PTL

\* A window cannot be cancelled under an order that is under way and that recovery
\* has not touched (Create, CancelWindow).
THEOREM ActiveOrderAlwaysHasWindow == Spec => []ActiveOrderHasWindow
<1>1. IInv => ActiveOrderHasWindow
  BY DEF IInv
<1> QED BY <1>1, Inductive, PTL

-----------------------------------------------------------------------------
(* The books of the lots. *)

\* A receipt is never changed, and only a lot without a row can be received
\* (ReceiveLot, Reserve, Release).
LEMMA ReceiptStays ==
  ASSUME TypeOK, [Next]_vars, NEW l \in Lots, LotExists(l)
  PROVE  received'[l] = received[l] /\ LotExists(l)'
<1>1. ASSUME NEW o \in Orders, OrderStep(o)
      PROVE  received' = received
  BY <1>1 DEF OrderStep, AnnouncedOrderStep, QuietOrderStep, Create, Approve, MarkAlongside,
              StartTransfer, CompleteStep, Complete, Abort, OpenIncident, Replay, Generate,
              ReceiveSamples, Reserve, Release, fuelVars
<1>2. ASSUME NEW batch \in SUBSET Orders, BatchComplete(batch)
      PROVE  received' = received
  BY <1>2 DEF BatchComplete, fuelVars
<1>3. CASE OtherStep
  BY <1>3 DEF OtherStep, LotStep, ReceiveLot, LotExists, fuelVars, TypeOK, FuelTypeOK
<1> QED BY <1>1, <1>2, <1>3, StepCases DEF LotExists

\* A handler of an order keeps its booking (all order handlers).
LEMMA BookedOrderStep ==
  ASSUME TypeOK, TypeOK', [Next]_vars, NEW o \in Orders, Core(o), Booked(o), OrderStep(o)
  PROVE  Booked(o)'
<1> USE DEF TypeOK, OrderTypeOK, MoveTo, Announce, Record, Enqueue, historyVars, trailVars,
            orderVars
<1>1. fuelLot[o] # None => received'[fuelLot[o]] > 0
  BY ReceiptStays DEF Booked, LotExists
<1> DEFINE Rest == /\ state'[o] = "absent" => fuelLot'[o] = None /\ unearned'[o] = 0
                   /\ state'[o] # "absent" => target'[o] > 0
                   /\ state'[o] = "transferring" => lease'[o] # None
                   /\ transferred'[o] # 0 => "bunkering.completed" \in outbox'[o]
<1>2. ASSUME NEW w \in Windows, NEW l \in Lots, NEW q \in Quantities, Create(o, w, l, q)
      PROVE  Booked(o)'
  <2>1. received'[l] > 0
    BY <1>2, ReceiptStays DEF Create, LotExists
  <2>2. fuelLot'[o] = l
    BY <1>2 DEF Create
  <2>3. Rest
    BY <1>2, QuantityAssumption DEF Create, Booked
  <2> QED BY <2>1, <2>2, <2>3 DEF Booked, LotExists
<1> DEFINE Same == fuelLot'[o] = fuelLot[o] /\ Rest
<1>3. Approve(o) => Same
  BY DEF Approve, MayApprove, Booked
<1>4. MarkAlongside(o) => Same
  BY DEF MarkAlongside, Booked
<1>5. ASSUME NEW who \in Workers, StartTransfer(o, who)
      PROVE  Same
  BY <1>5, NoneIsNoWorker DEF StartTransfer, Booked
<1>6. ASSUME NEW p \in Positions, CompleteStep(o, p)
      PROVE  Same
  BY <1>6 DEF CompleteStep, Booked
<1>7. Complete(o) => Same
  BY DEF Complete, EndLease, Booked
<1>8. Abort(o) => Same
  BY DEF Abort, EndLease, Booked, ActiveStates, OperationStates
<1>9. OpenIncident(o) => Same
  BY DEF OpenIncident, Booked
<1>10. Replay(o) => Same
  BY DEF Replay, MayReplay, Booked
<1>11. Generate(o) => Same
  BY DEF Generate, Booked
<1>12. ASSUME NEW refs \in SUBSET Samples, ReceiveSamples(o, refs)
       PROVE  Same
  BY <1>12 DEF ReceiveSamples, Booked
<1>13. Same => Booked(o)'
  BY <1>1 DEF Booked, LotExists
<1> HIDE DEF TypeOK, OrderTypeOK, MoveTo, Announce, Record, Enqueue, historyVars, trailVars,
             orderVars, Same
<1> QED BY <1>2, <1>3, <1>4, <1>5, <1>6, <1>7, <1>8, <1>9, <1>10, <1>11, <1>12, <1>13
        DEF OrderStep, AnnouncedOrderStep, QuietOrderStep

\* Every step keeps every booking (all handlers).
LEMMA BookedStep ==
  ASSUME TypeOK, TypeOK', [Next]_vars, NEW x \in Orders, Core(x), Booked(x)
  PROVE  Booked(x)'
<1>1. fuelLot[x] # None => received'[fuelLot[x]] > 0
  BY ReceiptStays DEF Booked, LotExists, TypeOK, OrderTypeOK
<1>2. ASSUME RowsOf(x)' = RowsOf(x)
      PROVE  Booked(x)'
  BY <1>1, <1>2 DEF RowsOf, Booked, LotExists
<1>3. ASSUME NEW o \in Orders, OrderStep(o)
      PROVE  Booked(x)'
  BY <1>2, <1>3, BookedOrderStep, OrderStepFrame
<1>4. ASSUME NEW batch \in SUBSET Orders, BatchComplete(batch)
      PROVE  Booked(x)'
  BY <1>1, <1>4 DEF BatchComplete, Booked, LotExists, TypeOK, OrderTypeOK, historyVars, trailVars
<1>5. CASE OtherStep
  BY <1>2, <1>5 DEF OtherStep, RowsOf, orderVars, historyVars, trailVars
<1> QED BY <1>3, <1>4, <1>5, StepCases

\* What one order has of a lot, and what it returned to it without having held it.
HeldBy(o, l) == IF o \in Holding(l) THEN target[o] ELSE 0
UnheldBy(o, l) == IF o \in OrdersOf(l) THEN Unheld[o] ELSE 0

\* What the type invariant says of the terms of the ledger.
TermsTyped(l) ==
    /\ \A o \in Orders : /\ target[o] \in Nat /\ Unheld[o] \in Nat
                         /\ HeldBy(o, l) \in Nat /\ UnheldBy(o, l) \in Nat
    /\ available[l] \in Nat /\ received[l] \in Nat
    /\ IsFiniteSet(Holding(l)) /\ IsFiniteSet(OrdersOf(l))
    /\ Holding(l) \subseteq Orders /\ OrdersOf(l) \subseteq Orders

LedgerTyped == \A l \in Lots : TermsTyped(l)

\* The terms of every ledger are natural numbers, summed over finitely many orders.
LEMMA LedgerTypes == TypeOK => LedgerTyped
<1> SUFFICES ASSUME TypeOK, NEW l \in Lots
             PROVE  TermsTyped(l)
  BY DEF LedgerTyped
<1>1. Holding(l) \subseteq Orders /\ OrdersOf(l) \subseteq Orders
  BY DEF Holding, OrdersOf
<1>2. \A o \in Orders : target[o] \in Nat /\ Unheld[o] \in Nat
  BY DEF TypeOK, OrderTypeOK, Unheld
<1>3. IsFiniteSet(Holding(l)) /\ IsFiniteSet(OrdersOf(l))
  BY <1>1, FiniteTables, FS_Subset
<1>4. available[l] \in Nat /\ received[l] \in Nat
  BY DEF TypeOK, FuelTypeOK
<1> QED BY <1>1, <1>2, <1>3, <1>4 DEF TermsTyped, HeldBy, UnheldBy

\* A handler of an order changes the fuel in a lot by what the order takes from it or
\* returns to it (StartTransfer, Abort).
LEMMA BooksOrderStep ==
  ASSUME TypeOK, TypeOK', NEW o \in Orders, Core(o), Booked(o), OrderStep(o), NEW l \in Lots
  PROVE  /\ received'[l] = received[l]
         /\ available'[l] + HeldBy(o, l)' + UnheldBy(o, l)
              = available[l] + HeldBy(o, l) + UnheldBy(o, l)'
<1> DEFINE Kept == /\ fuelLot'[o] = fuelLot[o] /\ target'[o] = target[o]
                   /\ HoldsFuel(o)' = HoldsFuel(o) /\ unearned'[o] = unearned[o]
                   /\ UNCHANGED fuelVars
<1>u. /\ Unheld[o] = unearned[o] * target[o] /\ Unheld'[o] = unearned'[o] * target'[o]
      /\ o \in Holding(l) <=> fuelLot[o] = l /\ HoldsFuel(o)
      /\ o \in Holding(l)' <=> fuelLot'[o] = l /\ HoldsFuel(o)'
      /\ o \in OrdersOf(l) <=> fuelLot[o] = l
      /\ o \in OrdersOf(l)' <=> fuelLot'[o] = l
  BY DEF Unheld, Holding, OrdersOf
<1>t. /\ target[o] \in Nat /\ unearned[o] \in Nat /\ available[l] \in Nat
      /\ target'[o] \in Nat /\ unearned'[o] \in Nat /\ available'[l] \in Nat
  BY DEF TypeOK, OrderTypeOK, FuelTypeOK
<1> DEFINE Books == /\ received'[l] = received[l]
                    /\ available'[l] + HeldBy(o, l)' + UnheldBy(o, l)
                         = available[l] + HeldBy(o, l) + UnheldBy(o, l)'
<1>k. Kept => Books
  <2> SUFFICES ASSUME Kept PROVE Books
    OBVIOUS
  <2>1. HeldBy(o, l)' = HeldBy(o, l) /\ UnheldBy(o, l)' = UnheldBy(o, l)
    BY <1>u DEF HeldBy, UnheldBy
  <2> QED BY <2>1 DEF fuelVars
<1> USE DEF Core, FreshUntilApproved, RowIsWhole, HoldsFuel, TypeOK, OrderTypeOK,
            MoveTo, historyVars, trailVars, orderVars
<1>1. ASSUME NEW w \in Windows, NEW m \in Lots, NEW q \in Quantities, Create(o, w, m, q)
      PROVE  Books
  <2>1. /\ UNCHANGED fuelVars /\ ~ HoldsFuel(o) /\ ~ HoldsFuel(o)'
        /\ unearned[o] = 0 /\ unearned'[o] = 0
    BY <1>1 DEF Create, Booked
  <2>2. Unheld[o] = 0 /\ Unheld'[o] = 0
    BY <1>u, <1>t, <2>1
  <2> QED BY <1>u, <2>1, <2>2 DEF HeldBy, UnheldBy, fuelVars
<1>2. Approve(o) => Kept
  BY DEF Approve, MayApprove
<1>3. MarkAlongside(o) => Kept
  BY DEF MarkAlongside
<1>4. ASSUME NEW who \in Workers, StartTransfer(o, who)
      PROVE  Books
  <2>1. /\ ~ HoldsFuel(o) /\ HoldsFuel(o)' /\ transferred[o] = 0
        /\ fuelLot'[o] = fuelLot[o] /\ target'[o] = target[o] /\ unearned'[o] = unearned[o]
        /\ Reserve(fuelLot[o], target[o] - transferred[o]) /\ fuelLot[o] \in Lots
    BY <1>4 DEF StartTransfer, Booked
  <2>2. received' = received
        /\ available' = [available EXCEPT ![fuelLot[o]] = @ - target[o]]
    <3>1. target[o] - transferred[o] = target[o]
      BY <2>1, <1>t
    <3> QED BY <2>1, <3>1 DEF Reserve
  <2>3. UnheldBy(o, l)' = UnheldBy(o, l)
    BY <1>u, <2>1 DEF UnheldBy
  <2>4. /\ HeldBy(o, l) = 0
        /\ HeldBy(o, l)' = IF fuelLot[o] = l THEN target[o] ELSE 0
    BY <1>u, <2>1 DEF HeldBy
  <2>5. available'[l] = IF fuelLot[o] = l THEN available[l] - target[o] ELSE available[l]
    BY <2>1, <2>2 DEF FuelTypeOK
  <2>6. available'[l] + HeldBy(o, l)' = available[l] + HeldBy(o, l)
    BY <1>t, <2>4, <2>5
  <2> QED BY <2>2, <2>3, <2>6
<1>5. ASSUME NEW p \in Positions, CompleteStep(o, p)
      PROVE  Kept
  BY <1>5 DEF CompleteStep
<1>6. Complete(o) => Kept
  BY DEF Complete, EndLease
<1>7. ASSUME Abort(o)
      PROVE  Books
  <2>1. /\ fuelLot'[o] = fuelLot[o] /\ target'[o] = target[o] /\ ~ HoldsFuel(o)'
        /\ Release(fuelLot[o], target[o]) /\ fuelLot[o] \in Lots
        /\ unearned'[o] = IF HoldsFuel(o) THEN unearned[o] ELSE unearned[o] + 1
    BY <1>7 DEF Abort, EndLease, ActiveStates, OperationStates
  <2>2. received' = received
        /\ available' = [available EXCEPT ![fuelLot[o]] = @ + target[o]]
    BY <2>1 DEF Release
  <2>3. available'[l] = IF fuelLot[o] = l THEN available[l] + target[o] ELSE available[l]
    BY <2>1, <2>2 DEF FuelTypeOK
  <2>4. Unheld'[o] = IF HoldsFuel(o) THEN Unheld[o] ELSE Unheld[o] + target[o]
    BY <1>u, <1>t, <2>1
  <2>5. Unheld[o] \in Nat
    BY <1>u, <1>t
  <2> HIDE DEF HoldsFuel
  <2>6. CASE fuelLot[o] = l
    BY <1>u, <1>t, <2>1, <2>2, <2>3, <2>4, <2>5, <2>6 DEF HeldBy, UnheldBy
  <2>7. CASE fuelLot[o] # l
    BY <1>u, <1>t, <2>1, <2>2, <2>3, <2>7 DEF HeldBy, UnheldBy
  <2> QED BY <2>6, <2>7
<1>8. OpenIncident(o) => Kept
  BY DEF OpenIncident, Booked
<1>9. Replay(o) => Kept
  BY DEF Replay, MayReplay
<1>10. Generate(o) => Kept
  BY DEF Generate
<1>11. ASSUME NEW refs \in SUBSET Samples, ReceiveSamples(o, refs)
       PROVE  Kept
  BY <1>11 DEF ReceiveSamples
<1> HIDE DEF Core, FreshUntilApproved, RowIsWhole, HoldsFuel, TypeOK, OrderTypeOK,
             MoveTo, historyVars, trailVars, orderVars, Kept, Books
<1>12. Books
  BY <1>k, <1>1, <1>2, <1>3, <1>4, <1>5, <1>6, <1>7, <1>8, <1>9, <1>10, <1>11
     DEF OrderStep, AnnouncedOrderStep, QuietOrderStep
<1> QED BY <1>12 DEF Books

\* The orders of a lot that keep their rows keep their part in its ledger.
LEMMA BooksFrame ==
  ASSUME TypeOK, TypeOK', NEW l \in Lots, NEW others \in SUBSET Orders,
         \A x \in others : RowsOf(x)' = RowsOf(x)
  PROVE  \A x \in others : /\ x \in Holding(l) <=> x \in Holding(l)'
                           /\ x \in OrdersOf(l) <=> x \in OrdersOf(l)'
                           /\ target'[x] = target[x] /\ Unheld'[x] = Unheld[x]
<1> SUFFICES ASSUME NEW x \in others
             PROVE  /\ x \in Holding(l) <=> x \in Holding(l)'
                    /\ x \in OrdersOf(l) <=> x \in OrdersOf(l)'
                    /\ target'[x] = target[x] /\ Unheld'[x] = Unheld[x]
  OBVIOUS
<1>1. RowsOf(x)' = RowsOf(x) /\ x \in Orders
  OBVIOUS
<1> QED BY <1>1 DEF RowsOf, Holding, OrdersOf, HoldsFuel, Unheld

\* Every step keeps the ledger of every lot (all handlers).
LEMMA LedgerStep == LedgerInv /\ [Next]_vars => LedgerInv'
<1> SUFFICES ASSUME LedgerInv, [Next]_vars
             PROVE  LedgerInv'
  OBVIOUS
<1>1. IInv /\ IInv' /\ TypeOK /\ TypeOK'
  BY IInvStep DEF LedgerInv, IInv
<1>2. \A x \in Orders : Core(x) /\ Booked(x)
  BY <1>1, IInvByOrder DEF LedgerInv
<1>3. \A x \in Orders : Booked(x)'
  BY <1>1, <1>2, BookedStep
<1> DEFINE Balanced(l) == available[l] + Total(target, Holding(l))
                            = received[l] + Total(Unheld, OrdersOf(l))
<1>4. ASSUME NEW l \in Lots PROVE Balanced(l)'
  <2>1. Balanced(l)
    BY DEF LedgerInv, LotLedger
  <2>2. TermsTyped(l) /\ TermsTyped(l)'
    <3>1. LedgerTyped /\ LedgerTyped'
      BY <1>1, LedgerTypes, PTL
    <3> QED BY <3>1 DEF LedgerTyped
  <2>s. /\ Holding(l) \subseteq Orders /\ Holding(l)' \subseteq Orders
        /\ OrdersOf(l) \subseteq Orders /\ OrdersOf(l)' \subseteq Orders
    BY <2>2 DEF TermsTyped
  <2>3. ASSUME \A x \in Orders : RowsOf(x)' = RowsOf(x)
        PROVE  /\ Total(target, Holding(l))' = Total(target, Holding(l))
               /\ Total(Unheld, OrdersOf(l))' = Total(Unheld, OrdersOf(l))
    <3>1. \A x \in Orders : /\ x \in Holding(l) <=> x \in Holding(l)'
                            /\ x \in OrdersOf(l) <=> x \in OrdersOf(l)'
                            /\ target'[x] = target[x] /\ Unheld'[x] = Unheld[x]
      BY <1>1, <2>3, BooksFrame
    <3>2. Holding(l)' = Holding(l) /\ OrdersOf(l)' = OrdersOf(l)
      BY <2>s, <3>1
    <3>3. /\ \A x \in Holding(l) : target'[x] = target[x]
          /\ \A x \in OrdersOf(l) : Unheld'[x] = Unheld[x]
      BY <2>s, <3>1
    <3> QED BY <3>2, <3>3, TotalSame
  <2>4. ASSUME NEW o \in Orders, OrderStep(o) PROVE Balanced(l)'
    <3> DEFINE others == Orders \ {o}
    <3>1. \A x \in others : /\ x \in Holding(l) <=> x \in Holding(l)'
                            /\ x \in OrdersOf(l) <=> x \in OrdersOf(l)'
                            /\ target'[x] = target[x] /\ Unheld'[x] = Unheld[x]
      BY <1>1, <2>4, OrderStepFrame, BooksFrame
    <3>2. /\ Holding(l) \ {o} = Holding(l)' \ {o}
          /\ OrdersOf(l) \ {o} = OrdersOf(l)' \ {o}
      BY <2>s, <3>1
    <3>3. /\ \A x \in Holding(l) \ {o} : target[x] = target'[x]
          /\ \A x \in OrdersOf(l) \ {o} : Unheld[x] = Unheld'[x]
      BY <2>s, <3>1
    <3>h. /\ IsFiniteSet(Holding(l)) /\ IsFiniteSet(Holding(l)')
          /\ \A x \in Holding(l) : target[x] \in Nat
          /\ \A x \in Holding(l)' : target'[x] \in Nat
          /\ Holding(l) \ {o} = Holding(l)' \ {o}
          /\ \A x \in Holding(l) \ {o} : target[x] = target'[x]
      BY <2>2, <3>2, <3>3 DEF TermsTyped
    <3>t. /\ IsFiniteSet(OrdersOf(l)) /\ IsFiniteSet(OrdersOf(l)')
          /\ \A x \in OrdersOf(l) : Unheld[x] \in Nat
          /\ \A x \in OrdersOf(l)' : Unheld'[x] \in Nat
      BY <2>2 DEF TermsTyped
    <3>4. PICK a \in Nat : /\ Total(target, Holding(l)) = HeldBy(o, l) + a
                           /\ Total(target, Holding(l))' = HeldBy(o, l)' + a
      <4>1. \E a \in Nat :
               /\ Total(target, Holding(l)) = (IF o \in Holding(l) THEN target[o] ELSE 0) + a
               /\ Total(target', Holding(l)') = (IF o \in Holding(l)' THEN target'[o] ELSE 0) + a
        BY <3>h, TotalButOne
      <4> QED BY <4>1 DEF HeldBy
    <3>5. PICK b \in Nat : /\ Total(Unheld, OrdersOf(l)) = UnheldBy(o, l) + b
                           /\ Total(Unheld, OrdersOf(l))' = UnheldBy(o, l)' + b
      <4>1. \E b \in Nat :
               /\ Total(Unheld, OrdersOf(l)) = (IF o \in OrdersOf(l) THEN Unheld[o] ELSE 0) + b
               /\ Total(Unheld', OrdersOf(l)') = (IF o \in OrdersOf(l)' THEN Unheld'[o] ELSE 0) + b
        BY <3>t, <3>2, <3>3, TotalButOne
      <4> QED BY <4>1 DEF UnheldBy
    <3>6. /\ received'[l] = received[l]
          /\ available'[l] + HeldBy(o, l)' + UnheldBy(o, l)
               = available[l] + HeldBy(o, l) + UnheldBy(o, l)'
      BY <1>1, <1>2, <2>4, BooksOrderStep
    <3>7. /\ HeldBy(o, l) \in Nat /\ HeldBy(o, l)' \in Nat
          /\ UnheldBy(o, l) \in Nat /\ UnheldBy(o, l)' \in Nat
          /\ available[l] \in Nat /\ available'[l] \in Nat /\ received[l] \in Nat
      BY <2>2 DEF TermsTyped
    <3>8. available[l] + (HeldBy(o, l) + a) = received[l] + (UnheldBy(o, l) + b)
      BY <2>1, <3>4, <3>5
    <3>9. available'[l] + (HeldBy(o, l)' + a) = received'[l] + (UnheldBy(o, l)' + b)
      <4>1. PICK h \in Nat, h2 \in Nat, u \in Nat, u2 \in Nat :
               /\ h = HeldBy(o, l) /\ h2 = HeldBy(o, l)'
               /\ u = UnheldBy(o, l) /\ u2 = UnheldBy(o, l)'
        BY <3>7
      <4>2. PICK v \in Nat, v2 \in Nat, r \in Nat :
               v = available[l] /\ v2 = available'[l] /\ r = received[l]
        BY <3>7
      <4>3. v2 + h2 + u = v + h + u2
        BY <3>6, <4>1, <4>2
      <4>4. v + (h + a) = r + (u + b)
        BY <3>8, <4>1, <4>2
      <4>5. v2 + (h2 + a) = r + (u2 + b)
        BY <4>3, <4>4
      <4> QED BY <3>6, <4>1, <4>2, <4>5
    <3> QED BY <3>4, <3>5, <3>9
  <2>5. ASSUME NEW batch \in SUBSET Orders, BatchComplete(batch) PROVE Balanced(l)'
    <3>1. \A x \in Orders : HoldsFuel(x)' <=> HoldsFuel(x)
      BY <2>5 DEF BatchComplete, HoldsFuel
    <3>2. Holding(l)' = Holding(l) /\ OrdersOf(l)' = OrdersOf(l) /\ Unheld' = Unheld
      BY <2>5, <3>1 DEF BatchComplete, Holding, OrdersOf, Unheld, historyVars
    <3> QED BY <2>1, <2>5, <3>2 DEF BatchComplete, fuelVars
  <2>6. ASSUME OtherStep PROVE Balanced(l)'
    <3>1. /\ Total(target, Holding(l))' = Total(target, Holding(l))
          /\ Total(Unheld, OrdersOf(l))' = Total(Unheld, OrdersOf(l))
      BY <2>3, <2>6 DEF OtherStep, RowsOf, orderVars, historyVars, trailVars
    <3>2. CASE available'[l] = available[l] /\ received'[l] = received[l]
      BY <2>1, <3>1, <3>2
    <3>3. CASE \E q \in Quantities : ReceiveLot(l, q)
      <4>1. \A o \in Orders : fuelLot[o] # l
        BY <1>2, <3>3, NoneIsNoWorker DEF ReceiveLot, Booked
      <4>2. Holding(l) = {} /\ OrdersOf(l) = {}
        BY <4>1 DEF Holding, OrdersOf
      <4>3. Total(target, Holding(l))' = 0 /\ Total(Unheld, OrdersOf(l))' = 0
        BY <3>1, <4>2, TotalEmpty
      <4>4. available'[l] = received'[l]
        BY <1>1, <3>3 DEF ReceiveLot, TypeOK, FuelTypeOK
      <4>5. available'[l] \in Nat
        BY <2>2 DEF TermsTyped
      <4> QED BY <4>3, <4>4
    <3>4. \/ available'[l] = available[l] /\ received'[l] = received[l]
          \/ \E q \in Quantities : ReceiveLot(l, q)
      BY <1>1, <2>6 DEF OtherStep, LotStep, ReceiveLot, fuelVars, TypeOK, FuelTypeOK
    <3> QED BY <3>2, <3>3, <3>4
  <2> QED BY <2>4, <2>5, <2>6, StepCases
<1> QED BY <1>1, <1>3, <1>4 DEF LedgerInv, LotLedger

\* No order has booked anything of the lots of the empty database.
LEMMA LedgerInit == Init => LedgerInv
<1> SUFFICES ASSUME Init
             PROVE  LedgerInv
  OBVIOUS
<1>1. IInv
  BY IInvInit
<1>2. ASSUME NEW o \in Orders PROVE Booked(o)
  BY DEF Init, Booked
<1>3. ASSUME NEW l \in Lots
      PROVE  available[l] + Total(target, Holding(l)) = received[l] + Total(Unheld, OrdersOf(l))
  <2>1. Holding(l) = {} /\ OrdersOf(l) = {}
    BY NoneIsNoWorker DEF Init, Holding, OrdersOf
  <2>2. available[l] = 0 /\ received[l] = 0
    BY DEF Init, FuelInit
  <2> QED BY <2>1, <2>2, TotalEmpty
<1> QED BY <1>1, <1>2, <1>3 DEF LedgerInv, LotLedger

\* The inductive invariant of the books holds for any finite number of orders and any
\* lots and quantities (all handlers).
THEOREM LedgerInductive == Spec => []LedgerInv
BY LedgerInit, LedgerStep, PTL DEF Spec

\* Every kilogram a lot received is there or held by one of its orders, apart from
\* what aborts gave back without the order having held it (Reserve, Release, Abort).
THEOREM LotsAlwaysBalance == Spec => []LotLedger
<1>1. LedgerInv => LotLedger
  BY DEF LedgerInv
<1> QED BY <1>1, LedgerInductive, PTL

-----------------------------------------------------------------------------
(* The reports on the orders. *)

\* An order alongside that was not recovered meets every condition the readiness
\* asks of the rows, if its lot holds its target (CheckOperation, Require).
LEMMA ReadinessFollows == LedgerInv => ReadinessAdmits
<1> SUFFICES ASSUME LedgerInv, NEW o \in Orders, state[o] = "alongside",
                    available[fuelLot[o]] >= target[o], replays[o] = 0
             PROVE  Ready(o, {}) /\ Ready(o, {"FLAG_MISSING"})
  BY DEF ReadinessAdmits
<1>1. TypeOK /\ Core(o) /\ HasWindow(o) /\ Booked(o)
  BY IInvByOrder DEF LedgerInv, IInv
<1>2. permit[o] = "approved"
  BY <1>1 DEF Core, FreshUntilApproved, TypeOK, OrderTypeOK
<1>3. window[berth[o]] \in {"open", "claimed"}
  BY <1>1 DEF HasWindow, ActiveStates, OperationStates
<1>4. available[fuelLot[o]] # 0
  <2>1. fuelLot[o] \in Lots
    BY <1>1 DEF Core, RowIsWhole
  <2>2. target[o] \in Nat /\ target[o] > 0 /\ available[fuelLot[o]] \in Nat
    BY <1>1, <2>1 DEF Booked, TypeOK, OrderTypeOK, FuelTypeOK
  <2> QED BY <2>2
<1>5. \A code \in DOMAIN Tests(o) : ~ Tests(o)[code]
  <2>1. DOMAIN Tests(o) = {"STATE_NOT_READY", "WINDOW_UNAVAILABLE", "FUEL_EMPTY", "PERMIT_MISSING"}
    BY DEF Tests
  <2>2. /\ Tests(o)["STATE_NOT_READY"] = FALSE /\ Tests(o)["WINDOW_UNAVAILABLE"] = FALSE
        /\ Tests(o)["FUEL_EMPTY"] = FALSE /\ Tests(o)["PERMIT_MISSING"] = FALSE
    BY <1>2, <1>3, <1>4 DEF Tests
  <2> QED BY <2>1, <2>2
<1>6. \A outside : CheckOperation(o, outside) = outside
  BY <1>5 DEF CheckOperation
<1> QED BY <1>6 DEF Ready, Blocked

\* The custody report of an order agrees with what Complete asks of its samples
\* (CustodyComplete, BuildCustody).
LEMMA CustodyFollows == LedgerInv => CustodyAgrees
<1> SUFFICES ASSUME LedgerInv, NEW o \in Rows
             PROVE  /\ CustodyComplete(o) => ApprovedForOrder(o)
                    /\ "bunkering.completed" \in outbox[o] => BuildCustody(o)["approved"] > 0
  BY DEF CustodyAgrees
<1>1. o \in Orders
  BY DEF Rows
<1>2. CustodyComplete(o) => ApprovedForOrder(o)
  BY DEF CustodyComplete, CustodyRows, ApprovedForOrder
<1>3. ASSUME "bunkering.completed" \in outbox[o] PROVE BuildCustody(o)["approved"] > 0
  <2> DEFINE approved == { s \in CustodyRows(o) : verdict[s] = "approved" }
  <2>1. ApprovedForOrder(o)
    BY <1>1, <1>3, IInvByOrder DEF LedgerInv
  <2>2. approved # {} /\ approved \subseteq Samples
    BY <2>1 DEF ApprovedForOrder, CustodyRows
  <2>3. IsFiniteSet(approved)
    BY <2>2, FiniteTables, FS_Subset
  <2>4. BuildCustody(o)["approved"] = Cardinality(approved)
    BY DEF BuildCustody, Verdicts
  <2> HIDE DEF approved
  <2>5. Cardinality(approved) \in Nat /\ Cardinality(approved) # 0
    BY <2>2, <2>3, FS_CardinalityType, FS_EmptySet
  <2> QED BY <2>4, <2>5
<1> QED BY <1>2, <1>3

\* The orders that are under way, and those among them in some of the states.
UnderWay == { o \in Orders : state[o] \in ActiveStates }

InStates(states) == { o \in Rows : state[o] \in states }

\* The orders under way are those the overview counts as open, each once (Build).
LEMMA OpenOrdersCount ==
  ASSUME TypeOK
  PROVE  /\ IsFiniteSet(UnderWay)
         /\ Overview.Planned + Overview.Active + Overview.AwaitingQuality = Cardinality(UnderWay)
<1> DEFINE planned == InStates({"planned", "approved"})
           active  == InStates({"alongside", "transferring"})
           sampled == InStates({"sampled"})
<1>1. /\ IsFiniteSet(planned) /\ IsFiniteSet(active) /\ IsFiniteSet(sampled)
      /\ IsFiniteSet(UnderWay)
  <2>1. /\ planned \subseteq Orders /\ active \subseteq Orders /\ sampled \subseteq Orders
        /\ UnderWay \subseteq Orders
    BY DEF InStates, Rows, UnderWay
  <2> HIDE DEF planned, active, sampled
  <2> QED BY <2>1, FiniteTables, FS_Subset
<1>2. /\ Overview.Planned = Cardinality(planned)
      /\ Overview.Active = Cardinality(active)
      /\ Overview.AwaitingQuality = Cardinality(sampled)
  BY DEF Overview, InStates
<1>3. planned \cap active = {} /\ (planned \cup active) \cap sampled = {}
  BY DEF InStates
<1>4. UnderWay = (planned \cup active) \cup sampled
  BY DEF UnderWay, InStates, Rows, ActiveStates, OperationStates
<1> HIDE DEF planned, active, sampled
<1>5. /\ Cardinality(planned) \in Nat /\ Cardinality(active) \in Nat
      /\ Cardinality(sampled) \in Nat
  BY <1>1, FS_CardinalityType
<1>6. /\ IsFiniteSet(planned \cup active)
      /\ Cardinality(planned \cup active) = Cardinality(planned) + Cardinality(active) - 0
  BY <1>1, <1>3, FS_Union, FS_EmptySet
<1>7. Cardinality(UnderWay) = Cardinality(planned \cup active) + Cardinality(sampled) - 0
  BY <1>1, <1>3, <1>4, <1>6, FS_Union, FS_EmptySet
<1> QED BY <1>1, <1>2, <1>5, <1>6, <1>7

\* The overview agrees with the windows that orders hold back, with the completions
\* announced and with the orders overdue (Build, Overdue).
LEMMA OverviewFollows == LedgerInv => OverviewAgrees
<1> SUFFICES ASSUME LedgerInv
             PROVE  OverviewAgrees
  OBVIOUS
<1>1. TypeOK /\ \A o \in Orders : Core(o) /\ Booked(o)
  BY IInvByOrder DEF LedgerInv, IInv
<1>2. /\ IsFiniteSet(UnderWay)
      /\ Overview.Planned + Overview.Active + Overview.AwaitingQuality = Cardinality(UnderWay)
  BY <1>1, OpenOrdersCount
<1>3. Total([w \in Windows |-> Cardinality(ActiveOrders(w))], Windows) = Cardinality(UnderWay)
  <2> DEFINE members == [w \in Windows |-> ActiveOrders(w)]
  <2>1. \A w \in Windows : IsFiniteSet(members[w])
    <3>1. ASSUME NEW w \in Windows PROVE members[w] \subseteq Orders
      BY DEF ActiveOrders
    <3> HIDE DEF members
    <3> QED BY <3>1, FiniteTables, FS_Subset
  <2>2. \A v, w \in Windows : v # w => members[v] \cap members[w] = {}
    BY DEF ActiveOrders
  <2>3. UNION { members[w] : w \in Windows } = UnderWay
    <3>1. \A o \in UnderWay : berth[o] \in Windows
      BY <1>1 DEF UnderWay, ActiveStates, OperationStates, Core, RowIsWhole
    <3> QED BY <3>1 DEF ActiveOrders, UnderWay
  <2>4. [w \in Windows |-> Cardinality(members[w])] = [w \in Windows |-> Cardinality(ActiveOrders(w))]
    OBVIOUS
  <2> HIDE DEF members
  <2>5. Total([w \in Windows |-> Cardinality(members[w])], Windows) = Cardinality(UNION { members[w] : w \in Windows })
    BY <2>1, <2>2, FiniteTables, TotalOfSizes
  <2> QED BY <2>3, <2>4, <2>5
<1>4. Overview.TransferredKG = Total(target, { o \in Rows : "bunkering.completed" \in outbox[o] })
  <2> DEFINE announced == { o \in Rows : "bunkering.completed" \in outbox[o] }
  <2>1. Overview.TransferredKG = Total(transferred, Rows)
    BY DEF Overview
  <2>2. \A o \in announced : transferred[o] = target[o]
    BY <1>1 DEF Rows, Core
  <2>3. \A o \in Rows \ announced : transferred[o] = 0
    BY <1>1 DEF Rows, Booked
  <2>4. announced \subseteq Rows
    OBVIOUS
  <2> HIDE DEF announced
  <2>5. Total(transferred, Rows) = Total(target, announced)
    BY <2>2, <2>3, <2>4, TotalOfSome
  <2> QED BY <2>1, <2>5 DEF announced
<1>5. \A now : Cardinality(Overdue(now)) <= Cardinality(UnderWay)
  <2>1. \A now : Overdue(now) \subseteq UnderWay
    BY DEF Overdue, UnderWay, Rows
  <2> QED BY <1>2, <2>1, FS_Subset
<1> QED BY <1>2, <1>3, <1>4, <1>5 DEF OverviewAgrees

\* Readiness, overview and custody report agree with what the handlers did and will
\* do, for any finite number of orders, samples and windows (CheckOperation, Build,
\* BuildCustody, CustodyComplete).
THEOREM ReportsAlwaysAgree == Spec => []ReportsAgree
<1>1. LedgerInv => ReportsAgree
  BY ReadinessFollows, CustodyFollows, OverviewFollows DEF ReportsAgree
<1> QED BY <1>1, LedgerInductive, PTL

-----------------------------------------------------------------------------
(* What no step may do, and the lifecycle the orders follow. *)

\* A completed order keeps its state, its transferred quantity and its draws
\* through every later step (Abort, Replay, Open, BatchComplete, Complete).
THEOREM CompletedAlwaysFinal == Spec => CompletedIsFinal
<1> DEFINE Kept(o) == state[o] = "completed" =>
                        /\ state'[o] = "completed"
                        /\ transferred'[o] = transferred[o]
                        /\ draws'[o] = draws[o]
                        /\ unearned'[o] = unearned[o]
<1>1. ASSUME TypeOK, [Next]_vars, NEW x \in Orders
      PROVE  Kept(x)
  <2>1. ASSUME NEW o \in Orders, OrderStep(o), o # x
        PROVE  Kept(x)
    BY <1>1, <2>1, OrderStepFrame DEF RowsOf
  <2>2. CASE OrderStep(x)
    BY <2>2 DEF OrderStep, AnnouncedOrderStep, QuietOrderStep, Create, Approve,
                MayApprove, MarkAlongside, StartTransfer, CompleteStep, Complete,
                Abort, ActiveStates, OpenIncident, Replay, MayReplay, Generate,
                ReceiveSamples, orderVars, historyVars
  <2>3. ASSUME NEW batch \in SUBSET Orders, BatchComplete(batch)
        PROVE  Kept(x)
    BY <2>3 DEF BatchComplete, historyVars
  <2>4. CASE OtherStep
    BY <2>4 DEF OtherStep, orderVars, historyVars
  <2> QED BY <1>1, <2>1, <2>2, <2>3, <2>4, StepCases
<1>2. TypeOK /\ [Next]_vars => [\A o \in Orders : Kept(o)]_vars
  BY <1>1
<1> QED BY <1>2, TypeCorrect, PTL DEF Spec, CompletedIsFinal

\* Each handler of an order maps to one action of OrderLifecycle or to a stutter.
LEMMA LifecycleOrderStep ==
  ASSUME TypeOK, NEW o \in Orders, Core(o), OrderStep(o)
  PROVE  [Lifecycle!Next]_<<state, Cleared>>
<1> USE DEF TypeOK, OrderTypeOK, MoveTo, orderVars, Cleared
<1> DEFINE Moved(s) == CanMove(state[o], s) /\ state' = [state EXCEPT ![o] = s]
<1>1. ASSUME NEW w \in Windows, NEW l \in Lots, NEW q \in Quantities, Create(o, w, l, q)
      PROVE  Lifecycle!Open(o)
  BY <1>1 DEF Create, Lifecycle!Open, Core, FreshUntilApproved
<1>2. ASSUME Approve(o)
      PROVE  Lifecycle!Clear(o)
  BY <1>2 DEF Approve, MayApprove, Lifecycle!Clear
<1>3. ASSUME NEW s \in OperationStates \ {"approved"}, Moved(s), UNCHANGED permit
      PROVE  Lifecycle!Advance(o)
  BY <1>3 DEF Lifecycle!Advance, Lifecycle!CanMove, CanMove, Lifecycle!Moves, Moves,
              Lifecycle!OperationStates, OperationStates
<1>4. MarkAlongside(o) => Moved("alongside") /\ UNCHANGED permit
  BY DEF MarkAlongside, CanMove
<1>5. ASSUME NEW who \in Workers, StartTransfer(o, who)
      PROVE  Moved("transferring") /\ UNCHANGED permit
  BY <1>5 DEF StartTransfer, CanMove, Moves
<1>6. ASSUME NEW p \in Positions, CompleteStep(o, p)
      PROVE  (Moved("sampled") \/ UNCHANGED state) /\ UNCHANGED permit
  BY <1>6 DEF CompleteStep, CanMove, Moves
<1>7. Complete(o) => Moved("completed") /\ UNCHANGED permit
  BY DEF Complete, CanMove, Moves
<1>8. Abort(o) => Moved("cancelled") /\ UNCHANGED permit
  BY DEF Abort, CanMove, Moves, ActiveStates
<1>9. OpenIncident(o) => Moved("cancelled") /\ UNCHANGED permit
  BY DEF OpenIncident, CanMove, Moves, OperationStates
<1>10. Replay(o) => Lifecycle!Recover(o)
  BY DEF Replay, MayReplay, Lifecycle!Recover
<1>11. Generate(o) => UNCHANGED <<state, permit>>
  BY DEF Generate
<1>12. ASSUME NEW refs \in SUBSET Samples, ReceiveSamples(o, refs)
       PROVE  UNCHANGED <<state, permit>>
  BY <1>12 DEF ReceiveSamples
<1> HIDE DEF Moved
<1>13. \/ \E s \in {"alongside", "transferring", "sampled", "completed", "cancelled"} :
             Moved(s) /\ UNCHANGED permit
       \/ Lifecycle!Open(o) \/ Lifecycle!Clear(o) \/ Lifecycle!Recover(o)
       \/ UNCHANGED <<state, permit>>
  <2> HIDE DEF TypeOK, OrderTypeOK, MoveTo, orderVars, Cleared
  <2> QED BY <1>1, <1>2, <1>4, <1>5, <1>6, <1>7, <1>8, <1>9, <1>10, <1>11, <1>12
          DEF OrderStep, AnnouncedOrderStep, QuietOrderStep
<1>14. CASE \E s \in {"alongside", "transferring", "sampled", "completed", "cancelled"} :
             Moved(s) /\ UNCHANGED permit
  BY <1>3, <1>14 DEF Lifecycle!Next, OperationStates
<1> QED BY <1>13, <1>14 DEF Lifecycle!Next

\* The order handlers of all the packages together implement OrderLifecycle: the
\* domain's state machine, with one clearance per order (all order handlers).
THEOREM ImplementsLifecycle == Spec => FollowsLifecycle
<1>1. Init => Lifecycle!Init
  BY DEF Init, Lifecycle!Init, Cleared
<1>2. ASSUME IInv, [Next]_vars
      PROVE  [Lifecycle!Next]_<<state, Cleared>>
  <2>1. TypeOK /\ \A o \in Orders : Core(o)
    BY <1>2, IInvByOrder
  <2>2. ASSUME NEW o \in Orders, OrderStep(o)
        PROVE  [Lifecycle!Next]_<<state, Cleared>>
    BY <2>1, <2>2, LifecycleOrderStep
  <2>3. ASSUME NEW batch \in SUBSET Orders, BatchComplete(batch)
        PROVE  [Lifecycle!Next]_<<state, Cleared>>
    <3>1. UNCHANGED Cleared
      BY <2>3 DEF BatchComplete, Cleared
    <3>2. Lifecycle!Finish(batch)
      BY <2>3, <3>1 DEF BatchComplete, Lifecycle!Finish, Lifecycle!CanMove,
                        Lifecycle!Moves, CanMove, Moves
    <3> QED BY <3>2 DEF Lifecycle!Next
  <2>4. CASE OtherStep
    BY <2>4 DEF OtherStep, orderVars, Cleared
  <2> QED BY <1>2, <2>2, <2>3, <2>4, StepCases
<1>3. IInv /\ [Next]_vars => [Lifecycle!Next]_Lifecycle!lifecycleVars
  BY <1>2 DEF Lifecycle!lifecycleVars
<1> QED BY <1>1, <1>3, Inductive, PTL DEF Spec, FollowsLifecycle, Lifecycle!Spec

=============================================================================

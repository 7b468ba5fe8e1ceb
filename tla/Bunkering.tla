----------------------------- MODULE Bunkering ------------------------------
(***************************************************************************)
(* Transfer orders from planning to delivery, with everything their        *)
(* handlers touch: the safety permit, the transfer steps, the fuel lot,    *)
(* the custody samples, the bunker window, the invoice, the audit trail    *)
(* and the outbox.                                                         *)
(*                                                                         *)
(* Every handler is one action: it runs in storage.WithTx on the store's   *)
(* only connection, so transactions are serial, and one that returns an    *)
(* error (a failed guard, a failing audit or outbox insert, a cancelled    *)
(* context) is rolled back and changes nothing.  What concurrency leaves   *)
(* is the order in which planners, quality staff, operators and recovery   *)
(* run their handlers on the same orders, lots, samples and windows.       *)
(***************************************************************************)
EXTENDS Domain, Fuel, Quality, Schedule, Counting

CONSTANTS Workers,     \* who may own a transfer
          MaxReplays   \* bound: how often recovery replays one order

ASSUME ReplayAssumption == MaxReplays \in Nat
ASSUME NoneIsNoWorker == None \notin Workers \cup Windows \cup Lots
ASSUME FiniteTables == IsFiniteSet(Orders) /\ IsFiniteSet(Samples) /\ IsFiniteSet(Windows)

VARIABLES state,       \* transfer_orders.state, "absent" before the insert
          berth,       \* window_id
          fuelLot,     \* fuel_lot_id
          target,      \* target_kg
          transferred, \* transferred_kg
          lease,       \* lease_owner; lease_until is modelled with the clock
          permit,      \* safety_permits.status
          steps,       \* the positions of transfer_steps that are 'completed'
          invoice,     \* the state of the order's row in invoices
          audit,       \* actions recorded in audit_events about the order
          outbox,      \* topics enqueued in outbox_messages about the order
          \* history variables
          draws,       \* how often the order reserved its fuel
          unearned,    \* how often fuel it did not hold was released to the lot
          replays      \* how often the order was replayed

orderVars   == <<state, berth, fuelLot, target, transferred, lease, permit, steps>>
trailVars   == <<audit, outbox>>
historyVars == <<draws, unearned, replays>>
vars == <<orderVars, invoice, trailVars, historyVars,
          fuelVars, qualityVars, scheduleVars>>

Topics == {"bunkering.created", "bunkering.approved", "bunkering.alongside",
           "bunkering.started", "bunkering.completed", "bunkering.cancelled",
           "incident.opened", "invoice.issued"}

AuditActions == Topics \cup {"transfer.step.completed", "samples.received"}

OrderTypeOK ==
    /\ state       \in [Orders -> RowStates]
    /\ berth       \in [Orders -> Windows \cup {None}]
    /\ fuelLot     \in [Orders -> Lots \cup {None}]
    /\ target      \in [Orders -> Nat]
    /\ transferred \in [Orders -> Nat]
    /\ lease       \in [Orders -> Workers \cup {None}]
    /\ permit      \in [Orders -> {"pending", "approved"}]
    /\ steps       \in [Orders -> SUBSET Positions]
    /\ invoice     \in [Orders -> {"none", "issued"}]
    /\ audit       \in [Orders -> SUBSET AuditActions]
    /\ outbox      \in [Orders -> SUBSET Topics]
    /\ draws       \in [Orders -> Nat]
    /\ unearned    \in [Orders -> Nat]
    /\ replays     \in [Orders -> 0..MaxReplays]

TypeOK ==
    /\ OrderTypeOK
    /\ FuelTypeOK
    /\ QualityTypeOK
    /\ ScheduleTypeOK

Init ==
    /\ state       = [o \in Orders |-> "absent"]
    /\ berth       = [o \in Orders |-> None]
    /\ fuelLot     = [o \in Orders |-> None]
    /\ target      = [o \in Orders |-> 0]
    /\ transferred = [o \in Orders |-> 0]
    /\ lease       = [o \in Orders |-> None]
    /\ permit      = [o \in Orders |-> "pending"]
    /\ steps       = [o \in Orders |-> {}]
    /\ invoice     = [o \in Orders |-> "none"]
    /\ audit       = [o \in Orders |-> {}]
    /\ outbox      = [o \in Orders |-> {}]
    /\ draws       = [o \in Orders |-> 0]
    /\ unearned    = [o \in Orders |-> 0]
    /\ replays     = [o \in Orders |-> 0]
    /\ FuelInit
    /\ QualityInit
    /\ ScheduleInit

-----------------------------------------------------------------------------
(* What the handlers share. *)

MoveTo(o, s) == state' = [state EXCEPT ![o] = s]

\* audit.Service.Record and outbox.Service.Enqueue, both inside the handler's
\* transaction.
Record(o, action) == audit' = [audit EXCEPT ![o] = @ \cup {action}]

Enqueue(o, topic) == outbox' = [outbox EXCEPT ![o] = @ \cup {topic}]

Announce(o, topic) == Record(o, topic) /\ Enqueue(o, topic)

ActiveOrders(w) == { o \in Orders : berth[o] = w /\ state[o] \in ActiveStates }

\* The order holds fuel of its lot: it is being or has been delivered, or an
\* incident stopped it, which leaves both the fuel and the lease behind.
HoldsFuel(o) ==
    \/ state[o] \in {"transferring", "sampled", "completed"}
    \/ lease[o] # None

-----------------------------------------------------------------------------
(* internal/bunkering/service.go *)

\* The vessel is not modelled: no code takes a vessel out of status 'active'.
\* A repeated idempotency key does not reach the insert.
Create(o, w, l, q) ==
    /\ state[o] = "absent"
    /\ window[w] \in {"open", "claimed"}
    /\ LotExists(l)
    /\ MoveTo(o, "planned")
    /\ berth'   = [berth   EXCEPT ![o] = w]
    /\ fuelLot' = [fuelLot EXCEPT ![o] = l]
    /\ target'  = [target  EXCEPT ![o] = q]
    /\ permit'  = [permit  EXCEPT ![o] = "pending"]
    /\ steps'   = [steps   EXCEPT ![o] = {}]
    /\ Announce(o, "bunkering.created")
    /\ UNCHANGED <<transferred, lease, invoice, historyVars,
                   fuelVars, qualityVars, scheduleVars>>

\* BUG: the permit's status is not looked at.
MayApproveAnyPermit(o) == state[o] = "planned"

MayApprove(o) == state[o] = "planned" /\ permit[o] = "pending"

Approve(o) ==
    /\ MayApprove(o)
    /\ permit' = [permit EXCEPT ![o] = "approved"]
    /\ MoveTo(o, "approved")
    /\ Announce(o, "bunkering.approved")
    /\ UNCHANGED <<berth, fuelLot, target, transferred, lease, steps, invoice,
                   historyVars, fuelVars, qualityVars, scheduleVars>>

\* transition(): UPDATE ... WHERE state=from, and no row is an ErrConflict.
MarkAlongside(o) ==
    /\ CanMove("approved", "alongside")
    /\ state[o] = "approved"
    /\ MoveTo(o, "alongside")
    /\ Announce(o, "bunkering.alongside")
    /\ UNCHANGED <<berth, fuelLot, target, transferred, lease, permit, steps,
                   invoice, historyVars, fuelVars, qualityVars, scheduleVars>>

StartTransfer(o, who) ==
    /\ state[o] = "alongside"
    /\ Reserve(fuelLot[o], target[o] - transferred[o])
    /\ MoveTo(o, "transferring")
    /\ lease' = [lease EXCEPT ![o] = who]
    /\ draws' = [draws EXCEPT ![o] = @ + 1]
    /\ Announce(o, "bunkering.started")
    /\ UNCHANGED <<berth, fuelLot, target, transferred, permit, steps, invoice,
                   unearned, replays, qualityVars, scheduleVars>>

\* BUG: a step may be confirmed before the step ahead of it.
StepPending(o, p) == p \notin steps[o]

StepReady(o, p) ==
    /\ p \notin steps[o]
    /\ p > 1 => p - 1 \in steps[o]

\* The last step moves the order to 'sampled'; no message says so.
CompleteStep(o, p) ==
    /\ state[o] = "transferring"
    /\ StepReady(o, p)
    /\ steps' = [steps EXCEPT ![o] = @ \cup {p}]
    /\ state' = IF p = 4 THEN [state EXCEPT ![o] = "sampled"] ELSE state
    /\ Record(o, "transfer.step.completed")
    /\ UNCHANGED <<berth, fuelLot, target, transferred, lease, permit, invoice,
                   outbox, historyVars, fuelVars, qualityVars, scheduleVars>>

EndLease(o) == lease' = [lease EXCEPT ![o] = None]

\* invoices.order_id is UNIQUE: a second invoice rolls the completion back.
Complete(o) ==
    /\ state[o] = "sampled"
    /\ ApprovedForOrder(o)
    /\ invoice[o] = "none"
    /\ MoveTo(o, "completed")
    /\ EndLease(o)
    /\ transferred' = [transferred EXCEPT ![o] = target[o]]
    /\ invoice'     = [invoice     EXCEPT ![o] = "issued"]
    /\ Announce(o, "bunkering.completed")
    /\ UNCHANGED <<berth, fuelLot, target, permit, steps, historyVars,
                   fuelVars, qualityVars, scheduleVars>>

\* Abort refuses completed and cancelled orders only, and releases the whole
\* target whatever the order had reserved.
Abort(o) ==
    /\ state[o] \in ActiveStates
    /\ Release(fuelLot[o], target[o])
    /\ MoveTo(o, "cancelled")
    /\ EndLease(o)
    /\ unearned' = IF HoldsFuel(o) THEN unearned ELSE [unearned EXCEPT ![o] = @ + 1]
    /\ Announce(o, "bunkering.cancelled")
    /\ UNCHANGED <<berth, fuelLot, target, transferred, permit, steps, invoice,
                   draws, replays, qualityVars, scheduleVars>>

-----------------------------------------------------------------------------
(* The handlers of other packages on orders. *)

\* operations.Service.BatchComplete: all the orders or none; it asks for no
\* sample, bills nothing, records nothing and announces nothing.
BatchComplete(batch) ==
    /\ batch # {}
    /\ \A o \in batch : state[o] = "sampled"
    /\ state' = [o \in Orders |-> IF o \in batch THEN "completed" ELSE state[o]]
    /\ UNCHANGED <<berth, fuelLot, target, transferred, lease, permit, steps,
                   invoice, trailVars, historyVars, fuelVars, qualityVars,
                   scheduleVars>>

\* incident.Service.Open cancels the transfer; fuel and lease stay as they are.
OpenIncident(o) ==
    /\ state[o] = "transferring"
    /\ MoveTo(o, "cancelled")
    /\ Announce(o, "incident.opened")
    /\ UNCHANGED <<berth, fuelLot, target, transferred, lease, permit, steps,
                   invoice, historyVars, fuelVars, qualityVars, scheduleVars>>

\* BUG: a completed order can be replayed, too.
MayReplayTerminal(o) == state[o] \in {"cancelled", "completed"}

MayReplay(o) == state[o] = "cancelled"

\* worker.Recovery.Replay: the state alone; permit, steps, fuel, lease and
\* window are not looked at.
Replay(o) ==
    /\ MayReplay(o)
    /\ replays[o] < MaxReplays
    /\ MoveTo(o, "planned")
    /\ replays' = [replays EXCEPT ![o] = @ + 1]
    /\ UNCHANGED <<berth, fuelLot, target, transferred, lease, permit, steps,
                   invoice, trailVars, draws, unearned, fuelVars, qualityVars,
                   scheduleVars>>

\* billing.Service.Generate
Generate(o) ==
    /\ state[o] = "completed"
    /\ invoice[o] = "none"
    /\ invoice' = [invoice EXCEPT ![o] = "issued"]
    /\ Announce(o, "invoice.issued")
    /\ UNCHANGED <<orderVars, historyVars, fuelVars, qualityVars, scheduleVars>>

\* quality.Service.ReceiveSamples takes an order in whatever state it is.
ReceiveSamples(o, refs) ==
    /\ state[o] # "absent"
    /\ InsertSamples(o, refs)
    /\ Record(o, "samples.received")
    /\ UNCHANGED <<orderVars, invoice, outbox, historyVars, fuelVars, scheduleVars>>

-----------------------------------------------------------------------------
(* The handlers of the lots, the samples and the windows. *)

LotStep == \E l \in Lots, q \in Quantities : ReceiveLot(l, q)

ReviewStep == \E s \in Samples, v \in {"approved", "rejected"} : Review(s, v)

\* CreateWindow and CancelWindow enqueue a message about the window.
AnnouncedWindowStep ==
    \/ \E w \in Windows, t \in Terminals, from, until \in 0..Horizon :
           CreateWindow(w, t, <<from, until>>)
    \/ \E w \in Windows : CancelWindow(w, ActiveOrders(w))

QuietWindowStep ==
    \/ \E t \in Terminals : CreateTerminal(t)
    \/ \E w \in Windows, who \in Owners : ClaimWindow(w, who)

ScheduleStep == AnnouncedWindowStep \/ QuietWindowStep

\* The handlers of one order: those that enqueue a message, and the others.
AnnouncedOrderStep(o) ==
    \/ \E w \in Windows, l \in Lots, q \in Quantities : Create(o, w, l, q)
    \/ Approve(o)
    \/ MarkAlongside(o)
    \/ \E who \in Workers : StartTransfer(o, who)
    \/ Complete(o)
    \/ Abort(o)
    \/ OpenIncident(o)
    \/ Generate(o)

QuietOrderStep(o) ==
    \/ \E p \in Positions : CompleteStep(o, p)
    \/ Replay(o)
    \/ \E refs \in SUBSET Samples : ReceiveSamples(o, refs)

OrderStep(o) == AnnouncedOrderStep(o) \/ QuietOrderStep(o)

Next ==
    \/ \E o \in Orders : OrderStep(o)
    \/ \E batch \in SUBSET Orders : BatchComplete(batch)
    \/ LotStep      /\ UNCHANGED <<orderVars, invoice, trailVars, historyVars,
                                   qualityVars, scheduleVars>>
    \/ ReviewStep   /\ UNCHANGED <<orderVars, invoice, trailVars, historyVars,
                                   fuelVars, scheduleVars>>
    \/ ScheduleStep /\ UNCHANGED <<orderVars, invoice, trailVars, historyVars,
                                   fuelVars, qualityVars>>

Spec == Init /\ [][Next]_vars

-----------------------------------------------------------------------------
(* Properties. *)

\* An order reserves fuel of its lot at most once in its life, although recovery
\* can send a cancelled order back to planning any number of times, and an order
\* that holds fuel has reserved it (StartTransfer, Approve, Replay).
DrawnOnce ==
    \A o \in Orders : /\ draws[o] <= 1
                      /\ HoldsFuel(o) => draws[o] = 1

OrdersOf(l) == { o \in Orders : fuelLot[o] = l }

Holding(l) == { o \in OrdersOf(l) : HoldsFuel(o) }

\* What an order returned to its lot without having held it.
Unheld == [o \in Orders |-> unearned[o] * target[o]]

\* available_kg accounts for every kilogram: what the lot received is still
\* there, or held by one of its orders, apart from the fuel that aborts gave
\* back without the order having reserved it (Reserve, Release, Abort, Open).
LotLedger ==
    \A l \in Lots :
        available[l] + Total(target, Holding(l)) = received[l] + Total(Unheld, OrdersOf(l))

\* Steps are confirmed in the order connect, precheck, transfer, disconnect, and
\* an order is past the transfer exactly when all of them are (CompleteStep).
StepsInOrder ==
    \A o \in Orders :
        /\ \A p \in steps[o] : \A q \in Positions : q < p => q \in steps[o]
        /\ state[o] = "transferring" => 4 \notin steps[o]
        /\ state[o] \in {"sampled", "completed"} => steps[o] = Positions

\* A completion that was announced stays what it was: the order is completed,
\* all of its target was transferred, it is billed and an approved sample backs
\* it, whatever handler runs afterwards (Complete, Review, Replay, Abort).
CompletionBacked ==
    \A o \in Orders :
        "bunkering.completed" \in outbox[o] =>
            /\ state[o] = "completed"
            /\ transferred[o] = target[o]
            /\ invoice[o] = "issued"
            /\ ApprovedForOrder(o)

\* Only a delivered order is billed, so the UNIQUE constraint of invoices can
\* never be what makes Complete fail (Complete, Generate, Replay).
BilledIsDelivered ==
    \A o \in Orders :
        invoice[o] = "issued" => state[o] = "completed" /\ draws[o] = 1

\* An order that recovery has not touched and that is still under way keeps its
\* window: CancelWindow cannot take it away, before or after Create looked at it.
ActiveOrderHasWindow ==
    \A o \in Orders :
        state[o] \in ActiveStates /\ replays[o] = 0
            => window[berth[o]] \in {"open", "claimed"}

\* Nothing that happens to a completed order changes its state, what it
\* transferred or the fuel it has drawn (Abort, Replay, Open, BatchComplete).
CompletedIsFinal ==
    [][\A o \in Orders : state[o] = "completed" =>
          /\ state'[o] = "completed"
          /\ transferred'[o] = transferred[o]
          /\ draws'[o] = draws[o]
          /\ unearned'[o] = unearned[o] ]_vars

Cleared == { o \in Orders : permit[o] = "approved" }

Lifecycle == INSTANCE OrderLifecycle WITH phase <- state, cleared <- Cleared

\* The order handlers of all the packages together follow the domain package's
\* state machine, and approve an order at most once.
FollowsLifecycle == Lifecycle!Spec

-----------------------------------------------------------------------------
(* The inductive invariant behind the safety properties. *)

\* What is true of an order at each stage of its life.  A pending permit means
\* that nothing was ever drawn, confirmed or leased, so the first approval finds
\* a fresh order; a spent permit never becomes pending again, so a replayed order
\* cannot reach the lot a second time.
FreshUntilApproved(o) ==
    /\ permit[o] = "pending" =>
          /\ state[o] \in {"absent", "planned", "cancelled"}
          /\ draws[o] = 0
    /\ state[o] = "absent" => permit[o] = "pending"
    /\ draws[o] = 0 => lease[o] = None /\ steps[o] = {}
    /\ state[o] \in {"approved", "alongside"} => draws[o] = 0

RowIsWhole(o) ==
    /\ state[o] = "absent" => outbox[o] = {}
    /\ state[o] # "absent" => berth[o] \in Windows /\ fuelLot[o] \in Lots
    /\ state[o] # "completed" => invoice[o] = "none"

\* The inductive invariant (all order handlers): its named parts are what each
\* handler relies on of the handlers that ran before it.
IInv ==
    /\ TypeOK
    /\ \A o \in Orders : FreshUntilApproved(o) /\ RowIsWhole(o)
    /\ DrawnOnce
    /\ StepsInOrder
    /\ CompletionBacked
    /\ ActiveOrderHasWindow

\* What LotLedger needs of an order besides: an order without a row belongs to no
\* lot, an order with one to a lot that was received, for some fuel; only an announced completion
\* transfers anything, so StartTransfer reserves the whole target; and a transfer
\* under way has an owner, whose lease an incident leaves behind with the fuel.
Booked(o) ==
    /\ state[o] = "absent" => fuelLot[o] = None /\ unearned[o] = 0
    /\ state[o] # "absent" => target[o] > 0
    /\ fuelLot[o] # None => LotExists(fuelLot[o])
    /\ state[o] = "transferring" => lease[o] # None
    /\ transferred[o] # 0 => "bunkering.completed" \in outbox[o]

\* The inductive invariant of the books (Create, StartTransfer, Complete, Abort,
\* Open, ReceiveLot).
LedgerInv ==
    /\ IInv
    /\ \A o \in Orders : Booked(o)
    /\ LotLedger

\* README.md: "All writes use ... an audit event and an outbox message": a
\* completed order has both (BatchComplete writes neither).
CompletionIsOnRecord ==
    \A o \in Orders :
        state[o] = "completed" => "bunkering.completed" \in audit[o] \cap outbox[o]

=============================================================================

# BunkerFlow: specification, model checking and proofs

BunkerFlow is the backend of ship-to-ship methanol bunkering: Go services over one SQLite database,
an HTTP interface in front, and a worker that delivers outbox messages. This directory specifies the
parts whose behaviour depends on the order of events, checks them with TLC on small instances and
proves their safety with TLAPS for every instance.

## 1. Inventory

### Components

| Component | State | Operations | What makes it correct |
|---|---|---|---|
| Transfer orders (`bunkering/service.go`) | `transfer_orders`, `transfer_steps`, `safety_permits` | Create, Approve, MarkAlongside, StartTransfer, RenewLease, CompleteStep, Complete, Abort | no order is loaded twice; steps in order; a completion is backed by a sample, an invoice and a quantity, and final |
| Domain (`domain/`) | none | CanMove, Transition, labels, input checks | the handlers of all packages follow it |
| Fuel (`fuel/service.go`) | `fuel_lots` | ReceiveLot, Reserve, Release | never negative; every kilogram accounted for |
| Quality (`quality/service.go`) | `samples`, `custody_events` | ReceiveSamples, Review, ApprovedForOrder | a verdict is given once |
| Windows (`schedule/service.go`) | `bunker_windows` | CreateWindow, ClaimWindow, CancelWindow | one owner; not cancelled under an active order |
| Terminals (`terminal/service.go`) | `terminals` | Create, Archive | not archived while in use |
| Incidents (`incident/service.go`) | `incidents` | Open | stops a transfer |
| Batches (`operations/service.go`) | none of its own | BatchComplete | all or nothing |
| Recovery (`worker/recovery.go`) | none of its own | Replay | a cancelled order can be planned again, and not be loaded again |
| Billing (`billing/service.go`) | `invoices`, the gateway | Generate, Pay | one invoice per order; charged at most once; paid means charged |
| Outbox (`outbox/service.go`, `worker/runner.go`, `worker/heartbeat.go`) | `outbox_messages` | Enqueue, Claim, Publish, Fail, heartbeats | at-least-once delivery; every message is settled |
| Idempotency (`idempotency/service.go`) | `idempotency_keys` | Lookup, Save | one order per key |
| Runtime (`app/runtime.go`) | flags, the runner's context | Start, Ready, Shutdown | shutdown ends the worker and closes the store |
| Sessions (`auth/service.go`) | `sessions` | Login, Authenticate, Logout, RevokeAll | a revoked session stays revoked |
| Vessels (`vessel/service.go`) | `vessels`, certificates | Register, ReplaceCertificate | one certificate in force |
| Payment ledger (`payment/ledger.go`) | a list of attempts | Start, Succeed, Fail | a key stands for one attempt |
| Audit trail (`audit/`) | `audit_events` | Record, List, Page, FilterEvents | a walk loses and repeats nothing that was there |
| Row locks (`storage/locking.go`) | `owner_id` of `bunker_windows` | AcquireRow, ReleaseRow | one holder |
| Permits (`permit/`) | values, copied | New, Complete, Issue, Revoke, Active | issued only after every check |
| Weighing (`weighing/`) | a series of readings | Capture, Validate, DeliveredKG | the quantity is the one measured |
| Reports (`compliance/`, `reporting/`, `bunkering/readiness.go`) | none | CheckOperation, Build, BuildCustody | agree with what the handlers did and will do |
| Calculations (`billing/{pricing,tax}.go`, `fuel/ledger.go`, `terminal/policy.go`, `schedule/calendar.go`, `worker/backoff.go`) | none | pure functions | boundaries: bands, midnight, equal times, overflow |
| Parts of `app` that main does not use (`lifecycle.go`, `supervisor.go`, `metrics.go`) | flags, a table of workers, counters | Start, Stop, Add, Begin, End, Snapshot | safe under concurrent callers |
| Other rules (`domain/{rules,types}.go`, `fuel/quality.go`, `quality/evidence.go`, `terminal/{capacity,maintenance}.go`, `billing/statement.go`, `incident/timeline.go`, `operations/summary.go`, `outbox/monitor.go`) | values | checks, sums, filters | - |
| HTTP (`httpapi/`, `cmd/server`) | none | decode, authorise, call | - |

### How they interact

A handler of the HTTP interface calls one service method. A method that writes more than one table
runs in `storage.WithTx`; inside it calls the services it needs with the open transaction
(`Fuel.Reserve`, `Quality.ApprovedForOrder`, `Audit.Record`, `Outbox.Enqueue`). `storage.Open` allows
one connection, so transactions are serial and a failing one changes nothing. There is no call back
and no message between services apart from the outbox, which the runner drains. What is concurrent
is the *order* of whole transactions of different actors on the same rows, and everything that takes
more than one transaction: `Pay`, `Archive`, the idempotent `Create`, the claim-publish-report cycle
of the runner, start and shutdown of the runtime.

### Hard behaviours

* long sequences of legal calls on one order by planners, operators, quality staff, incidents,
  batches and recovery, each with a state test of its own;
* two orders on one lot, one window or one sample;
* steps between transactions: a payment that is cut off, refused or repeated; a runner that crashes,
  or whose call outlasts its lease, or whose ticker is late; times compared as texts;
* shutdown against a busy worker.

The list with source lines is in `PROJECT.json` under `hazards`.

## 2. Modules

| Module | Models | Kind |
|---|---|---|
| `Domain` | the operation states and `CanMove` | operators |
| `Fuel` | `fuel_lots`, ReceiveLot / Reserve / Release | component |
| `Quality` | `samples`, ReceiveSamples / Review / ApprovedForOrder | component |
| `Schedule` | `terminals`, `bunker_windows` and their operations | component |
| `Bunkering` | the orders with permit, steps, invoice, audit and outbox rows, and every handler of any package that touches them; composes the four above | composition |
| `TimeText` | the order of stored times, which are texts | operators |
| `Terminal` | `Archive` in its two statements and RenewLease, with leases that run and end and the outbox backlog, over all of `Bunkering` | composition |
| `OrderLifecycle` | what the domain promises of an order | abstract specification of `Bunkering` |
| `Billing` | `Pay`, step by step | component |
| `Outbox` | the outbox rows, the runners, their tickers and the clock | component |
| `Delivery` | at-least-once delivery | abstract specification of `Outbox` |
| `Idempotency` | `Create` with an Idempotency-Key: Lookup, the transaction, the answer | component |
| `Runtime` | start, signal, drain and `Shutdown` with the HTTP server, the runner and the store | component |
| `Reports` | compliance, readiness, overview and custody report over the rows of `Bunkering` | operators and their agreement with the handlers |
| `Gateway` | the inside of `LocalGateway.Charge`, step by step beside `Billing` | composition |
| `PaymentLedger` | the attempts to pay, with repeated keys and late reports | component |
| `Heartbeats` | other workers that lease outbox rows, over all of `Outbox` | composition |
| `Sessions` | logins, revocations, the end of sessions, and the calls they authenticate | component |
| `Lifecycle`, `Supervisor`, `Metrics` | the parts of package `app` that main does not use yet, under concurrent callers | components |
| `AuditPages` | a walk through the audit trail while events are recorded | component |
| `RowLocks` | AcquireRow and ReleaseRow beside the planners of `Schedule` | composition |
| `Permits` | permits handed around as values | component |
| `Weighing` | readings of several devices captured out of order, twice or never | component |
| `Calculations` | prices, taxes, opening hours in a location that sets its clocks, the fuel ledger, the delay of a retry | operators checked against what they promise |
| `Counting` | sums over rows and sorted lists, said by counting | operators |
| `CountingProofs` | what sums and sorted lists return, preserve and bound | lemmas |
| `BunkeringProofs`, `TerminalProofs`, `BillingProofs`, `OutboxProofs`, `IdempotencyProofs`, `ProcessProofs`, `PartsProofs` | theorems | proofs |
| `MCTerminal` | symmetry for TLC | model checking |
| `MCMoney`, `MCOutbox`, `MCRequests`, `MCProcess`, `MCParts` | parts that share no state, in one run | model checking |

The last group has a variable `part` that never changes: a behaviour follows one part, while the others stay
in their initial state (and have one initial state there). The states of the parts add up and do not
multiply, and a property of one part is checked in all of its behaviours.

### How state and actions correspond to the code

`Bunkering`: one variable per column that a guard or a property reads, as a function from orders;
`state[o] = "absent"` until the row is inserted. `audit` and `outbox` keep the set of actions and
topics recorded about the order. A handler is one action; guards are its tests in their order,
disjoint error returns are simply not enabled, because a transaction that returns an error is rolled
back. `draws`, `unearned` and `replays` are history variables; `replays` also bounds recovery.

* `Abort` releases the whole target whatever was reserved, as line 296 does, and `unearned` counts it.
* `OpenIncident` leaves the fuel and the lease where they are; `HoldsFuel` therefore looks at the lease.
* `BatchComplete` takes a set of orders and writes the state alone.
* `Replay` writes the state alone. The permit stays spent, so a replayed order that had been approved
  can never be approved again; a replayed order that was cancelled while planned can.
* The lot's quality and the vessel's status have one value in every reachable database and are left out.

`TimeText`: a time is stored as a text of RFC3339Nano, which has no fraction where that is zero, and queries
compare texts: `11:00:00.5Z` comes before `11:00:00Z`. Times are counted in half seconds and `TextRank` gives
each its place; texts of different seconds are in the order of their times. `Schedule` uses it for the conflicts
of CreateWindow, which compares `starts_at` and `ends_at` in the query, while `EndsAt.After(StartsAt)` before it
compares times. `AuditPages` uses it for `created_at`, and `Terminal` for `lease_until`; `Outbox` has the
same order for times relative to now.

`Terminal` adds to `Bunkering` what Archive counts: `live`, the orders whose `lease_until` is a second or more
ahead, `ending`, those whose lease ends within the second, where the texts may be compared either way, and
`backlog`, whether a message is pending. `RenewLease` moves an order from `ending` to `live`; its `now` is a
parameter, taken to be the clock, as no handler calls it. A handler step is one of `Bunkering`, split into those
that enqueue a message and those that do not. `archive[t] = "counted"` is a call between its SELECT and
its UPDATE, which may also never come. `late` is a history variable: windows created in between.

`Idempotency`: a call looks up, inserts and answers in three steps; an order's id is its row number. The
two UNIQUE constraints are one guard of the transaction, and a row of `idempotency_keys` holds the body
its hash stands for. `Rollback` is every way the transaction fails; `LoseAnswer` is a client that never
hears of its success. `Withdraw` makes the preconditions of a body fail from then on.

`Runtime`: the two flags take three values together, since Shutdown sets both under its lock. Callers of
Shutdown are at a phase; between phases they hold no lock. `expired` holds the callers whose deadline
has passed; the select of Shutdown may then choose either case. The runner is in its select or in an
iteration, and its select may choose the ticker although its context is done.

`Billing`: a call is at one of the phases `claim`, `charge`, `clear`, `settle`; between them its context
may be cancelled or its process die (`Die`). `Clear` may fail, because the code drops its error, and
`Settle` may be rolled back.

`Outbox`: time is counted in half seconds relative to now, so that the state space stays finite.
`busy` is how long a runner has not read its ticker and becomes the age of the tick that waits for it;
`lag` is the age the tick had when it was read. Claim, lease and retry time are reckoned from that
late time, as the code reckons them from `now := <-ticker.C`. `Text` is the order of the texts of
RFC3339Nano within a second: the time without fraction sorts after the time with one. The model's
unit exaggerates how far two texts can be apart from the times they stand for (a whole second needs a
time with a zero fraction); `TakeoverNearLeaseEnd` therefore bounds the effect from above.

`Heartbeats`: a holder reckons with the lease its calls returned (`holds`, `until`) and may die without
releasing it. `Acquire` looks at the text of `lease_until` alone and raises no attempts. `OtherStep` is every
step of `Outbox`; when the clock of `Outbox` ticks, the reckoning of the holders does, too.

`Gateway`: `Charge` reads whether the map exists and the count of the key, and writes both back in a second
step; an entry of another call in between loses a count. A race that Go's map detects ends the process,
which is `Die` of `Billing`. An error of the gateway is taken to mean that nothing was charged: so it is in
`LocalGateway.Charge`, the one gateway there is, which counts an attempt it refuses and charges nothing. A
remote gateway that charges and then fails to answer is not modelled, and `ChargedOnce` says nothing about one.

`PaymentLedger`: `StartAttempt` is one action with two outcomes, a new attempt or the known one of its key;
`FailAttempt` takes a failed attempt again, as the code does. The methods lock nothing, so they are called by
one goroutine at a time, with reports in any order.

`Sessions`: a token stands for its session. `CheckCredentials` and `InsertSession` are the two statements of
Login; a call arrives, is authenticated in one statement and handled later. `late` is a history variable: the
session had ended when the call arrived. That a call is handled although its session ended after it was
authenticated is possible and allowed.

`Lifecycle`: Stop is `BeginStop`, a wait without the lock, and `FinishStop`. `Supervisor`: `RunReturns` and
`Deregister` are apart, since the goroutine takes the lock only after its function has returned. `Metrics`:
every atomic operation is a step; the endpoints table is written under the lock that a snapshot holds while
it reads the other counters.

`AuditPages`: time is counted in half seconds and ordered as the texts of RFC3339Nano are, the half before the
full second. Identifiers are random, so an event recorded later may have a smaller one. What a query or
`FilterEvents` returns is the list of its rows in the order of its ORDER BY (`Ranked`). `RowLocks`: the lock
and the claim share `owner_id`; `granted` (who acquired a row and did not release it) and `seized` (how often a
planner claimed or cancelled a window under a lock) are history variables. `Permits`: `done` is kept apart
from the other fields because it is a slice that copies could share; `doneBy` is its history. `Weighing`: the
devices' readings are fixed at the start and captured in any order; the stable sort of `Ordered` ranks the
places of the series by sequence, time and place. A device stands for itself and the order it weighs, neither
of which the package compares. `Calculations`: a state is one call with its arguments. A location is two
offsets from UTC and the moment its clocks are set (a Go location has more of these, months apart); `Date` is
how `time.Date` looks for the offset of a clock reading; NextOpening adds to moments, as the code does, and
OpenAt reads the clock. Money is in cents, a multiplier in tenths, and a delay past the range of an int64 may be what
either kind of machine makes of it.

`Reports`: no variables; the operators read the rows of `Bunkering`, and the findings about vessel, weather and
crew, of which no table keeps anything, are an argument.

`Counting`: a SUM() over rows is the number of its units - a row with five kilograms has five - and a sorted
list puts at each place the element that has so many before it. Both are said with `Cardinality`, so that
they need no recursion and a proof can use the theorems about finite sets.

## 3. Runs

| Run | Instance | Checks |
|---|---|---|
| `orders` (`MCBunkering.cfg`) | 2 orders, 1 lot, quantities {1,2}, 1 sample, 1 window, 1 replay each | `TypeOK`, `DrawnOnce`, `LotLedger`, `StepsInOrder`, `CompletionBacked`, `BilledIsDelivered`, `FollowsLifecycle`; `ReportsAgree`: readiness never holds back a transfer that would start, the overview counts what is open and delivered, a complete chain of custody suffices to complete |
| `terminal` (`MCTerminal.cfg`) | 1 terminal, 2 windows of up to 3 half seconds, 1 order, 1 lot, quantity 1, 1 replay, windows symmetric | `ActiveOrderHasWindow`, `ArchivedIdleExceptLate`, `StrandedOnlyByRaceOrReplay`, `LeaseOverForGood`; `OverlapWithinSecond`: what the calendar offers at one moment |
| `requests` (`MCRequests.cfg`) | creations: 3 clients, 1 key and none, 2 bodies, up to 3 orders; sessions: 2 users, 2 tokens, 2 calls, sessions of 2 hours, a clock of 3 | `OneAnswerPerKey`, `KeysMatchOrders`; `LateCallRefused` |
| `process` (`MCProcess.cfg`) | runtime: 2 callers of Shutdown, 2 requests; lifecycle: 3 goroutines; supervisor: 3 runs under 2 names; metrics: 3 requests on 2 paths | `StoreOutlivesUsers`, `OneCloser`, `ReadyMeansServing`; `OneStopWaits`; `SupervisedOrGone`; `SnapshotAddsUp`; `EverythingStops` (every Shutdown returns, the supervisor's table empties) |
| `money` (`MCMoney.cfg`) | 3 calls, 2 invoices, 2 keys, 2 charges of a key; ledger: 3 attempts, 2 invoices, 3 keys, 2 amounts | `ChargedOnce`, `ChargedKeyKept`, `PaidIsChargedOrJoined`, `PaidIsFinal`; `CountsLostOnlyByOverlap`; `KeysNameOneAttempt` |
| `outbox` (`MCOutbox.cfg`) | 2 messages, 2 runners with one identity, calls up to 3, lease 2, 1 crash; or 1 message and 2 holders beside the runners | `DuplicateOnlyByTakeover`, `AtLeastOnce`, `TakeoverNearLeaseEnd`; `HolderKeepsLease` |
| `outbox_live` (`MCOutboxLive.cfg`) | 2 messages, 2 runners, 1 crash, calls up to 1, lease 4, fair | `EventuallySettled`; `AcceptedOnce` as long as nothing has crashed |
| `parts` (`MCParts.cfg`) | audit: 4 events, limits {0,1,2}, 4 half seconds; locks: 2 windows, 3 owners; permits: 2 holders, 3 checks, 2 terms, version up to 5; weighing: 2 devices with 2 readings each, 3 captures; calculations: weights around the bands, rates {0,6,8}, a day of 6 minutes with clocks up to a minute ahead or behind that are set at any of 19 moments, ledgers of up to 3 entries of 1 or 2 kg, opened with 0 to 2 kg, attempts 0 to 40 | `WalkIsComplete`, `OneHolderPerSeizure`, `PermitEarned`, `SeriesAsMeasured`, `CalculationsAgree` |
| `on_record`, `archived`, `retry_limit`, `shared_id` | one order or one message | expected violations, see section 5 |

Why the bounds are enough. Every conflict the orders have is over one lot, one window, one sample or
one invoice, between two orders or between two handlers on one order; quantities 1 and 2 let a lot be
enough for one order and not for both. One replay is what separates an order that starts afresh from
one that starts with a history; a second replay would only repeat it. In `Billing` two calls race and the third
retries. In `Outbox` two runners are needed for a takeover and a second message for the order of
claims; the retry limit is 2 instead of 5, with one attempt more than it in the bound, and a lease is
1 to 3 seconds instead of 120 while a call lasts from nothing to more than a lease. In `Terminal` one
order and a second window show every way work can appear at a terminal between the two statements; in
`Idempotency` two clients race and the third repeats, and keys do not interact; in `Runtime` one caller
closes and the other finds the runtime closed. In `Sessions` two sessions may belong to one user or to two,
so RevokeAll meets both, and one call logs out while the other uses the session. Three runs under two names
let a name be used again. Three requests put a snapshot between two that have begun and one that has not.
Four events and pages of one or two put a page boundary inside a second and between two. Two windows are
needed for a lock beside a claim of the other. A third owner comes to a lock that was seized already. Two devices
with two readings each give every mixture of a series. A day of six minutes has every order of opening, closing
and the time, and clocks that are set before, at and after each of them, on the day before, the day and the day
after. Three half seconds let a window end in the second another begins in, on either side of the full second. All passing runs exhaust their state space. The proofs remove the bounds for what they prove.

Deadlock is checked for `outbox`, `outbox_live` and `requests`. In the other runs the work can be done - every
order over, every invoice paid, the process ended, the walk finished, a call computed - so they do not
check it.

Fairness is used by two runs. `process`: a caller of Shutdown takes its next step, an iteration of the
runner and a request end, and the runner, which is in its select again and again, leaves by its done
context some day, since Go's select chooses at random (strong fairness); no deadline need ever pass. A supervised function whose context is done returns, and its goroutine then leaves
the table (`SupervisorFairness`): this is the contract of a function given to Add.
`outbox_live`: the clock ticks, and a runner that can take a step takes one
(`Run` loops on its ticker and no step waits for another runner). Crashes are not fair and are bounded.
The broker may refuse as often as it likes.

## 4. Proofs

Every invariant and every action property of the passing runs is a theorem, for every value of the constants
that meets the assumptions of the modules. What is left to TLC alone is at the end of this section.

### The orders: `BunkeringProofs`

For any finite sets of orders, samples and windows, any lots, terminals, owners and workers, any quantities
and any bound on replays: `TypeCorrect`, the invariants `DrawnOnce`, `StepsInOrder`, `CompletionBacked`,
`BilledIsDelivered`, `ActiveOrderHasWindow`, `LotLedger` and `ReportsAgree`, the action property
`CompletedIsFinal`, and that `Bunkering` implements `OrderLifecycle`.

None of these is inductive alone. `IInv` adds `FreshUntilApproved` - a pending permit means that
nothing was drawn, confirmed or leased yet, and a spent permit never becomes pending again - and
`RowIsWhole`. With them each handler finds what it relies on: StartTransfer finds `draws[o] = 0`
because only an order that has come through Approve gets alongside, Approve needs a pending permit, and
so no replay leads back to the lot. The proof is by handler: the type lemmas, then for one order the
core conjuncts (`CoreOrderStep`), the frame for the other orders (`OrderStepFrame`), the evidence
(`EvidenceStep`) and the windows (`WindowStep`).

`LedgerInv` adds the books. `Booked` says what a row promises to the sums: an order on record has a positive
target and a received lot, one that is transferring has a lease, and only an announced completion has a
transferred quantity. A handler changes the books of one order (`BooksOrderStep`) and leaves the terms of the
others alone (`BooksFrame`); `TotalButOne` turns that into a statement about the two sums of `LotLedger`.
`ReportsAgree` then needs no induction of its own: readiness, overview and custody report follow from
`LedgerInv`, the overview by splitting the orders into those it counts (`OpenOrdersCount`).

### Archiving: `TerminalProofs`

A handler step of `Terminal` is a step of `Bunkering`, so `IInv` carries over and the proof is about the rest.
`TInv` adds `Emptied` (from the count on, the only windows of the terminal are late ones), `Placed` and `Apart`
(a window on record is somewhere, and the texts of two open ones do not overlap), `Earned` (why an order still
has a lease: under way, stopped by an incident, or completed by a batch) and that a running lease is a lease. It
gives `ArchivedIdleExceptLate`, `StrandedOnlyByRaceOrReplay` and `LiveLeaseIsEarned` (a running lease belongs to
an order that drew its fuel and that neither Complete nor Abort finished). `OverlapWithinSecond` follows from
`Apart`, since texts of different seconds are in the order of the times (`TextOrder`). `LeaseOverForGood` is
about steps: only StartTransfer gives a lease (`LeaseGiven`), and it draws fuel; what a renewal takes up still runs.
`ActiveOrderHasWindow` and the types hold in this composition, too (`WindowKeptWhileArchiving`,
`TerminalTypeCorrect`).

### Payment: `BillingProofs`

`ChargedOnce`, `ChargedKeyKept`, `PaidIsChargedOrJoined` and `PaidIsFinal` for any calls, invoices and keys.
The strengthening is `ClaimHolder`: between claim and settlement a call is alone at the gateway
with its invoice, whose stored key is its own and which is uncharged.

`GatewayInv` adds the inside of the gateway: what a call has read is never more than what was attempted, and
as long as no two charges overlapped the count is exact, one call is inside at most, and what it has read is
still so. Hence `CountsLostOnlyByOverlap`; `ChargedOnceWithGateway` states that the race on the map does not
reach the invoices.

### Delivery: `OutboxProofs`

All theorems but the last are about `HeartbeatSpec`, that is, with other holders of leases, crashes, any
even length of a lease and calls of any length. The argument counts (`Counted`). Every call of the broker
that is out and every failure not yet reported belongs to one claim, and a message is claimed from its lease
owner or while nobody owns it; so acceptances and those calls together are at most the takeovers, and one more
as long as a runner owns the lease or the message is sent. This gives `DuplicateOnlyByTakeover`, and that
nothing is accepted more often than claimed. `Honest` (a report of success follows an acceptance, and only
pending messages are leased) gives the refinement of `Delivery`. `HolderInv` gives `HolderKeepsLease`: nobody
takes a lease a second or more before its end, since texts of times at least a second apart are in the order of
the times (`TextOrder`); this is `TakeoverNearLeaseEnd`, too.

`AcceptedOnce` is proved under `Lease >= 2 * MaxCall + 2`, which is what "shorter than half a lease" means in
the code's own numbers (a call of less than a minute, a lease of two): a tick may be as old as a call when it
is read, and the call that it starts as long again. `SuccessorKeepsLease` does not hold, as the run `shared_id`
shows: `app.New` gives every runner one id.

### Requests and the process: `IdempotencyProofs`, `ProcessProofs`

`KeysMatchOrders`, `OneAnswerPerKey` and `BoundForEver` for any clients, keys, bodies and number of orders.
`IInv` adds that no two orders share a key and that what a call is about to answer is the order of its own
request; both rest on the UNIQUE constraints and on Insert and Save being one transaction.

`StoreOutlivesUsers` (from `WorkerHasStore` and `RequestHasStore`), `OneCloser` and `ReadyMeansServing` for any
callers and requests, from `CallerKnows`: what the phase of a caller says of the runner, the server and the
requests. `OneStopWaits` for any goroutines and `SupervisedOrGone` for any names and runs are inductive with
their types: a name is free when it is given away, so the entry a run takes out of the table is its own, and
Stop, which cancels what is in the table, reaches every goroutine.

`SnapshotAddsUp` for any finite number of requests and paths. `MetricsInv` ties each counter to the requests
that have passed a place (`CountersInv`: the requests counted are those that have begun, the table adds up to
those that have got past it) and says what a snapshot that has begun has seen of them (`SnapshotInv`). The
table, which is locked while the other counters are read, cannot move in between.

### The parts: `PartsProofs`

* `LateCallRefused` from `LateMeansEnded`: a session that has ended stays ended.
* `OneHolderPerSeizure`: a lock is given only on a row that is free or carries the same name, so a holder whose name
  is not in the row lost it to a planner, and each seizure takes the name of one holder.
* `KeysNameOneAttempt` from `KeysUnique` and `AnswersKept`: what Start answered is still what the ledger holds.
* `PermitEarned` from `PermitInv`: every check raised the version of its value, no copy shares another's list,
  and a value that left `pending` misses nothing.
* `WalkIsComplete`, for any finite set of events, any limits and times. `AuditInv` says what a walk has still to
  return (`StillToCome`): all of what was there when it began lies beyond the cursor, and of what came since
  all but events of a second already begun. That FilterEvents leaves the second at every place as it is, is a
  fact about two orders of one set (`SameWeights`).
* `SeriesAsMeasured`, for any devices, readings, weights and times: a series without a gap and without a repetition
  lists the numbers from 1 on, and clock readings that never go back between neighbours never go back at all
  (`ValidSeries`).
* `CalculationsAgree`: quotes and taxes of any weight at the rates of the tax rules; opening hours on a day of any
  length, for any offsets and any moment at which the clocks are set (`OpeningOnCalmDay` and `OpeningIsNear`, for a day
  that is left alone and for any day); ledgers of entries of any weight and time up to any number, and any attempt of a retry. That the
  order of a ledger matters only for entries of one time compares the balances that two sortings go through
  (`SortingsAgree`).

### What the proofs rest on

`CountingProofs` has the facts about sums and sorted lists. The provers have no induction over data, and none is
needed: a sum is a cardinality, so one element more or less is a union or a difference (`TotalRemove`,
`TotalButOne`, `TotalOfSizes`); the place of an element in a sorted list is a rank, which grows along the order
and takes every value up to the number of elements (`RankedLists`, `RankedUnique`); and what would be an
induction over places or moments is an argument about the first that fails (`LeastNumber`).

The assumptions on constants and why the code meets them:

* tables, requests, paths, checks, events and runners are finite sets (`FiniteTables`, `FiniteServed`,
  `CodesAssumption`, `EventAssumption`, `RunnersAssumption`);
* quantities of orders and ledger entries are positive, as Create, ReceiveLot and Append demand; readings,
  times and limits are natural numbers (`QuantityAssumption`, `EntryAssumption`, `ReadingsAssumption`,
  `LimitAssumption`); a weight to price is what `Quote` admits, a rate one of the tax rules or none
  (`WeightAssumption`): rounding is exact in whole cents, while the floating-point product of the code may miss a
  half for other rates, and leaves the whole cents only beyond 2^53 of them; offsets and changes of
  clocks are integers (`ClockAssumption`);
* the lease of a runner is a positive number of whole seconds (two minutes in the code), that of another
  holder any positive time (`LeaseAssumption`, `TTLAssumption`); other holders have ids of their own
  (`HoldersAssumption`): with a runner's id `lease_owner=?` could not tell them apart, which is what `shared_id`
  is about;
* `None`, `NoOrder`, `NoKey`, `NoInvoice` and `NoRun` are not members of the sets they complete; bounds are
  natural numbers.

Some invariants that are proved are no longer properties of a run, since the run checks what follows from
them: `IInv` of each module, `TInv`, `GatewayInv`, `HeartbeatInv`, `LedgerInv`, `MetricsInv`, `PermitInv`,
`AuditInv`, `LiveLeaseIsEarned`, `CompletedIsFinal`, `BoundForEver`, `WorkerHasStore`, `RequestHasStore`.

### Model-checked only

The liveness properties `EverythingStops` and `EventuallySettled`: the provers have no rule for fairness and
`ENABLED`. The expected violations of section 5 are TLC's by nature.

## 5. Where documents and code differ

* `on_record`: README.md:18 promises an audit event and an outbox message for all writes; BatchComplete
  writes neither (nor do Replay, ClaimWindow's and ReceiveLot's missing message and others).
* `archived`: `terminal/service.go:44` refuses to archive a terminal that "has active windows"; a window
  created between the count and the update is open at an archived terminal.
* `retry_limit`: README.md:18 has workers honour retry limits; only Fail asks for the limit, so a
  message whose runners crash is claimed beyond it.
* `shared_id`: README.md:18 has workers honour leases; reports check the owner's name alone and all
  runners have the same name.

Also in the model, without a run of their own: Replay takes an order out of `cancelled`, where the table
of transitions ends (`Recover` of `OrderLifecycle` allows exactly that), and BatchComplete leaves an
order completed without an invoice until Generate is called, where `rules.go:139` speaks of an order
"completed and billed". Worth knowing too: an abort of an order that never started adds fuel to
its lot (`LotLedger` states the ledger with that surplus); a payment cut off between claim and charge
is settled without a charge by its retry (`PaidIsChargedOrJoined`); a runner with calls longer than
half a lease can lose the lease in the middle of the next call, since its ticker is late
(`AcceptedOnce` holds below that); a replayed order is under way at a terminal that was archived while it
was cancelled (`StrandedOnlyByRaceOrReplay`); a Shutdown that times out leaves the store open for good
while every other call reports success (`OneCloser`). And in the parts added since:

* a batch adds to the overview's `Completed` but nothing to its `TransferredKG` (`OverviewAgrees`);
* an order with an approved and a rejected sample completes although its custody report is incomplete
  (`CustodyAgrees` has one direction only);
* claiming or cancelling a window overwrites a row lock, its holder is not told, and a second one can get in for
  each time (`OneHolderPerSeizure`); `ttl` and the time of AcquireRow are ignored, and transfer_orders, which
  it admits, has no `owner_id`;
* a walk through the audit trail may miss an event recorded while it goes on, if it belongs to a second that
  the walk has already begun (`WalkIsComplete`);
* CreateWindow compares texts (`schedule/service.go:46`): with an open window that ends at 11:00:00.5Z another one
  may start at 11:00:00Z, and they overlap by a fraction of a second; one that starts at 11:00:00.5Z is refused after
  one that ends at 11:00:00Z (`OverlapWithinSecond`);
* NextOpening adds durations to local midnight (`terminal/policy.go:62`), so on a day whose clocks are set it is off
  by the hour they are set by: for hours from 08:00 it gives 07:00, which is closed, when they are set back
  that night and 09:00 when they are set forward; asked late on a day they were set back, for hours that begin at
  midnight, it may give a moment that is past (`NextOpeningIsFirst`);
* nothing in `weighing` compares the devices or orders of readings, so a series mixed from two of them may be accepted
  and deliver a quantity nobody measured (`SeriesAsMeasured` promises it for one device only);
* the retry delay leaves the range of an int64 from the 35th attempt on, thirty past the limit
  (`DelaysGrow`);
* whether the fuel ledger accepts entries of one time depends on a sort that is not stable
  (`LedgerBalances`);
* concurrent charges lose counts in `LocalGateway` (`CountsLostOnlyByOverlap`).

## 6. Not modelled, and the plan

Not modelled, because there is no state or order to get wrong: input checks, labels and record types of
`domain`; fuel analysis limits; the evidence reports of `quality/evidence.go`; terminal capacity and
maintenance; statements, the incident timeline and batch results, which filter, sort and sum loaded records;
the readers of `repository`; decoding, encoding and headers of the HTTP interface; the role policy, a table no
service asks; configuration; migration. Vessels are registered active and no handler ever sets another
status, so Create's test of it cannot fail; their certificates are read by no order handler. Nothing uses
savepoints; the storage health check only reads. Tenants are independent of each other but for the count of
pending messages in Archive, which is in `Terminal`.

What is left, in order:

1. The outbox monitor as a reader beside the runners: its three counts are taken in three statements.
2. Abstract specifications of a payment and of an idempotent creation, with `Billing` and `Idempotency` shown
   to implement them, as `Bunkering` implements `OrderLifecycle`.
3. Certificates of vessels, should an order handler come to read them.

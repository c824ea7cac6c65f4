# Formal models of the logistics backend

This directory holds TLA+ models of the backend under `src/`: a NestJS service
over PostgreSQL (Prisma), Redis and BullMQ that takes orders, packs them on
trips, tracks their delivery, collects their money and rewards green transport.
The models are checked with TLC on small instances; for seven of them the safety
properties, and for three a refinement, are also proved with TLAPS, for all instances.

## The system

| Component | State it keeps | Operations |
|---|---|---|
| Orders (`orders/`) | `Order.status`, `currentTripId`, `currentHubId`, soft deletion | create, cancel, PUT status, delete |
| Trips (`trips/`) | `Trip.status`, driver and vehicle, `TripStop` rows | manual creation, approval, add and remove orders, optimise the route, start, cancel, complete, change vehicle |
| Automatic dispatch (`trips/processor`, `redis-lock.util.ts`) | BullMQ jobs, one Redis lock per hub | enqueue for a hub or all hubs, worker |
| Planning (`dispatch.service.ts`, `dispatch-board.service.ts`) | nothing but what is on a screen | preview, approval, board |
| Driver requests (`driver-assignment.service.ts`) | `DriverAssignmentRequest` | request, approve onto a waiting or a new trip, reject |
| Tracking (`tracking/`) | append-only events, proof of delivery | create event, timeline, complete the trip with the last delivery |
| Tracking gateway (`tracking/gateway`) | rooms of sockets, a cache of access answers | connect, join, leave, position |
| Payment, wallet | `Payment`, `Wallet`, `Transaction` | payment intent, Stripe webhook, COD collection, reconciliation |
| Green tech | `TripEmissionLog`, `UserGreenProfile` | emission job, points and rank of a completed trip |
| Roles, hubs | role requests, `User.roleId`, `User.hubId`, hubs, a cached list of hubs | request, approve, reject; assign and remove members; make and delete a hub |
| Auth | accounts, codes, devices, refresh tokens, address book; Google states and sessions in the cache | send code, register, reset, login, refresh, logout, Google, edit addresses |
| Notifications | `Notification` rows | inserted by a listener after a commit; read, marked, paged |
| Others | vehicles, maps, uploads, reports, languages | single-row CRUD, proxies and reads |

**How they interact.** Everything meets in the rows of orders and trips.
Dispatch, manual creation, approved previews and approved driver requests all end
in `createTripWithStops` or a variant of it. Start, cancellation and completion of
a trip find their orders through `TripStop`; tracking and the automatic completion
find them through `currentTripId`; the two must agree. A payment decides whether an
order may be loaded. The last delivery completes the trip and puts a
`calculate-emission` job on a queue; the driver's completion awards the points the
job's log is worth. Every service emits an event after its commit, from which a
listener makes notifications. Roles and hubs decide who may call what.

**What is hard.** Each handler is an async function that reads, decides, awaits
and writes. Transactions run at PostgreSQL's default READ COMMITTED, so even a
read inside a transaction may be stale when the transaction writes. Some writes
carry their guard in the WHERE clause of an `updateMany`, others are by id with
no guard. Queue jobs are retried, locks expire, webhooks repeat, cache entries
outlive what they were computed from, and a process may die between two writes.
The hazards listed in `PROJECT.json` name the lines where this bites, and for each
the properties that watch it.

## Modules

| Module | Models |
|---|---|
| `OrderStates` | statuses and the tables the services consult |
| `VehicleCustody` | abstract specification: who carries an order |
| `TripLifecycle` | every handler that writes orders, trips or stops |
| `Dispatch` | the queue job, lock and worker of a hub, and the staff requests that compete with it |
| `HubLease` | abstract specification: who may dispatch a hub |
| `DispatchPlanning` | board, preview and approval of what it suggests |
| `DriverRequests` | the requests of drivers and their decision |
| `Payments` | payment rows, Stripe intents and webhooks, cash, wallets and their ledger |
| `OrderUpdates` | tracking events, timeline, notifications and inbox |
| `TrackingRooms` | the rooms of the gateway and the cache of access answers |
| `GreenTech` | from the completion of a trip to the points of its driver |
| `Screens` | the three instances a screen shows, `DispatchPlanning`, `OrderUpdates` and `TrackingRooms`, side by side |
| `Workforce` | role requests, members of hubs, and the hub of a new order |
| `TokenChain` | abstract specification: the refresh tokens of a login |
| `Accounts` | codes, accounts, logins and address books |
| `TripLifecycle_proofs`, `Dispatch_proofs`, `Payments_proofs`, `DriverRequests_proofs`, `GreenTech_proofs`, `Workforce_proofs`, `Accounts_proofs` | theorems about these models, and their proofs |
| `SetLemmas` | lemmas on finite sets, least and greatest elements and sums |
| `MC...` | constants, bounds and symmetry of the TLC runs |

The models share no variables. `TripLifecycle` has every writer of orders and
trips; the others look at one of them from nearer, with what decides its input
(`Dispatch`, `DispatchPlanning`, `DriverRequests`, `Payments`) or what follows from
its writes (`OrderUpdates`, `GreenTech`), and take the remaining writers of the
same rows in one step each. In each model, every await that another request can
slip into separates two steps: `XBegin` is a handler up to its last read before the
next decision, the step that follows is what it then writes. A read inside a
`$transaction` is a step of its own; all writes of a transaction are one step,
because they become visible together. The guard of an `updateMany` is evaluated in
the writing step (PostgreSQL evaluates it again on the committed row); an `update` by
id has no guard. `task[h]` always is what a request in flight holds between two
awaits, and `BreakOff` (or `Crash`) its end there.

Several properties hold but for requests that really overlap: the code reads, and
writes much later. History variables named `contended`, `overlapped` or `disturbed` collect the
subjects for which this happened, `broken`, `lost` and `shrunk` what broke off or lost
its ground. The property says that nothing else, and no sequence
of requests however long, leads there.

### TripLifecycle

| Variable | Code |
|---|---|
| `order[o]` | `Order.status`, `.currentTripId` (`trip`), `.currentHubId = hub` (`atHub`), `.deletedAt` (`deleted`) |
| `paid[o]` | `Payment.status = COMPLETED` |
| `trip[t]` | `Trip.status`; `"NONE"` before the row exists |
| `stops[t]`, `lastStop[t]` | the `TripStop` rows of the trip; their ids grow |
| `jobs[t]` | `calculate-emission` jobs added for the trip |
| `overrides` | calls of PUT status, for the bound only |

`createTripWithStops` is `CreateRequery` and `CreateWrite`, entered from
`CreateBegin`, which stands for manual creation, approval of a preview and the
automatic worker: the three differ in the plan they bring. The approval of a
driver's request is `AssignBegin`, `AssignPick` and `AssignWrite` when the driver
has a PENDING trip, and a creation when he has none. A plan has a stop
for each order it lists (`PlanAssumption`); the approval endpoint does not check
that (`dispatch.service.ts:209`), so the properties are claimed for plans that the
preview, the manual form and the worker build. Route optimisation writes each stop
it read its place among them by id; the sort before it compares the old places, so
stops keep the order they had.

`VehicleCustody` says what the handlers promise together: an order is carried by
at most one trip, by one that exists, and passes from one trip to another only
through a hub. `CustodySpec` is that specification under the refinement mapping
`holder[o] = order[o].trip`.

### Dispatch

| Variable | Code |
|---|---|
| `job` | the BullMQ job `dispatch-hub-<id>`: its state, the worker that owns it, `attemptsMade`, stalls |
| `lock` | the worker whose random value is under the Redis key `dispatch-lock:<resource>` of the hub |
| `pc[w]`, `work[w]` | where `process` and `executeDispatch` of a worker are, and their local variables |
| `overran` | history: workers whose lock expired while they worked |
| `orders[o]` | the order waits at the hub (`currentTripId` null), or is loaded |
| `trips[i]` | `Trip` rows; `by` is history: booked under the lock, after it expired, or by staff |

One hub is modelled: keys and job ids contain the hub. BullMQ and Redis are
external and modelled by what the processor relies on: an add with a known job id is
ignored, a job has one owner, a stalled job is handed out again, the result of
a former owner is ignored, a key with a time to live disappears. The lock is
taken with `SET NX` and released by compare-and-delete (`Released`). Each awaited
read of the worker is a step; the two reads of one availability check are taken
together. Staff requests never take the lock, so they
may double-book a driver or a vehicle with the worker or with each other;
`BookedOnce` therefore speaks of trips booked under the lock, and of orders on any.
Orders added to a trip after its creation, and the capacity of a vehicle a trip is
moved to (`reassignTripVehicle` does not look at it), are left out of
`WithinCapacity` by `by`. Orders that come back to the hub are left out: they wait
like new ones.

`HubLease` is what the lock is for: a lease that goes to a worker only while nobody has
it, is given back by its holder only, survives its holder's death until it expires, and
leaves those late who still work when it does. `LeaseSpec` is that specification under
the mapping `holder = lock`, `working` the workers between `acquireLock` and the end of the
`finally` block, `late` those of them in `overran`. `OwnLock` says of one state what follows
from it: who dispatches and is not late holds the lock.

### DispatchPlanning

| Variable | Code |
|---|---|
| `order[o]`, `trip[t]` | orders of the hub, and trips with vehicle, driver and the orders of their stops |
| `screen` | the previews shown last |
| `board` | the four reads of a board, each of its own moment (`Promise.all`) |
| `changed` | history: what changed since the board was begun |

The preview packs what its reads found, first fit in the code's order, and the
answer stays on a screen: an approval may come from any old preview, and twice.
`ApprovalSound` says what still holds then.

### DriverRequests

| Variable | Code |
|---|---|
| `order[o]`, `trip[t]`, `stops[t]` | as in `TripLifecycle`, one hub, with weights and a capacity |
| `request` | `driver_assignment_requests` |
| `carried` | history: the driver an approval gave the order to |
| `swept` | history: orders whose loading cancelled the other requests for them |

An approval reads the request, then the driver's PENDING trip and its load, and
decides before its transaction. `CapacityKept` is the interesting one: two additions
to a trip that read the same load are kept apart only because both want the same
stop number, which is unique. A removal between the two frees a
number, and `shrunk` marks that.

### Payments

| Variable | Code |
|---|---|
| `payment[o]` | `Payment.method`, `.status`, and the intent in `.transactionId` |
| `order[o]` | `Order.status = DELIVERED`, `.isCodCollected`, `.codReconciledAt` set |
| `wallet[d]`, `ledger` | `Wallet.codCollected` and the `Transaction` rows of all wallets |
| `intents`, `keyed`, `sent` | at Stripe: intents, idempotency keys, events |
| `shown[o]` | the intents whose client secret the customer got |
| `contended`, `misread` | history |

Stripe is external. It returns the intent it made for a known idempotency key, may
forget keys, may answer a retrieval with an error, and sends an event until it is
answered: late, more than once, in any order. The payment row exists from the
creation of the order, and a wallet from its first use. One fee for all orders.
Statuses written by PUT status are left to `TripLifecycle`. Nothing in the code
prevents a double collection (`confirmCOD` and a delivery, or `add-cod` twice) or an
overdrawn wallet when two requests overlap or one breaks off between two writes:
the check is made on a row read before the transaction. `CashAccounted` says this is
the only way. `misread` has the orders for which Stripe failed to return the
stored intent, where `createPaymentIntent` goes on to create another one.

### OrderUpdates

| Variable | Code |
|---|---|
| `status[o]`, `events[o]` | `Order.status` and `tracking_events` |
| `inbox[u]` | `notifications`, oldest first, read or not |
| `page`, `timeline` | the two queries each of a page with its count, and of a timeline |
| `puts`, `told`, `lost`, `changed` | history: statuses PUT wrote; reviews committed; announcements that will not come; inboxes that changed |

A notification is emitted after the commit, so a process that dies loses it; it may
come after the notification of a later change. `UpdatesAccounted` says that it never comes twice
or to others or to some of its recipients only, and that
`MAX_DELIVERY_ATTEMPTS` is exceeded only by events that overlap. The handlers of trips write
statuses without events: a comment of `TrackingRepository` says that event and
status are always in step, which `TimelineCoherent` therefore claims only for statuses only an
event can set.

### TrackingRooms

| Variable | Code |
|---|---|
| `now` | `Date.now()` |
| `trip[t]`, `socket[c]` | the trip, the customers of its stops; the connection and its verified token |
| `cache` | `tripAccessCache`: answer and expiry per user, role and trip |
| `room[t]` | the sockets in `trip_N` |
| `flip`, `joined`, `answer`, `heard` | history: when access changed, when the join began that let a socket in, what this step answered, and who heard what |

`RoomsSound` bounds the staleness of an admission: an answer was true at some time
not more than the time to live before the join was answered. Nobody is put
out of a room when his access ends, which the property says as it is: who
hears a position was entitled when he joined. Refusals and trips that
do not exist are cached too.

### GreenTech

| Variable | Code |
|---|---|
| `trip[t]`, `order[o]` | status; `Order.currentTripId` is still the trip |
| `jobs[t]`, `worker[w]` | the `calculate-emission` jobs that wait and run |
| `logs[t]` | versions of `TripEmissionLog`, with what they allocate to orders |
| `profile[d]` | `UserGreenProfile`: points and rank |
| `awards`, `disturbed`, `stalls` | history, and the bound on deaths of workers |

In the application as it is assembled, no module registers `GreenTechProcessor`,
its services or controllers (`docs/api-reference.md:25` lists the module): that is
`Worker = {}`, and nothing is ever computed. With workers two more things hold, which the properties state as they
are: delivered orders have left the trip (`currentTripId` null) before its emission is
computed, so that a log allocates only to orders that were cancelled
(the comment at `green-tech.service.ts:14` says each order); and a driver's
completion finds a log only if it overlaps the automatic one.

### Workforce

| Variable | Code |
|---|---|
| `person[p]` | `User.roleId`, `User.hubId` |
| `hub[b]`, `changes` | `Hub.deletedAt`, and how often one was made or deleted |
| `request`, `told[r]` | `role_requests`, and the decisions a requester was notified of |
| `cache` | the list of active hubs, kept for five minutes |
| `placed` | new orders: the hub each got, and from which list |
| `left`, `contended` | history |

`User` and role request are written by one transaction, and read before it: two
administrators can decide one request differently. Which hub is nearest
is left open. `OrderAtOpenHub`: an order goes to a deleted hub only from a
list that was read before.

### Accounts

| Variable | Code |
|---|---|
| `account[e]` | how the user came to be: by code, or by Google |
| `code[k]`, `issued[k]`, `uses[k]` | `VerificationCode` per address and purpose; how many were made; history of what was typed and what was deleted |
| `device`, `token` | `Device.isActive`; `RefreshToken` rows |
| `stored`, `authState` | the cache: tokens under a Google session token; state tokens |
| `handed`, `passed` | history: answers that carried a token; callbacks a state let through |
| `book` | `address_books` |
| `contended`, `broken` | history |

`TokenChain` is what a login promises: one standing token per device, an exchange puts
a new one in its place, and a login that ended gets no other. `ChainSpec`
is that specification under the mapping from the rows of `token`. Passwords,
signatures and mails are left out.

## Runs

Each run is in its `.cfg`; `PROJECT.json` gives each property a mutant of the code
that TLC finds under the same configuration.

| Run | Instance | Shows |
|---|---|---|
| `race` | 1 prepaid order, 2 trips, 2 requests in flight, one or two stops | types, custody refinement, `OnBoardSound`, `NoRevival` under any overlap of the lifecycle endpoints |
| `admin` | 1 prepaid order, 2 trips, 2 requests, 3 stops, 1 PUT status | `OnBoardSound` with deletion, failed payments, PUT status, crashes, and insertion, renumbering and route optimisation that race |
| `serial` | 2 orders, 2 trips, 1 request at a time | `TripsConsistent`: what holds only while requests do not overlap |
| `delivery` | 2 orders, 1 trip, 2 requests, fairness | `AllDeliveredCompletes` |
| `dispatch` | 2 workers, 1 staff request at a time, 2 orders, 2 vehicles, 1 driver, 2 trips | `BookedOnce`, `WithinCapacity` with stalls, expired locks and staff |
| `dispatch_live` | 2 workers, 1 order, 2 attempts, 1 stall, fairness | `LockFreed`, `JobSettles`, lease refinement `LeaseSpec` with crashes, stalls, errors and expired locks |
| `driver_requests` | 2 drivers, 3 orders, 1 trip, 2 requests of drivers, 2 in flight, a vehicle for 2 orders | `RequestsFollowOrders`, `DecidedOnce`, `CapacityKept` |
| `payments` | 1 order, 1 driver, 2 requests, 2 intents, 3 ledger rows, amounts 1 and 2 | `CompletedIsPaid`, `CashAccounted`, `LedgerBalanced`, `OneOpenIntent` |
| `accounts` | 1 address, 1 Google state, 2 codes, 2 devices, 3 tokens, 3 addresses, 3 requests | `CodesAccounted`, `LoginsAccounted`, `OneDefault`, refinement `ChainSpec` |
| `workforce` | 1 person, 2 hubs, 2 role requests, 1 order, 2 requests in flight | `RoleWasApproved`, `HublessWasRemoved`, `OrderAtOpenHub` |
| `green_tech` | 2 trips of a driver, 3 orders, 2 workers, 1 death of a worker, 2 requests | `LogsVersioned`, `PointsAccounted` |
| `screens` | planning: 2 orders, 2 vehicles, 2 drivers, 2 trips; updates: 1 order, 2 users, 1 review; rooms: 2 sockets of a customer, 1 of the driver, clock to 2 | `PreviewSound`, `ApprovalSound`, `BoardCoherent`, `UpdatesAccounted`, `AnswersCoherent`, `RoomsSound` |

**Bounds.** Two handlers are enough for each race the code has: every decision
depends on one read and one write of another request, and a third request only
adds the same interference again (`accounts` has three for codes, where two typed
codes meet a new one). Two trips let an order be released from one
and taken by the other while a stale request still refers to the first. One
order suffices for the properties of one order; runs about a trip's set of
orders have two or three. `MaxStops` bounds the ids of a trip's stops (adding stops
beyond it is disabled), `MaxOverrides` the calls of PUT status. `Endpoints`
chooses which client calls an instance has; every call is in some passing run.
`MaxOverruns` is the number of workers that outlive their lock at a time: with one,
an overrun worker and its successor work side by side. `MaxStalls` and
`Attempts` are the options of the queue, `MaxTrips` the bookings. Vehicles and
orders are two, so that a packing is split between vehicles and one order
fits by volume and not by weight. `Events` chooses the failures of an instance.
In `payments` three ledger rows allow two collections and a reconciliation,
or a collection and two reconciliations; amounts 1 and 2 with a fee of 1 let a
driver type a wrong amount, and two intents let one replace another. In `green_tech`
the first trip saves exactly what makes a rank, and a point is lost in rounding on
the second. In `driver_requests` the vehicle holds two orders and three are there,
in `workforce` two hubs let a person be moved, in `screens` the clock runs past the
time to live of an entry. Handlers, and what else is interchangeable, are symmetric in the runs of
safety properties. Deadlock is not checked: when nobody asks for anything, nothing
has to happen.

**Constraints.** Five runs have a CONSTRAINT, in their MC module, that cuts
behaviours which combine what cannot affect each other or repeat a collision:

* `payments`: long ledgers with cash payments only; no handler of a card
  payment reads the cash.
* `accounts`: after an account is opened, one of codes, logins and addresses is used at a
  time (no handler of one reads what another writes), and three requests
  are in flight for codes only; with two devices there is one exchange and no Google.
* `workforce`: people and orders share only the hubs, which change more often under
  orders.
* `driver_requests`: four orders and requests of drivers together, of the excused collisions one, and
  what is under way comes to its end once all is decided.
* `screens`: the three models of it share no state, so that one moves while the others
  are as they began (`Screens`); what only reads, a board, a preview, an inbox, a
  timeline, is put together one at a time beside the writers; two sockets are present at
  a time.

**Fairness.** In `TripLifecycle`, `FairSpec` adds weak fairness of `Proceed(h)` for each handler: the
event loop resumes a request whose await has been answered. Nothing is assumed
of clients, and there are no crashes in that run. `EventsInTurn`
restricts it to histories where the events of one order do not overlap each
other or its dispatch, the situation of one driver's app; events of different orders do overlap.
In `Dispatch`, workers go on (unless they crash), Redis drops a key when its time is over, BullMQ takes
a job back from a dead worker and ends a backoff; nothing is assumed of staff, of
trips or of further requests.

## What the models say of the code

Met while modelling, each at its line; the models have them as they are:

* The second of two overlapping dispatches creates a trip that carries nothing
  (`trip.repository.ts:166` loads what is still loadable, after the re-query the
  comment at `:138` relies on). `OnBoardSound` and `CustodySpec` hold all the same.
* A tracking event is validated against a status read before its transaction
  (`tracking.service.ts:147`) and written by id (`tracking.repo.ts:91`); `NoRevival`
  names it as one of the ways an order is reopened.
* `ARRIVED_AT_HUB` keeps `currentTripId` (`tracking.repo.ts:78`), although the schema
  calls it the trip that carries the order (`schema.prisma:419`).
* A dispatch job that finds the lock of a dead worker is skipped and completed
  (`trips.processor.ts:45`), so the hub waits for the next request; within an hour of
  a completed job, a new one with its fixed id is ignored (`dispatch.service.ts:40`).
* A payment that succeeds after the row has moved on to another intent is not booked
  (`payment.service.ts:109` against `:213`).
* The emission job is lost when the process dies between completion and
  `greenTechQueue.add` (`tracking.service.ts:198`).
* `optimizeRouteForTrip` never applies the order of the route.

## Proofs

The theorems hold for all values of the constants that satisfy the named assumptions
of the modules. In each proof module the inductive invariant was checked with TLC
before it was proved; a lemma per action, or per group of actions that leave the same
state alone, shows that it is preserved. The theorems named after a run's property
(`OnBoardSoundSafe`, `BookedOnceSafe`, `CashAccountedSafe`) put together those of its parts.

`TripLifecycle_proofs` proves, for all orders, trips, handlers, plans and bounds
that satisfy the named assumptions of `TripLifecycle`:

* `TypeCorrect`, `OnBoardSoundSafe` from `OnBoardSafe`, `StopNumbersSafe`,
  `DeliveredSafe` and `OnBoardPaidSafe`: the safety invariants of `race` and `admin`;
* `NoRevivalSafe`: the action property;
* `Refinement`: `Spec => CustodySpec`.

`OnBoardHasStop` is not inductive: a creation or an addition in flight writes
orders it validated earlier, a removal deletes a stop it found earlier, a route
optimisation writes rows it read earlier. The
invariant `IInv` adds what each of them may rely on (`Reliable(task[h])`): the
trip it works on has a row, the orders it validated are in its plan, the
stop it removes belongs to the order it takes off, if it is still there, and the rows
it numbers have ids of their own and, as far as they still exist, the orders they
had. It also says that stop ids are distinct and below `lastStop`, and that
a trip without a row has no stops. Each step lemma treats the handlers that
write orders or stops one by one and the rest by `QuietStep`. For
`OnBoardPaid` the strengthening is that orders re-validated by a creation are
paid; for `NoRevival` and the refinement, `OrderStep` says what each action may
do to one order.

`TripsConsistentSafe` is about one handler at a time and no status put by hand
(`MaxOverrides = 0`), as the run `serial` is: with two, `TripsConsistent` is false, and the code
may reach that. The process may still die between any two steps, so nothing of a request
that began has to follow. `SInv` adds that what a request holds is still so when it acts
(`Current(task[h])`): its trip has the status and the orders it read, and the order it
tracks the status its event was validated against; that an order in a hub is on no
trip; and that only a completed trip has asked for its emission. `OrderMoves` and
`TripMoves` list what a step may do to one row, and `SerialRows` that any mix of those
keeps orders and trips consistent.

`Dispatch_proofs` proves `TypeCorrect`, `OwnLockSafe`, `BookedOnceSafe` (from
`OrderOnOneTripSafe` and `WorkerTripsDisjointSafe`), `WithinCapacitySafe` and `LeaseRefinement`. Three
invariants build on each other:

* `LInv`: types and `OwnLock`. A worker inside `executeDispatch` either holds the lock
  or is in `overran`; only `Expire` takes a lock away from its worker, because
  `Release` compares first.
* `OInv`: an order on any trip, also a closed one, waits no longer. The WHERE clause
  of the loading `updateMany` then keeps two trips apart, with or without the lock.
* `RInv`: `WorkerTripsDisjoint` is not inductive, since a worker writes what it read
  long before. `Reliable(w)` is what it may rely on while its lock lives: no open trip
  booked under the lock uses a vehicle or driver it has left or is about to book. By
  `OwnLock` only one worker is in that position, so no other booking disturbs it.

`WithinCapacitySafe` adds what the packing computes: each vehicle that first fit has
filled carries a set of orders whose weights and volumes sum to no more than its
capacity, for any sizes and capacities that are natural numbers (`SizeAssumption`); orders that were taken
meanwhile are dropped, and a sum over a part is no greater.

`LeaseRefinement` maps `Acquire` of a free lock to `Enter`, `Release` to `Leave`, a
`Crash` in `executeDispatch` to `Die`, `Expire` to itself and all else to a stutter. It needs
`LInv` and `Overrun`: a worker in `overran` still dispatches or has just let go, so one at
its start, which may acquire, is not late.

`Payments_proofs` proves `TypeCorrect`, `CompletedIsPaidSafe`, `OneOpenIntentSafe`,
`CashAccountedSafe` (from `DeliveredCollectedSafe`, `MarkedIsBookedSafe`,
`CreditedOnceSafe` and `OwesNoLessSafe`) and `LedgerBalancedSafe`:

* `CardInv`: an intent has an event only if it succeeded, and an open request for an
  intent replaces only one that is over. While Stripe keeps the keys, they form a
  chain, `keyed[p] = p + 1`, because the key of a new intent is the intent it
  replaces; so a repeated or overlapping creation gets the same intent again.
* `CashInv`: what each mark rests on, and what a request has written when it is to
  set a mark.
* `OnceInv`: a subject that is not contended has one request in flight, and before that
  request credits the cash nobody has; what it is to reconcile is still owed.

`LedgerBalancedSafe`, that a wallet is the sum of its driver's rows, needs no more than the
types: every transaction that writes a wallet adds the row of the same amount, and
one row more adds its amount to the sum.

`DriverRequests_proofs` proves `TypeCorrect`, `RequestsFollowOrdersSafe`, `CapacityKeptSafe` and
`DecidedOnceSafe`. `IInv` says of each decision in flight that the request or order it
read stands as it was read, or the subject is in `contended`. For `CapacityKept` it says of an
addition to a trip that its load still fits, or the sequence number it holds
is taken, so that its insertion fails: whoever changes the load takes that number.
This in turn needs that the numbers of a trip's stops have no gap (`TakenBelow`), unless a stop
was taken away meanwhile (`shrunk`): the next number is then the first one free.

`GreenTech_proofs` proves `TypeCorrect`, `LogsVersionedSafe` and `PointsAccountedSafe`:

* `LogInv`: a trip that is over, or that a request is about to complete, has nothing on
  board but cancelled orders; jobs, workers and logs are those of trips that
  are over. The versions of a log are 1 to some number, and a worker that is to save one read no
  later version.
* `AwardInv`: who completes a trip alone finds no log of it, so whoever awards points
  has met another request. A profile holds the sum of the points of the awarded trips of its
  driver; a rank is that of the points, unless a request still has it to write or two met. The sum
  is over the trips of a driver, which are finitely many (`TripAssumption`).

`Workforce_proofs` proves `TypeCorrect`, `RoleWasApprovedSafe`, `HublessWasRemovedSafe` and
`OrderAtOpenHubSafe`. A request that no other one about the same person has met finds people and
requests as it read them: `RoleInv` has this for decisions, with the order
of a requester's rows, `HubInv` for removals. `ListInv` says that a list of hubs, in the cache or held by a new
order, is that of the open hubs unless one was made or deleted since.

The second part of the module is about `Screens`: `RoomsSoundSafe`, `UpdatesAccountedSafe`,
`AnswersCoherentSafe`, `PreviewSoundSafe`, `ApprovalSoundSafe`, `BoardCoherentSafe`, each for the
specification of its own model, and `ScreensTypeCorrect` for all three together.

* `RoomsInv`: an entry of the cache says what is true of an access, or was no longer than
  the time to live before it expires (`EntriesRecent`); a join in flight has the same of the
  answer it will give (`JoinRecent`), though its query may have been slow and others stored
  theirs meanwhile; and who is in a room was entitled when he joined (`MemberEntitled`).
* `UpdatesInv`: for each notice, what was sent and what is being sent sum to what was due,
  less what broke off (the requests in flight are finitely many at any time, so they can be
  counted); where events do not overlap, at most one of an order is about to be written as a failed
  attempt, and there is room for it (`AttemptsRoom`); a status that only an event could set has
  its event, because both are committed at once, and so has the one a timeline read
  (`TimelineInv`); and the rows a page read and its count are of one inbox unless that changed
  (`PageInv`).
* `PlanInv`: of the packing, that each load with the room left is the capacity of its vehicle
  (`Loaded`), that what did not fit when it was offered does not fit beside more
  (`UnfitMore`), and so for any number of vehicles (`PlanIsSound`), by induction over the
  two lists. Then that every suggestion, approval and trip fits its vehicle, and a trip that
  takes fewer of the orders it was planned for still does. What approvals in flight
  share is in `contended` (`SharingNoted`); one that shares nothing finds vehicle and driver as it
  checked them and its orders as it read them last (`Ready`), though others wrote in
  between; the row of an order fits the trips that have stops for it (`OrderPlaced`). A
  board holds what was so when it was read, but for what changed since (`BoardCurrent`), from which
  `BoardCoherent` follows with `OrderPlaced`.

`Accounts_proofs` proves `TypeCorrect`, `CodesAccountedSafe`, `LoginsAccountedSafe`, `OneDefaultSafe`
and `Refinement`: `Spec => ChainSpec`. One invariant for each part of an account:

* `CodeInv`: who is to spend a code, and met no other request of the address and purpose,
  finds the code there that was typed.
* `AuthInv`, `SessionInv`: a callback alone with its state is the first; the token of a
  login by Google is stored by one request and handed to nobody before.
* `DeviceInv`: a login is about to issue the first token of its device, and is the only one
  to; at most one token of a device is live; a logout under way has taken the last
  one. These give the refinement too: a token that is issued is the first of its device, or takes the
  place of the one that was exchanged.
* `BookInv`: without another request beside it, one that makes an address the default clears
  all others, and one that hands the default on does so only after a default
  was removed.

`SetLemmas` has what several of these need of finite sets. The library states induction for an
operator; here it is stated for the set of subsets that have a property (`SetInduction`, `NatSetInduction`), and rests on the
well-foundedness of strict inclusion, from which follow the greatest and least element and the laws of sums:
one element more or less (`SumAdd`, `SumRemove`), a part of the set
(`SumSubset`), equal summands (`SumSame`). A sum is `MapThenSumSet` of the community modules.

**Assumptions.** What a proof assumes of a constant is named and stated in the module that
declares it, and TLC evaluates it in every run of that module. The models in `Screens` are
instances; theirs is `ParametersOK`, a hypothesis of their theorems, which
`MCScreens` has TLC evaluate. All they say is that a value such as
`NoTrip` is none of the values it stands beside, that bounds and sizes are natural numbers, that the lists
and plans name orders of the model. Beyond these, only `TripsConsistentSafe` has hypotheses, which are its
subject. The set of trips in `GreenTech` is finite because its sums are over it, and the drivers of a
hub are, because they are put in order; handlers, orders and people may be infinitely
many elsewhere.

**Only model-checked.** The liveness properties `AllDeliveredCompletes`, `LockFreed` and
`JobSettles`, which rest on fairness: that an action is ENABLED is beyond this prover. Every
other property of the runs is the statement of a theorem.

## Not modelled

* Authorisation: hub membership and roles are modelled as state (`Workforce`), but the
  guards of the endpoints only as one hub whose staff pass the checks.
* Values nobody decides by: positions, routes, prices, texts, proof of delivery,
  profile fields; passwords, signatures and two-factor codes (nothing sets a
  `totpSecret`).
* Vehicles and languages: single-row CRUD with no second actor in the model's sense.
* Maps, uploads, analytics: proxies and read-only reports.
* Code without a caller: `TripRepository.completeTrip`, `cancelOrderFromTrip`,
  `updateCodPayment`.

## What could be added

The CRUD of vehicles beside the bookings that read them.

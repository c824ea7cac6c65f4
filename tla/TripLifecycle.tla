----------------------------- MODULE TripLifecycle -----------------------------
(***************************************************************************)
(* Orders, trips and trip stops, and every handler that writes one of      *)
(* them: dispatch, adding and removing orders, approval of drivers'        *)
(* requests, start, cancellation and completion of trips, cancellation of  *)
(* orders, tracking events, the direct status update and soft deletion.    *)
(*                                                                         *)
(* A handler is an async function: it reads the database, awaits, and      *)
(* writes later, so what it read may be stale when it writes.  Each        *)
(* handler in flight is a member of Handler, and task[h] is what it holds  *)
(* between two of its steps.  A Prisma $transaction runs at READ           *)
(* COMMITTED: a read inside it is a step of its own, and its writes become *)
(* visible together when it commits, which is one step.  An updateMany     *)
(* re-evaluates its WHERE clause on the committed row, so its guard is     *)
(* evaluated in the step that writes; an update by id has no guard.        *)
(*                                                                         *)
(* One hub: its staff, drivers and vehicles pass the hub checks.  Which    *)
(* driver and vehicle a trip has is the subject of Dispatch.               *)
(***************************************************************************)
EXTENDS Naturals, Sequences, FiniteSets, OrderStates

CONSTANTS
  Order,        \* orders, created before the behaviour starts
  Prepaid,      \* the orders paid by STRIPE; the others are COD
  Trip,         \* ids the trips table can hand out
  Handler,      \* requests the service can have in flight at a time
  Plans,        \* dispatch requests: [orders, stops]
  AddLists,     \* order lists of "add orders to trip" requests
  NoOrder,      \* the orderId of a return-to-depot stop
  NoTrip,       \* currentTripId = null
  Endpoints,    \* the endpoints clients call in this instance
  MaxStops,     \* bound on the stop ids of one trip
  MaxOverrides  \* bound on the calls of PUT /orders/:id/status

\* The definitions marked "mutant" are the bugs the runs are tried against; no
\* action uses them.

(***************************************************************************)
(* A plan has a stop for each order it lists, as the auto-dispatch worker, *)
(* the preview and the manual form build it; DispatchApproveSchema itself  *)
(* does not compare the two arrays.  An order list names an order once.    *)
(***************************************************************************)
ASSUME OrderAssumption == NoOrder \notin Order /\ Prepaid \subseteq Order
ASSUME TripAssumption == NoTrip \notin Trip
ASSUME PlanAssumption ==
  \A p \in Plans :
    /\ p \in [orders : SUBSET Order, stops : Seq(Order \cup {NoOrder})]
    /\ \A o \in p.orders : \E i \in DOMAIN p.stops : p.stops[i] = o
ASSUME AddListAssumption ==
  \A l \in AddLists :
    /\ l \in Seq(Order)
    /\ \A i, j \in DOMAIN l : l[i] = l[j] => i = j
ASSUME BoundAssumption == MaxStops \in Nat /\ MaxOverrides \in Nat

VARIABLES
  order,      \* per order: status, trip (currentTripId), atHub, deleted
  paid,       \* per order: is its payment COMPLETED
  trip,       \* per trip: its status, or "NONE" before the row exists
  stops,      \* per trip: its trip_stops rows
  lastStop,   \* per trip: the last id given to a stop row
  jobs,       \* per trip: calculate-emission jobs added to the queue
  overrides,  \* calls of PUT /orders/:id/status so far
  task        \* per handler: what it holds between two steps

vars == <<order, paid, trip, stops, lastStop, jobs, overrides, task>>

Stop == [id : Nat, order : Order \cup {NoOrder}, seq : Nat]

\* What a handler carries from one step to the next.
Idle == [op |-> "idle"]
Task ==
  {Idle}
    \cup [op : {"createRequery"}, plan : Plans]
    \cup [op : {"createWrite"}, plan : Plans, valid : SUBSET Order]
    \cup [op : {"addCheck", "addWrite"}, trip : Trip, list : AddLists, last : Nat]
    \cup [op : {"assignPick"}, order : Order]
    \cup [op : {"assignWrite"}, trip : Trip, order : Order, last : Nat]
    \cup [op : {"removeWrite"}, trip : Trip, order : Order, stop : Nat]
    \cup [op : {"optimizeWrite"}, trip : Trip, rows : SUBSET Stop]
    \cup [op : {"startWrite", "cancelTripWrite"}, trip : Trip, orders : SUBSET Order]
    \cup [op : {"completeWrite", "finishCheck", "finishWrite", "enqueue"}, trip : Trip]
    \cup [op : {"cancelOrderWrite"}, order : Order]
    \cup [op : {"trackWrite"}, order : Order, status : OrderStatus,
          trip : Trip \cup {NoTrip}]

TypeOK ==
  /\ order \in [Order -> [status : OrderStatus, trip : Trip \cup {NoTrip},
                          atHub : BOOLEAN, deleted : BOOLEAN]]
  /\ paid \in [Order -> BOOLEAN]
  /\ trip \in [Trip -> TripStatus \cup {"NONE"}]
  /\ stops \in [Trip -> SUBSET Stop]
  /\ lastStop \in [Trip -> Nat]
  /\ jobs \in [Trip -> Nat]
  /\ overrides \in Nat
  /\ task \in [Handler -> Task]

-------------------------------------------------------------------------------
(***************************************************************************)
(* Conditions the handlers share.                                          *)
(***************************************************************************)

\* isOrderPaymentReadyForDispatch and DISPATCHABLE_PAYMENT_FILTER.
PaymentReady(o) == o \notin Prepaid \/ paid[o]

\* The WHERE clause of the updateMany that puts orders on a trip.
LoadableFromAnywhere(o) == order[o].status \in DispatchableStatuses  \* mutant
Loadable(o) ==
  /\ order[o].status \in DispatchableStatuses
  /\ order[o].trip = NoTrip

\* The re-query of createTripWithStops and the updateMany of addOrdersToTrip.
DispatchableUnpaid(o) == Loadable(o)  \* mutant
Dispatchable(o) == Loadable(o) /\ PaymentReady(o)

\* findPendingOrders and assertOrdersBelongToHub: what the hub's staff may plan.
InHubInbox(o) == Dispatchable(o) /\ ~order[o].deleted /\ order[o].atHub

StopOrders(t) == {s.order : s \in stops[t]} \ {NoOrder}

\* The orders whose currentTripId is t: ordersOnBoard.
OnBoard(t) == {o \in Order : order[o].trip = t}

Begin(h, endpoint, next) ==
  /\ endpoint \in Endpoints
  /\ task[h] = Idle
  /\ task' = [task EXCEPT ![h] = next]
Continue(h, op) == task[h].op = op
Finish(h) == task' = [task EXCEPT ![h] = Idle]

Init ==
  /\ order = [o \in Order |-> [status |-> "PENDING", trip |-> NoTrip,
                               atHub |-> TRUE, deleted |-> FALSE]]
  /\ paid = [o \in Order |-> FALSE]
  /\ trip = [t \in Trip |-> "NONE"]
  /\ stops = [t \in Trip |-> {}]
  /\ lastStop = [t \in Trip |-> 0]
  /\ jobs = [t \in Trip |-> 0]
  /\ overrides = 0
  /\ task = [h \in Handler |-> Idle]

-------------------------------------------------------------------------------
(***************************************************************************)
(* Dispatch: manual creation, approval of a preview and the auto-dispatch  *)
(* worker check the orders and end in createTripWithStops.                 *)
(***************************************************************************)

\* assertOrdersBelongToHub of a request, or findPendingOrders of the worker.
CreateBegin(h, p) ==
  /\ p.orders # {}
  /\ \A o \in p.orders : InHubInbox(o)
  /\ Begin(h, "create", [op |-> "createRequery", plan |-> p])
  /\ UNCHANGED <<order, paid, trip, stops, lastStop, jobs, overrides>>

\* The re-query inside the transaction; nothing is created when it is empty.
CreateRequery(h) ==
  /\ Continue(h, "createRequery")
  /\ LET p == task[h].plan
         valid == {o \in p.orders : Dispatchable(o)}
     IN task' = [task EXCEPT ![h] =
          IF valid = {} THEN Idle
          ELSE [op |-> "createWrite", plan |-> p, valid |-> valid]]
  /\ UNCHANGED <<order, paid, trip, stops, lastStop, jobs, overrides>>

\* filteredStops: the stops of the plan whose order is still valid, and the
\* depot, under the sequence numbers they had in the plan.
PlannedStops(p, valid) ==
  {[id |-> i, order |-> p.stops[i], seq |-> i] :
     i \in {j \in DOMAIN p.stops : p.stops[j] \in valid \cup {NoOrder}}}

\* The writes of createTripWithStops: the trip, its stops, and the orders that
\* are still loadable.
CreateWrite(h) ==
  /\ Continue(h, "createWrite")
  /\ \E t \in Trip :
       /\ trip[t] = "NONE"
       /\ trip' = [trip EXCEPT ![t] = "PENDING"]
       /\ stops' = [stops EXCEPT ![t] = PlannedStops(task[h].plan, task[h].valid)]
       /\ lastStop' = [lastStop EXCEPT ![t] = Len(task[h].plan.stops)]
       /\ order' = [o \in Order |->
            IF o \in task[h].valid /\ Loadable(o)
            THEN [order[o] EXCEPT !.status = "ASSIGNED", !.trip = t]
            ELSE order[o]]
  /\ Finish(h)
  /\ UNCHANGED <<paid, jobs, overrides>>

-------------------------------------------------------------------------------
(***************************************************************************)
(* addOrdersToTrip.                                                        *)
(***************************************************************************)

\* It reads the trip, which must be PENDING, and its highest stop number.
AddBegin(h, t, list) ==
  /\ trip[t] = "PENDING"
  /\ \E n \in {s.seq : s \in stops[t]} \cup {0} :
       /\ \A s \in stops[t] : s.seq <= n
       /\ Begin(h, "add", [op |-> "addCheck", trip |-> t, list |-> list, last |-> n])
  /\ UNCHANGED <<order, paid, trip, stops, lastStop, jobs, overrides>>

\* assertOrdersBelongToHub and the payment check; a failure answers the request.
AddCheck(h) ==
  /\ Continue(h, "addCheck")
  /\ task' = [task EXCEPT ![h] =
       IF \A i \in DOMAIN task[h].list : InHubInbox(task[h].list[i])
       THEN [task[h] EXCEPT !.op = "addWrite"]
       ELSE Idle]
  /\ UNCHANGED <<order, paid, trip, stops, lastStop, jobs, overrides>>

\* The stops the request adds: one for each order it lists.
AddedStops(t, list, last) ==
  {[id |-> lastStop[t] + i, order |-> list[i], seq |-> last + i] : i \in DOMAIN list}

\* Do new stops break the unique index on (tripId, stopSequence)?
SeqNeverTaken(t, new) == FALSE  \* mutant
SeqTaken(t, new) == \E s \in stops[t], r \in new : s.seq = r.seq

\* What a transaction that puts orders on a trip writes: a stop for each order it
\* lists, and the orders that may still be dispatched.
LoadOnTrip(t, list, last) ==
  /\ lastStop[t] + Len(list) <= MaxStops
  /\ stops' = [stops EXCEPT ![t] = @ \cup AddedStops(t, list, last)]
  /\ lastStop' = [lastStop EXCEPT ![t] = @ + Len(list)]
  /\ order' = [o \in Order |->
       IF (\E i \in DOMAIN list : list[i] = o) /\ Dispatchable(o)
       THEN [order[o] EXCEPT !.status = "ASSIGNED", !.trip = t]
       ELSE order[o]]

\* The transaction loads the orders it can and adds every stop; a number that is
\* taken rolls it back.
AddWrite(h) ==
  /\ Continue(h, "addWrite")
  /\ LET t == task[h].trip
         list == task[h].list
         last == task[h].last
     IN IF SeqTaken(t, AddedStops(t, list, last))
        THEN UNCHANGED <<order, stops, lastStop>>
        ELSE LoadOnTrip(t, list, last)
  /\ Finish(h)
  /\ UNCHANGED <<paid, trip, jobs, overrides>>
-------------------------------------------------------------------------------
(***************************************************************************)
(* approveAssignmentRequest: the warehouse gives the driver the order he   *)
(* asked for.  A driver without a PENDING trip gets a new one, which is a  *)
(* creation; the requests themselves are the subject of DriverRequests.    *)
(***************************************************************************)

\* It reads the request with its order, which must be waiting and paid.
AssignBegin(h, o) ==
  /\ Dispatchable(o)
  /\ Begin(h, "assign", [op |-> "assignPick", order |-> o])
  /\ UNCHANGED <<order, paid, trip, stops, lastStop, jobs, overrides>>

\* It reads the driver's PENDING trip and the highest stop number on it.
AssignPick(h, t) ==
  /\ Continue(h, "assignPick")
  /\ trip[t] = "PENDING"
  /\ \E n \in {s.seq : s \in stops[t]} \cup {0} :
       /\ \A s \in stops[t] : s.seq <= n
       /\ task' = [task EXCEPT ![h] =
            [op |-> "assignWrite", trip |-> t, order |-> task[h].order, last |-> n]]
  /\ UNCHANGED <<order, paid, trip, stops, lastStop, jobs, overrides>>

\* It answers the request with an error: no such trip, or one that is too heavy.
AssignReject(h) ==
  /\ Continue(h, "assignPick")
  /\ Finish(h)
  /\ UNCHANGED <<order, paid, trip, stops, lastStop, jobs, overrides>>

\* addOrderToApprovedAssignmentRequest: unlike addOrdersToTrip it rolls back when
\* the order was taken meanwhile.
AssignWrite(h) ==
  /\ Continue(h, "assignWrite")
  /\ LET t == task[h].trip
         list == <<task[h].order>>
         last == task[h].last
     IN IF ~Dispatchable(task[h].order) \/ SeqTaken(t, AddedStops(t, list, last))
        THEN UNCHANGED <<order, stops, lastStop>>
        ELSE LoadOnTrip(t, list, last)
  /\ Finish(h)
  /\ UNCHANGED <<paid, trip, jobs, overrides>>
-------------------------------------------------------------------------------
(***************************************************************************)
(* cancelOrderFromTrip of the trips service.                               *)
(***************************************************************************)

\* It reads a PENDING trip and finds one stop of the order; an order of an
\* auto-dispatched trip has two.
RemoveBegin(h, t, s) ==
  /\ trip[t] = "PENDING"
  /\ s.order # NoOrder
  /\ Begin(h, "remove", [op |-> "removeWrite", trip |-> t, order |-> s.order,
                         stop |-> s.id])
  /\ UNCHANGED <<order, paid, trip, stops, lastStop, jobs, overrides>>

\* The stops that are left, numbered 1, 2, ... in the order they had.
Renumbered(S) ==
  {[s EXCEPT !.seq = Cardinality({r \in S : r.seq <= s.seq})] : s \in S}

ReleasedOnBoard(r) == [r EXCEPT !.status = "PENDING"]  \* mutant
ReleasedUnknown(r) == [r EXCEPT !.status = "RETURNED", !.trip = NoTrip]  \* mutant
Released(r) == [r EXCEPT !.status = "PENDING", !.trip = NoTrip]

\* The transaction: the order leaves by id, whatever it is on and whatever its
\* status; deleting a row that is gone rolls back.
RemoveWrite(h) ==
  /\ Continue(h, "removeWrite")
  /\ LET t == task[h].trip
         rest == {s \in stops[t] : s.id # task[h].stop}
     IN IF rest = stops[t]
        THEN UNCHANGED <<order, trip, stops>>
        ELSE /\ order' = [order EXCEPT ![task[h].order] = Released(@)]
             /\ stops' = [stops EXCEPT ![t] = Renumbered(rest)]
             /\ trip' = IF rest = {} THEN [trip EXCEPT ![t] = "CANCELLED"] ELSE trip
  /\ Finish(h)
  /\ UNCHANGED <<paid, lastStop, jobs, overrides>>

-------------------------------------------------------------------------------
(***************************************************************************)
(* optimizeRouteForTrip.                                                   *)
(***************************************************************************)

\* It reads the stops of a trip in any status and asks for a route through them; a
\* route without waypoints ends the request.
OptimizeBegin(h, t) ==
  /\ trip[t] # "NONE"
  /\ StopOrders(t) # {}
  /\ Begin(h, "optimize", [op |-> "optimizeWrite", trip |-> t, rows |-> stops[t]])
  /\ UNCHANGED <<order, paid, trip, stops, lastStop, jobs, overrides>>

\* The stops of a trip once the rows that were read have numbers 1, 2, ...: the sort
\* compares their old places, so they keep the order they had and not the route's.
Optimized(t, rows) ==
  {s \in stops[t] : \A r \in rows : r.id # s.id} \cup Renumbered(rows)

\* The transaction updates the rows by id. One that is gone, or a number that is taken,
\* rolls it back.
OptimizeWrite(h) ==
  /\ Continue(h, "optimizeWrite")
  /\ LET t == task[h].trip
         rows == task[h].rows
     IN stops' =
          IF /\ \A r \in rows : \E s \in stops[t] : s.id = r.id
             /\ \A s, r \in Optimized(t, rows) : s.seq = r.seq => s = r
          THEN [stops EXCEPT ![t] = Optimized(t, rows)]
          ELSE stops
  /\ Finish(h)
  /\ UNCHANGED <<order, paid, trip, lastStop, jobs, overrides>>

-------------------------------------------------------------------------------
(***************************************************************************)
(* startTrip, cancelTrip and completeTripWithTracking.                     *)
(***************************************************************************)

\* startTrip reads the trip, its stops and the payments of their orders.
StartBegin(h, t) ==
  /\ trip[t] = "PENDING"
  /\ \A o \in StopOrders(t) : PaymentReady(o)
  /\ Begin(h, "start", [op |-> "startWrite", trip |-> t, orders |-> StopOrders(t)])
  /\ UNCHANGED <<order, paid, trip, stops, lastStop, jobs, overrides>>

\* The status guard of startTrip's updateMany.
StartableAny(o) == TRUE  \* mutant
StartableUnassigned(o) == order[o].status \in DispatchableStatuses  \* mutant
Startable(o) == order[o].status \in StartableStatuses

StartWrite(h) ==
  /\ Continue(h, "startWrite")
  /\ order' = [o \in Order |->
       IF o \in task[h].orders /\ Startable(o)
       THEN [order[o] EXCEPT !.status = "IN_TRANSIT"]
       ELSE order[o]]
  /\ trip' = [trip EXCEPT ![task[h].trip] = "IN_PROGRESS"]
  /\ Finish(h)
  /\ UNCHANGED <<paid, stops, lastStop, jobs, overrides>>

\* cancelTrip reads the trip and its stops.
CancelTripBegin(h, t) ==
  /\ trip[t] = "PENDING"
  /\ Begin(h, "cancelTrip", [op |-> "cancelTripWrite", trip |-> t,
                             orders |-> StopOrders(t)])
  /\ UNCHANGED <<order, paid, trip, stops, lastStop, jobs, overrides>>

\* The status guard of cancelTrip's updateMany.
Returnable(o) == order[o].status = "ASSIGNED"

CancelTripWrite(h) ==
  /\ Continue(h, "cancelTripWrite")
  /\ order' = [o \in Order |->
       IF o \in task[h].orders /\ Returnable(o) THEN Released(order[o]) ELSE order[o]]
  /\ trip' = [trip EXCEPT ![task[h].trip] = "CANCELLED"]
  /\ Finish(h)
  /\ UNCHANGED <<paid, stops, lastStop, jobs, overrides>>

\* completeTripWithTracking: the driver closes an IN_PROGRESS trip when every
\* order it has a stop for is delivered or cancelled.
CompleteBegin(h, t) ==
  /\ trip[t] = "IN_PROGRESS"
  /\ \A o \in StopOrders(t) : order[o].status \in ClosedStatuses
  /\ Begin(h, "complete", [op |-> "completeWrite", trip |-> t])
  /\ UNCHANGED <<order, paid, trip, stops, lastStop, jobs, overrides>>

CompleteWrite(h) ==
  /\ Continue(h, "completeWrite")
  /\ trip' = [trip EXCEPT ![task[h].trip] = "COMPLETED"]
  /\ Finish(h)
  /\ UNCHANGED <<order, paid, stops, lastStop, jobs, overrides>>

-------------------------------------------------------------------------------
(***************************************************************************)
(* Orders: PATCH /orders/:id/cancel, PUT /orders/:id/status, DELETE.       *)
(***************************************************************************)

CancelOrderBegin(h, o) ==
  /\ ~order[o].deleted
  /\ order[o].status \in CancellableStatuses
  /\ Begin(h, "cancelOrder", [op |-> "cancelOrderWrite", order |-> o])
  /\ UNCHANGED <<order, paid, trip, stops, lastStop, jobs, overrides>>

\* createEventWithStatusUpdate writes CANCELLED by id and leaves currentTripId.
CancelOrderWrite(h) ==
  /\ Continue(h, "cancelOrderWrite")
  /\ order' = [order EXCEPT ![task[h].order].status = "CANCELLED"]
  /\ Finish(h)
  /\ UNCHANGED <<paid, trip, stops, lastStop, jobs, overrides>>

\* OrdersService.update writes any status over any other.
PutStatus(o, s) ==
  /\ "put" \in Endpoints
  /\ overrides < MaxOverrides
  /\ order' = [order EXCEPT ![o].status = s]
  /\ overrides' = overrides + 1
  /\ UNCHANGED <<paid, trip, stops, lastStop, jobs, task>>

DeleteOrder(o) ==
  /\ "delete" \in Endpoints
  /\ ~order[o].deleted
  /\ order' = [order EXCEPT ![o].deleted = TRUE]
  /\ UNCHANGED <<paid, trip, stops, lastStop, jobs, overrides, task>>
-------------------------------------------------------------------------------
(***************************************************************************)
(* TrackingService.createEvent.  The cash of a COD delivery is the subject *)
(* of Payments, the limit on failed attempts of OrderUpdates.              *)
(***************************************************************************)

\* A STATUS_CHANGE event: validateStatusTransition on the status just read; the
\* handler also keeps the currentTripId it read.
TrackBegin(h, o, s) ==
  /\ ~order[o].deleted
  /\ s \in NextStatuses[order[o].status]
  /\ Begin(h, "track", [op |-> "trackWrite", order |-> o, status |-> s,
                        trip |-> order[o].trip])
  /\ UNCHANGED <<order, paid, trip, stops, lastStop, jobs, overrides>>

\* What createEventWithStatusUpdate makes of the order: a delivered order
\* leaves the vehicle and the hub.
TrackedOnBoard(r, s) ==  \* mutant
  [r EXCEPT !.status = s, !.atHub = @ /\ s # "DELIVERED"]
Tracked(r, s) ==
  IF s = "DELIVERED"
  THEN [r EXCEPT !.status = s, !.trip = NoTrip, !.atHub = FALSE]
  ELSE [r EXCEPT !.status = s]

\* The transaction, then checkAndCompleteTrip after a delivery from a trip.
TrackWrite(h) ==
  /\ Continue(h, "trackWrite")
  /\ order' = [order EXCEPT ![task[h].order] = Tracked(@, task[h].status)]
  /\ task' = [task EXCEPT ![h] =
       IF @.status = "DELIVERED" /\ @.trip # NoTrip
       THEN [op |-> "finishCheck", trip |-> @.trip]
       ELSE Idle]
  /\ UNCHANGED <<paid, trip, stops, lastStop, jobs, overrides>>

\* An event of another type (NOTE, SCAN, POD...) that carries status DELIVERED
\* changes no status, and still runs checkAndCompleteTrip.
TrackNote(h, o) ==
  /\ ~order[o].deleted
  /\ order[o].trip # NoTrip
  /\ Begin(h, "note", [op |-> "finishCheck", trip |-> order[o].trip])
  /\ UNCHANGED <<order, paid, trip, stops, lastStop, jobs, overrides>>

\* The conditions of checkAndCompleteTrip.
AllDoneOrMoving(t) ==  \* mutant
  \A o \in OnBoard(t) : order[o].status # "OUT_FOR_DELIVERY"
AllDone(t) == \A o \in OnBoard(t) : order[o].status \in ClosedStatuses
FinishableAgain(t) == AllDone(t)  \* mutant
FinishableStarted(t) == AllDone(t) /\ trip[t] = "IN_PROGRESS"  \* mutant
Finishable(t) == AllDone(t) /\ trip[t] # "COMPLETED"

\* checkAndCompleteTrip reads the trip and its ordersOnBoard.
FinishCheck(h) ==
  /\ Continue(h, "finishCheck")
  /\ LET t == task[h].trip
     IN task' = [task EXCEPT ![h] =
          IF Finishable(t)
          THEN [op |-> "finishWrite", trip |-> t]
          ELSE Idle]
  /\ UNCHANGED <<order, paid, trip, stops, lastStop, jobs, overrides>>

FinishWrite(h) ==
  /\ Continue(h, "finishWrite")
  /\ trip' = [trip EXCEPT ![task[h].trip] = "COMPLETED"]
  /\ task' = [task EXCEPT ![h].op = "enqueue"]
  /\ UNCHANGED <<order, paid, stops, lastStop, jobs, overrides>>

\* greenTechQueue.add, after the trip was completed and outside its write.
Enqueue(h) ==
  /\ Continue(h, "enqueue")
  /\ jobs' = [jobs EXCEPT ![task[h].trip] = @ + 1]
  /\ Finish(h)
  /\ UNCHANGED <<order, paid, trip, stops, lastStop, overrides>>

-------------------------------------------------------------------------------
(***************************************************************************)
(* The payment status as the webhook writes it (see Payments), and         *)
(* the process dying between two steps of a handler.                       *)
(***************************************************************************)

PaymentSucceeded(o) ==
  /\ "pay" \in Endpoints
  /\ o \in Prepaid
  /\ paid' = [paid EXCEPT ![o] = TRUE]
  /\ UNCHANGED <<order, trip, stops, lastStop, jobs, overrides, task>>

PaymentFailed(o) ==
  /\ "payFail" \in Endpoints
  /\ o \in Prepaid
  /\ paid' = [paid EXCEPT ![o] = FALSE]
  /\ UNCHANGED <<order, trip, stops, lastStop, jobs, overrides, task>>

Crash(h) ==
  /\ "crash" \in Endpoints
  /\ task[h] # Idle
  /\ Finish(h)
  /\ UNCHANGED <<order, paid, trip, stops, lastStop, jobs, overrides>>

\* The next step of a request that is in flight.
Proceed(h) ==
  \/ \E t \in Trip : AssignPick(h, t)
  \/ CreateRequery(h)
  \/ CreateWrite(h)
  \/ AddCheck(h)
  \/ AddWrite(h)
  \/ AssignReject(h)
  \/ AssignWrite(h)
  \/ RemoveWrite(h)
  \/ OptimizeWrite(h)
  \/ StartWrite(h)
  \/ CancelTripWrite(h)
  \/ CompleteWrite(h)
  \/ CancelOrderWrite(h)
  \/ TrackWrite(h)
  \/ FinishCheck(h)
  \/ FinishWrite(h)
  \/ Enqueue(h)

Next ==
  \/ \E h \in Handler : Proceed(h) \/ Crash(h)
  \/ \E h \in Handler, p \in Plans : CreateBegin(h, p)
  \/ \E h \in Handler, t \in Trip, l \in AddLists : AddBegin(h, t, l)
  \/ \E h \in Handler, t \in Trip : \E s \in stops[t] : RemoveBegin(h, t, s)
  \/ \E h \in Handler, t \in Trip :
       \/ StartBegin(h, t) \/ CancelTripBegin(h, t) \/ CompleteBegin(h, t)
       \/ OptimizeBegin(h, t)
  \/ \E h \in Handler, o \in Order :
       AssignBegin(h, o) \/ CancelOrderBegin(h, o) \/ TrackNote(h, o)
  \/ \E h \in Handler, o \in Order, s \in OrderStatus : TrackBegin(h, o, s)
  \/ \E o \in Order, s \in OrderStatus : PutStatus(o, s)
  \/ \E o \in Order : DeleteOrder(o) \/ PaymentSucceeded(o) \/ PaymentFailed(o)

Spec == Init /\ [][Next]_vars

\* A request in flight is carried on: nothing is assumed of the clients.
FairSpec == Spec /\ \A h \in Handler : WF_vars(Proceed(h))
-------------------------------------------------------------------------------
(***************************************************************************)
(* Properties that hold whatever requests overlap.                         *)
(***************************************************************************)

\* An order a trip carries has a stop on that trip: the start, cancellation and
\* completion of a trip find their orders through its stops, so one without a
\* stop would be forgotten by all three.
OnBoardHasStop ==
  \A o \in Order : order[o].trip # NoTrip => o \in StopOrders(order[o].trip)

\* The stops of a trip have distinct numbers after every renumbering, insertion
\* and race of the two, as the unique index on (tripId, stopSequence) demands.
StopNumbersUnique ==
  \A t \in Trip : \A s, r \in stops[t] : s.seq = r.seq => s = r

\* Until PUT status is used, a delivered order is on no vehicle, although
\* dispatch, adding, start and cancellation may run on it from older reads.
DeliveredOffVehicle ==
  overrides = 0 =>
    \A o \in Order : order[o].status = "DELIVERED" => order[o].trip = NoTrip

\* With payments that do not fail after they succeeded, a trip carries only
\* orders whose payment is ready, whatever was read before a transaction.
OnBoardPaid ==
  "payFail" \notin Endpoints =>
    \A o \in Order : order[o].trip # NoTrip => PaymentReady(o)

\* What a trip carries is accounted for, whatever requests overlap: it has a stop there, is
\* not delivered yet, and is paid for if it has to be; and the stops have numbers of their own.
OnBoardSound ==
  OnBoardHasStop /\ StopNumbersUnique /\ DeliveredOffVehicle /\ OnBoardPaid

\* Only taking an order off a trip, a tracking event validated earlier, or the
\* direct status update can reopen an order that is delivered or cancelled: no
\* dispatch, start or cancellation of a trip does, however stale its reads.
NoRevival ==
  [][\A o \in Order :
       order[o].status \in ClosedStatuses /\ order'[o].status \notin ClosedStatuses =>
         \/ overrides' # overrides
         \/ \E h \in Handler :
              /\ task[h].op \in {"removeWrite", "trackWrite"}
              /\ task[h].order = o
              /\ task'[h] # task[h]]_vars

\* The handlers implement the abstract custody of orders.
Custody == INSTANCE VehicleCustody WITH
  holder <- [o \in Order |-> order[o].trip],
  existing <- {t \in Trip : trip[t] # "NONE"}
CustodySpec == Custody!Spec

(***************************************************************************)
(* Properties of requests that do not overlap, over long sequences.        *)
(***************************************************************************)

\* An ASSIGNED order on a trip still has a start ahead of it: its trip is
\* PENDING. One that is ASSIGNED to a trip of any other status is stranded.
AssignedAwaitsStart ==
  \A o \in Order :
    order[o].status = "ASSIGNED" /\ order[o].trip # NoTrip =>
      trip[order[o].trip] = "PENDING"

\* A COMPLETED trip carries nothing that is still to be delivered.
CompletedTripDone ==
  \A t \in Trip : trip[t] = "COMPLETED" =>
    \A o \in OnBoard(t) : order[o].status \in ClosedStatuses

\* A trip puts at most one calculate-emission job on the queue.
EmissionQueuedOnce == \A t \in Trip : jobs[t] <= 1

\* As long as requests do not overlap, the status of a trip fits the orders on it, and its
\* emission is asked for once.
TripsConsistent == AssignedAwaitsStart /\ CompletedTripDone /\ EmissionQueuedOnce

\* The events of one order do not overlap each other, nor its dispatch. Events
\* of different orders may.
EventsInTurn ==
  \A h, g \in Handler :
    h # g /\ task[h].op = "trackWrite" =>
      /\ task[g].op \notin {"createRequery", "createWrite"}
      /\ task[g].op = "trackWrite" => task[g].order # task[h].order

\* checkAndCompleteTrip: a trip that carried an order is completed once every
\* order it has a stop for stays delivered, also when the last deliveries overlap
\* and each handler read the trip before the other had written.
AllDeliveredCompletes ==
  []EventsInTurn =>
    \A t \in Trip :
      [](/\ OnBoard(t) # {}
         /\ <>[](\A o \in StopOrders(t) : order[o].status = "DELIVERED")
         => <>(trip[t] = "COMPLETED"))
================================================================================

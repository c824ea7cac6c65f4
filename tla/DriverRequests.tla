----------------------------- MODULE DriverRequests -----------------------------
(***************************************************************************)
(* Drivers ask for orders of their hub and the warehouse decides: creation *)
(* of a request, approval onto a waiting trip of the driver or onto a new  *)
(* trip, rejection, and the cancellation of requests other transactions    *)
(* make out of date.                                                       *)
(*                                                                         *)
(* One hub, its drivers, and orders whose payment allows dispatch.  The    *)
(* other handlers that write orders and trips are the subject of           *)
(* TripLifecycle; here the ones that race with no transaction of this      *)
(* module's are one step.  Notifications, sent after the decision and with *)
(* the status it wrote, are left out.                                      *)
(***************************************************************************)
EXTENDS Integers, Sequences, FiniteSets, FiniteSetsExt

CONSTANTS
  Handler,     \* requests in flight at a time
  Driver, Order, Trip,
  NoDriver, NoTrip,
  Weight,      \* totalWeight of each order
  Capacity,    \* capacityWeight of the vehicles
  MaxRequests  \* bound on the rows of driver_assignment_requests

ASSUME NoneAssumption == NoDriver \notin Driver /\ NoTrip \notin Trip
ASSUME WeightAssumption == Weight \in [Order -> Nat] /\ Capacity \in Nat
ASSUME BoundAssumption == MaxRequests \in Nat

VARIABLES
  order,     \* per order: where it is in the hub's work, and its currentTripId
  trip,      \* per trip: its status, and its driver
  stops,     \* per trip: its trip_stops rows
  request,   \* the rows of driver_assignment_requests
  carried,   \* history: per request, the driver its approval gave the order to
  swept,     \* history: orders whose loading cancelled the other requests for them
  shrunk,    \* history: trips that lost a stop while a request held a copy of the stops
  task,      \* per handler: what its request holds between two awaits
  contended  \* history: what requests in flight were about when another one wrote it

tripVars == <<order, trip, stops>>
vars == <<tripVars, request, carried, swept, shrunk, task, contended>>

Request == 1..MaxRequests
Stop == [order : Order, seq : Nat \ {0}]
\* "open" is PENDING or ARRIVED_AT_HUB in the hub; "away" is every status an order has
\* once it is picked up or cancelled.
OrderRow == [status : {"open", "assigned", "away"}, trip : Trip \cup {NoTrip}]
TripRow == [status : {"NONE", "PENDING", "IN_PROGRESS", "CLOSED"},
            driver : Driver \cup {NoDriver}]
RequestRow == [order : Order, driver : Driver,
               status : {"PENDING", "APPROVED", "REJECTED", "CANCELLED"}]
NoRequest == 0

Idle == [op |-> "idle"]
Task ==
  {Idle}
    \cup [op : {"create"}, order : Order, driver : Driver]
    \cup [op : {"pick", "cancel", "reject", "confirm"}, request : Request]
    \cup [op : {"add"}, request : Request, trip : Trip, next : Nat]
    \cup [op : {"requery", "newTrip"}, order : Order, driver : Driver,
          request : Request \cup {NoRequest}]
    \cup [op : {"staffAdd"}, order : Order, trip : Trip, next : Nat]

TypeOK ==
  /\ order \in [Order -> OrderRow]
  /\ trip \in [Trip -> TripRow]
  /\ stops \in [Trip -> SUBSET Stop]
  /\ request \in Seq(RequestRow) /\ Len(request) <= MaxRequests
  /\ carried \in [Request -> Driver \cup {NoDriver}]
  /\ swept \subseteq Order
  /\ shrunk \subseteq Trip
  /\ task \in [Handler -> Task]
  /\ contended \subseteq ({"order"} \X Order) \cup ({"request"} \X Request)
                           \cup ({"pair"} \X (Order \X Driver))

Init ==
  /\ order = [o \in Order |-> [status |-> "open", trip |-> NoTrip]]
  /\ trip = [t \in Trip |-> [status |-> "NONE", driver |-> NoDriver]]
  /\ stops = [t \in Trip |-> {}]
  /\ request = <<>>
  /\ carried = [r \in Request |-> NoDriver]
  /\ swept = {}
  /\ shrunk = {}
  /\ task = [h \in Handler |-> Idle]
  /\ contended = {}

\* What a request in flight is about: a decision is about the driver's request; a
\* transaction that creates a trip, and the creation of a request, rely on the order.
Subject(r) ==
  (IF r.op \in {"pick", "cancel", "reject", "confirm", "add"}
   THEN {<<"request", r.request>>} ELSE {})
  \cup (IF r.op \in {"requery", "newTrip"}
        THEN {<<"order", r.order>>, <<"request", r.request>>} \ {<<"request", NoRequest>>}
        ELSE {})
  \cup (IF r.op = "create"
        THEN {<<"order", r.order>>, <<"pair", <<r.order, r.driver>>>>} ELSE {})

InFlight(handlers) == UNION {Subject(task[g]) : g \in handlers}

\* A step that writes what is in S while the requests of others are about it.
Touch(S, others) == contended' = contended \cup (S \cap InFlight(others))

\* A request arrives and has read what it decides on; it holds r until it goes on.
\* Two that only read one order do not disturb each other.
Begin(h, r) ==
  /\ task[h] = Idle
  /\ task' = [task EXCEPT ![h] = r]
  /\ Touch({s \in Subject(r) : s[1] # "order"}, Handler)

Hold(h, r) == task' = [task EXCEPT ![h] = r]
Continue(h, r) == Hold(h, r) /\ UNCHANGED contended
Op(h, op) == task[h].op = op

--------------------------------------------------------------------------------
(***************************************************************************)
(* Conditions and writes the handlers share.                               *)
(***************************************************************************)

\* The WHERE clause that finds an order fit for dispatch.
Loadable(o) == order[o].status = "open" /\ order[o].trip = NoTrip

TripsOfAnyone(d, status) == {t \in Trip : trip[t].status = status}  \* mutant
TripsOf(d, status) == {t \in Trip : trip[t] = [status |-> status, driver |-> d]}

Pending(R) == {r \in R : r \in DOMAIN request /\ request[r].status = "PENDING"}
RequestsFor(o) == {r \in DOMAIN request : request[r].order = o}

SetStatus(R, status) ==
  [r \in DOMAIN request |->
     IF r \in R THEN [request[r] EXCEPT !.status = status] ELSE request[r]]

\* Both transactions that load the order of a request cancel the pending requests of
\* others for it and approve this one, by id and whatever it has become.
OthersNone(o, r) == {}  \* mutant
Others(o, r) == Pending(RequestsFor(o)) \ {r}

Sweep(o, r) ==
  request' = [s \in DOMAIN request |->
                [request[s] EXCEPT !.status = IF s = r THEN "APPROVED"
                                              ELSE IF s \in Others(o, r) THEN "CANCELLED"
                                              ELSE @]]

\* What Sweep writes, as subjects.
SweepTouch(h, o, r) ==
  Touch({<<"order", o>>} \cup ({"request"} \X (Others(o, r) \cup {r})), Handler \ {h})

\* max + 1.
NextSeq(t) == IF stops[t] = {} THEN 1 ELSE Max({s.seq : s \in stops[t]}) + 1

\* The unique index on trip and sequence.
SeqTakenNever(t, n) == FALSE  \* mutant
SeqTaken(t, n) == \E s \in stops[t] : s.seq = n

StopOrders(S) == {s.order : s \in S}
LoadOf(S) == MapThenSumSet(LAMBDA o : Weight[o], StopOrders(S))

Load(o, t) == order' = [order EXCEPT ![o] = [status |-> "assigned", trip |-> t]]

--------------------------------------------------------------------------------
(***************************************************************************)
(* createDriverAssignmentRequest.                                          *)
(***************************************************************************)

RequestableAgain(o, d) == Loadable(o) /\ TripsOf(d, "IN_PROGRESS") = {}  \* mutant
Requestable(o, d) ==
  /\ Loadable(o)
  /\ TripsOf(d, "IN_PROGRESS") = {}
  /\ \A r \in Pending(RequestsFor(o)) : request[r].driver # d

CreateBegin(h, o, d) ==
  /\ Requestable(o, d)
  /\ Begin(h, [op |-> "create", order |-> o, driver |-> d])
  /\ UNCHANGED <<tripVars, request, carried, swept, shrunk>>

CreateWrite(h) ==
  /\ Op(h, "create")
  /\ Len(request) < MaxRequests
  /\ request' = Append(request, [order |-> task[h].order, driver |-> task[h].driver,
                                 status |-> "PENDING"])
  /\ Continue(h, Idle)
  /\ UNCHANGED <<tripVars, carried, swept, shrunk>>

--------------------------------------------------------------------------------
(***************************************************************************)
(* approveAssignmentRequest.                                               *)
(***************************************************************************)

DecidableAny(r) == r \in DOMAIN request  \* mutant
Decidable(r) == r \in DOMAIN request /\ request[r].status = "PENDING"

\* The request is read with its order, which may be out of reach by now.
ApproveBegin(h, r) ==
  /\ Decidable(r)
  /\ Begin(h, [op |-> IF Loadable(request[r].order) THEN "pick" ELSE "cancel",
               request |-> r])
  /\ UNCHANGED <<tripVars, request, carried, swept, shrunk>>

\* The update to CANCELLED, and to REJECTED, is by id.
Overrule(h, op, status) ==
  /\ Op(h, op)
  /\ request' = SetStatus({task[h].request}, status)
  /\ Touch(Subject(task[h]), Handler \ {h})
  /\ Hold(h, Idle)
  /\ UNCHANGED <<tripVars, carried, swept, shrunk>>

ApproveCancel(h) == Overrule(h, "cancel", "CANCELLED")

\* The waiting trips of the driver are read, with their stops: the only one, or the one
\* the body names, takes the order if its vehicle does.
Fits(o, t) == LoadOf(stops[t]) + Weight[o] <= Capacity

ApprovePick(h) ==
  /\ Op(h, "pick")
  /\ LET r == task[h].request
         d == request[r].driver
         o == request[r].order
     IN \/ \E t \in TripsOf(d, "PENDING") :
             /\ Fits(o, t)
             /\ Continue(h, [op |-> "add", request |-> r, trip |-> t,
                             next |-> NextSeq(t)])
        \/ /\ TripsOf(d, "PENDING") \cup TripsOf(d, "IN_PROGRESS") = {}
           /\ Loadable(o)
           /\ Continue(h, [op |-> "requery", order |-> o, driver |-> d, request |-> r])
  /\ UNCHANGED <<tripVars, request, carried, swept, shrunk>>

\* The transaction of addOrderToApprovedAssignmentRequest: it rolls back when the order
\* is not there to load, or when the sequence is taken.
Addable(o, t, n) == Loadable(o) /\ ~SeqTaken(t, n)

AddWrite(h) ==
  /\ Op(h, "add")
  /\ LET r == task[h].request
         o == request[r].order
         t == task[h].trip
     IN /\ Addable(o, t, task[h].next)
        /\ Load(o, t)
        /\ stops' = [stops EXCEPT ![t] = @ \cup {[order |-> o, seq |-> task[h].next]}]
        /\ Sweep(o, r)
        /\ SweepTouch(h, o, r)
        /\ carried' = [carried EXCEPT ![r] = trip[t].driver]
        /\ swept' = swept \cup {o}
  /\ Hold(h, Idle)
  /\ UNCHANGED <<trip, shrunk>>

--------------------------------------------------------------------------------
(***************************************************************************)
(* createTripWithStops, for a request or for a dispatch without one.       *)
(***************************************************************************)

DispatchBegin(h, o, d) ==
  /\ Loadable(o)
  /\ Begin(h, [op |-> "requery", order |-> o, driver |-> d, request |-> NoRequest])
  /\ UNCHANGED <<tripVars, request, carried, swept, shrunk>>

\* The transaction reads the order again.
Requery(h) ==
  /\ Op(h, "requery")
  /\ Loadable(task[h].order)
  /\ Continue(h, [task[h] EXCEPT !.op = "newTrip"])
  /\ UNCHANGED <<tripVars, request, carried, swept, shrunk>>

\* It commits: the trip and its stop, and the order if it is still there to load.
NewTripWrite(h, t) ==
  /\ Op(h, "newTrip")
  /\ trip[t].status = "NONE"
  /\ LET r == task[h].request
         o == task[h].order
     IN /\ trip' = [trip EXCEPT ![t] = [status |-> "PENDING", driver |-> task[h].driver]]
        /\ stops' = [stops EXCEPT ![t] = {[order |-> o, seq |-> 1]}]
        /\ IF Loadable(o) THEN Load(o, t) /\ swept' = swept \cup {o}
                          ELSE UNCHANGED <<order, swept>>
        /\ carried' = IF Loadable(o) /\ r # NoRequest
                      THEN [carried EXCEPT ![r] = task[h].driver] ELSE carried
        /\ Sweep(o, r)
        /\ SweepTouch(h, o, r)
        /\ Hold(h, IF r = NoRequest THEN Idle ELSE [op |-> "confirm", request |-> r])
  /\ UNCHANGED shrunk

\* The approval of the request is written once more, by id, after the transaction.
ApproveConfirm(h) == Overrule(h, "confirm", "APPROVED")

--------------------------------------------------------------------------------
(***************************************************************************)
(* rejectAssignmentRequest.                                                *)
(***************************************************************************)

RejectBegin(h, r) ==
  /\ Decidable(r)
  /\ Begin(h, [op |-> "reject", request |-> r])
  /\ UNCHANGED <<tripVars, request, carried, swept, shrunk>>

RejectWrite(h) == Overrule(h, "reject", "REJECTED")

--------------------------------------------------------------------------------
(***************************************************************************)
(* The other handlers: the staff adds an order to a trip by hand, takes    *)
(* one off it, calls the trip off; the driver starts and ends it; the      *)
(* customer cancels the order.                                             *)
(***************************************************************************)

\* addOrdersToTrip, for one order.
StaffAddBegin(h, o, t) ==
  /\ trip[t].status = "PENDING"
  /\ Loadable(o)
  /\ Begin(h, [op |-> "staffAdd", order |-> o, trip |-> t, next |-> NextSeq(t)])
  /\ UNCHANGED <<tripVars, request, carried, swept, shrunk>>

\* The stop is made even if the order is not loaded; no request is cancelled.
StaffAddWrite(h) ==
  /\ Op(h, "staffAdd")
  /\ LET o == task[h].order
         t == task[h].trip
     IN /\ ~SeqTaken(t, task[h].next)
        /\ stops' = [stops EXCEPT ![t] = @ \cup {[order |-> o, seq |-> task[h].next]}]
        /\ IF Loadable(o)
           THEN Load(o, t) /\ swept' = swept \ {o} /\ Touch({<<"order", o>>}, Handler \ {h})
           ELSE UNCHANGED <<order, swept, contended>>
  /\ Hold(h, Idle)
  /\ UNCHANGED <<trip, request, carried, shrunk>>

HeldStops(t) == \E g \in Handler : task[g].op \in {"add", "staffAdd"} /\ task[g].trip = t

\* The stops left on a trip are numbered anew.
RenumberedFromZero(S) ==  \* mutant
  {[order |-> z.order, seq |-> Cardinality({y \in S : y.seq < z.seq})] : z \in S}
Renumbered(S) ==
  {[order |-> z.order, seq |-> Cardinality({y \in S : y.seq <= z.seq})] : z \in S}

\* cancelOrderFromTrip: the last stop takes the trip with it.
RemoveOrder(t, s) ==
  /\ trip[t].status = "PENDING"
  /\ s \in stops[t]
  /\ LET left == stops[t] \ {s}
     IN /\ stops' = [stops EXCEPT ![t] = Renumbered(left)]
        /\ trip' = IF left = {} THEN [trip EXCEPT ![t].status = "CLOSED"] ELSE trip
  /\ order' = [order EXCEPT ![s.order] = [status |-> "open", trip |-> NoTrip]]
  /\ swept' = swept \ {s.order}
  /\ shrunk' = IF HeldStops(t) THEN shrunk \cup {t} ELSE shrunk
  /\ Touch({<<"order", s.order>>}, Handler)
  /\ UNCHANGED <<request, carried, task>>

\* startTrip, completion, cancelTrip: what they do to the orders on board.
MoveTrip(t, from, to, row) ==
  /\ trip[t].status = from
  /\ trip' = [trip EXCEPT ![t].status = to]
  /\ order' = [o \in Order |-> IF order[o].trip = t THEN row ELSE order[o]]
  /\ UNCHANGED <<stops, request, carried, swept, shrunk, task>>
  /\ Touch({"order"} \X {o \in Order : order[o].trip = t}, Handler)

StartTrip(t) == MoveTrip(t, "PENDING", "IN_PROGRESS", [status |-> "away", trip |-> t])
CompleteTrip(t) ==
  MoveTrip(t, "IN_PROGRESS", "CLOSED", [status |-> "away", trip |-> NoTrip])
CancelTrip(t) == MoveTrip(t, "PENDING", "CLOSED", [status |-> "open", trip |-> NoTrip])

CancelOrder(o) ==
  /\ Loadable(o)
  /\ order' = [order EXCEPT ![o] = [status |-> "away", trip |-> NoTrip]]
  /\ Touch({<<"order", o>>}, Handler)
  /\ UNCHANGED <<trip, stops, request, carried, swept, shrunk, task>>

--------------------------------------------------------------------------------
\* The process dies, what a request awaits throws, or its transaction rolls back.
BreakOff(h) ==
  /\ task[h] # Idle
  /\ Continue(h, Idle)
  /\ UNCHANGED <<tripVars, request, carried, swept, shrunk>>

Proceed(h) ==
  \/ CreateWrite(h)
  \/ ApproveCancel(h) \/ ApprovePick(h) \/ AddWrite(h) \/ ApproveConfirm(h)
  \/ Requery(h)
  \/ RejectWrite(h)
  \/ StaffAddWrite(h)
  \/ BreakOff(h)

Next ==
  \/ \E h \in Handler : Proceed(h)
  \/ \E h \in Handler, o \in Order, d \in Driver :
       CreateBegin(h, o, d) \/ DispatchBegin(h, o, d)
  \/ \E h \in Handler, r \in Request : ApproveBegin(h, r) \/ RejectBegin(h, r)
  \/ \E h \in Handler, t \in Trip : NewTripWrite(h, t)
  \/ \E h \in Handler, o \in Order, t \in Trip : StaffAddBegin(h, o, t)
  \/ \E t \in Trip : \E s \in stops[t] : RemoveOrder(t, s)
  \/ \E t \in Trip : StartTrip(t) \/ CompleteTrip(t) \/ CancelTrip(t)
  \/ \E o \in Order : CancelOrder(o)

Spec == Init /\ [][Next]_vars

--------------------------------------------------------------------------------
(***************************************************************************)
(* Properties.                                                             *)
(***************************************************************************)

Decided(r) == request[r].status # "PENDING"

\* A request is decided once: an approval, a rejection, a cancellation by id and one by
\* another transaction replace each other only if a second one began, or committed,
\* while the first one held what it had read.
DecidedOnce ==
  [][\A r \in DOMAIN request :
       Decided(r) /\ request'[r].status # request[r].status
         => <<"request", r>> \in contended']_vars

\* A request is APPROVED just if its order was put on a trip of the driver who asked. The
\* exceptions: decisions of the request that overlapped, and an order that was taken
\* while the transaction that makes a trip for it was under way. One that adds to a
\* waiting trip needs no exception for the order: it counts what it loaded.
ApprovalIsLoading ==
  \A r \in DOMAIN request :
    {<<"request", r>>, <<"order", request[r].order>>} \cap contended = {}
      => (request[r].status = "APPROVED" <=> carried[r] = request[r].driver)

\* While an order is on a trip by a dispatch or by a request, no driver waits for it.
NoneLeftPending ==
  \A o \in swept :
    order[o].trip # NoTrip /\ <<"order", o>> \notin contended
      => Pending(RequestsFor(o)) = {}

\* A driver waits for an order once.
OnePendingPerPair ==
  \A r, s \in Pending(DOMAIN request) :
    /\ r # s
    /\ request[r].order = request[s].order
    /\ request[r].driver = request[s].driver
    => <<"pair", <<request[r].order, request[r].driver>>>> \in contended

\* What drivers wait for is there to be decided, and listed once.
PendingRequestsSound == NoneLeftPending /\ OnePendingPerPair

\* What was approved was loaded, and what is pending can still be decided.
RequestsFollowOrders == ApprovalIsLoading /\ PendingRequestsSound

\* An approval that adds an order to a trip leaves the vehicle within its capacity, though
\* the load was read before and others add to the trip meanwhile: they computed the same
\* sequence, which is unique. Only a trip that lost a stop meanwhile is not protected.
CapacityKept ==
  [][\A h \in Handler :
       AddWrite(h) /\ task[h].trip \notin shrunk
         => LoadOf(stops'[task[h].trip]) <= Capacity]_vars
================================================================================

---------------------------- MODULE DispatchPlanning ----------------------------
(***************************************************************************)
(* How the staff of a hub plans its trips: the dispatch board, the preview *)
(* that packs the waiting orders into the free vehicles, and the approval  *)
(* of what it suggests.                                                    *)
(*                                                                         *)
(* Board and preview put several queries to the database at once, with     *)
(* Promise.all: each sees the database of its own moment.  The answer is   *)
(* on a screen, and a suggestion on it is approved later, by anyone who    *)
(* sees it and as often as he likes.  What else happens to orders and      *)
(* trips is the subject of TripLifecycle and one step here; manual trips   *)
(* and changes of a vehicle, which look at no capacity, are in Dispatch.   *)
(***************************************************************************)
EXTENDS Integers, Sequences, FiniteSets, SequencesExt

CONSTANTS
  Handler,   \* requests in flight at a time
  Trip, Driver,
  Orders,    \* the orders of the hub by createdAt, their payment ready
  Vehicles,  \* the vehicles of the hub by type and capacity
  Size,      \* per order: totalWeight and totalVolume
  Capacity,  \* per vehicle: capacityWeight and capacityVolume
  NoTrip

Order == Range(Orders)
Vehicle == Range(Vehicles)
Amount == [weight : Nat, volume : Nat]

\* What an instance assumes of its parameters.
ParametersOK ==
  /\ Orders \in Seq(Order) /\ IsInjective(Orders) /\ Size \in [Order -> Amount]
  /\ Vehicles \in Seq(Vehicle) /\ IsInjective(Vehicles)
  /\ Capacity \in [Vehicle -> Amount]
  /\ IsFiniteSet(Driver)
  /\ NoTrip \notin Trip

VARIABLES
  order,     \* per order: is it waiting, assigned or gone, and its currentTripId
  trip,      \* per trip that is not over: status, vehicle, driver, and the orders of its stops
  screen,    \* the previews shown last: [suggestions, unassigned, drivers]
  board,     \* the reads of a dispatch board that is being put together
  changed,   \* history: orders, vehicles and drivers changed since the board was begun
  task,      \* per handler: what its request holds between two awaits
  contended  \* history: orders, vehicles and drivers that approvals in flight shared

vars == <<order, trip, screen, board, changed, task, contended>>

Suggestion == [vehicle : Vehicle, driver : Driver, orders : (SUBSET Order) \ {{}}]
NoRow == [status |-> "NONE"]
TripRow == {NoRow} \cup
  [status : {"PENDING", "IN_PROGRESS"}, vehicle : Vehicle, driver : Driver,
   orders : (SUBSET Order) \ {{}}]
Preview == [suggestions : SUBSET Suggestion, unassigned : SUBSET Order,
            drivers : SUBSET Driver]

Query == {"vehicles", "orders", "drivers"}
BoardQuery == Query \cup {"trips"}
ReadsOf(reads, Q) ==
  /\ DOMAIN reads \subseteq Q
  /\ \A q \in DOMAIN reads : reads[q] \subseteq Order \cup Vehicle \cup Driver \cup TripRow

Idle == [op |-> "idle"]
TaskOK(r) ==
  \/ r = Idle
  \/ r.op = "preview" /\ ReadsOf(r.read, Query)
  \/ r.op \in {"check", "requery"} /\ r.plan \in Suggestion
  \/ r.op = "write" /\ r.plan \in Suggestion /\ r.valid \in (SUBSET Order) \ {{}}

TypeOK ==
  /\ order \in [Order -> [status : {"WAITING", "ASSIGNED", "GONE"},
                         trip : Trip \cup {NoTrip}]]
  /\ trip \in [Trip -> TripRow]
  /\ screen \in Preview
  /\ ReadsOf(board, BoardQuery)
  /\ changed \subseteq Order \cup Vehicle \cup Driver
  /\ \A h \in Handler : TaskOK(task[h])
  /\ contended \subseteq Order \cup Vehicle \cup Driver

NoReads == [q \in {} |-> {}]

Init ==
  /\ order = [o \in Order |-> [status |-> "WAITING", trip |-> NoTrip]]
  /\ trip = [t \in Trip |-> NoRow]
  /\ screen = [suggestions |-> {}, unassigned |-> {}, drivers |-> {}]
  /\ board = NoReads
  /\ changed = {}
  /\ task = [h \in Handler |-> Idle]
  /\ contended = {}

Subject(r) ==
  IF r.op \in {"check", "requery", "write"}
  THEN {r.plan.vehicle, r.plan.driver} \cup r.plan.orders ELSE {}

Hold(h, r) == task' = [task EXCEPT ![h] = r]
Continue(h, r) == Hold(h, r) /\ UNCHANGED contended
Op(h, op) == task[h].op = op

\* The board, while it is put together, notes what changes.
Change(S) == changed' = IF board = NoReads THEN {} ELSE changed \cup S

--------------------------------------------------------------------------------
(***************************************************************************)
(* The queries.                                                            *)
(***************************************************************************)

\* findPendingOrders.
Waiting == {o \in Order : order[o].status = "WAITING" /\ order[o].trip = NoTrip}

ActiveTrips == {t \in Trip : trip[t] # NoRow}
ActiveTripsOf(x) == {t \in ActiveTrips : x \in {trip[t].vehicle, trip[t].driver}}

\* findAvailableVehicles and findAvailableDrivers.
FreeUnlessStarted(S) ==  \* mutant
  {x \in S : \A t \in ActiveTripsOf(x) : trip[t].status = "PENDING"}
Free(S) == {x \in S : ActiveTripsOf(x) = {}}

Answer(q) ==
  CASE q = "vehicles" -> Free(Vehicle)
    [] q = "orders" -> Waiting
    [] q = "drivers" -> Free(Driver)
    [] q = "trips" -> {trip[t] : t \in {u \in Trip : trip[u].status = "PENDING"}}

\* One more query of those asked at once is answered.
Read(reads, q) == [p \in DOMAIN reads \cup {q} |-> IF p = q THEN Answer(q) ELSE reads[p]]

--------------------------------------------------------------------------------
(***************************************************************************)
(* The preview.                                                            *)
(***************************************************************************)

Within(a, b) == a.weight <= b.weight /\ a.volume <= b.volume
Minus(a, b) == [weight |-> a.weight - b.weight, volume |-> a.volume - b.volume]

\* An order that fits goes into the vehicle.
PutByWeight(load, o) ==  \* mutant
  IF Size[o].weight <= load.room.weight
  THEN [orders |-> load.orders \cup {o}, room |-> Minus(load.room, Size[o])] ELSE load
Put(load, o) ==
  IF Within(Size[o], load.room)
  THEN [orders |-> load.orders \cup {o}, room |-> Minus(load.room, Size[o])] ELSE load

\* What is packed into a vehicle, of the orders left, the oldest first.
Packed(v, left) ==
  LET load[i \in 0..Len(Orders)] ==
        IF i = 0 THEN [orders |-> {}, room |-> Capacity[v]]
        ELSE IF Orders[i] \in left THEN Put(load[i - 1], Orders[i]) ELSE load[i - 1]
  IN load[Len(Orders)].orders

\* The vehicle takes what fits and the first driver left; an empty one takes none.
SuggestEmpty(plan, v) ==  \* mutant
  LET packed == Packed(v, plan.left)
  IN IF plan.drivers = <<>> THEN plan
     ELSE [suggestions |-> plan.suggestions \cup
             {[vehicle |-> v, driver |-> Head(plan.drivers), orders |-> packed]},
           left |-> plan.left \ packed,
           drivers |-> Tail(plan.drivers)]
Suggest(plan, v) ==
  LET packed == Packed(v, plan.left)
  IN IF plan.drivers = <<>> \/ packed = {} THEN plan
     ELSE [suggestions |-> plan.suggestions \cup
             {[vehicle |-> v, driver |-> Head(plan.drivers), orders |-> packed]},
           left |-> plan.left \ packed,
           drivers |-> Tail(plan.drivers)]

Plan(vehicles, orders, drivers) ==
  LET plan[i \in 0..Len(Vehicles)] ==
        IF i = 0 THEN [suggestions |-> {}, left |-> orders, drivers |-> drivers]
        ELSE IF Vehicles[i] \in vehicles THEN Suggest(plan[i - 1], Vehicles[i]) ELSE plan[i - 1]
  IN plan[Len(Vehicles)]

PreviewBegin(h) ==
  /\ task[h] = Idle
  /\ Continue(h, [op |-> "preview", read |-> NoReads])
  /\ UNCHANGED <<order, trip, screen, board, changed>>

PreviewRead(h) ==
  /\ Op(h, "preview")
  /\ \E q \in Query \ DOMAIN task[h].read :
       Continue(h, [task[h] EXCEPT !.read = Read(@, q)])
  /\ UNCHANGED <<order, trip, screen, board, changed>>

\* Drivers come in no particular order. The answer replaces the one on the screen.
PreviewAnswer(h) ==
  /\ Op(h, "preview")
  /\ DOMAIN task[h].read = Query
  /\ LET read == task[h].read
     IN \E drivers \in SetToSeqs(read["drivers"]) :
          LET plan == Plan(read["vehicles"], read["orders"], drivers)
          IN screen' = [suggestions |-> plan.suggestions, unassigned |-> plan.left,
                        drivers |-> Range(plan.drivers)]
  /\ Continue(h, Idle)
  /\ UNCHANGED <<order, trip, board, changed>>

--------------------------------------------------------------------------------
(***************************************************************************)
(* approveDispatch.                                                        *)
(***************************************************************************)

\* assertDispatchResourcesBelongToHub: every order is still waiting.
ApproveBegin(h, s) ==
  /\ task[h] = Idle
  /\ s.orders \subseteq Waiting
  /\ Hold(h, [op |-> "check", plan |-> s])
  /\ contended' = contended \cup
       (Subject([op |-> "check", plan |-> s]) \cap UNION {Subject(task[g]) : g \in Handler})
  /\ UNCHANGED <<order, trip, screen, board, changed>>

\* assertDriverAndVehicleAvailability.
AvailableVehicle(s) == {s.vehicle} = Free({s.vehicle})  \* mutant
Available(s) == {s.vehicle, s.driver} = Free({s.vehicle, s.driver})

ApproveCheck(h) ==
  /\ Op(h, "check")
  /\ Available(task[h].plan)
  /\ Continue(h, [task[h] EXCEPT !.op = "requery"])
  /\ UNCHANGED <<order, trip, screen, board, changed>>

\* The transaction of createTripWithStops reads the orders again and goes on if any is
\* left.
ApproveRequery(h) ==
  /\ Op(h, "requery")
  /\ LET valid == task[h].plan.orders \cap Waiting
     IN /\ valid # {}
        /\ Continue(h, [op |-> "write", plan |-> task[h].plan, valid |-> valid])
  /\ UNCHANGED <<order, trip, screen, board, changed>>

\* It commits: stops for the orders it found, and those of them that are still waiting.
ApproveWrite(h, t) ==
  /\ Op(h, "write")
  /\ trip[t] = NoRow
  /\ LET s == task[h].plan
         valid == task[h].valid
     IN /\ trip' = [trip EXCEPT ![t] = [status |-> "PENDING", vehicle |-> s.vehicle,
                                        driver |-> s.driver, orders |-> valid]]
        /\ order' = [o \in Order |-> IF o \in valid \cap Waiting
                                     THEN [status |-> "ASSIGNED", trip |-> t] ELSE order[o]]
        /\ Change({s.vehicle, s.driver} \cup valid)
  /\ Continue(h, Idle)
  /\ UNCHANGED <<screen, board>>

--------------------------------------------------------------------------------
(***************************************************************************)
(* getDispatchBoard.                                                       *)
(***************************************************************************)

\* The fourth answer completes the board, and it is shown until the next is begun.
BoardRead ==
  /\ \E q \in BoardQuery \ DOMAIN board : board' = Read(board, q)
  /\ UNCHANGED <<order, trip, screen, changed, task, contended>>

BoardClose ==
  /\ DOMAIN board = BoardQuery
  /\ board' = NoReads
  /\ changed' = {}
  /\ UNCHANGED <<order, trip, screen, task, contended>>

--------------------------------------------------------------------------------
(***************************************************************************)
(* The other handlers: a trip is started, ends, or is called off, and an   *)
(* order is cancelled.                                                     *)
(***************************************************************************)

\* Every order of the trip gets its row of rows. No query counts a trip that is over: its
\* place is free for another one, and nothing points to it any more.
MoveTrip(t, from, next, rows) ==
  /\ trip[t].status = from
  /\ trip' = [trip EXCEPT ![t] = next]
  /\ order' = [o \in Order |-> IF order[o].trip = t THEN rows[o] ELSE order[o]]
  /\ Change({trip[t].vehicle, trip[t].driver} \cup trip[t].orders)
  /\ UNCHANGED <<screen, board, task, contended>>

StartTrip(t) ==
  MoveTrip(t, "PENDING", [trip[t] EXCEPT !.status = "IN_PROGRESS"],
           [o \in Order |-> [status |-> "GONE", trip |-> t]])

CompleteTrip(t) ==
  MoveTrip(t, "IN_PROGRESS", NoRow, [o \in Order |-> [status |-> "GONE", trip |-> NoTrip]])

\* The orders go back to the hub, but for those that were cancelled.
CancelTrip(t) ==
  MoveTrip(t, "PENDING", NoRow,
           [o \in Order |->
              [status |-> IF order[o].status = "ASSIGNED" THEN "WAITING" ELSE "GONE",
               trip |-> NoTrip]])

\* The row keeps its currentTripId, and the trip its stops.
CancelOrder(o) ==
  /\ order[o].status # "GONE"
  /\ order' = [order EXCEPT ![o].status = "GONE"]
  /\ Change({o})
  /\ contended' = contended \cup ({o} \cap UNION {Subject(task[g]) : g \in Handler})
  /\ UNCHANGED <<trip, screen, board, task>>

--------------------------------------------------------------------------------
\* The process dies, or a check of the request refuses it.
BreakOff(h) ==
  /\ task[h] # Idle
  /\ Continue(h, Idle)
  /\ UNCHANGED <<order, trip, screen, board, changed>>

Next ==
  \/ \E h \in Handler :
       \/ PreviewBegin(h) \/ PreviewRead(h) \/ PreviewAnswer(h)
       \/ ApproveCheck(h) \/ ApproveRequery(h) \/ BreakOff(h)
       \/ \E s \in screen.suggestions : ApproveBegin(h, s)
       \/ \E t \in Trip : ApproveWrite(h, t)
  \/ BoardRead \/ BoardClose
  \/ \E t \in Trip : StartTrip(t) \/ CompleteTrip(t) \/ CancelTrip(t)
  \/ \E o \in Order : CancelOrder(o)

Spec == Init /\ [][Next]_vars

--------------------------------------------------------------------------------
(***************************************************************************)
(* Properties.                                                             *)
(***************************************************************************)

Total(S) == [weight |-> MapThenSumSet(LAMBDA o : Size[o].weight, S),
             volume |-> MapThenSumSet(LAMBDA o : Size[o].volume, S)]

\* No order, vehicle or driver is suggested twice, or both suggested and left over; every
\* load is within the weight and the volume of its vehicle; and no order left over would
\* still fit beside one of the loads.
PreviewSound ==
  LET S == screen.suggestions
  IN /\ \A s, r \in S : s # r => /\ s.vehicle # r.vehicle
                                 /\ s.driver # r.driver
                                 /\ s.orders \cap r.orders = {}
     /\ \A s \in S : /\ s.orders \cap screen.unassigned = {}
                     /\ s.driver \notin screen.drivers
                     /\ Within(Total(s.orders), Capacity[s.vehicle])
                     /\ \A o \in screen.unassigned :
                          ~Within(Total(s.orders \cup {o}), Capacity[s.vehicle])

\* However old the screen an approval comes from: what a trip carries is within the
\* capacity of its vehicle, a vehicle and a driver are on one active trip, and an order
\* has stops on one. Only approvals that overlap break the two last.
ApprovalSound ==
  /\ \A t \in ActiveTrips : Within(Total(trip[t].orders), Capacity[trip[t].vehicle])
  /\ \A t, u \in ActiveTrips :
       t # u => /\ trip[t].vehicle = trip[u].vehicle => trip[t].vehicle \in contended
                /\ trip[t].driver = trip[u].driver => trip[t].driver \in contended
                /\ trip[t].orders \cap trip[u].orders \subseteq contended

\* The board shows what did not change while it was put together as it is: such an order
\* in the list or on the one trip it waits on, such a vehicle or driver as available just
\* if no active trip has it.
BoardCoherent ==
  DOMAIN board = BoardQuery =>
    /\ \A o \in Order \ (changed \cup contended) :
         LET on == {row \in board["trips"] : o \in row.orders}
         IN /\ o \in board["orders"] => on = {}
            /\ order[o].status = "WAITING" <=> o \in board["orders"]
            /\ order[o].status = "ASSIGNED" => on = {trip[order[o].trip]}
    /\ \A x \in (Vehicle \cup Driver) \ changed :
         x \in board["vehicles"] \cup board["drivers"] <=> ActiveTripsOf(x) = {}
================================================================================

-------------------------- MODULE TripLifecycle_proofs --------------------------
(***************************************************************************)
(* The safety properties of TripLifecycle, for any number of orders,       *)
(* trips, requests in flight and any plans.  They follow from an inductive *)
(* invariant, IInv, which says what a request in flight may still rely on  *)
(* although it read the database some steps ago; that trips fit the orders *)
(* on them needs more, SInv, which one request at a time keeps.            *)
(***************************************************************************)
EXTENDS TripLifecycle, FiniteSetTheorems, TLAPS

\* The stops of a trip have distinct ids, all of them handed out already.
StopIds ==
  \A t \in Trip :
    /\ \A s \in stops[t] : s.id \in 1..lastStop[t]
    /\ \A s, r \in stops[t] : s.id = r.id => s = r

\* A trip without a row has no stops.
NoRowNoStops == \A t \in Trip : trip[t] = "NONE" => stops[t] = {}

\* What a request in flight, holding r, may still rely on:
\* the trip it has read still has a row;
OnRow(r) ==
  /\ r.op \in {"addCheck", "addWrite", "assignWrite", "removeWrite", "optimizeWrite",
              "startWrite", "cancelTripWrite", "completeWrite", "finishCheck",
              "finishWrite", "enqueue"} =>
       trip[r.trip] # "NONE"
  /\ r.op = "trackWrite" /\ r.trip # NoTrip => trip[r.trip] # "NONE"

\* the orders it is about to dispatch are orders of its plan;
ValidArePlanned(r) == r.op = "createWrite" => r.valid \subseteq r.plan.orders

\* the stop it is about to delete, if it still exists, is a stop of the order it
\* takes off the trip.
StopIsOfOrder(r) ==
  r.op = "removeWrite" =>
    /\ r.stop <= lastStop[r.trip]
    /\ \A s \in stops[r.trip] : s.id = r.stop => s.order = r.order

\* the stops it is about to number were handed out, one id to each, and those that still
\* exist are stops of the same orders.
RowsRead(r) ==
  r.op = "optimizeWrite" =>
    /\ \A s \in r.rows : s.id \in 1..lastStop[r.trip]
    /\ \A s, u \in r.rows : s.id = u.id => s = u
    /\ \A s \in stops[r.trip], u \in r.rows : s.id = u.id => s.order = u.order

Reliable(r) == OnRow(r) /\ ValidArePlanned(r) /\ StopIsOfOrder(r) /\ RowsRead(r)

IInv ==
  /\ TypeOK
  /\ StopIds
  /\ NoRowNoStops
  /\ OnBoardHasStop
  /\ \A h \in Handler : Reliable(task[h])

\* The orders a request is about to dispatch are paid, if payments do not fail.
ValidArePaid ==
  "payFail" \notin Endpoints =>
    \A h \in Handler : task[h].op = "createWrite" =>
      \A o \in task[h].valid : PaymentReady(o)

\* What a request holds is as good as new, when no other one is in flight: its trip has
\* the status and the orders it read, and so has the order it tracks.
Current(r) ==
  /\ r.op \in {"addCheck", "addWrite", "assignWrite", "removeWrite", "startWrite",
              "cancelTripWrite"} =>
       trip[r.trip] = "PENDING"
  /\ r.op \in {"startWrite", "cancelTripWrite"} => r.orders = StopOrders(r.trip)
  /\ r.op = "completeWrite" =>
       /\ trip[r.trip] = "IN_PROGRESS"
       /\ \A o \in StopOrders(r.trip) : order[o].status \in ClosedStatuses
  /\ r.op = "finishWrite" => Finishable(r.trip)
  /\ r.op = "enqueue" => trip[r.trip] = "COMPLETED" /\ jobs[r.trip] = 0
  /\ r.op = "trackWrite" => r.status \in NextStatuses[order[r.order].status]

\* An order in a hub is on no trip, and only a completed trip has asked for its emission.
SInv ==
  /\ \A h \in Handler : Current(task[h])
  /\ \A o \in Order : order[o].status = "PENDING" => order[o].trip = NoTrip
  /\ \A t \in Trip : jobs[t] > 0 => trip[t] = "COMPLETED"
  /\ TripsConsistent

-------------------------------------------------------------------------------
(***************************************************************************)
(* Facts about the records and sets the handlers build.                    *)
(***************************************************************************)

\* What a request in flight holds is determined by its next step.
LEMMA TaskShape ==
  ASSUME NEW r \in Task
  PROVE  /\ r.op = "createRequery" => r \in [op : {"createRequery"}, plan : Plans]
         /\ r.op = "createWrite" =>
              r \in [op : {"createWrite"}, plan : Plans, valid : SUBSET Order]
         /\ r.op \in {"addCheck", "addWrite"} =>
              r \in [op : {"addCheck", "addWrite"}, trip : Trip, list : AddLists,
                     last : Nat]
         /\ r.op = "assignPick" => r \in [op : {"assignPick"}, order : Order]
         /\ r.op = "assignWrite" =>
              r \in [op : {"assignWrite"}, trip : Trip, order : Order, last : Nat]
         /\ r.op = "removeWrite" =>
              r \in [op : {"removeWrite"}, trip : Trip, order : Order, stop : Nat]
         /\ r.op = "optimizeWrite" =>
              r \in [op : {"optimizeWrite"}, trip : Trip, rows : SUBSET Stop]
         /\ r.op \in {"startWrite", "cancelTripWrite"} =>
              r \in [op : {"startWrite", "cancelTripWrite"}, trip : Trip,
                     orders : SUBSET Order]
         /\ r.op \in {"completeWrite", "finishCheck", "finishWrite", "enqueue"} =>
              r \in [op : {"completeWrite", "finishCheck", "finishWrite", "enqueue"},
                     trip : Trip]
         /\ r.op = "cancelOrderWrite" =>
              r \in [op : {"cancelOrderWrite"}, order : Order]
         /\ r.op = "trackWrite" =>
              r \in [op : {"trackWrite"}, order : Order, status : OrderStatus,
                     trip : Trip \cup {NoTrip}]
BY DEF Task, Idle

\* Every trip has finitely many stops: their ids are distinct and bounded.
LEMMA StopsFinite ==
  ASSUME TypeOK, StopIds, NEW t \in Trip
  PROVE  IsFiniteSet(stops[t])
<1> DEFINE f == [s \in stops[t] |-> s.id]
<1>1. lastStop[t] \in Int
  BY DEF TypeOK
<1>2. f \in Injection(stops[t], 1..lastStop[t])
  BY DEF StopIds, Injection, IsInjective
<1>3. IsFiniteSet(1..lastStop[t])
  BY <1>1, FS_Interval
<1> QED
  BY <1>2, <1>3, FS_Injection

\* So are the stops a request has read to number them.
LEMMA RowsFinite ==
  ASSUME TypeOK, NEW h \in Handler, task[h].op = "optimizeWrite", RowsRead(task[h])
  PROVE  /\ task[h].trip \in Trip
         /\ task[h].rows \in SUBSET Stop
         /\ IsFiniteSet(task[h].rows)
<1> DEFINE rows == task[h].rows
           last == lastStop[task[h].trip]
           f == [s \in rows |-> s.id]
<1>1. task[h].trip \in Trip /\ rows \in SUBSET Stop
  BY TaskShape DEF TypeOK
<1>2. last \in Int
  BY <1>1 DEF TypeOK
<1>3. f \in Injection(rows, 1..last)
  BY DEF RowsRead, Injection, IsInjective
<1>4. IsFiniteSet(1..last)
  BY <1>2, FS_Interval
<1> QED
  BY <1>1, <1>3, <1>4, FS_Injection

\* The orders on a trip's stops are orders.
LEMMA StopOrdersType ==
  ASSUME TypeOK, NEW t \in Trip
  PROVE  StopOrders(t) \subseteq Order
BY DEF TypeOK, Stop, StopOrders

\* The stops of a plan that a new trip gets.
LEMMA PlannedStopsFacts ==
  ASSUME NEW p \in Plans, NEW V \in SUBSET Order
  PROVE  /\ PlannedStops(p, V) \in SUBSET Stop
         /\ Len(p.stops) \in Nat
         /\ \A s \in PlannedStops(p, V) : s.id \in 1..Len(p.stops)
         /\ \A s, r \in PlannedStops(p, V) : s.id = r.id \/ s.seq = r.seq => s = r
         /\ \A o \in V \cap p.orders : \E s \in PlannedStops(p, V) : s.order = o
<1>1. /\ p.stops \in Seq(Order \cup {NoOrder})
      /\ \A o \in p.orders : \E i \in DOMAIN p.stops : p.stops[i] = o
  BY PlanAssumption
<1>2. /\ DOMAIN p.stops = 1..Len(p.stops)
      /\ Len(p.stops) \in Nat
      /\ \A i \in 1..Len(p.stops) : p.stops[i] \in Order \cup {NoOrder}
  BY <1>1
<1>3. \A s \in PlannedStops(p, V) :
        /\ s.id \in 1..Len(p.stops)
        /\ s = [id |-> s.id, order |-> p.stops[s.id], seq |-> s.id]
  BY <1>2 DEF PlannedStops
<1>4. PlannedStops(p, V) \in SUBSET Stop
  BY <1>2 DEF PlannedStops, Stop
<1>5. ASSUME NEW o \in V \cap p.orders
      PROVE  \E s \in PlannedStops(p, V) : s.order = o
  <2>1. PICK i \in DOMAIN p.stops : p.stops[i] = o
    BY <1>1
  <2>2. [id |-> i, order |-> p.stops[i], seq |-> i] \in PlannedStops(p, V)
    BY <2>1 DEF PlannedStops
  <2> QED
    BY <2>1, <2>2
<1>6. ASSUME NEW s \in PlannedStops(p, V), NEW r \in PlannedStops(p, V),
             s.id = r.id \/ s.seq = r.seq
      PROVE  s = r
  <2>1. s.id = r.id
    BY <1>3, <1>6
  <2> QED
    BY <1>3, <2>1
<1> QED
  BY <1>2, <1>3, <1>4, <1>5, <1>6

\* The lists that are put on a trip name no order twice.
OrderList == {l \in Seq(Order) : \A i, j \in DOMAIN l : l[i] = l[j] => i = j}

\* Both callers of LoadOnTrip pass such a list: a request's, and one order.
LEMMA OrderLists == AddLists \subseteq OrderList /\ \A o \in Order : <<o>> \in OrderList
BY AddListAssumption DEF OrderList

\* The stops that adding orders gives a trip.
LEMMA AddedStopsFacts ==
  ASSUME TypeOK, NEW t \in Trip, NEW l \in OrderList, NEW n \in Nat
  PROVE  /\ AddedStops(t, l, n) \in SUBSET Stop
         /\ Len(l) \in Nat
         /\ \A s \in AddedStops(t, l, n) : s.id \in lastStop[t] + 1 .. lastStop[t] + Len(l)
         /\ \A s, r \in AddedStops(t, l, n) : s.id = r.id \/ s.seq = r.seq => s = r
         /\ \A i \in DOMAIN l : \E s \in AddedStops(t, l, n) : s.order = l[i]
<1>1. l \in Seq(Order)
  BY DEF OrderList
<1>2. /\ DOMAIN l = 1..Len(l)
      /\ Len(l) \in Nat
      /\ \A i \in 1..Len(l) : l[i] \in Order
  BY <1>1
<1>3. lastStop[t] \in Nat
  BY DEF TypeOK
<1> DEFINE stop(i) == [id |-> lastStop[t] + i, order |-> l[i], seq |-> n + i]
<1>4. AddedStops(t, l, n) = {stop(i) : i \in 1..Len(l)}
  BY <1>2 DEF AddedStops
<1>5. ASSUME NEW i \in 1..Len(l)
      PROVE  /\ stop(i) \in Stop
             /\ stop(i).id \in lastStop[t] + 1 .. lastStop[t] + Len(l)
             /\ stop(i).order = l[i]
  BY <1>2, <1>3 DEF Stop
<1>6. ASSUME NEW i \in 1..Len(l), NEW j \in 1..Len(l),
             stop(i).id = stop(j).id \/ stop(i).seq = stop(j).seq
      PROVE  i = j
  BY <1>2, <1>3, <1>6
<1> HIDE DEF stop
<1> QED
  BY <1>2, <1>4, <1>5, <1>6

\* Renumbering gives the stops new numbers and nothing else.
LEMMA RenumberedFacts ==
  ASSUME NEW S \in SUBSET Stop, IsFiniteSet(S)
  PROVE  /\ Renumbered(S) \in SUBSET Stop
         /\ \A s \in S : \E r \in Renumbered(S) : r.id = s.id /\ r.order = s.order
         /\ \A r \in Renumbered(S) : \E s \in S : r.id = s.id /\ r.order = s.order
         /\ (\A s, r \in S : s.id = r.id => s = r) =>
              (\A s, r \in Renumbered(S) : s.id = r.id => s = r)
<1> DEFINE rank(s) == Cardinality({r \in S : r.seq <= s.seq})
<1>1. ASSUME NEW s \in S
      PROVE  rank(s) \in Nat
  <2>1. IsFiniteSet({r \in S : r.seq <= s.seq})
    BY FS_Subset
  <2> QED
    BY <2>1, FS_CardinalityType
<1> DEFINE new(s) == [s EXCEPT !.seq = rank(s)]
<1>2. Renumbered(S) = {new(s) : s \in S}
  BY DEF Renumbered
<1>3. ASSUME NEW s \in S
      PROVE  new(s) \in Stop /\ new(s).id = s.id /\ new(s).order = s.order
  BY <1>1 DEF Stop
<1> HIDE DEF new
<1> QED
  BY <1>2, <1>3

-------------------------------------------------------------------------------
(***************************************************************************)
(* Type correctness.  Only what renumbers stops needs more than types: it  *)
(* counts stops, so they have to be finite.                                *)
(***************************************************************************)

\* The initial state is well typed.
LEMMA InitType == Init => TypeOK
BY DEF Init, TypeOK, Task, Idle, OrderStatus, TripStatus

\* Putting orders on a trip keeps the types of what it writes.
LEMMA LoadType ==
  ASSUME TypeOK, NEW t \in Trip, NEW l \in OrderList, NEW n \in Nat, LoadOnTrip(t, l, n)
  PROVE  /\ order' \in [Order -> [status : OrderStatus, trip : Trip \cup {NoTrip},
                                  atHub : BOOLEAN, deleted : BOOLEAN]]
         /\ stops' \in [Trip -> SUBSET Stop]
         /\ lastStop' \in [Trip -> Nat]
<1>1. AddedStops(t, l, n) \in SUBSET Stop /\ Len(l) \in Nat
  BY AddedStopsFacts
<1>2. \A o \in Order :
        [order[o] EXCEPT !.status = "ASSIGNED", !.trip = t]
          \in [status : OrderStatus, trip : Trip \cup {NoTrip},
              atHub : BOOLEAN, deleted : BOOLEAN]
  BY DEF TypeOK, OrderStatus
<1>3. lastStop[t] + Len(l) \in Nat
  BY <1>1 DEF TypeOK
<1>4. order' \in [Order -> [status : OrderStatus, trip : Trip \cup {NoTrip},
                           atHub : BOOLEAN, deleted : BOOLEAN]]
  BY <1>2 DEF LoadOnTrip, TypeOK
<1>5. stops' \in [Trip -> SUBSET Stop] /\ lastStop' \in [Trip -> Nat]
  BY <1>1, <1>3 DEF LoadOnTrip, TypeOK
<1> QED
  BY <1>4, <1>5

\* Every step keeps the types, given that stop ids are bounded.
LEMMA TypeStep ==
  ASSUME TypeOK, StopIds, \A h \in Handler : RowsRead(task[h]), [Next]_vars
  PROVE  TypeOK'
<1> USE DEF TypeOK, Begin, Continue, Finish
<1>a. Idle \in Task
  BY DEF Task
<1>1. ASSUME NEW h \in Handler, NEW p \in Plans, CreateBegin(h, p)
      PROVE  TypeOK'
  <2>1. [op |-> "createRequery", plan |-> p] \in Task
    BY DEF Task
  <2> QED
    BY <1>1, <2>1 DEF CreateBegin
<1>2. ASSUME NEW h \in Handler, CreateRequery(h)
      PROVE  TypeOK'
  <2> DEFINE valid == {o \in task[h].plan.orders : Dispatchable(o)}
  <2>1. task[h].plan \in Plans
    BY <1>2, TaskShape DEF CreateRequery
  <2>2. valid \in SUBSET Order
    BY <2>1, PlanAssumption
  <2>3. [op |-> "createWrite", plan |-> task[h].plan, valid |-> valid] \in Task
    BY <2>1, <2>2 DEF Task
  <2> QED
    BY <1>2, <1>a, <2>3 DEF CreateRequery
<1>3. ASSUME NEW h \in Handler, CreateWrite(h)
      PROVE  TypeOK'
  <2>0. task[h] \in Task /\ task[h].op = "createWrite"
    BY <1>3 DEF CreateWrite
  <2>1. task[h].plan \in Plans /\ task[h].valid \in SUBSET Order
    BY <2>0, TaskShape
  <2>2. /\ PlannedStops(task[h].plan, task[h].valid) \in SUBSET Stop
        /\ Len(task[h].plan.stops) \in Nat
    BY <2>1, PlannedStopsFacts
  <2>3. \A o \in Order, t \in Trip :
          [order[o] EXCEPT !.status = "ASSIGNED", !.trip = t]
            \in [status : OrderStatus, trip : Trip \cup {NoTrip},
                atHub : BOOLEAN, deleted : BOOLEAN]
    BY DEF OrderStatus
  <2>4. PICK t \in Trip :
          /\ trip' = [trip EXCEPT ![t] = "PENDING"]
          /\ stops' = [stops EXCEPT ![t] = PlannedStops(task[h].plan, task[h].valid)]
          /\ lastStop' = [lastStop EXCEPT ![t] = Len(task[h].plan.stops)]
          /\ order' = [o \in Order |->
               IF o \in task[h].valid /\ Loadable(o)
               THEN [order[o] EXCEPT !.status = "ASSIGNED", !.trip = t]
               ELSE order[o]]
    BY <1>3 DEF CreateWrite
  <2>5. order' \in [Order -> [status : OrderStatus, trip : Trip \cup {NoTrip},
                             atHub : BOOLEAN, deleted : BOOLEAN]]
    BY <2>3, <2>4
  <2>6. /\ trip' \in [Trip -> TripStatus \cup {"NONE"}]
        /\ stops' \in [Trip -> SUBSET Stop]
        /\ lastStop' \in [Trip -> Nat]
    BY <2>2, <2>4 DEF TripStatus
  <2> QED
    BY <1>3, <1>a, <2>5, <2>6 DEF CreateWrite
<1>4. ASSUME NEW h \in Handler, NEW t \in Trip, NEW l \in AddLists, AddBegin(h, t, l)
      PROVE  TypeOK'
  <2>1. PICK n \in {s.seq : s \in stops[t]} \cup {0} :
          task' = [task EXCEPT ![h] = [op |-> "addCheck", trip |-> t, list |-> l,
                                       last |-> n]]
    BY <1>4 DEF AddBegin
  <2>2. n \in Nat
    BY DEF Stop
  <2>3. [op |-> "addCheck", trip |-> t, list |-> l, last |-> n] \in Task
    BY <2>2 DEF Task
  <2> QED
    BY <1>4, <2>1, <2>3 DEF AddBegin
<1>5. ASSUME NEW h \in Handler, AddCheck(h)
      PROVE  TypeOK'
  <2>1. task[h] \in [op : {"addCheck", "addWrite"}, trip : Trip, list : AddLists,
                     last : Nat]
    BY <1>5, TaskShape DEF AddCheck
  <2>2. [task[h] EXCEPT !.op = "addWrite"] \in Task
    BY <2>1 DEF Task
  <2> QED
    BY <1>5, <1>a, <2>2 DEF AddCheck
<1>6. ASSUME NEW h \in Handler, AddWrite(h)
      PROVE  TypeOK'
  <2>0. task[h] \in Task /\ task[h].op = "addWrite"
    BY <1>6 DEF AddWrite
  <2>1. task[h].trip \in Trip /\ task[h].list \in OrderList /\ task[h].last \in Nat
    BY <2>0, TaskShape, OrderLists
  <2>2. CASE UNCHANGED <<order, stops, lastStop>>
    BY <1>6, <1>a, <2>2 DEF AddWrite
  <2>3. CASE LoadOnTrip(task[h].trip, task[h].list, task[h].last)
    BY <1>6, <1>a, <2>1, <2>3, LoadType DEF AddWrite
  <2> QED
    BY <1>6, <2>2, <2>3 DEF AddWrite
<1>22. ASSUME NEW h \in Handler, NEW o \in Order, AssignBegin(h, o)
       PROVE  TypeOK'
  <2>1. [op |-> "assignPick", order |-> o] \in Task
    BY DEF Task
  <2> QED
    BY <1>22, <2>1 DEF AssignBegin
<1>23. ASSUME NEW h \in Handler, NEW t \in Trip, AssignPick(h, t)
       PROVE  TypeOK'
  <2>1. task[h].order \in Order
    BY <1>23, TaskShape DEF AssignPick
  <2>2. PICK n \in {s.seq : s \in stops[t]} \cup {0} :
          task' = [task EXCEPT ![h] = [op |-> "assignWrite", trip |-> t,
                                       order |-> task[h].order, last |-> n]]
    BY <1>23 DEF AssignPick
  <2>3. n \in Nat
    BY DEF Stop
  <2>4. [op |-> "assignWrite", trip |-> t, order |-> task[h].order, last |-> n] \in Task
    BY <2>1, <2>3 DEF Task
  <2> QED
    BY <1>23, <2>2, <2>4 DEF AssignPick
<1>24. ASSUME NEW h \in Handler, AssignReject(h)
       PROVE  TypeOK'
  BY <1>24, <1>a DEF AssignReject
<1>25. ASSUME NEW h \in Handler, AssignWrite(h)
       PROVE  TypeOK'
  <2>0. task[h] \in Task /\ task[h].op = "assignWrite"
    BY <1>25 DEF AssignWrite
  <2>1. /\ task[h].trip \in Trip
        /\ <<task[h].order>> \in OrderList
        /\ task[h].last \in Nat
    BY <2>0, TaskShape, OrderLists
  <2>2. CASE UNCHANGED <<order, stops, lastStop>>
    BY <1>25, <1>a, <2>2 DEF AssignWrite
  <2>3. CASE LoadOnTrip(task[h].trip, <<task[h].order>>, task[h].last)
    BY <1>25, <1>a, <2>1, <2>3, LoadType DEF AssignWrite
  <2> QED
    BY <1>25, <2>2, <2>3 DEF AssignWrite
<1>7. ASSUME NEW h \in Handler, NEW t \in Trip, NEW s \in stops[t], RemoveBegin(h, t, s)
      PROVE  TypeOK'
  <2>1. [op |-> "removeWrite", trip |-> t, order |-> s.order, stop |-> s.id] \in Task
    BY <1>7 DEF RemoveBegin, Task, Stop
  <2> QED
    BY <1>7, <2>1 DEF RemoveBegin
<1>8. ASSUME NEW h \in Handler, RemoveWrite(h)
      PROVE  TypeOK'
  <2>1. task[h].trip \in Trip /\ task[h].order \in Order
    BY <1>8, TaskShape DEF RemoveWrite
  <2> DEFINE rest == {s \in stops[task[h].trip] : s.id # task[h].stop}
  <2>2. Renumbered(rest) \in SUBSET Stop
    <3>1. IsFiniteSet(rest)
      BY <2>1, StopsFinite, FS_Subset
    <3> QED
      BY <2>1, <3>1, RenumberedFacts
  <2>3. \A r \in [status : OrderStatus, trip : Trip \cup {NoTrip},
                  atHub : BOOLEAN, deleted : BOOLEAN] :
          Released(r) \in [status : OrderStatus, trip : Trip \cup {NoTrip},
                          atHub : BOOLEAN, deleted : BOOLEAN]
    BY DEF Released, OrderStatus
  <2> QED
    BY <1>8, <1>a, <2>1, <2>2, <2>3 DEF RemoveWrite, TripStatus
<1>26. ASSUME NEW h \in Handler, NEW t \in Trip, OptimizeBegin(h, t)
       PROVE  TypeOK'
  <2>1. [op |-> "optimizeWrite", trip |-> t, rows |-> stops[t]] \in Task
    BY DEF Task
  <2> QED
    BY <1>26, <2>1 DEF OptimizeBegin
<1>27. ASSUME NEW h \in Handler, OptimizeWrite(h)
       PROVE  TypeOK'
  <2>1. task[h].op = "optimizeWrite"
    BY <1>27 DEF OptimizeWrite
  <2>2. /\ task[h].trip \in Trip
        /\ task[h].rows \in SUBSET Stop
        /\ IsFiniteSet(task[h].rows)
    BY <2>1, RowsFinite
  <2>3. Renumbered(task[h].rows) \in SUBSET Stop
    BY <2>2, RenumberedFacts
  <2>4. Optimized(task[h].trip, task[h].rows) \in SUBSET Stop
    BY <2>2, <2>3 DEF Optimized
  <2> QED
    BY <1>27, <1>a, <2>2, <2>4 DEF OptimizeWrite
<1>9. ASSUME NEW h \in Handler, NEW t \in Trip, StartBegin(h, t) \/ CancelTripBegin(h, t)
      PROVE  TypeOK'
  <2>1. StopOrders(t) \in SUBSET Order
    BY StopOrdersType
  <2>2. /\ [op |-> "startWrite", trip |-> t, orders |-> StopOrders(t)] \in Task
        /\ [op |-> "cancelTripWrite", trip |-> t, orders |-> StopOrders(t)] \in Task
    BY <2>1 DEF Task
  <2> QED
    BY <1>9, <2>2 DEF StartBegin, CancelTripBegin
<1>10. ASSUME NEW h \in Handler, StartWrite(h) \/ CancelTripWrite(h)
       PROVE  TypeOK'
  <2>1. task[h].trip \in Trip
    BY <1>10, TaskShape DEF StartWrite, CancelTripWrite
  <2>2. order' \in [Order -> [status : OrderStatus, trip : Trip \cup {NoTrip},
                              atHub : BOOLEAN, deleted : BOOLEAN]]
    <3>1. \A o \in Order :
            /\ [order[o] EXCEPT !.status = "IN_TRANSIT"]
                 \in [status : OrderStatus, trip : Trip \cup {NoTrip},
                     atHub : BOOLEAN, deleted : BOOLEAN]
            /\ Released(order[o]) \in [status : OrderStatus, trip : Trip \cup {NoTrip},
                                      atHub : BOOLEAN, deleted : BOOLEAN]
      BY DEF Released, OrderStatus
    <3>2. CASE StartWrite(h)
      BY <3>1, <3>2 DEF StartWrite
    <3>3. CASE CancelTripWrite(h)
      BY <3>1, <3>3 DEF CancelTripWrite
    <3> QED
      BY <1>10, <3>2, <3>3
  <2> QED
    BY <1>10, <1>a, <2>1, <2>2 DEF StartWrite, CancelTripWrite, TripStatus
<1>11. ASSUME NEW h \in Handler, NEW t \in Trip, CompleteBegin(h, t)
       PROVE  TypeOK'
  BY <1>11 DEF CompleteBegin, Task
<1>12. ASSUME NEW h \in Handler, CompleteWrite(h) \/ Enqueue(h) \/ FinishCheck(h)
       PROVE  TypeOK'
  <2>1. task[h].trip \in Trip
    BY <1>12, TaskShape DEF CompleteWrite, Enqueue, FinishCheck
  <2>2. [op |-> "finishWrite", trip |-> task[h].trip] \in Task
    BY <2>1 DEF Task
  <2> QED
    BY <1>12, <1>a, <2>1, <2>2 DEF CompleteWrite, Enqueue, FinishCheck, TripStatus
<1>13. ASSUME NEW h \in Handler, FinishWrite(h)
       PROVE  TypeOK'
  <2>1. task[h] \in [op : {"completeWrite", "finishCheck", "finishWrite", "enqueue"},
                     trip : Trip]
    BY <1>13, TaskShape DEF FinishWrite
  <2>2. [task[h] EXCEPT !.op = "enqueue"] \in Task
    BY <2>1 DEF Task
  <2> QED
    BY <1>13, <2>1, <2>2 DEF FinishWrite, TripStatus
<1>14. ASSUME NEW h \in Handler, NEW o \in Order, CancelOrderBegin(h, o) \/ TrackNote(h, o)
       PROVE  TypeOK'
  <2>1. [op |-> "cancelOrderWrite", order |-> o] \in Task
    BY DEF Task
  <2>2. order[o].trip # NoTrip => [op |-> "finishCheck", trip |-> order[o].trip] \in Task
    BY DEF Task
  <2> QED
    BY <1>14, <2>1, <2>2 DEF CancelOrderBegin, TrackNote
<1>15. ASSUME NEW h \in Handler, CancelOrderWrite(h)
       PROVE  TypeOK'
  <2>1. task[h].order \in Order
    BY <1>15, TaskShape DEF CancelOrderWrite
  <2> QED
    BY <1>15, <1>a, <2>1 DEF CancelOrderWrite, OrderStatus
<1>16. ASSUME NEW h \in Handler, NEW o \in Order, NEW s \in OrderStatus, TrackBegin(h, o, s)
       PROVE  TypeOK'
  <2>1. [op |-> "trackWrite", order |-> o, status |-> s, trip |-> order[o].trip] \in Task
    BY DEF Task
  <2> QED
    BY <1>16, <2>1 DEF TrackBegin
<1>17. ASSUME NEW h \in Handler, TrackWrite(h)
       PROVE  TypeOK'
  <2>1. /\ task[h].order \in Order
        /\ task[h].status \in OrderStatus
        /\ task[h].trip \in Trip \cup {NoTrip}
    BY <1>17, TaskShape DEF TrackWrite
  <2>2. task[h].trip # NoTrip => [op |-> "finishCheck", trip |-> task[h].trip] \in Task
    BY <2>1 DEF Task
  <2>3. Tracked(order[task[h].order], task[h].status)
          \in [status : OrderStatus, trip : Trip \cup {NoTrip},
              atHub : BOOLEAN, deleted : BOOLEAN]
    BY <2>1 DEF Tracked
  <2> QED
    BY <1>17, <1>a, <2>1, <2>2, <2>3 DEF TrackWrite
<1>18. ASSUME NEW h \in Handler, Crash(h)
       PROVE  TypeOK'
  BY <1>18, <1>a DEF Crash
<1>19. ASSUME NEW o \in Order, NEW s \in OrderStatus, PutStatus(o, s)
       PROVE  TypeOK'
  BY <1>19 DEF PutStatus
<1>20. ASSUME NEW o \in Order, DeleteOrder(o) \/ PaymentSucceeded(o) \/ PaymentFailed(o)
       PROVE  TypeOK'
  BY <1>20 DEF DeleteOrder, PaymentSucceeded, PaymentFailed
<1>21. ASSUME UNCHANGED vars
       PROVE  TypeOK'
  BY <1>21 DEF vars
<1> QED
  BY <1>1, <1>2, <1>3, <1>4, <1>5, <1>6, <1>7, <1>8, <1>9, <1>10, <1>11, <1>12, <1>13,
     <1>14, <1>15, <1>16, <1>17, <1>18, <1>19, <1>20, <1>21, <1>22, <1>23, <1>24, <1>25,
     <1>26, <1>27 DEF Next, Proceed

-------------------------------------------------------------------------------
(***************************************************************************)
(* The inductive invariant.  Most steps leave the stops alone and at most  *)
(* take orders off trips; creation, adding and removing are the others.    *)
(***************************************************************************)

\* The inductive invariant holds initially: no trip has a row, no request runs.
LEMMA InitInv == Init => IInv
BY InitType DEF Init, IInv, StopIds, NoRowNoStops, OnBoardHasStop, Reliable, OnRow,
                ValidArePlanned, StopIsOfOrder, RowsRead, Idle

\* Stops only appear under new ids, and a trip that has a row keeps it.
RowsKept ==
  \A t \in Trip : trip[t] # "NONE" =>
    /\ trip'[t] # "NONE"
    /\ lastStop[t] <= lastStop'[t]
    /\ \A s \in stops'[t] :
         s.id > lastStop[t] \/ \E r \in stops[t] : r.id = s.id /\ r.order = s.order

\* So a request keeps what it relies on while others write.
LEMMA StaysReliable ==
  ASSUME TypeOK, TypeOK', RowsKept, NEW h \in Handler, Reliable(task[h]),
         task'[h] = task[h]
  PROVE  Reliable(task[h])'
<1>0. task[h] \in Task
  BY DEF TypeOK
<1>1. OnRow(task[h])'
  <2>1. ASSUME task[h].op \in {"addCheck", "addWrite", "assignWrite", "removeWrite",
                              "optimizeWrite", "startWrite", "cancelTripWrite",
                              "completeWrite", "finishCheck", "finishWrite", "enqueue"}
        PROVE  trip'[task[h].trip] # "NONE"
    <3>1. task[h].trip \in Trip
      BY <1>0, <2>1, TaskShape
    <3> QED
      BY <2>1, <3>1 DEF RowsKept, Reliable, OnRow
  <2>2. ASSUME task[h].op = "trackWrite", task[h].trip # NoTrip
        PROVE  trip'[task[h].trip] # "NONE"
    <3>1. task[h].trip \in Trip
      BY <1>0, <2>2, TaskShape
    <3> QED
      BY <2>2, <3>1 DEF RowsKept, Reliable, OnRow
  <2> QED
    BY <2>1, <2>2 DEF OnRow
<1>2. ValidArePlanned(task[h])'
  BY DEF Reliable, ValidArePlanned
<1>3. StopIsOfOrder(task[h])'
  <2> SUFFICES ASSUME task[h].op = "removeWrite"
               PROVE  /\ task[h].stop <= lastStop'[task[h].trip]
                      /\ \A s \in stops'[task[h].trip] :
                           s.id = task[h].stop => s.order = task[h].order
    BY DEF StopIsOfOrder
  <2>1. task[h].trip \in Trip /\ task[h].stop \in Nat
    BY <1>0, TaskShape
  <2>2. /\ task[h].stop <= lastStop[task[h].trip]
        /\ \A s \in stops[task[h].trip] : s.id = task[h].stop => s.order = task[h].order
        /\ trip[task[h].trip] # "NONE"
    BY DEF Reliable, StopIsOfOrder, OnRow
  <2>3. /\ lastStop[task[h].trip] \in Nat /\ lastStop'[task[h].trip] \in Nat
        /\ \A s \in stops'[task[h].trip] : s.id \in Nat
    BY <2>1 DEF TypeOK, Stop
  <2> QED
    BY <2>1, <2>2, <2>3 DEF RowsKept
<1>4. RowsRead(task[h])'
  <2> SUFFICES ASSUME task[h].op = "optimizeWrite"
               PROVE  /\ \A s \in task[h].rows : s.id \in 1..lastStop'[task[h].trip]
                      /\ \A s, u \in task[h].rows : s.id = u.id => s = u
                      /\ \A s \in stops'[task[h].trip], u \in task[h].rows :
                           s.id = u.id => s.order = u.order
    BY DEF RowsRead
  <2>1. task[h].trip \in Trip
    BY <1>0, TaskShape
  <2>2. /\ \A s \in task[h].rows : s.id \in 1..lastStop[task[h].trip]
        /\ \A s, u \in task[h].rows : s.id = u.id => s = u
        /\ \A s \in stops[task[h].trip], u \in task[h].rows :
             s.id = u.id => s.order = u.order
        /\ trip[task[h].trip] # "NONE"
    BY DEF Reliable, RowsRead, OnRow
  <2>3. /\ lastStop[task[h].trip] \in Nat /\ lastStop'[task[h].trip] \in Nat
        /\ \A s \in stops'[task[h].trip] : s.id \in Nat
    BY <2>1 DEF TypeOK, Stop
  <2> QED
    BY <2>1, <2>2, <2>3 DEF RowsKept
<1> QED
  BY <1>1, <1>2, <1>3, <1>4 DEF Reliable

\* The steps that leave the stops alone.
LEMMA QuietStep ==
  ASSUME IInv, TypeOK', UNCHANGED <<stops, lastStop>>,
         \A o \in Order : order'[o].trip \in {order[o].trip, NoTrip},
         \A t \in Trip : trip'[t] = "NONE" <=> trip[t] = "NONE",
         \A h \in Handler : task'[h] = task[h] \/ Reliable(task[h])'
  PROVE  IInv'
<1>1. RowsKept
  BY DEF IInv, TypeOK, RowsKept
<1>2. ASSUME NEW h \in Handler
      PROVE  Reliable(task[h])'
  BY <1>1, <1>2, StaysReliable DEF IInv
<1>3. StopIds' /\ NoRowNoStops' /\ OnBoardHasStop'
  BY DEF IInv, StopIds, NoRowNoStops, OnBoardHasStop, StopOrders
<1> QED
  BY <1>2, <1>3 DEF IInv

\* createTripWithStops gives the new trip a stop for every order it loads.
LEMMA CreateWriteInv ==
  ASSUME IInv, TypeOK', NEW h \in Handler, CreateWrite(h)
  PROVE  IInv'
<1>0. task[h] \in Task /\ task[h].op = "createWrite"
  BY DEF IInv, TypeOK, CreateWrite, Continue
<1>1. /\ task[h].plan \in Plans
      /\ task[h].valid \in SUBSET Order
      /\ task[h].valid \subseteq task[h].plan.orders
  BY <1>0, TaskShape DEF IInv, Reliable, ValidArePlanned
<1> DEFINE new == PlannedStops(task[h].plan, task[h].valid)
           n == Len(task[h].plan.stops)
<1>2. PICK t \in Trip :
        /\ trip[t] = "NONE"
        /\ trip' = [trip EXCEPT ![t] = "PENDING"]
        /\ stops' = [stops EXCEPT ![t] = new]
        /\ lastStop' = [lastStop EXCEPT ![t] = n]
        /\ order' = [o \in Order |->
             IF o \in task[h].valid /\ Loadable(o)
             THEN [order[o] EXCEPT !.status = "ASSIGNED", !.trip = t]
             ELSE order[o]]
  BY DEF CreateWrite
<1>3. /\ \A s \in new : s.id \in 1..n
      /\ \A s, r \in new : s.id = r.id => s = r
      /\ \A o \in task[h].valid : \E s \in new : s.order = o
      /\ n \in Nat
  BY <1>1, PlannedStopsFacts
<1> HIDE DEF new, n
<1>4. \A u \in Trip : u # t =>
        /\ stops'[u] = stops[u]
        /\ lastStop'[u] = lastStop[u]
        /\ trip'[u] = trip[u]
  BY <1>2 DEF IInv, TypeOK
<1>5. stops'[t] = new /\ lastStop'[t] = n /\ trip'[t] = "PENDING"
  BY <1>2 DEF IInv, TypeOK
<1>6. StopIds'
  BY <1>3, <1>4, <1>5 DEF IInv, StopIds
<1>7. NoRowNoStops'
  BY <1>4, <1>5 DEF IInv, NoRowNoStops
<1>8. OnBoardHasStop'
  <2> SUFFICES ASSUME NEW o \in Order, order'[o].trip # NoTrip
               PROVE  \E s \in stops'[order'[o].trip] : s.order = o /\ o # NoOrder
    BY DEF OnBoardHasStop, StopOrders
  <2>0. o # NoOrder
    BY OrderAssumption
  <2>1. CASE o \in task[h].valid /\ Loadable(o)
    <3>1. order'[o].trip = t
      <4>1. order'[o] = [order[o] EXCEPT !.status = "ASSIGNED", !.trip = t]
        BY <1>2, <2>1
      <4>2. order[o] \in [status : OrderStatus, trip : Trip \cup {NoTrip},
                         atHub : BOOLEAN, deleted : BOOLEAN]
        BY DEF IInv, TypeOK
      <4> QED
        BY <4>1, <4>2
    <3> QED
      BY <1>3, <1>5, <2>0, <2>1, <3>1
  <2>2. CASE ~(o \in task[h].valid /\ Loadable(o))
    <3>1. order'[o] = order[o]
      BY <1>2, <2>2
    <3>2. PICK s \in stops[order[o].trip] : s.order = o
      BY <3>1 DEF IInv, OnBoardHasStop, StopOrders
    <3>3. order[o].trip \in Trip /\ order[o].trip # t
      <4>1. stops[t] = {}
        BY <1>2 DEF IInv, NoRowNoStops
      <4>2. order[o].trip \in Trip
        BY <3>1 DEF IInv, TypeOK
      <4> QED
        BY <3>2, <4>1, <4>2
    <3> QED
      BY <1>4, <2>0, <3>1, <3>2, <3>3
  <2> QED
    BY <2>1, <2>2
<1>9. RowsKept
  <2>1. \A u \in Trip : lastStop[u] \in Nat
    BY DEF IInv, TypeOK
  <2>2. \A u \in Trip : trip[u] # "NONE" => u # t
    BY <1>2
  <2> QED
    BY <1>4, <2>1, <2>2 DEF RowsKept
<1>10. ASSUME NEW g \in Handler
       PROVE  Reliable(task[g])'
  <2>1. CASE g = h
    BY <2>1 DEF CreateWrite, Finish, IInv, TypeOK, Idle, Reliable, OnRow,
                ValidArePlanned, StopIsOfOrder, RowsRead
  <2>2. CASE g # h
    <3>1. task'[g] = task[g]
      BY <2>2 DEF CreateWrite, Finish, IInv, TypeOK
    <3> QED
      BY <1>9, <3>1, StaysReliable DEF IInv
  <2> QED
    BY <2>1, <2>2
<1> QED
  BY <1>6, <1>7, <1>8, <1>10 DEF IInv

\* Putting orders on a trip gives it a stop for every order it may load.
LEMMA LoadInv ==
  ASSUME IInv, TypeOK', NEW t \in Trip, trip[t] # "NONE", trip' = trip,
         NEW l \in OrderList, NEW n \in Nat, LoadOnTrip(t, l, n),
         \A g \in Handler : Reliable(task[g])' \/ task'[g] = task[g]
  PROVE  IInv'
<1> DEFINE new == AddedStops(t, l, n)
<1>0. /\ \A s \in new : s.id \in lastStop[t] + 1 .. lastStop[t] + Len(l)
      /\ \A s, r \in new : s.id = r.id => s = r
      /\ \A i \in DOMAIN l : \E s \in new : s.order = l[i]
      /\ Len(l) \in Nat
  BY AddedStopsFacts DEF IInv
<1>1. /\ stops' = [stops EXCEPT ![t] = @ \cup new]
      /\ lastStop' = [lastStop EXCEPT ![t] = @ + Len(l)]
      /\ order' = [o \in Order |->
           IF (\E i \in DOMAIN l : l[i] = o) /\ Dispatchable(o)
           THEN [order[o] EXCEPT !.status = "ASSIGNED", !.trip = t]
           ELSE order[o]]
  BY DEF LoadOnTrip
<1> HIDE DEF new
<1>2. \A u \in Trip : u # t => stops'[u] = stops[u] /\ lastStop'[u] = lastStop[u]
  BY <1>1 DEF IInv, TypeOK
<1>3. stops'[t] = stops[t] \cup new /\ lastStop'[t] = lastStop[t] + Len(l)
  BY <1>1 DEF IInv, TypeOK
<1>4. lastStop[t] \in Nat
  BY DEF IInv, TypeOK
<1>5. StopIds'
  <2>1. ASSUME NEW s \in stops'[t]
        PROVE  s.id \in 1..lastStop'[t]
    BY <1>0, <1>3, <1>4 DEF IInv, StopIds
  <2>2. ASSUME NEW s \in stops'[t], NEW r \in stops'[t], s.id = r.id
        PROVE  s = r
    BY <1>0, <1>3, <1>4, <2>2 DEF IInv, StopIds
  <2> QED
    BY <1>2, <2>1, <2>2 DEF IInv, StopIds
<1>6. NoRowNoStops'
  BY <1>2 DEF IInv, NoRowNoStops
<1>7. OnBoardHasStop'
  <2> SUFFICES ASSUME NEW o \in Order, order'[o].trip # NoTrip
               PROVE  \E s \in stops'[order'[o].trip] : s.order = o /\ o # NoOrder
    BY DEF OnBoardHasStop, StopOrders
  <2>0. o # NoOrder
    BY OrderAssumption
  <2>1. CASE (\E i \in DOMAIN l : l[i] = o) /\ Dispatchable(o)
    <3>1. order'[o].trip = t
      BY <1>1, <2>1 DEF IInv, TypeOK
    <3> QED
      BY <1>0, <1>3, <2>0, <2>1, <3>1
  <2>2. CASE ~((\E i \in DOMAIN l : l[i] = o) /\ Dispatchable(o))
    <3>1. order'[o] = order[o]
      BY <1>1, <2>2
    <3>2. PICK s \in stops[order[o].trip] : s.order = o
      BY <3>1 DEF IInv, OnBoardHasStop, StopOrders
    <3>3. order[o].trip \in Trip
      BY <3>1 DEF IInv, TypeOK
    <3> QED
      BY <1>2, <1>3, <2>0, <3>1, <3>2, <3>3
  <2> QED
    BY <2>1, <2>2
<1>8. RowsKept
  <2>1. \A s \in stops'[t] : s.id > lastStop[t] \/ s \in stops[t]
    BY <1>0, <1>3, <1>4
  <2>2. \A u \in Trip : lastStop[u] \in Nat
    BY DEF IInv, TypeOK
  <2> QED
    BY <1>0, <1>2, <1>3, <2>1, <2>2 DEF RowsKept
<1>9. ASSUME NEW g \in Handler
       PROVE  Reliable(task[g])'
  BY <1>8, <1>9, StaysReliable DEF IInv
<1> QED
  BY <1>5, <1>6, <1>7, <1>9 DEF IInv

\* addOrdersToTrip keeps the invariant: it loads its list, or nothing.
LEMMA AddWriteInv ==
  ASSUME IInv, TypeOK', NEW h \in Handler, AddWrite(h)
  PROVE  IInv'
<1>0. task[h] \in Task /\ task[h].op = "addWrite"
  BY DEF IInv, TypeOK, AddWrite, Continue
<1>1. /\ task[h].trip \in Trip /\ task[h].list \in OrderList /\ task[h].last \in Nat
      /\ trip[task[h].trip] # "NONE"
  BY <1>0, TaskShape, OrderLists DEF IInv, Reliable, OnRow
<1>2. task' = [task EXCEPT ![h] = Idle] /\ trip' = trip
  BY DEF AddWrite, Finish
<1>3. \A g \in Handler : Reliable(task[g])' \/ task'[g] = task[g]
  BY <1>2 DEF IInv, TypeOK, Idle, Reliable, OnRow, ValidArePlanned, StopIsOfOrder, RowsRead
<1>4. CASE UNCHANGED <<order, stops, lastStop>>
  BY <1>2, <1>3, <1>4, QuietStep
<1>5. CASE LoadOnTrip(task[h].trip, task[h].list, task[h].last)
  BY <1>1, <1>2, <1>3, <1>5, LoadInv
<1> QED
  BY <1>4, <1>5 DEF AddWrite

\* So does the approval of a driver's request.
LEMMA AssignWriteInv ==
  ASSUME IInv, TypeOK', NEW h \in Handler, AssignWrite(h)
  PROVE  IInv'
<1>0. task[h] \in Task /\ task[h].op = "assignWrite"
  BY DEF IInv, TypeOK, AssignWrite, Continue
<1>1. /\ task[h].trip \in Trip /\ <<task[h].order>> \in OrderList /\ task[h].last \in Nat
      /\ trip[task[h].trip] # "NONE"
  BY <1>0, TaskShape, OrderLists DEF IInv, Reliable, OnRow
<1>2. task' = [task EXCEPT ![h] = Idle] /\ trip' = trip
  BY DEF AssignWrite, Finish
<1>3. \A g \in Handler : Reliable(task[g])' \/ task'[g] = task[g]
  BY <1>2 DEF IInv, TypeOK, Idle, Reliable, OnRow, ValidArePlanned, StopIsOfOrder, RowsRead
<1>4. CASE UNCHANGED <<order, stops, lastStop>>
  BY <1>2, <1>3, <1>4, QuietStep
<1>5. CASE LoadOnTrip(task[h].trip, <<task[h].order>>, task[h].last)
  BY <1>1, <1>2, <1>3, <1>5, LoadInv
<1> QED
  BY <1>4, <1>5 DEF AssignWrite

\* Taking an order off a trip deletes no stop of another order.
LEMMA RemoveWriteInv ==
  ASSUME IInv, TypeOK', NEW h \in Handler, RemoveWrite(h)
  PROVE  IInv'
<1>0. task[h] \in Task /\ task[h].op = "removeWrite"
  BY DEF IInv, TypeOK, RemoveWrite, Continue
<1>1. /\ task[h].trip \in Trip /\ task[h].order \in Order
      /\ trip[task[h].trip] # "NONE"
      /\ \A s \in stops[task[h].trip] : s.id = task[h].stop => s.order = task[h].order
  BY <1>0, TaskShape DEF IInv, Reliable, OnRow, StopIsOfOrder
<1>2. /\ task' = [task EXCEPT ![h] = Idle]
      /\ lastStop' = lastStop
  BY DEF RemoveWrite, Finish
<1>3. \A g \in Handler : Reliable(task[g])' \/ task'[g] = task[g]
  BY <1>2 DEF IInv, TypeOK, Idle, Reliable, OnRow, ValidArePlanned, StopIsOfOrder, RowsRead
<1>4. CASE UNCHANGED <<order, trip, stops>>
  BY <1>2, <1>3, <1>4, QuietStep
<1>5. CASE ~ UNCHANGED <<order, trip, stops>>
  <2> DEFINE t == task[h].trip
             c == task[h].order
             rest == {s \in stops[t] : s.id # task[h].stop}
  <2>1. /\ order' = [order EXCEPT ![c] = Released(@)]
        /\ stops' = [stops EXCEPT ![t] = Renumbered(rest)]
        /\ trip' \in {trip, [trip EXCEPT ![t] = "CANCELLED"]}
    BY <1>5 DEF RemoveWrite
  <2>2. IsFiniteSet(rest) /\ rest \in SUBSET Stop
    <3>1. IsFiniteSet(stops[t])
      BY <1>1, StopsFinite DEF IInv
    <3> QED
      BY <1>1, <3>1, FS_Subset DEF IInv, TypeOK
  <2>3. /\ \A s \in rest : \E r \in Renumbered(rest) : r.id = s.id /\ r.order = s.order
        /\ \A r \in Renumbered(rest) : \E s \in rest : r.id = s.id /\ r.order = s.order
        /\ (\A s, r \in rest : s.id = r.id => s = r) =>
             (\A s, r \in Renumbered(rest) : s.id = r.id => s = r)
    BY <2>2, RenumberedFacts
  <2>4. /\ t \in Trip /\ c \in Order /\ trip[t] # "NONE"
        /\ rest \subseteq stops[t]
        /\ \A s \in stops[t] : s.order # c => s \in rest
    BY <1>1
  <2> HIDE DEF t, c, rest
  <2>5. /\ \A u \in Trip : u # t => stops'[u] = stops[u]
        /\ \A u \in Trip : trip'[u] = "NONE" <=> trip[u] = "NONE"
        /\ stops'[t] = Renumbered(rest)
    BY <2>1, <2>4 DEF IInv, TypeOK
  <2>6. StopIds'
    <3>1. \A s \in Renumbered(rest) : s.id \in 1..lastStop[t]
      BY <2>3, <2>4 DEF IInv, StopIds
    <3>2. \A s, r \in Renumbered(rest) : s.id = r.id => s = r
      BY <2>3, <2>4 DEF IInv, StopIds
    <3> QED
      BY <1>2, <2>5, <3>1, <3>2 DEF IInv, StopIds
  <2>7. NoRowNoStops'
    BY <2>4, <2>5 DEF IInv, NoRowNoStops
  <2>8. OnBoardHasStop'
    <3> SUFFICES ASSUME NEW o \in Order, order'[o].trip # NoTrip
                 PROVE  \E s \in stops'[order'[o].trip] : s.order = o /\ o # NoOrder
      BY DEF OnBoardHasStop, StopOrders
    <3>0. o # NoOrder
      BY OrderAssumption
    <3>1. o # c /\ order'[o] = order[o]
      BY <2>1, <2>4 DEF IInv, TypeOK, Released
    <3>2. PICK s \in stops[order[o].trip] : s.order = o
      BY <3>1 DEF IInv, OnBoardHasStop, StopOrders
    <3>3. order[o].trip \in Trip
      BY <3>1 DEF IInv, TypeOK
    <3>4. CASE order[o].trip = t
      <4>1. s \in rest
        BY <2>4, <3>1, <3>2, <3>4
      <4> QED
        BY <2>3, <2>5, <3>0, <3>1, <3>2, <3>4, <4>1
    <3>5. CASE order[o].trip # t
      BY <2>5, <3>0, <3>1, <3>2, <3>3, <3>5
    <3> QED
      BY <3>4, <3>5
  <2>9. RowsKept
    <3>1. \A s \in stops'[t] : \E r \in stops[t] : r.id = s.id /\ r.order = s.order
      BY <2>3, <2>4, <2>5
    <3>2. \A u \in Trip : lastStop[u] \in Nat
      BY DEF IInv, TypeOK
    <3> QED
      BY <1>2, <2>5, <3>1, <3>2 DEF RowsKept
  <2>10. ASSUME NEW g \in Handler
         PROVE  Reliable(task[g])'
    BY <1>3, <2>9, <2>10, StaysReliable DEF IInv
  <2> QED
    BY <2>6, <2>7, <2>8, <2>10 DEF IInv
<1> QED
  BY <1>4, <1>5

\* Route optimisation numbers stops and deletes none.
LEMMA OptimizeWriteInv ==
  ASSUME IInv, TypeOK', NEW h \in Handler, OptimizeWrite(h)
  PROVE  IInv'
<1>0. task[h].op = "optimizeWrite" /\ Reliable(task[h])
  BY DEF IInv, OptimizeWrite, Continue
<1>1. /\ task[h].trip \in Trip
      /\ task[h].rows \in SUBSET Stop
      /\ IsFiniteSet(task[h].rows)
  BY <1>0, RowsFinite DEF IInv, Reliable
<1>2. /\ task' = [task EXCEPT ![h] = Idle]
      /\ UNCHANGED <<order, trip, lastStop>>
  BY DEF OptimizeWrite, Finish
<1>3. \A g \in Handler : Reliable(task[g])' \/ task'[g] = task[g]
  BY <1>2 DEF IInv, TypeOK, Idle, Reliable, OnRow, ValidArePlanned, StopIsOfOrder, RowsRead
<1>4. CASE UNCHANGED stops
  BY <1>2, <1>3, <1>4, QuietStep DEF IInv, TypeOK
<1>5. CASE ~ UNCHANGED stops
  <2> DEFINE t == task[h].trip
             rows == task[h].rows
             others == {s \in stops[t] : \A r \in rows : r.id # s.id}
             new == others \cup Renumbered(rows)
  <2>1. /\ stops' = [stops EXCEPT ![t] = new]
        /\ \A r \in rows : \E s \in stops[t] : s.id = r.id
    BY <1>5 DEF OptimizeWrite, Optimized
  <2>2. /\ \A s \in rows : s.id \in 1..lastStop[t]
        /\ \A s, u \in rows : s.id = u.id => s = u
        /\ \A s \in stops[t], u \in rows : s.id = u.id => s.order = u.order
        /\ trip[t] # "NONE"
    BY <1>0 DEF Reliable, RowsRead, OnRow
  <2>3. /\ \A s \in rows : \E r \in Renumbered(rows) : r.id = s.id /\ r.order = s.order
        /\ \A r \in Renumbered(rows) : \E s \in rows : r.id = s.id /\ r.order = s.order
        /\ \A s, r \in Renumbered(rows) : s.id = r.id => s = r
    BY <1>1, <2>2, RenumberedFacts
  <2>4. /\ t \in Trip
        /\ others \subseteq stops[t]
        /\ \A s \in others, r \in rows : r.id # s.id
        /\ \A s \in stops[t] : s \in others \/ \E r \in rows : r.id = s.id
    BY <1>1
  <2>5. /\ new = others \cup Renumbered(rows)
        /\ \A u \in Trip : u # t => stops'[u] = stops[u]
        /\ stops'[t] = new
    BY <2>1, <2>4 DEF IInv, TypeOK
  <2> HIDE DEF t, rows, others, new
  \* What stands on the trip afterwards stood there before, and the reverse.
  <2>6. \A s \in new : \E r \in stops[t] : r.id = s.id /\ r.order = s.order
    BY <2>1, <2>2, <2>3, <2>4, <2>5
  <2>7. \A s \in stops[t] : \E r \in new : r.id = s.id /\ r.order = s.order
    BY <2>2, <2>3, <2>4, <2>5
  <2>8. \A s, r \in new : s.id = r.id => s = r
    <3>1. \A s, r \in others : s.id = r.id => s = r
      BY <2>4 DEF IInv, StopIds
    <3>2. \A s \in others, r \in Renumbered(rows) : s.id # r.id
      BY <2>3, <2>4
    <3> QED
      BY <2>3, <2>5, <3>1, <3>2
  <2>9. StopIds'
    <3>1. \A s \in new : s.id \in 1..lastStop[t]
      BY <2>4, <2>6 DEF IInv, StopIds
    <3> QED
      BY <1>2, <2>5, <2>8, <3>1 DEF IInv, StopIds
  <2>10. NoRowNoStops'
    BY <1>2, <2>2, <2>5 DEF IInv, NoRowNoStops
  <2>11. OnBoardHasStop'
    <3> SUFFICES ASSUME NEW o \in Order, order[o].trip # NoTrip
                 PROVE  \E s \in stops'[order[o].trip] : s.order = o /\ o # NoOrder
      BY <1>2 DEF OnBoardHasStop, StopOrders
    <3>1. o # NoOrder /\ order[o].trip \in Trip
      BY OrderAssumption DEF IInv, TypeOK
    <3>2. PICK s \in stops[order[o].trip] : s.order = o
      BY DEF IInv, OnBoardHasStop, StopOrders
    <3> QED
      BY <2>5, <2>7, <3>1, <3>2
  <2>12. RowsKept
    <3>1. \A u \in Trip : lastStop[u] \in Nat
      BY DEF IInv, TypeOK
    <3> QED
      BY <1>2, <2>5, <2>6, <3>1 DEF RowsKept
  <2>13. ASSUME NEW g \in Handler
         PROVE  Reliable(task[g])'
    BY <1>3, <2>12, <2>13, StaysReliable DEF IInv
  <2> QED
    BY <2>9, <2>10, <2>11, <2>13 DEF IInv
<1> QED
  BY <1>4, <1>5

\* Every step of every handler keeps the inductive invariant.
LEMMA InvStep ==
  ASSUME IInv, [Next]_vars
  PROVE  IInv'
<1>a. TypeOK'
  BY TypeStep DEF IInv, Reliable
<1>b. \A h \in Handler : task[h] \in Task
  BY DEF IInv, TypeOK
<1>1. ASSUME NEW h \in Handler, NEW p \in Plans, CreateBegin(h, p)
      PROVE  IInv'
  <2>1. Reliable(task[h])'
    BY <1>1 DEF CreateBegin, Begin, IInv, TypeOK, Reliable, OnRow, ValidArePlanned,
                StopIsOfOrder, RowsRead
  <2> QED
    BY <1>1, <1>a, <2>1, QuietStep DEF CreateBegin, Begin, IInv, TypeOK
<1>2. ASSUME NEW h \in Handler, CreateRequery(h)
      PROVE  IInv'
  <2>1. Reliable(task[h])'
    BY <1>2 DEF CreateRequery, Idle, IInv, TypeOK, Reliable, OnRow, ValidArePlanned,
                StopIsOfOrder, RowsRead
  <2> QED
    BY <1>2, <1>a, <2>1, QuietStep DEF CreateRequery, IInv, TypeOK
<1>3. ASSUME NEW h \in Handler, CreateWrite(h)
      PROVE  IInv'
  BY <1>3, <1>a, CreateWriteInv
<1>4. ASSUME NEW h \in Handler, NEW t \in Trip, NEW l \in AddLists, AddBegin(h, t, l)
      PROVE  IInv'
  <2>1. PICK n \in {s.seq : s \in stops[t]} \cup {0} :
          task' = [task EXCEPT ![h] = [op |-> "addCheck", trip |-> t, list |-> l,
                                       last |-> n]]
    BY <1>4 DEF AddBegin, Begin
  <2>2. Reliable(task[h])'
    BY <1>4, <2>1 DEF AddBegin, IInv, TypeOK, Reliable, OnRow, ValidArePlanned,
                      StopIsOfOrder, RowsRead
  <2> QED
    BY <1>4, <1>a, <2>1, <2>2, QuietStep DEF AddBegin, IInv, TypeOK
<1>5. ASSUME NEW h \in Handler, AddCheck(h)
      PROVE  IInv'
  <2>1. task[h] \in [op : {"addCheck", "addWrite"}, trip : Trip, list : AddLists,
                     last : Nat]
    BY <1>5, <1>b, TaskShape DEF AddCheck, Continue
  <2>2. trip[task[h].trip] # "NONE"
    BY <1>5 DEF AddCheck, Continue, IInv, Reliable, OnRow
  <2>3. Reliable(task[h])'
    BY <1>5, <2>1, <2>2 DEF AddCheck, Idle, IInv, TypeOK, Reliable, OnRow,
                            ValidArePlanned, StopIsOfOrder, RowsRead
  <2> QED
    BY <1>5, <1>a, <2>3, QuietStep DEF AddCheck, IInv, TypeOK
<1>6. ASSUME NEW h \in Handler, AddWrite(h)
      PROVE  IInv'
  BY <1>6, <1>a, AddWriteInv
<1>21. ASSUME NEW h \in Handler, NEW o \in Order, AssignBegin(h, o)
       PROVE  IInv'
  <2>1. Reliable(task[h])'
    BY <1>21 DEF AssignBegin, Begin, IInv, TypeOK, Reliable, OnRow, ValidArePlanned,
                 StopIsOfOrder, RowsRead
  <2> QED
    BY <1>21, <1>a, <2>1, QuietStep DEF AssignBegin, Begin, IInv, TypeOK
<1>22. ASSUME NEW h \in Handler, NEW t \in Trip, AssignPick(h, t)
       PROVE  IInv'
  <2>1. PICK n \in {s.seq : s \in stops[t]} \cup {0} :
          task' = [task EXCEPT ![h] = [op |-> "assignWrite", trip |-> t,
                                       order |-> task[h].order, last |-> n]]
    BY <1>22 DEF AssignPick
  <2>2. Reliable(task[h])'
    BY <1>22, <2>1 DEF AssignPick, IInv, TypeOK, Reliable, OnRow, ValidArePlanned,
                       StopIsOfOrder, RowsRead
  <2> QED
    BY <1>22, <1>a, <2>1, <2>2, QuietStep DEF AssignPick, IInv, TypeOK
<1>23. ASSUME NEW h \in Handler, AssignReject(h)
       PROVE  IInv'
  <2>1. Reliable(task[h])'
    BY <1>23 DEF AssignReject, Finish, Idle, IInv, TypeOK, Reliable, OnRow,
                 ValidArePlanned, StopIsOfOrder, RowsRead
  <2> QED
    BY <1>23, <1>a, <2>1, QuietStep DEF AssignReject, Finish, IInv, TypeOK
<1>24. ASSUME NEW h \in Handler, AssignWrite(h)
       PROVE  IInv'
  BY <1>24, <1>a, AssignWriteInv
<1>7. ASSUME NEW h \in Handler, NEW t \in Trip, NEW s \in stops[t], RemoveBegin(h, t, s)
      PROVE  IInv'
  <2>1. s.id <= lastStop[t] /\ \A r \in stops[t] : r.id = s.id => r.order = s.order
    BY <1>7 DEF IInv, StopIds
  <2>2. Reliable(task[h])'
    BY <1>7, <2>1 DEF RemoveBegin, Begin, IInv, TypeOK, Reliable, OnRow, ValidArePlanned,
                      StopIsOfOrder, RowsRead
  <2> QED
    BY <1>7, <1>a, <2>2, QuietStep DEF RemoveBegin, Begin, IInv, TypeOK
<1>8. ASSUME NEW h \in Handler, RemoveWrite(h)
      PROVE  IInv'
  BY <1>8, <1>a, RemoveWriteInv
<1>25. ASSUME NEW h \in Handler, NEW t \in Trip, OptimizeBegin(h, t)
       PROVE  IInv'
  <2>1. /\ \A s \in stops[t] : s.id \in 1..lastStop[t]
        /\ \A s, u \in stops[t] : s.id = u.id => s = u
    BY DEF IInv, StopIds
  <2>2. Reliable(task[h])'
    BY <1>25, <2>1 DEF OptimizeBegin, Begin, IInv, TypeOK, Reliable, OnRow, ValidArePlanned,
                       StopIsOfOrder, RowsRead
  <2> QED
    BY <1>25, <1>a, <2>2, QuietStep DEF OptimizeBegin, Begin, IInv, TypeOK
<1>26. ASSUME NEW h \in Handler, OptimizeWrite(h)
       PROVE  IInv'
  BY <1>26, <1>a, OptimizeWriteInv
<1>9. ASSUME NEW h \in Handler, NEW t \in Trip,
             StartBegin(h, t) \/ CancelTripBegin(h, t) \/ CompleteBegin(h, t)
      PROVE  IInv'
  <2>1. Reliable(task[h])'
    BY <1>9 DEF StartBegin, CancelTripBegin, CompleteBegin, Begin, IInv, TypeOK, Reliable,
                OnRow, ValidArePlanned, StopIsOfOrder, RowsRead
  <2> QED
    BY <1>9, <1>a, <2>1, QuietStep
       DEF StartBegin, CancelTripBegin, CompleteBegin, Begin, IInv, TypeOK
<1>10. ASSUME NEW h \in Handler, StartWrite(h) \/ CancelTripWrite(h) \/ CompleteWrite(h)
       PROVE  IInv'
  <2>1. task[h].trip \in Trip /\ trip[task[h].trip] # "NONE"
    BY <1>10, <1>b, TaskShape DEF StartWrite, CancelTripWrite, CompleteWrite, Continue,
                                  IInv, Reliable, OnRow
  <2>2. \A t \in Trip : trip'[t] = "NONE" <=> trip[t] = "NONE"
    BY <1>10, <2>1 DEF StartWrite, CancelTripWrite, CompleteWrite, IInv, TypeOK
  <2>3. \A o \in Order : order'[o].trip \in {order[o].trip, NoTrip}
    <3>1. CASE StartWrite(h)
      BY <3>1 DEF StartWrite, IInv, TypeOK
    <3>2. CASE CancelTripWrite(h)
      BY <3>2 DEF CancelTripWrite, Released, IInv, TypeOK
    <3>3. CASE CompleteWrite(h)
      BY <3>3 DEF CompleteWrite
    <3> QED
      BY <1>10, <3>1, <3>2, <3>3
  <2>4. UNCHANGED <<stops, lastStop>> /\ task' = [task EXCEPT ![h] = Idle]
    BY <1>10 DEF StartWrite, CancelTripWrite, CompleteWrite, Finish
  <2>5. Reliable(task[h])'
    BY <2>4 DEF Idle, IInv, TypeOK, Reliable, OnRow, ValidArePlanned, StopIsOfOrder,
            RowsRead
  <2> QED
    BY <1>a, <2>2, <2>3, <2>4, <2>5, QuietStep DEF IInv, TypeOK
<1>11. ASSUME NEW h \in Handler, NEW o \in Order, CancelOrderBegin(h, o)
       PROVE  IInv'
  <2>1. Reliable(task[h])'
    BY <1>11 DEF CancelOrderBegin, Begin, IInv, TypeOK, Reliable, OnRow, ValidArePlanned,
                 StopIsOfOrder, RowsRead
  <2> QED
    BY <1>11, <1>a, <2>1, QuietStep DEF CancelOrderBegin, Begin, IInv, TypeOK
<1>12. ASSUME NEW h \in Handler, CancelOrderWrite(h)
       PROVE  IInv'
  <2>1. \A o \in Order : order'[o].trip = order[o].trip
    BY <1>12 DEF CancelOrderWrite, IInv, TypeOK
  <2>2. Reliable(task[h])'
    BY <1>12 DEF CancelOrderWrite, Finish, Idle, IInv, TypeOK, Reliable, OnRow,
                 ValidArePlanned, StopIsOfOrder, RowsRead
  <2> QED
    BY <1>12, <1>a, <2>1, <2>2, QuietStep DEF CancelOrderWrite, Finish, IInv, TypeOK
<1>c. \A o \in Order : order[o].trip \in Trip => trip[order[o].trip] # "NONE"
  BY TripAssumption DEF IInv, OnBoardHasStop, NoRowNoStops, StopOrders, TypeOK
<1>d. \A o \in Order : order[o].trip \in Trip \cup {NoTrip}
  BY DEF IInv, TypeOK
<1>13. ASSUME NEW h \in Handler, NEW o \in Order, NEW s \in OrderStatus, TrackBegin(h, o, s)
       PROVE  IInv'
  <2>1. Reliable(task[h])'
    BY <1>13, <1>c, <1>d DEF TrackBegin, Begin, IInv, TypeOK, Reliable, OnRow,
                             ValidArePlanned, StopIsOfOrder, RowsRead
  <2> QED
    BY <1>13, <1>a, <2>1, QuietStep DEF TrackBegin, Begin, IInv, TypeOK
<1>14. ASSUME NEW h \in Handler, NEW o \in Order, TrackNote(h, o)
       PROVE  IInv'
  <2>1. Reliable(task[h])'
    BY <1>14, <1>c, <1>d DEF TrackNote, Begin, IInv, TypeOK, Reliable, OnRow,
                             ValidArePlanned, StopIsOfOrder, RowsRead
  <2> QED
    BY <1>14, <1>a, <2>1, QuietStep DEF TrackNote, Begin, IInv, TypeOK
<1>15. ASSUME NEW h \in Handler, TrackWrite(h)
       PROVE  IInv'
  <2>1. /\ task[h].order \in Order
        /\ task[h].trip \in Trip \cup {NoTrip}
        /\ task[h].trip # NoTrip => trip[task[h].trip] # "NONE"
    BY <1>15, <1>b, TaskShape DEF TrackWrite, Continue, IInv, Reliable, OnRow
  <2>2. \A o \in Order : order'[o].trip \in {order[o].trip, NoTrip}
    BY <1>15, <2>1 DEF TrackWrite, Tracked, IInv, TypeOK
  <2>3. Reliable(task[h])'
    BY <1>15, <2>1 DEF TrackWrite, Idle, IInv, TypeOK, Reliable, OnRow, ValidArePlanned,
                       StopIsOfOrder, RowsRead
  <2> QED
    BY <1>15, <1>a, <2>2, <2>3, QuietStep DEF TrackWrite, IInv, TypeOK
<1>16. ASSUME NEW h \in Handler, FinishCheck(h) \/ FinishWrite(h) \/ Enqueue(h)
       PROVE  IInv'
  <2>1. /\ task[h] \in [op : {"completeWrite", "finishCheck", "finishWrite", "enqueue"},
                        trip : Trip]
        /\ trip[task[h].trip] # "NONE"
    BY <1>16, <1>b, TaskShape DEF FinishCheck, FinishWrite, Enqueue, Continue, IInv,
                                  Reliable, OnRow
  <2>2. \A t \in Trip : trip'[t] = "NONE" <=> trip[t] = "NONE"
    BY <1>16, <2>1 DEF FinishCheck, FinishWrite, Enqueue, IInv, TypeOK
  <2>3. task'[h] = Idle \/ task'[h] \in [op : {"finishWrite", "enqueue"}, trip : {task[h].trip}]
    BY <1>16, <2>1 DEF FinishCheck, FinishWrite, Enqueue, Finish, IInv, TypeOK
  <2>4. Reliable(task[h])'
    BY <2>1, <2>2, <2>3 DEF Idle, Reliable, OnRow, ValidArePlanned, StopIsOfOrder, RowsRead
  <2>5. /\ UNCHANGED <<order, stops, lastStop>>
        /\ \A g \in Handler : g # h => task'[g] = task[g]
    BY <1>16 DEF FinishCheck, FinishWrite, Enqueue, Finish, IInv, TypeOK
  <2> QED
    BY <1>a, <2>2, <2>4, <2>5, QuietStep
<1>17. ASSUME NEW h \in Handler, Crash(h)
       PROVE  IInv'
  <2>1. Reliable(task[h])'
    BY <1>17 DEF Crash, Finish, Idle, IInv, TypeOK, Reliable, OnRow, ValidArePlanned,
                 StopIsOfOrder, RowsRead
  <2> QED
    BY <1>17, <1>a, <2>1, QuietStep DEF Crash, Finish, IInv, TypeOK
<1>18. ASSUME NEW o \in Order, NEW s \in OrderStatus, PutStatus(o, s)
       PROVE  IInv'
  BY <1>18, <1>a, QuietStep DEF PutStatus, IInv, TypeOK
<1>19. ASSUME NEW o \in Order, DeleteOrder(o) \/ PaymentSucceeded(o) \/ PaymentFailed(o)
       PROVE  IInv'
  BY <1>19, <1>a, QuietStep DEF DeleteOrder, PaymentSucceeded, PaymentFailed, IInv, TypeOK
<1>20. ASSUME UNCHANGED vars
       PROVE  IInv'
  BY <1>20, <1>a, QuietStep DEF vars, IInv, TypeOK
<1> QED
  BY <1>1, <1>2, <1>3, <1>4, <1>5, <1>6, <1>7, <1>8, <1>9, <1>10, <1>11, <1>12, <1>13,
     <1>14, <1>15, <1>16, <1>17, <1>18, <1>19, <1>20, <1>21, <1>22, <1>23, <1>24, <1>25,
     <1>26 DEF Next, Proceed

\* The inductive invariant holds in every reachable state.
THEOREM Invariant == Spec => []IInv
BY InitInv, InvStep, PTL DEF Spec

\* TypeOK: what is stored and what a request in flight holds keep their types.
THEOREM TypeCorrect == Spec => []TypeOK
BY Invariant, PTL DEF IInv

\* OnBoardHasStop: start, cancellation and completion find every order a trip
\* carries, for any plans and any number of overlapping requests.
THEOREM OnBoardSafe == Spec => []OnBoardHasStop
BY Invariant, PTL DEF IInv

-------------------------------------------------------------------------------
(***************************************************************************)
(* The numbers of stops.                                                   *)
(***************************************************************************)

\* Renumbering stops with distinct numbers gives distinct numbers: a stop with a
\* smaller number has fewer stops up to it.
LEMMA RenumberedUnique ==
  ASSUME NEW S \in SUBSET Stop, IsFiniteSet(S),
         \A s, r \in S : s.seq = r.seq => s = r
  PROVE  \A s, r \in Renumbered(S) : s.seq = r.seq => s = r
<1> DEFINE upTo(s) == {r \in S : r.seq <= s.seq}
           new(s) == [s EXCEPT !.seq = Cardinality(upTo(s))]
<1>1. Renumbered(S) = {new(s) : s \in S}
  BY DEF Renumbered
<1>2. ASSUME NEW s \in S, NEW r \in S, s.seq < r.seq
      PROVE  Cardinality(upTo(s)) # Cardinality(upTo(r))
  <2>1. IsFiniteSet(upTo(r))
    BY FS_Subset
  <2>2. upTo(s) \in SUBSET upTo(r)
    BY <1>2 DEF Stop
  <2>3. r \in upTo(r) /\ r \notin upTo(s)
    BY <1>2 DEF Stop
  <2> HIDE DEF upTo
  <2> QED
    BY <2>1, <2>2, <2>3, FS_Subset
<1>3. ASSUME NEW s \in S, NEW r \in S, Cardinality(upTo(s)) = Cardinality(upTo(r))
      PROVE  s = r
  <2>1. s.seq \in Nat /\ r.seq \in Nat
    BY DEF Stop
  <2>2. s.seq < r.seq \/ r.seq < s.seq \/ s.seq = r.seq
    BY <2>1
  <2> HIDE DEF upTo
  <2> QED
    BY <1>2, <1>3, <2>2
<1>4. \A s \in S : new(s).seq = Cardinality(upTo(s))
  BY DEF Stop
<1> HIDE DEF upTo, new
<1> QED
  BY <1>1, <1>3, <1>4

\* Stops whose numbers are free keep the numbers of a trip distinct.
LEMMA LoadUnique ==
  ASSUME TypeOK, StopNumbersUnique, NEW t \in Trip, NEW l \in OrderList, NEW n \in Nat,
         ~SeqTaken(t, AddedStops(t, l, n)), LoadOnTrip(t, l, n)
  PROVE  StopNumbersUnique'
<1> DEFINE new == AddedStops(t, l, n)
<1>1. \A s, r \in new : s.seq = r.seq => s = r
  BY AddedStopsFacts
<1>2. \A s \in stops[t], r \in new : s.seq # r.seq
  BY DEF SeqTaken
<1>3. stops' = [stops EXCEPT ![t] = @ \cup new]
  BY DEF LoadOnTrip
<1> HIDE DEF new
<1>4. stops'[t] = stops[t] \cup new /\ \A u \in Trip : u # t => stops'[u] = stops[u]
  BY <1>3 DEF TypeOK
<1>5. ASSUME NEW s \in stops'[t], NEW r \in stops'[t], s.seq = r.seq
      PROVE  s = r
  BY <1>1, <1>2, <1>4, <1>5 DEF StopNumbersUnique
<1> QED
  BY <1>4, <1>5 DEF StopNumbersUnique

\* Every step keeps the numbers of stops distinct.
LEMMA StopNumbersStep ==
  ASSUME IInv, StopNumbersUnique, [Next]_vars
  PROVE  StopNumbersUnique'
<1>a. \A h \in Handler : task[h] \in Task
  BY DEF IInv, TypeOK
<1>1. ASSUME NEW h \in Handler, CreateWrite(h)
      PROVE  StopNumbersUnique'
  <2>1. task[h].plan \in Plans /\ task[h].valid \in SUBSET Order
    BY <1>1, <1>a, TaskShape DEF CreateWrite, Continue
  <2> DEFINE new == PlannedStops(task[h].plan, task[h].valid)
  <2>2. \A s, r \in new : s.seq = r.seq => s = r
    BY <2>1, PlannedStopsFacts
  <2>3. \E t \in Trip : stops' = [stops EXCEPT ![t] = new]
    BY <1>1 DEF CreateWrite
  <2> HIDE DEF new
  <2> QED
    BY <2>2, <2>3 DEF StopNumbersUnique, IInv, TypeOK
<1>2. ASSUME NEW h \in Handler, AddWrite(h) \/ AssignWrite(h)
      PROVE  StopNumbersUnique'
  <2>1. CASE UNCHANGED stops
    BY <2>1 DEF StopNumbersUnique
  <2>2. CASE ~ UNCHANGED stops
    <3>1. PICK t \in Trip, l \in OrderList, n \in Nat :
            ~SeqTaken(t, AddedStops(t, l, n)) /\ LoadOnTrip(t, l, n)
      <4>1. CASE AddWrite(h)
        BY <1>a, <2>2, <4>1, TaskShape, OrderLists DEF AddWrite, Continue
      <4>2. CASE AssignWrite(h)
        BY <1>a, <2>2, <4>2, TaskShape, OrderLists DEF AssignWrite, Continue
      <4> QED
        BY <1>2, <4>1, <4>2
    <3> QED
      BY <3>1, LoadUnique DEF IInv
  <2> QED
    BY <2>1, <2>2
<1>3. ASSUME NEW h \in Handler, RemoveWrite(h)
      PROVE  StopNumbersUnique'
  <2> DEFINE t == task[h].trip
             rest == {s \in stops[t] : s.id # task[h].stop}
  <2>1. t \in Trip
    BY <1>3, <1>a, TaskShape DEF RemoveWrite, Continue
  <2>2. IsFiniteSet(rest) /\ rest \in SUBSET Stop
    BY <2>1, StopsFinite, FS_Subset DEF IInv, TypeOK
  <2>3. \A s, r \in rest : s.seq = r.seq => s = r
    BY <2>1 DEF StopNumbersUnique
  <2>4. \A s, r \in Renumbered(rest) : s.seq = r.seq => s = r
    BY <2>2, <2>3, RenumberedUnique
  <2>5. stops' = stops \/ stops' = [stops EXCEPT ![t] = Renumbered(rest)]
    BY <1>3 DEF RemoveWrite
  <2> HIDE DEF t, rest
  <2> QED
    BY <2>1, <2>4, <2>5 DEF StopNumbersUnique, IInv, TypeOK
<1>6. ASSUME NEW h \in Handler, OptimizeWrite(h)
      PROVE  StopNumbersUnique'
  <2>1. task[h].trip \in Trip
    BY <1>6, <1>a, TaskShape DEF OptimizeWrite, Continue
  <2>2. \/ stops' = stops
        \/ /\ stops' = [stops EXCEPT ![task[h].trip] =
                                         Optimized(task[h].trip, task[h].rows)]
           /\ \A s, r \in Optimized(task[h].trip, task[h].rows) : s.seq = r.seq => s = r
    BY <1>6 DEF OptimizeWrite
  <2> QED
    BY <2>1, <2>2 DEF StopNumbersUnique, IInv, TypeOK
<1>4. CASE UNCHANGED stops
  BY <1>4 DEF StopNumbersUnique
<1>5. CASE ~ UNCHANGED stops
  <2>1. \E h \in Handler : CreateWrite(h) \/ AddWrite(h) \/ AssignWrite(h)
                           \/ RemoveWrite(h) \/ OptimizeWrite(h)
    BY <1>5 DEF Next, Proceed, vars, CreateBegin, CreateRequery, AddBegin, AddCheck,
                AssignBegin, AssignPick, AssignReject,
                RemoveBegin, OptimizeBegin, StartBegin, StartWrite,
                CancelTripBegin, CancelTripWrite,
                CompleteBegin, CompleteWrite, CancelOrderBegin, CancelOrderWrite, PutStatus,
                DeleteOrder, TrackBegin, TrackWrite, TrackNote, FinishCheck, FinishWrite,
                Enqueue, PaymentSucceeded, PaymentFailed, Crash
  <2> QED
    BY <1>1, <1>2, <1>3, <1>6, <2>1
<1> QED
  BY <1>4, <1>5

\* StopNumbersUnique: the unique index on (tripId, stopSequence) is never about to
\* be broken except by an insertion the database then refuses.
THEOREM StopNumbersSafe == Spec => []StopNumbersUnique
<1>1. Init => StopNumbersUnique
  BY DEF Init, StopNumbersUnique
<1>2. IInv /\ StopNumbersUnique /\ [Next]_vars => StopNumbersUnique'
  BY StopNumbersStep
<1> QED
  BY <1>1, <1>2, Invariant, PTL DEF Spec

-------------------------------------------------------------------------------
(***************************************************************************)
(* Orders: what a write does to one order, whoever makes it.               *)
(***************************************************************************)

OrderRecord == [status : OrderStatus, trip : Trip \cup {NoTrip},
                atHub : BOOLEAN, deleted : BOOLEAN]

\* The request that is at one of these steps takes it, and it writes order o.
Writes(o, ops) ==
  \E h \in Handler : task[h].op \in ops /\ task[h].order = o /\ task'[h] # task[h]

\* What a step may do to the status and the trip of an order.
OrderStep(o) ==
  \/ order'[o].status = order[o].status /\ order'[o].trip = order[o].trip
  \/ /\ Loadable(o)
     /\ order'[o].status = "ASSIGNED" /\ order'[o].trip \in Trip
     /\ \/ \E h \in Handler : CreateWrite(h) /\ o \in task[h].valid
        \/ PaymentReady(o) /\ \E h \in Handler : AddWrite(h) \/ AssignWrite(h)
  \/ /\ order'[o].status = "PENDING" /\ order'[o].trip = NoTrip
     /\ Returnable(o) \/ Writes(o, {"removeWrite"})
  \/ /\ Startable(o)
     /\ order'[o].status = "IN_TRANSIT" /\ order'[o].trip = order[o].trip
  \/ order'[o].status = "CANCELLED" /\ order'[o].trip = order[o].trip
  \/ /\ Writes(o, {"trackWrite"})
     /\ order'[o].trip = IF order'[o].status = "DELIVERED" THEN NoTrip ELSE order[o].trip
  \/ overrides' = overrides + 1 /\ order'[o].trip = order[o].trip

\* What any step of the system may do to one order.
LEMMA OrderSteps ==
  ASSUME TypeOK, [Next]_vars, NEW o \in Order
  PROVE  OrderStep(o)
<1>a. order \in [Order -> OrderRecord] /\ task \in [Handler -> Task]
  BY DEF TypeOK, OrderRecord
<1>b. \A h \in Handler : task[h] \in Task
  BY <1>a
<1>1. ASSUME NEW h \in Handler, CreateWrite(h)
      PROVE  OrderStep(o)
  <2>1. PICK t \in Trip :
          order' = [p \in Order |->
            IF p \in task[h].valid /\ Loadable(p)
            THEN [order[p] EXCEPT !.status = "ASSIGNED", !.trip = t]
            ELSE order[p]]
    BY <1>1 DEF CreateWrite
  <2>2. order[o] \in OrderRecord
    BY <1>a
  <2>3. CASE o \in task[h].valid /\ Loadable(o)
    <3>1. order'[o] = [order[o] EXCEPT !.status = "ASSIGNED", !.trip = t]
      BY <2>1, <2>3
    <3>2. order'[o].status = "ASSIGNED" /\ order'[o].trip = t
      BY <2>2, <3>1 DEF OrderRecord
    <3> QED
      BY <1>1, <2>3, <3>2 DEF OrderStep
  <2>4. CASE ~(o \in task[h].valid /\ Loadable(o))
    BY <2>1, <2>4 DEF OrderStep
  <2> QED
    BY <2>3, <2>4
<1>2. ASSUME NEW h \in Handler, AddWrite(h) \/ AssignWrite(h)
      PROVE  OrderStep(o)
  <2>1. CASE UNCHANGED order
    BY <2>1 DEF OrderStep
  <2>2. CASE ~ UNCHANGED order
    <3>1. PICK t \in Trip : \E l, n : LoadOnTrip(t, l, n)
      <4>1. CASE AddWrite(h)
        BY <1>b, <2>2, <4>1, TaskShape DEF AddWrite, Continue
      <4>2. CASE AssignWrite(h)
        BY <1>b, <2>2, <4>2, TaskShape DEF AssignWrite, Continue
      <4> QED
        BY <1>2, <4>1, <4>2
    <3>2. \/ order'[o] = order[o]
          \/ /\ order'[o] = [order[o] EXCEPT !.status = "ASSIGNED", !.trip = t]
             /\ Loadable(o) /\ PaymentReady(o)
      BY <3>1 DEF LoadOnTrip, Dispatchable
    <3>3. order[o] \in OrderRecord
      BY <1>a
    <3>4. CASE order'[o] = order[o]
      BY <3>4 DEF OrderStep
    <3>5. CASE order'[o] # order[o]
      <4>1. order'[o].status = "ASSIGNED" /\ order'[o].trip = t
        BY <3>2, <3>3, <3>5 DEF OrderRecord
      <4> QED
        BY <1>2, <3>2, <3>5, <4>1 DEF OrderStep
    <3> QED
      BY <3>4, <3>5
  <2> QED
    BY <2>1, <2>2
<1>3. ASSUME NEW h \in Handler, RemoveWrite(h)
      PROVE  OrderStep(o)
  <2>1. task[h].op = "removeWrite" /\ task'[h] # task[h]
    BY <1>3, <1>a DEF RemoveWrite, Continue, Finish, Idle
  <2>2. order' = order \/ order' = [order EXCEPT ![task[h].order] = Released(@)]
    BY <1>3 DEF RemoveWrite
  <2> QED
    BY <1>a, <2>1, <2>2 DEF OrderStep, OrderRecord, Released, Writes
<1>4. ASSUME NEW h \in Handler, StartWrite(h) \/ CancelTripWrite(h)
      PROVE  OrderStep(o)
  <2>1. order[o] \in OrderRecord
    BY <1>a
  <2>2. CASE StartWrite(h)
    BY <2>1, <2>2 DEF StartWrite, OrderStep, OrderRecord
  <2>3. CASE CancelTripWrite(h)
    BY <2>1, <2>3 DEF CancelTripWrite, OrderStep, OrderRecord, Released
  <2> QED
    BY <1>4, <2>2, <2>3
<1>5. ASSUME NEW h \in Handler, CancelOrderWrite(h)
      PROVE  OrderStep(o)
  BY <1>5, <1>a DEF CancelOrderWrite, OrderStep, OrderRecord
<1>6. ASSUME NEW h \in Handler, TrackWrite(h)
      PROVE  OrderStep(o)
  <2>1. task[h].op = "trackWrite" /\ task'[h] # task[h]
    BY <1>6, <1>a DEF TrackWrite, Continue, Idle
  <2>2. order' = [order EXCEPT ![task[h].order] = Tracked(@, task[h].status)]
    BY <1>6 DEF TrackWrite
  <2> QED
    BY <1>a, <2>1, <2>2 DEF OrderStep, OrderRecord, Tracked, Writes
<1>7. ASSUME NEW p \in Order, NEW s \in OrderStatus, PutStatus(p, s)
      PROVE  OrderStep(o)
  BY <1>7, <1>a DEF PutStatus, OrderStep, OrderRecord
<1>8. ASSUME NEW p \in Order, DeleteOrder(p)
      PROVE  OrderStep(o)
  BY <1>8, <1>a DEF DeleteOrder, OrderStep, OrderRecord
<1>9. CASE UNCHANGED order
  BY <1>9 DEF OrderStep
<1>10. CASE ~ UNCHANGED order
  <2>1. \/ \E h \in Handler :
             \/ CreateWrite(h) \/ AddWrite(h) \/ AssignWrite(h) \/ RemoveWrite(h)
             \/ StartWrite(h) \/ CancelTripWrite(h) \/ CancelOrderWrite(h) \/ TrackWrite(h)
        \/ \E p \in Order : DeleteOrder(p) \/ \E s \in OrderStatus : PutStatus(p, s)
    BY <1>10 DEF Next, Proceed, vars, CreateBegin, CreateRequery, AddBegin, AddCheck,
                 AssignBegin, AssignPick, AssignReject,
                 RemoveBegin, OptimizeBegin, OptimizeWrite, StartBegin,
                 CancelTripBegin, CompleteBegin, CompleteWrite,
                 CancelOrderBegin, TrackBegin, TrackNote, FinishCheck, FinishWrite, Enqueue,
                 PaymentSucceeded, PaymentFailed, Crash
  <2> QED
    BY <1>1, <1>2, <1>3, <1>4, <1>5, <1>6, <1>7, <1>8, <2>1
<1> QED
  BY <1>9, <1>10

\* DeliveredOffVehicle: until PUT status is used, no write made from an old read
\* puts a delivered order back on a vehicle.
THEOREM DeliveredSafe == Spec => []DeliveredOffVehicle
<1>1. Init => DeliveredOffVehicle
  BY DEF Init, DeliveredOffVehicle
<1>2. ASSUME TypeOK, DeliveredOffVehicle, [Next]_vars
      PROVE  DeliveredOffVehicle'
  <2> SUFFICES ASSUME overrides' = 0, NEW o \in Order, order'[o].status = "DELIVERED"
               PROVE  order'[o].trip = NoTrip
    BY DEF DeliveredOffVehicle
  <2>1. overrides = 0
    <3>1. overrides \in Nat /\ overrides' \in {overrides, overrides + 1}
      BY <1>2 DEF TypeOK, Next, Proceed, vars, CreateBegin, CreateRequery, CreateWrite,
                  AddBegin, AddCheck, AddWrite, AssignBegin, AssignPick, AssignReject,
                  AssignWrite, RemoveBegin, RemoveWrite, OptimizeBegin,
                  OptimizeWrite, StartBegin,
                  StartWrite, CancelTripBegin, CancelTripWrite, CompleteBegin, CompleteWrite,
                  CancelOrderBegin, CancelOrderWrite, PutStatus, DeleteOrder, TrackBegin,
                  TrackWrite, TrackNote, FinishCheck, FinishWrite, Enqueue,
                  PaymentSucceeded, PaymentFailed, Crash
    <3> QED
      BY <3>1
  <2>2. OrderStep(o)
    BY <1>2, OrderSteps
  <2>3. order[o] \in OrderRecord
    BY <1>2 DEF TypeOK, OrderRecord
  <2>4. order[o].status = "DELIVERED" => order[o].trip = NoTrip
    BY <1>2, <2>1 DEF DeliveredOffVehicle
  <2> QED
    BY <2>1, <2>2, <2>3, <2>4 DEF OrderStep
<1> QED
  BY <1>1, <1>2, TypeCorrect, PTL DEF Spec

\* NoRevival: dispatch, start and cancellation of trips never reopen an order that
\* is delivered or cancelled.
THEOREM NoRevivalSafe == Spec => NoRevival
<1>1. ASSUME TypeOK, [Next]_vars, NEW o \in Order,
             order[o].status \in ClosedStatuses, order'[o].status \notin ClosedStatuses
      PROVE  \/ overrides' # overrides
             \/ \E h \in Handler :
                  /\ task[h].op \in {"removeWrite", "trackWrite"}
                  /\ task[h].order = o
                  /\ task'[h] # task[h]
  <2>1. OrderStep(o)
    BY <1>1, OrderSteps
  <2>2. order[o] \in OrderRecord /\ overrides \in Nat
    BY <1>1 DEF TypeOK, OrderRecord
  <2> QED
    BY <1>1, <2>1, <2>2 DEF OrderStep, Writes, Loadable, Returnable, Startable,
       ClosedStatuses, DispatchableStatuses, StartableStatuses
<1>2. TypeOK /\ [Next]_vars =>
        [\A o \in Order :
           order[o].status \in ClosedStatuses /\ order'[o].status \notin ClosedStatuses =>
             \/ overrides' # overrides
             \/ \E h \in Handler :
                  /\ task[h].op \in {"removeWrite", "trackWrite"}
                  /\ task[h].order = o
                  /\ task'[h] # task[h]]_vars
  BY <1>1
<1> QED
  BY <1>2, TypeCorrect, PTL DEF Spec, NoRevival

\* Only the re-query of createTripWithStops brings a request to createWrite.
LEMMA TaskStep ==
  ASSUME TypeOK, [Next]_vars, NEW h \in Handler
  PROVE  task'[h] = task[h] \/ CreateRequery(h) \/ task'[h].op # "createWrite"
<1> USE DEF Begin, Continue, Finish, Idle
<1>a. task \in [Handler -> Task] /\ task[h] \in Task
  BY DEF TypeOK
<1>b. \A r \in Task : [r EXCEPT !.op = "enqueue"].op = "enqueue"
                     /\ [r EXCEPT !.op = "addWrite"].op = "addWrite"
  BY DEF Task
<1>1. ASSUME NEW g \in Handler,
             \/ CreateWrite(g) \/ AddWrite(g) \/ AssignReject(g) \/ AssignWrite(g)
             \/ RemoveWrite(g) \/ OptimizeWrite(g) \/ StartWrite(g)
             \/ CancelTripWrite(g) \/ CompleteWrite(g) \/ CancelOrderWrite(g)
             \/ Enqueue(g) \/ Crash(g)
      PROVE  task' = [task EXCEPT ![g] = Idle]
  BY <1>1 DEF CreateWrite, AddWrite, AssignReject, AssignWrite, RemoveWrite,
              OptimizeWrite, StartWrite, CancelTripWrite, CompleteWrite, CancelOrderWrite,
              Enqueue, Crash
<1>2. ASSUME NEW g \in Handler,
             AddCheck(g) \/ TrackWrite(g) \/ FinishCheck(g) \/ FinishWrite(g)
      PROVE  task'[h] = task[h] \/ task'[h].op # "createWrite"
  <2>1. task[g] \in Task
    BY DEF TypeOK
  <2>2. CASE AddCheck(g)
    BY <2>1, <2>2, <1>a, <1>b DEF AddCheck
  <2>3. CASE TrackWrite(g)
    BY <2>1, <2>3, <1>a DEF TrackWrite
  <2>4. CASE FinishCheck(g)
    BY <2>1, <2>4, <1>a DEF FinishCheck
  <2>5. CASE FinishWrite(g)
    BY <2>1, <2>5, <1>a, <1>b DEF FinishWrite
  <2> QED
    BY <1>2, <2>2, <2>3, <2>4, <2>5
<1>3. ASSUME NEW g \in Handler, NEW p \in Plans, CreateBegin(g, p)
      PROVE  task'[h] = task[h] \/ task'[h].op # "createWrite"
  BY <1>3, <1>a DEF CreateBegin
<1>4. ASSUME NEW g \in Handler, NEW t \in Trip, NEW l \in AddLists, AddBegin(g, t, l)
      PROVE  task'[h] = task[h] \/ task'[h].op # "createWrite"
  BY <1>4, <1>a DEF AddBegin
<1>14. ASSUME NEW g \in Handler, NEW t \in Trip, AssignPick(g, t)
       PROVE  task'[h] = task[h] \/ task'[h].op # "createWrite"
  BY <1>14, <1>a DEF AssignPick
<1>5. ASSUME NEW g \in Handler, NEW t \in Trip, NEW s \in stops[t], RemoveBegin(g, t, s)
      PROVE  task'[h] = task[h] \/ task'[h].op # "createWrite"
  BY <1>5, <1>a DEF RemoveBegin
<1>6. ASSUME NEW g \in Handler, NEW t \in Trip,
              \/ StartBegin(g, t) \/ CancelTripBegin(g, t) \/ CompleteBegin(g, t)
              \/ OptimizeBegin(g, t)
      PROVE  task'[h] = task[h] \/ task'[h].op # "createWrite"
  BY <1>6, <1>a DEF StartBegin, CancelTripBegin, CompleteBegin, OptimizeBegin
<1>7. ASSUME NEW g \in Handler, NEW o \in Order,
              AssignBegin(g, o) \/ CancelOrderBegin(g, o) \/ TrackNote(g, o)
      PROVE  task'[h] = task[h] \/ task'[h].op # "createWrite"
  BY <1>7, <1>a DEF AssignBegin, CancelOrderBegin, TrackNote
<1>8. ASSUME NEW g \in Handler, NEW o \in Order, NEW s \in OrderStatus, TrackBegin(g, o, s)
      PROVE  task'[h] = task[h] \/ task'[h].op # "createWrite"
  BY <1>8, <1>a DEF TrackBegin
<1>9. ASSUME NEW g \in Handler, CreateRequery(g)
      PROVE  task'[h] = task[h] \/ CreateRequery(h)
  BY <1>9, <1>a DEF CreateRequery
<1>10. ASSUME NEW o \in Order, NEW s \in OrderStatus, PutStatus(o, s)
      PROVE  task'[h] = task[h]
  BY <1>10 DEF PutStatus
<1>11. ASSUME NEW o \in Order, DeleteOrder(o) \/ PaymentSucceeded(o) \/ PaymentFailed(o)
       PROVE  task'[h] = task[h]
  BY <1>11 DEF DeleteOrder, PaymentSucceeded, PaymentFailed
<1>12. ASSUME UNCHANGED vars
       PROVE  task'[h] = task[h]
  BY <1>12 DEF vars
<1>13. ASSUME NEW g \in Handler, task' = [task EXCEPT ![g] = Idle]
      PROVE  task'[h] = task[h] \/ task'[h].op # "createWrite"
  BY <1>13, <1>a
<1> QED
  BY <1>1, <1>2, <1>3, <1>4, <1>5, <1>6, <1>7, <1>8, <1>9, <1>10, <1>11, <1>12, <1>13,
     <1>14 DEF Next, Proceed

\* OnBoardPaid: whatever was read before a dispatch, an order that needs a
\* payment is on a trip only with the payment, if payments do not fail afterwards.
THEOREM OnBoardPaidSafe == Spec => []OnBoardPaid
<1> DEFINE PInv == ValidArePaid /\ OnBoardPaid
<1>1. Init => PInv
  BY DEF Init, ValidArePaid, OnBoardPaid, Idle
<1>2. ASSUME TypeOK, PInv, [Next]_vars
      PROVE  PInv'
  <2> SUFFICES ASSUME "payFail" \notin Endpoints
               PROVE  /\ \A h \in Handler : task'[h].op = "createWrite" =>
                           \A o \in task'[h].valid : PaymentReady(o)'
                      /\ \A o \in Order : order'[o].trip # NoTrip => PaymentReady(o)'
    BY DEF ValidArePaid, OnBoardPaid
  <2>1. ASSUME NEW o \in Order, PaymentReady(o)
        PROVE  PaymentReady(o)'
    <3>1. \A p \in Order : ~PaymentFailed(p)
      BY DEF PaymentFailed
    <3>2. paid' = paid \/ \E p \in Order : paid' = [paid EXCEPT ![p] = TRUE]
      BY <1>2, <3>1
         DEF Next, Proceed, vars, CreateBegin, CreateRequery, CreateWrite,
             AddBegin, AddCheck, AddWrite, AssignBegin, AssignPick, AssignReject,
             AssignWrite, RemoveBegin, RemoveWrite, OptimizeBegin, OptimizeWrite, StartBegin,
             StartWrite, CancelTripBegin, CancelTripWrite, CompleteBegin, CompleteWrite,
             CancelOrderBegin, CancelOrderWrite, PutStatus, DeleteOrder, TrackBegin,
             TrackWrite, TrackNote, FinishCheck, FinishWrite, Enqueue,
             PaymentSucceeded, Crash
    <3> QED
      BY <1>2, <2>1, <3>2 DEF PaymentReady, TypeOK
  <2>2. ASSUME NEW h \in Handler, task'[h].op = "createWrite", NEW o \in task'[h].valid
        PROVE  PaymentReady(o)'
    <3>1. task'[h] = task[h] \/ CreateRequery(h)
      BY <1>2, <2>2, TaskStep
    <3>2. CASE task'[h] = task[h]
      <4>1. PaymentReady(o)
        BY <1>2, <2>2, <3>2 DEF ValidArePaid
      <4>2. o \in Order
        BY <1>2, <2>2, <3>2, TaskShape DEF TypeOK
      <4> QED
        BY <2>1, <4>1, <4>2
    <3>3. CASE CreateRequery(h)
      <4>1. task[h].plan \in Plans
        BY <1>2, <3>3, TaskShape DEF TypeOK, CreateRequery, Continue
      <4>2. o \in task[h].plan.orders /\ Dispatchable(o)
        BY <1>2, <2>2, <3>3 DEF CreateRequery, TypeOK, Idle
      <4>3. o \in Order /\ PaymentReady(o)
        BY <4>1, <4>2, PlanAssumption DEF Dispatchable
      <4> QED
        BY <2>1, <4>3
    <3> QED
      BY <3>1, <3>2, <3>3
  <2>3. ASSUME NEW o \in Order, order'[o].trip # NoTrip
        PROVE  PaymentReady(o)'
    <3>1. OrderStep(o)
      BY <1>2, OrderSteps
    <3>2. PaymentReady(o)
      BY <1>2, <2>3, <3>1 DEF OrderStep, OnBoardPaid, ValidArePaid, CreateWrite, Continue
    <3> QED
      BY <2>1, <3>2
  <2> QED
    BY <2>2, <2>3
<1> QED
  BY <1>1, <1>2, TypeCorrect, PTL DEF Spec

\* Whatever requests overlap, an order a trip carries has a stop there, is not delivered,
\* and is paid for if it has to be; no two stops of a trip have one number.
THEOREM OnBoardSoundSafe == Spec => []OnBoardSound
<1>1. OnBoardHasStop /\ StopNumbersUnique /\ DeliveredOffVehicle /\ OnBoardPaid => OnBoardSound
  BY DEF OnBoardSound
<1> QED
  BY <1>1, OnBoardSafe, StopNumbersSafe, DeliveredSafe, OnBoardPaidSafe, PTL

-------------------------------------------------------------------------------
(***************************************************************************)
(* The handlers implement VehicleCustody.                                  *)
(***************************************************************************)

\* Only createTripWithStops creates a trip.
LEMMA RowsStep ==
  ASSUME IInv, [Next]_vars, \A h \in Handler : ~CreateWrite(h), NEW t \in Trip
  PROVE  trip'[t] = "NONE" <=> trip[t] = "NONE"
<1>1. ASSUME NEW h \in Handler,
             StartWrite(h) \/ CancelTripWrite(h) \/ CompleteWrite(h) \/ FinishWrite(h)
               \/ RemoveWrite(h)
      PROVE  trip'[t] = "NONE" <=> trip[t] = "NONE"
  <2>1. trip[task[h].trip] # "NONE"
    BY <1>1 DEF StartWrite, CancelTripWrite, CompleteWrite, FinishWrite, RemoveWrite,
                Continue, IInv, Reliable, OnRow
  <2>2. \/ trip' = trip
        \/ \E s \in {"IN_PROGRESS", "CANCELLED", "COMPLETED"} :
             trip' = [trip EXCEPT ![task[h].trip] = s]
    BY <1>1 DEF StartWrite, CancelTripWrite, CompleteWrite, FinishWrite, RemoveWrite
  <2> QED
    BY <2>1, <2>2 DEF IInv, TypeOK
<1>2. CASE UNCHANGED trip
  BY <1>2
<1>3. CASE ~ UNCHANGED trip
  <2>1. \E h \in Handler : StartWrite(h) \/ CancelTripWrite(h) \/ CompleteWrite(h)
                           \/ FinishWrite(h) \/ RemoveWrite(h)
    BY <1>3 DEF Next, Proceed, vars, CreateBegin, CreateRequery, AddBegin, AddCheck,
                AddWrite, AssignBegin, AssignPick, AssignReject, AssignWrite,
                RemoveBegin, OptimizeBegin, OptimizeWrite, StartBegin,
                CancelTripBegin, CompleteBegin,
                CancelOrderBegin, CancelOrderWrite, PutStatus, DeleteOrder, TrackBegin,
                TrackWrite, TrackNote, FinishCheck, Enqueue, PaymentSucceeded,
                PaymentFailed, Crash
  <2> QED
    BY <1>1, <2>1
<1> QED
  BY <1>2, <1>3

\* CustodySpec: an order is on one trip at a time, the trip exists, and an order
\* goes to another trip only through a hub, whatever requests overlap.
THEOREM Refinement == Spec => CustodySpec
<1> DEFINE holder == [o \in Order |-> order[o].trip]
           existing == {t \in Trip : trip[t] # "NONE"}
<1>1. Init => Custody!Init
  BY DEF Init, Custody!Init
<1>2. ASSUME IInv, [Next]_vars
      PROVE  [Custody!Next]_Custody!vars
  <2>1. ASSUME NEW h \in Handler, CreateWrite(h)
        PROVE  Custody!Next
    <3>1. PICK t \in Trip :
            /\ trip[t] = "NONE"
            /\ trip' = [trip EXCEPT ![t] = "PENDING"]
            /\ order' = [o \in Order |->
                 IF o \in task[h].valid /\ Loadable(o)
                 THEN [order[o] EXCEPT !.status = "ASSIGNED", !.trip = t]
                 ELSE order[o]]
      BY <2>1 DEF CreateWrite
    <3> DEFINE S == {o \in Order : o \in task[h].valid /\ Loadable(o)}
    <3>2. existing' = existing \cup {t}
      BY <1>2, <3>1 DEF IInv, TypeOK
    <3>3. holder' = [o \in Order |-> IF o \in S THEN t ELSE holder[o]]
      BY <1>2, <3>1 DEF IInv, TypeOK
    <3>4. \A o \in S : holder[o] = NoTrip
      BY DEF Loadable
    <3>5. PICK U \in SUBSET Order : U = S
      OBVIOUS
    <3>6. Custody!Load(t, U)
      BY <3>2, <3>3, <3>4, <3>5 DEF Custody!Load
    <3> QED
      BY <3>6 DEF Custody!Next
  <2>2. ASSUME NEW h \in Handler, AddWrite(h) \/ AssignWrite(h)
        PROVE  [Custody!Next]_Custody!vars
    <3>1. task[h] \in Task /\ trip' = trip
      BY <1>2, <2>2 DEF AddWrite, AssignWrite, IInv, TypeOK
    <3>2. CASE UNCHANGED order
      BY <3>1, <3>2 DEF Custody!vars
    <3>3. CASE ~ UNCHANGED order
      <4>1. PICK t \in Trip : trip[t] # "NONE" /\ \E l, n : LoadOnTrip(t, l, n)
        <5>1. CASE AddWrite(h)
          BY <1>2, <3>1, <3>3, <5>1, TaskShape
             DEF AddWrite, Continue, IInv, Reliable, OnRow
        <5>2. CASE AssignWrite(h)
          BY <1>2, <3>1, <3>3, <5>2, TaskShape
             DEF AssignWrite, Continue, IInv, Reliable, OnRow
        <5> QED
          BY <2>2, <5>1, <5>2
      <4>2. PICK l, n : LoadOnTrip(t, l, n)
        BY <4>1
      <4> DEFINE S == {o \in Order : (\E i \in DOMAIN l : l[i] = o) /\ Dispatchable(o)}
      <4>3. existing' = existing \cup {t}
        BY <3>1, <4>1
      <4>4. holder' = [o \in Order |-> IF o \in S THEN t ELSE holder[o]]
        BY <1>2, <4>2 DEF LoadOnTrip, IInv, TypeOK
      <4>5. \A o \in S : holder[o] = NoTrip
        BY DEF Dispatchable, Loadable
      <4>6. PICK U \in SUBSET Order : U = S
        OBVIOUS
      <4>7. Custody!Load(t, U)
        BY <4>3, <4>4, <4>5, <4>6 DEF Custody!Load
      <4> QED
        BY <4>7 DEF Custody!Next
    <3> QED
      BY <3>2, <3>3
  <2>3. ASSUME \A h \in Handler : ~CreateWrite(h) /\ ~AddWrite(h) /\ ~AssignWrite(h)
        PROVE  Custody!Next
    <3>1. existing' = existing
      BY <1>2, <2>3, RowsStep
    <3>2. \A o \in Order : order'[o].trip \in {order[o].trip, NoTrip}
      <4>1. \A o \in Order : OrderStep(o)
        BY <1>2, OrderSteps DEF IInv
      <4> QED
        BY <2>3, <4>1 DEF OrderStep
    <3> DEFINE S == {o \in Order : order'[o].trip = NoTrip}
    <3>3. holder' = [o \in Order |-> IF o \in S THEN NoTrip ELSE holder[o]]
      BY <3>2
    <3>4. PICK U \in SUBSET Order : U = S
      OBVIOUS
    <3>5. Custody!Unload(U)
      BY <3>1, <3>3, <3>4 DEF Custody!Unload
    <3> QED
      BY <3>5 DEF Custody!Next
  <2> QED
    BY <2>1, <2>2, <2>3
<1> QED
  BY <1>1, <1>2, Invariant, PTL DEF Spec, CustodySpec, Custody!Spec
-------------------------------------------------------------------------------
(***************************************************************************)
(* One request at a time.                                                  *)
(***************************************************************************)

Alone == \A g, h \in Handler : g = h

\* A step that writes no rows of orders, trips and stops.
LEMMA SerialRead ==
  ASSUME SInv, Alone, NEW h \in Handler, UNCHANGED <<order, trip, stops, jobs>>,
         Current(task'[h])
  PROVE  SInv'
<1>1. Current(task'[h]) <=> Current(task[h])'
  BY DEF Current, StopOrders, Finishable, AllDone, OnBoard
<1>2. \A g \in Handler : Current(task[g])'
  BY <1>1 DEF Alone
<1>3. TripsConsistent'
  BY DEF SInv, TripsConsistent, AssignedAwaitsStart, CompletedTripDone, EmissionQueuedOnce, OnBoard
<1> QED
  BY <1>2, <1>3 DEF SInv

\* A request that has written, and at most looks whether the trip is over.
LEMMA SerialWrite ==
  ASSUME Alone, NEW h \in Handler, task'[h].op \in {"idle", "finishCheck"},
         \A o \in Order : order'[o].status = "PENDING" => order'[o].trip = NoTrip,
         \A t \in Trip : jobs'[t] > 0 => trip'[t] = "COMPLETED",
         TripsConsistent'
  PROVE  SInv'
<1>1. Current(task[h])'
  BY DEF Current
<1>2. \A g \in Handler : Current(task[g])'
  BY <1>1 DEF Alone
<1> QED
  BY <1>2 DEF SInv

\* Orders that keep their status on their trip, or leave it, are loaded on one that waits,
\* or get on with their way.
OrderMoves(o) ==
  \/ order'[o].status = order[o].status /\ order'[o].trip = order[o].trip
  \/ order'[o].trip = NoTrip
  \/ /\ order'[o].status = "ASSIGNED"
     /\ order'[o].trip \in Trip /\ trip'[order'[o].trip] = "PENDING"
  \/ /\ order'[o].trip = order[o].trip
     /\ order'[o].status \notin {"PENDING", "ASSIGNED"}
     /\ order[o].status \in ClosedStatuses => order'[o].status \in ClosedStatuses

\* Trips that keep their status, are created, leave or are called off with none of their
\* orders left behind, or are completed with all of them closed.
TripMoves(t) ==
  \/ trip'[t] = trip[t]
  \/ trip[t] = "NONE" /\ trip'[t] = "PENDING"
  \/ /\ trip[t] = "PENDING" /\ trip'[t] \in {"IN_PROGRESS", "CANCELLED"}
     /\ \A o \in Order : order'[o].trip = t => order'[o].status # "ASSIGNED"
  \/ /\ trip[t] # "COMPLETED" /\ trip'[t] = "COMPLETED"
     /\ \A o \in Order : order'[o].trip = t => order'[o].status \in ClosedStatuses

\* What orders and trips say of each other survives these.
LEMMA SerialRows ==
  ASSUME IInv, IInv', SInv, UNCHANGED jobs,
         \A o \in Order : OrderMoves(o), \A t \in Trip : TripMoves(t)
  PROVE  /\ \A o \in Order : order'[o].status = "PENDING" => order'[o].trip = NoTrip
         /\ \A t \in Trip : jobs'[t] > 0 => trip'[t] = "COMPLETED"
         /\ TripsConsistent'
<1>a. /\ \A o \in Order : order[o].trip \in Trip \cup {NoTrip}
      /\ \A o \in Order : order'[o].trip \in Trip \cup {NoTrip}
      /\ NoTrip \notin Trip
  BY TripAssumption DEF IInv, TypeOK
<1>1. \A o \in Order : order'[o].status = "PENDING" => order'[o].trip = NoTrip
  BY DEF SInv, OrderMoves
<1>2. \A t \in Trip : trip[t] = "COMPLETED" => trip'[t] = "COMPLETED"
  BY DEF TripMoves
<1>3. AssignedAwaitsStart'
  <2> SUFFICES ASSUME NEW o \in Order, order'[o].status = "ASSIGNED", order'[o].trip # NoTrip
               PROVE  trip'[order'[o].trip] = "PENDING"
    BY DEF AssignedAwaitsStart
  <2>1. CASE order'[o].status = order[o].status /\ order'[o].trip = order[o].trip
    <3>1. trip[order[o].trip] = "PENDING" /\ order[o].trip \in Trip
      BY <1>a, <2>1 DEF SInv, TripsConsistent, AssignedAwaitsStart
    <3>2. TripMoves(order[o].trip)
      BY <3>1
    <3> QED
      BY <2>1, <3>1, <3>2 DEF TripMoves, ClosedStatuses
  <2>2. CASE ~(order'[o].status = order[o].status /\ order'[o].trip = order[o].trip)
    BY <2>2 DEF OrderMoves
  <2> QED
    BY <2>1, <2>2
<1>4. CompletedTripDone'
  <2> SUFFICES ASSUME NEW t \in Trip, trip'[t] = "COMPLETED",
                      NEW o \in Order, order'[o].trip = t
               PROVE  order'[o].status \in ClosedStatuses
    BY DEF CompletedTripDone, OnBoard
  <2>1. CASE trip[t] = "COMPLETED"
    <3>1. order[o].trip = t => order[o].status \in ClosedStatuses
      BY <2>1 DEF SInv, TripsConsistent, CompletedTripDone, OnBoard
    <3>2. OrderMoves(o)
      OBVIOUS
    <3> QED
      BY <1>a, <3>1, <3>2 DEF OrderMoves
  <2>2. CASE trip[t] # "COMPLETED"
    BY <2>2 DEF TripMoves
  <2> QED
    BY <2>1, <2>2
<1>5. EmissionQueuedOnce'
  BY DEF SInv, TripsConsistent, EmissionQueuedOnce
<1> QED
  BY <1>1, <1>2, <1>3, <1>4, <1>5 DEF SInv, TripsConsistent

\* A request that writes these and ends.
LEMMA SerialEnd ==
  ASSUME IInv, IInv', SInv, Alone, NEW h \in Handler, Finish(h), UNCHANGED jobs,
         \A o \in Order : OrderMoves(o), \A t \in Trip : TripMoves(t)
  PROVE  SInv'
<1>1. task'[h].op = "idle"
  BY DEF Finish, Idle, IInv, TypeOK
<1> QED
  BY <1>1, SerialRows, SerialWrite

\* The orders a request loads are on the trip it loads, which waits.
LEMMA SerialLoad ==
  ASSUME IInv, IInv', SInv, Alone, NEW h \in Handler, UNCHANGED <<trip, jobs>>, Finish(h),
         NEW t \in Trip, trip[t] = "PENDING",
         \A o \in Order :
           \/ order'[o] = order[o]
           \/ order'[o] = [order[o] EXCEPT !.status = "ASSIGNED", !.trip = t]
  PROVE  SInv'
<1>1. ASSUME NEW o \in Order
      PROVE  OrderMoves(o)
  <2>1. order[o] \in OrderRecord
    BY DEF IInv, TypeOK, OrderRecord
  <2> QED
    BY <2>1 DEF OrderMoves, OrderRecord
<1>2. \A u \in Trip : TripMoves(u)
  BY DEF TripMoves
<1> QED
  BY <1>1, <1>2, SerialEnd

\* A step of a request that is on its own.
LEMMA SerialProceed ==
  ASSUME IInv, IInv', SInv, Alone, NEW h \in Handler, Proceed(h)
  PROVE  SInv'
<1>a. /\ order \in [Order -> OrderRecord] /\ task \in [Handler -> Task] /\ task[h] \in Task
      /\ trip \in [Trip -> TripStatus \cup {"NONE"}] /\ jobs \in [Trip -> Nat]
      /\ \A o \in Order : order[o] \in OrderRecord
  BY DEF IInv, TypeOK, OrderRecord
<1>b. Current(task[h])
  BY DEF SInv
<1>c. \A o \in Order : order[o].trip # NoTrip => o \in StopOrders(order[o].trip)
  BY DEF IInv, OnBoardHasStop
<1>1. CASE CreateRequery(h)
  <2>1. task'[h].op \in {"idle", "createWrite"} /\ UNCHANGED <<order, trip, stops, jobs>>
    BY <1>a, <1>1 DEF CreateRequery, Idle
  <2>2. Current(task'[h])
    BY <2>1 DEF Current
  <2> QED
    BY <2>1, <2>2, SerialRead
<1>2. CASE CreateWrite(h)
  <2>1. PICK t \in Trip :
          /\ trip[t] = "NONE"
          /\ trip' = [trip EXCEPT ![t] = "PENDING"]
          /\ \A o \in Order :
               \/ order'[o] = order[o]
               \/ order'[o] = [order[o] EXCEPT !.status = "ASSIGNED", !.trip = t]
    BY <1>2 DEF CreateWrite
  <2>2. \A u \in Trip : TripMoves(u) /\ trip'[t] = "PENDING"
    BY <1>a, <2>1 DEF TripMoves
  <2>3. ASSUME NEW o \in Order
        PROVE  OrderMoves(o)
    BY <1>a, <2>1, <2>2 DEF OrderMoves, OrderRecord
  <2> QED
    BY <1>2, <2>2, <2>3, SerialEnd DEF CreateWrite
<1>3. CASE AddCheck(h)
  <2>1. UNCHANGED <<order, trip, stops, jobs>> /\ task[h].op = "addCheck"
    BY <1>3 DEF AddCheck, Continue
  <2>2. task'[h] = Idle \/ task'[h] = [task[h] EXCEPT !.op = "addWrite"]
    BY <1>a, <1>3 DEF AddCheck
  <2>3. Current(task'[h])
    BY <1>a, <1>b, <2>1, <2>2, TaskShape DEF Current, Idle
  <2> QED
    BY <2>1, <2>3, SerialRead
<1>4. CASE AddWrite(h)
  <2>1. task[h].op = "addWrite" /\ task[h].trip \in Trip /\ trip[task[h].trip] = "PENDING"
    BY <1>a, <1>b, <1>4, TaskShape DEF AddWrite, Continue, Current
  <2>2. \A o \in Order :
          \/ order'[o] = order[o]
          \/ order'[o] = [order[o] EXCEPT !.status = "ASSIGNED", !.trip = task[h].trip]
    BY <1>4 DEF AddWrite, LoadOnTrip
  <2> QED
    BY <1>4, <2>1, <2>2, SerialLoad DEF AddWrite
<1>5. CASE \E t \in Trip : AssignPick(h, t)
  <2>1. PICK t \in Trip : AssignPick(h, t)
    BY <1>5
  <2>2. /\ UNCHANGED <<order, trip, stops, jobs>> /\ trip[t] = "PENDING"
        /\ task'[h].op = "assignWrite" /\ task'[h].trip = t
    BY <1>a, <2>1 DEF AssignPick
  <2>3. Current(task'[h])
    BY <2>2 DEF Current
  <2> QED
    BY <2>2, <2>3, SerialRead
<1>6. CASE AssignReject(h)
  <2>1. task'[h].op = "idle" /\ UNCHANGED <<order, trip, stops, jobs>>
    BY <1>a, <1>6 DEF AssignReject, Finish, Idle
  <2>2. Current(task'[h])
    BY <2>1 DEF Current
  <2> QED
    BY <2>1, <2>2, SerialRead
<1>7. CASE AssignWrite(h)
  <2>1. task[h].op = "assignWrite" /\ task[h].trip \in Trip /\ trip[task[h].trip] = "PENDING"
    BY <1>a, <1>b, <1>7, TaskShape DEF AssignWrite, Continue, Current
  <2>2. \A o \in Order :
          \/ order'[o] = order[o]
          \/ order'[o] = [order[o] EXCEPT !.status = "ASSIGNED", !.trip = task[h].trip]
    BY <1>7 DEF AssignWrite, LoadOnTrip
  <2> QED
    BY <1>7, <2>1, <2>2, SerialLoad DEF AssignWrite
<1>8. CASE RemoveWrite(h)
  <2>1. PICK t \in Trip : /\ t = task[h].trip /\ trip[t] = "PENDING"
                          /\ task[h].op = "removeWrite" /\ task[h].order \in Order
    BY <1>a, <1>b, <1>8, TaskShape DEF RemoveWrite, Continue, Current
  <2> DEFINE rest == {s \in stops[t] : s.id # task[h].stop}
  <2>2. ASSUME NEW o \in Order
        PROVE  OrderMoves(o)
    <3>1. \/ order' = order
          \/ order' = [order EXCEPT ![task[h].order] = Released(@)]
      BY <1>8 DEF RemoveWrite
    <3>2. order'[o] = order[o] \/ order'[o] = Released(order[o])
      BY <1>a, <2>1, <3>1
    <3> QED
      BY <1>a, <3>2 DEF Released, OrderMoves, OrderRecord
  <2>3. CASE trip' = trip
    <3>1. \A u \in Trip : TripMoves(u)
      BY <2>3 DEF TripMoves
    <3> QED
      BY <1>8, <2>2, <3>1, SerialEnd DEF RemoveWrite
  <2>4. CASE trip' # trip
    <3>1. /\ trip' = [trip EXCEPT ![t] = "CANCELLED"] /\ rest = {}
          /\ stops' = [stops EXCEPT ![t] = Renumbered(rest)]
      BY <1>8, <2>1, <2>4 DEF RemoveWrite
    <3>2. stops'[t] = {}
      BY <2>1, <3>1 DEF Renumbered, IInv, TypeOK
    <3>3. \A o \in Order : order'[o].trip # t
      BY <2>1, <3>2, TripAssumption DEF IInv, OnBoardHasStop, StopOrders
    <3>4. \A u \in Trip : TripMoves(u)
      BY <1>a, <2>1, <3>1, <3>3 DEF TripMoves
    <3> QED
      BY <1>8, <2>2, <3>4, SerialEnd DEF RemoveWrite
  <2> QED
    BY <2>3, <2>4
<1>9. CASE OptimizeWrite(h)
  <2>1. UNCHANGED <<order, trip, jobs>> /\ Finish(h)
    BY <1>9 DEF OptimizeWrite
  <2>2. (\A o \in Order : OrderMoves(o)) /\ \A u \in Trip : TripMoves(u)
    BY <2>1 DEF OrderMoves, TripMoves
  <2> QED
    BY <2>1, <2>2, SerialEnd
<1>10. CASE StartWrite(h)
  <2>1. PICK t \in Trip : /\ t = task[h].trip /\ trip[t] = "PENDING"
                          /\ task[h].orders = StopOrders(t)
    BY <1>a, <1>b, <1>10, TaskShape DEF StartWrite, Continue, Current
  <2>2. ASSUME NEW o \in Order
        PROVE  OrderMoves(o) /\ (order'[o].trip = t => order'[o].status # "ASSIGNED")
    <3>1. CASE o \in StopOrders(t) /\ Startable(o)
      <4>1. /\ order'[o].status = "IN_TRANSIT" /\ order'[o].trip = order[o].trip
            /\ order[o].status \notin ClosedStatuses
        BY <1>a, <1>10, <2>1, <3>1
           DEF StartWrite, OrderRecord, Startable, StartableStatuses, ClosedStatuses
      <4> QED
        BY <4>1 DEF OrderMoves
    <3>2. CASE ~(o \in StopOrders(t) /\ Startable(o))
      <4>1. order'[o] = order[o]
        BY <1>10, <2>1, <3>2 DEF StartWrite
      <4>2. order[o].trip = t => o \in StopOrders(t)
        BY <1>c, <2>1, TripAssumption
      <4> QED
        BY <3>2, <4>1, <4>2 DEF OrderMoves, Startable, StartableStatuses
    <3> QED
      BY <3>1, <3>2
  <2>3. \A u \in Trip : TripMoves(u)
    BY <1>a, <1>10, <2>1, <2>2 DEF StartWrite, TripMoves
  <2> QED
    BY <1>10, <2>2, <2>3, SerialEnd DEF StartWrite
<1>11. CASE CancelTripWrite(h)
  <2>1. PICK t \in Trip : /\ t = task[h].trip /\ trip[t] = "PENDING"
                          /\ task[h].orders = StopOrders(t)
    BY <1>a, <1>b, <1>11, TaskShape DEF CancelTripWrite, Continue, Current
  <2>2. ASSUME NEW o \in Order
        PROVE  OrderMoves(o) /\ (order'[o].trip = t => order'[o].status # "ASSIGNED")
    <3>1. CASE o \in StopOrders(t) /\ Returnable(o)
      <4>1. order'[o].trip = NoTrip
        BY <1>a, <1>11, <2>1, <3>1 DEF CancelTripWrite, Released, OrderRecord
      <4> QED
        BY <4>1, <2>1, TripAssumption DEF OrderMoves
    <3>2. CASE ~(o \in StopOrders(t) /\ Returnable(o))
      <4>1. order'[o] = order[o]
        BY <1>11, <2>1, <3>2 DEF CancelTripWrite
      <4>2. order[o].trip = t => o \in StopOrders(t)
        BY <1>c, <2>1, TripAssumption
      <4> QED
        BY <3>2, <4>1, <4>2 DEF OrderMoves, Returnable
    <3> QED
      BY <3>1, <3>2
  <2>3. \A u \in Trip : TripMoves(u)
    BY <1>a, <1>11, <2>1, <2>2 DEF CancelTripWrite, TripMoves
  <2> QED
    BY <1>11, <2>2, <2>3, SerialEnd DEF CancelTripWrite
<1>12. CASE CompleteWrite(h)
  <2>1. PICK t \in Trip : /\ t = task[h].trip /\ trip[t] = "IN_PROGRESS"
                          /\ \A o \in StopOrders(t) : order[o].status \in ClosedStatuses
    BY <1>a, <1>b, <1>12, TaskShape DEF CompleteWrite, Continue, Current
  <2>2. order' = order /\ \A o \in Order : OrderMoves(o)
    BY <1>12 DEF CompleteWrite, OrderMoves
  <2>3. \A o \in Order : order'[o].trip = t => order'[o].status \in ClosedStatuses
    BY <1>c, <2>1, <2>2, TripAssumption
  <2>4. \A u \in Trip : TripMoves(u)
    BY <1>a, <1>12, <2>1, <2>3 DEF CompleteWrite, TripMoves
  <2> QED
    BY <1>12, <2>2, <2>4, SerialEnd DEF CompleteWrite
<1>13. CASE CancelOrderWrite(h)
  <2>1. \A o \in Order : OrderMoves(o)
    BY <1>a, <1>13 DEF CancelOrderWrite, OrderMoves, OrderRecord, ClosedStatuses
  <2>2. \A u \in Trip : TripMoves(u)
    BY <1>13 DEF CancelOrderWrite, TripMoves
  <2> QED
    BY <1>13, <2>1, <2>2, SerialEnd DEF CancelOrderWrite
<1>14. CASE TrackWrite(h)
  <2>1. PICK o \in Order, s \in OrderStatus :
          o = task[h].order /\ s = task[h].status /\ s \in NextStatuses[order[o].status]
    BY <1>a, <1>b, <1>14, TaskShape DEF TrackWrite, Continue, Current
  <2>2. order' = [order EXCEPT ![o] = Tracked(@, s)] /\ UNCHANGED <<trip, jobs>>
    BY <1>14, <2>1 DEF TrackWrite
  <2>3. /\ order[o].status \notin ClosedStatuses /\ s # "PENDING"
        /\ s = "ASSIGNED" => order[o].status = "PENDING"
    BY <1>a, <2>1 DEF NextStatuses, OrderRecord, OrderStatus, ClosedStatuses
  <2>4. s = "ASSIGNED" => order[o].trip = NoTrip
    BY <2>3 DEF SInv
  <2>5. OrderMoves(o)
    BY <1>a, <2>2, <2>3, <2>4 DEF Tracked, OrderMoves, OrderRecord
  <2>6. \A p \in Order : OrderMoves(p)
    BY <1>a, <2>2, <2>5 DEF OrderMoves
  <2>7. \A u \in Trip : TripMoves(u)
    BY <2>2 DEF TripMoves
  <2>8. task'[h].op \in {"idle", "finishCheck"}
    BY <1>a, <1>14 DEF TrackWrite, Idle
  <2> QED
    BY <2>2, <2>6, <2>7, <2>8, SerialRows, SerialWrite
<1>15. CASE FinishCheck(h)
  <2>1. UNCHANGED <<order, trip, stops, jobs>>
    BY <1>15 DEF FinishCheck
  <2>2. \/ task'[h].op = "idle"
        \/ /\ task'[h].op = "finishWrite" /\ task'[h].trip = task[h].trip
           /\ Finishable(task[h].trip)
    BY <1>a, <1>15 DEF FinishCheck, Idle
  <2>3. Current(task'[h])
    BY <2>2 DEF Current
  <2> QED
    BY <2>1, <2>3, SerialRead
<1>16. CASE FinishWrite(h)
  <2>1. PICK t \in Trip : t = task[h].trip /\ Finishable(t)
    BY <1>a, <1>b, <1>16, TaskShape DEF FinishWrite, Continue, Current
  <2>2. /\ UNCHANGED <<order, stops, jobs>> /\ trip' = [trip EXCEPT ![t] = "COMPLETED"]
        /\ \A o \in Order : OrderMoves(o)
    BY <1>16, <2>1 DEF FinishWrite, OrderMoves
  <2>3. \A u \in Trip : TripMoves(u)
    BY <1>a, <2>1, <2>2 DEF TripMoves, Finishable, AllDone, OnBoard
  <2>4. task'[h].op = "enqueue" /\ task'[h].trip = t
    BY <1>a, <1>16, <2>1, TaskShape DEF FinishWrite, Continue
  <2>5. jobs[t] = 0
    BY <1>a, <2>1 DEF SInv, Finishable
  <2>6. Current(task[h])'
    BY <1>a, <2>1, <2>2, <2>4, <2>5 DEF Current
  <2>7. \A g \in Handler : Current(task[g])'
    BY <2>6 DEF Alone
  <2> QED
    BY <2>2, <2>3, <2>7, SerialRows DEF SInv
<1>17. CASE Enqueue(h)
  <2>1. PICK t \in Trip : t = task[h].trip /\ trip[t] = "COMPLETED" /\ jobs[t] = 0
    BY <1>a, <1>b, <1>17, TaskShape DEF Enqueue, Continue, Current
  <2>2. /\ UNCHANGED <<order, trip, stops>> /\ jobs' = [jobs EXCEPT ![t] = @ + 1]
        /\ task'[h].op = "idle"
    BY <1>a, <1>17, <2>1 DEF Enqueue, Finish, Idle
  <2>3. \A u \in Trip : jobs'[u] <= 1 /\ (jobs'[u] > 0 => trip'[u] = "COMPLETED")
    BY <1>a, <2>1, <2>2 DEF SInv, TripsConsistent, EmissionQueuedOnce
  <2>4. TripsConsistent'
    BY <2>2, <2>3 DEF SInv, TripsConsistent, AssignedAwaitsStart, CompletedTripDone, OnBoard,
       EmissionQueuedOnce
  <2>5. \A o \in Order : order'[o].status = "PENDING" => order'[o].trip = NoTrip
    BY <2>2 DEF SInv
  <2> QED
    BY <2>2, <2>3, <2>4, <2>5, SerialWrite
<1> QED
  BY <1>1, <1>2, <1>3, <1>4, <1>5, <1>6, <1>7, <1>8, <1>9, <1>10, <1>11, <1>12, <1>13,
     <1>14, <1>15, <1>16, <1>17 DEF Proceed

\* The first step of a request.
LEMMA SerialBegin ==
  ASSUME IInv, SInv, Alone, NEW h \in Handler, NEW e, NEW r, Begin(h, e, r),
         UNCHANGED <<order, trip, stops, jobs>>, Current(r)
  PROVE  SInv'
<1>1. task'[h] = r
  BY DEF Begin, IInv, TypeOK
<1> QED
  BY <1>1, SerialRead

\* A step that is of no request: what one in flight holds looks at none of it.
LEMMA SerialOther ==
  ASSUME SInv, UNCHANGED <<trip, stops, jobs, task>>,
         \A o \in Order : order'[o].status = order[o].status /\ order'[o].trip = order[o].trip,
         \A h \in Handler : task[h].op = "trackWrite" => task[h].order \in Order,
         \A t \in Trip : StopOrders(t) \subseteq Order,
         \A h \in Handler : task[h].op = "completeWrite" => task[h].trip \in Trip
  PROVE  SInv'
<1>1. \A t : (AllDone(t)' <=> AllDone(t)) /\ (Finishable(t)' <=> Finishable(t))
  BY DEF AllDone, Finishable, OnBoard
<1>2. \A t : StopOrders(t)' = StopOrders(t)
  BY DEF StopOrders
<1>3. ASSUME NEW h \in Handler
      PROVE  Current(task[h])'
  <2>1. Current(task[h])
    BY DEF SInv
  <2> QED
    BY <1>1, <1>2, <2>1 DEF Current
<1>4. TripsConsistent'
  BY DEF SInv, TripsConsistent, AssignedAwaitsStart, CompletedTripDone, OnBoard,
     EmissionQueuedOnce
<1> QED
  BY <1>3, <1>4 DEF SInv

\* With one handler, and nobody putting a status, every step keeps SInv.
LEMMA SerialStep ==
  ASSUME IInv, IInv', SInv, Alone, MaxOverrides = 0, [Next]_vars
  PROVE  SInv'
<1>a. /\ \A h \in Handler : task[h].op = "trackWrite" => task[h].order \in Order
      /\ \A t \in Trip : StopOrders(t) \subseteq Order
      /\ \A h \in Handler : task[h].op = "completeWrite" => task[h].trip \in Trip
  <2>1. \A h \in Handler : task[h] \in Task
    BY DEF IInv, TypeOK
  <2>2. \A t \in Trip : StopOrders(t) \subseteq Order
    BY DEF StopOrders, IInv, TypeOK, Stop
  <2> QED
    BY <2>1, <2>2, TaskShape
<1>1. CASE \E h \in Handler : Proceed(h)
  BY <1>1, SerialProceed
<1>2. CASE \E h \in Handler : Crash(h)
  <2>1. PICK h \in Handler : Crash(h)
    BY <1>2
  <2>2. task'[h].op = "idle" /\ UNCHANGED <<order, trip, stops, jobs>>
    BY <2>1 DEF Crash, Finish, Idle, IInv, TypeOK
  <2>3. Current(task'[h])
    BY <2>2 DEF Current
  <2> QED
    BY <2>2, <2>3, SerialRead
<1>3. ASSUME NEW h \in Handler, NEW p \in Plans, CreateBegin(h, p)
      PROVE  SInv'
  <2> DEFINE r == [op |-> "createRequery", plan |-> p]
  <2>1. Current(r)
    BY DEF Current
  <2> QED
    BY <1>3, <2>1, SerialBegin DEF CreateBegin
<1>4. ASSUME NEW h \in Handler, NEW t \in Trip, NEW l \in AddLists, AddBegin(h, t, l)
      PROVE  SInv'
  <2>1. PICK n : Begin(h, "add", [op |-> "addCheck", trip |-> t, list |-> l, last |-> n])
    BY <1>4 DEF AddBegin
  <2> DEFINE r == [op |-> "addCheck", trip |-> t, list |-> l, last |-> n]
  <2>2. Current(r)
    BY <1>4 DEF Current, AddBegin
  <2> QED
    BY <1>4, <2>1, <2>2, SerialBegin DEF AddBegin
<1>5. ASSUME NEW h \in Handler, NEW t \in Trip, NEW s \in stops[t], RemoveBegin(h, t, s)
      PROVE  SInv'
  <2> DEFINE r == [op |-> "removeWrite", trip |-> t, order |-> s.order, stop |-> s.id]
  <2>1. Current(r)
    BY <1>5 DEF Current, RemoveBegin
  <2> QED
    BY <1>5, <2>1, SerialBegin DEF RemoveBegin
<1>6. ASSUME NEW h \in Handler, NEW t \in Trip, StartBegin(h, t)
      PROVE  SInv'
  <2> DEFINE r == [op |-> "startWrite", trip |-> t, orders |-> StopOrders(t)]
  <2>1. Current(r)
    BY <1>6 DEF Current, StartBegin
  <2> QED
    BY <1>6, <2>1, SerialBegin DEF StartBegin
<1>7. ASSUME NEW h \in Handler, NEW t \in Trip, CancelTripBegin(h, t)
      PROVE  SInv'
  <2> DEFINE r == [op |-> "cancelTripWrite", trip |-> t, orders |-> StopOrders(t)]
  <2>1. Current(r)
    BY <1>7 DEF Current, CancelTripBegin
  <2> QED
    BY <1>7, <2>1, SerialBegin DEF CancelTripBegin
<1>8. ASSUME NEW h \in Handler, NEW t \in Trip, CompleteBegin(h, t)
      PROVE  SInv'
  <2> DEFINE r == [op |-> "completeWrite", trip |-> t]
  <2>1. Current(r)
    BY <1>8 DEF Current, CompleteBegin
  <2> QED
    BY <1>8, <2>1, SerialBegin DEF CompleteBegin
<1>9. ASSUME NEW h \in Handler, NEW t \in Trip, OptimizeBegin(h, t)
      PROVE  SInv'
  <2> DEFINE r == [op |-> "optimizeWrite", trip |-> t, rows |-> stops[t]]
  <2>1. Current(r)
    BY DEF Current
  <2> QED
    BY <1>9, <2>1, SerialBegin DEF OptimizeBegin
<1>10. ASSUME NEW h \in Handler, NEW o \in Order, AssignBegin(h, o)
       PROVE  SInv'
  <2> DEFINE r == [op |-> "assignPick", order |-> o]
  <2>1. Current(r)
    BY DEF Current
  <2> QED
    BY <1>10, <2>1, SerialBegin DEF AssignBegin
<1>11. ASSUME NEW h \in Handler, NEW o \in Order, CancelOrderBegin(h, o)
       PROVE  SInv'
  <2> DEFINE r == [op |-> "cancelOrderWrite", order |-> o]
  <2>1. Current(r)
    BY DEF Current
  <2> QED
    BY <1>11, <2>1, SerialBegin DEF CancelOrderBegin
<1>12. ASSUME NEW h \in Handler, NEW o \in Order, TrackNote(h, o)
       PROVE  SInv'
  <2> DEFINE r == [op |-> "finishCheck", trip |-> order[o].trip]
  <2>1. Current(r)
    BY DEF Current
  <2> QED
    BY <1>12, <2>1, SerialBegin DEF TrackNote
<1>13. ASSUME NEW h \in Handler, NEW o \in Order, NEW s \in OrderStatus, TrackBegin(h, o, s)
       PROVE  SInv'
  <2> DEFINE r == [op |-> "trackWrite", order |-> o, status |-> s, trip |-> order[o].trip]
  <2>1. Current(r)
    BY <1>13 DEF Current, TrackBegin
  <2> QED
    BY <1>13, <2>1, SerialBegin DEF TrackBegin
<1>14. ASSUME NEW o \in Order, NEW s \in OrderStatus, PutStatus(o, s)
       PROVE  SInv'
  <2>1. overrides \in Nat
    BY DEF IInv, TypeOK
  <2> QED
    BY <1>14, <2>1 DEF PutStatus
<1>15. ASSUME NEW o \in Order, DeleteOrder(o)
       PROVE  SInv'
  <2>1. \A p \in Order : order'[p].status = order[p].status /\ order'[p].trip = order[p].trip
    BY <1>15 DEF DeleteOrder, IInv, TypeOK
  <2> QED
    BY <1>a, <1>15, <2>1, SerialOther DEF DeleteOrder
<1>16. ASSUME NEW o \in Order, PaymentSucceeded(o) \/ PaymentFailed(o)
       PROVE  SInv'
  BY <1>a, <1>16, SerialOther DEF PaymentSucceeded, PaymentFailed
<1>17. CASE UNCHANGED vars
  BY <1>a, <1>17, SerialOther DEF vars
<1> QED
  BY <1>1, <1>2, <1>3, <1>4, <1>5, <1>6, <1>7, <1>8, <1>9, <1>10, <1>11, <1>12, <1>13,
     <1>14, <1>15, <1>16, <1>17 DEF Next

\* When one request is served at a time and nobody puts a status by hand, the status of a
\* trip fits the orders on it, and its emission is asked for once, after any sequence of
\* requests, with the process dying between any two of their steps.
THEOREM TripsConsistentSafe ==
  ASSUME \A g, h \in Handler : g = h, MaxOverrides = 0
  PROVE  Spec => []TripsConsistent
<1>1. Init => SInv
  BY TripAssumption DEF Init, SInv, Current, Idle, TripsConsistent, AssignedAwaitsStart,
     CompletedTripDone, OnBoard, EmissionQueuedOnce
<1>2. IInv /\ IInv' /\ SInv /\ [Next]_vars => SInv'
  BY SerialStep DEF Alone
<1>3. SInv => TripsConsistent
  BY DEF SInv
<1> QED
  BY <1>1, <1>2, <1>3, Invariant, PTL DEF Spec
================================================================================

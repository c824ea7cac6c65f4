----------------------------- MODULE Dispatch_proofs ----------------------------
(***************************************************************************)
(* The safety of the dispatch of a hub, for any workers, staff requests,   *)
(* orders, vehicles and drivers, and whatever stalls, crashes, throws and  *)
(* overruns its lock.  Three inductive invariants build on one another:    *)
(* types and the lock (LInv), the orders on trips (OInv), and what the     *)
(* lock lets a worker rely on between its reads and its writes (RInv).     *)
(* The lock is a lease on the hub, the one of HubLease.                    *)
(***************************************************************************)
EXTENDS Dispatch, SetLemmas

\* Types, the bound on trips, and a trip to write where one is about to be written.
LInv ==
  /\ TypeOK
  /\ Len(trips) <= MaxTrips
  /\ \A w \in Worker : pc[w] = "write" => work[w].plan \in Plan
  /\ OwnLock

\* An order on a trip waits no longer, so no second trip takes it.
OInv ==
  /\ \A i \in DOMAIN trips : trips[i].load \cap Waiting = {}
  /\ \A i, j \in DOMAIN trips : i # j => trips[i].load \cap trips[j].load = {}

\* Trip i is open and was booked under the lock.
Booked(i) == Active(trips[i]) /\ trips[i].by = "worker"
VehicleUnbooked(v) == \A i \in DOMAIN trips : Booked(i) => trips[i].vehicle # v
DriverUnbooked(d) == \A i \in DOMAIN trips : Booked(i) => trips[i].driver # d

\* What worker w may rely on while its lock has not expired: no trip booked under
\* the lock uses a vehicle or driver that w has left, or those of the trip it is
\* about to write, which it has left no longer.
Reliable(w) ==
  /\ pc[w] \in {"orders", "drivers", "requery", "write"} =>
       \A v \in work[w].vehicles : VehicleUnbooked(v)
  /\ pc[w] \in {"requery", "write"} =>
       \A d \in work[w].drivers : DriverUnbooked(d)
  /\ pc[w] = "write" =>
       /\ VehicleUnbooked(work[w].plan.vehicle)
       /\ DriverUnbooked(work[w].plan.driver)
       /\ work[w].plan.vehicle \notin work[w].vehicles
       /\ work[w].plan.driver \notin work[w].drivers

RInv ==
  /\ \A w \in Worker : w \notin overran => Reliable(w)
  /\ WorkerTripsDisjoint

--------------------------------------------------------------------------------
(***************************************************************************)
(* Facts about what the actions build.                                     *)
(***************************************************************************)

\* What a staff request holds is determined by its next step.
LEMMA TaskShape ==
  ASSUME NEW r \in Task
  PROVE  /\ r.op \in {"check", "checkProgress", "requery", "write"} =>
              r \in [op : {"check", "checkProgress", "requery", "write"},
                     vehicle : Vehicle, driver : Driver, load : SUBSET Order]
         /\ r.op \in {"recheck", "rewrite"} =>
              r \in [op : {"recheck", "rewrite"}, trip : 1..MaxTrips,
                     vehicle : Vehicle]
BY DEF Task, Idle

\* What packing takes it takes from the orders it is given.
LEMMA PackedSubset ==
  ASSUME NEW v, NEW S
  PROVE  Packed(v, S) \subseteq S
BY DEF Packed

\* The rows of trips are rows, and their ids are consecutive.
LEMMA TripsType ==
  ASSUME TypeOK
  PROVE  /\ Len(trips) \in Nat
         /\ DOMAIN trips = 1..Len(trips)
         /\ \A i \in DOMAIN trips : trips[i] \in Row
BY DEF TypeOK

\* A booking adds trip n, which carries those orders of p that wait.
Added(n, p, by) ==
  /\ n \notin DOMAIN trips
  /\ DOMAIN trips' = DOMAIN trips \cup {n}
  /\ trips'[n].vehicle = p.vehicle /\ trips'[n].driver = p.driver
  /\ trips'[n].load = p.load \cap Waiting /\ trips'[n].by = by

\* A booked trip is the last one; the others stay, and its orders wait no longer.
LEMMA BookFacts ==
  ASSUME TypeOK, NEW p, p.vehicle \in Vehicle, p.driver \in Driver,
         p.load \subseteq Order, NEW by \in {"worker", "late", "staff"}, Book(p, by)
  PROVE  /\ trips' \in Seq(Row) /\ Len(trips') <= MaxTrips
         /\ orders' \in [Order -> {"waiting", "loaded"}]
         /\ Waiting' = Waiting \ p.load
         /\ \A i \in DOMAIN trips : trips'[i] = trips[i]
         /\ \E n : Added(n, p, by)
<1> DEFINE row == [status |-> "PENDING", vehicle |-> p.vehicle, driver |-> p.driver,
                   load |-> p.load \cap Waiting, by |-> by]
<1>1. row \in Row
  BY DEF Row, Waiting
<1>2. /\ trips \in Seq(Row) /\ Len(trips) \in Nat /\ MaxTrips \in Nat
      /\ orders \in [Order -> {"waiting", "loaded"}]
  BY BoundAssumption DEF TypeOK
<1>3. trips' = Append(trips, row) /\ Len(trips) < MaxTrips
  BY DEF Book, StillWaiting
<1>4. orders' = [o \in Order |-> IF o \in p.load \cap Waiting THEN "loaded" ELSE orders[o]]
  BY DEF Book, StillWaiting
<1>5. orders' \in [Order -> {"waiting", "loaded"}] /\ Waiting' = Waiting \ p.load
  BY <1>2, <1>4 DEF Waiting
<1> HIDE DEF row
<1>6. /\ trips' \in Seq(Row)
      /\ Len(trips') = Len(trips) + 1 /\ Len(trips') <= MaxTrips
      /\ DOMAIN trips' = DOMAIN trips \cup {Len(trips) + 1}
      /\ Len(trips) + 1 \notin DOMAIN trips
      /\ \A i \in DOMAIN trips : trips'[i] = trips[i]
      /\ trips'[Len(trips) + 1] = row
  BY <1>1, <1>2, <1>3
<1>7. /\ row.vehicle = p.vehicle /\ row.driver = p.driver
      /\ row.load = p.load \cap Waiting /\ row.by = by
  BY DEF row
<1> QED
  BY <1>5, <1>6, <1>7 DEF Added

--------------------------------------------------------------------------------
(***************************************************************************)
(* Types and the lock.                                                     *)
(***************************************************************************)

LEMMA LInit == Init => LInv
<1> SUFFICES ASSUME Init PROVE LInv
  OBVIOUS
<1> USE WorkerAssumption, BoundAssumption
<1>1. Done(TRUE) \in Work
  BY DEF Done, Work
<1>2. job \in [state : JobState, runner : Worker \cup {NoWorker}, failures : Nat,
               stalls : Nat]
  BY DEF Init, JobState
<1>3. pc \in [Worker -> Pc] /\ work \in [Worker -> Work] /\ overran \subseteq Worker
  BY <1>1 DEF Init, Pc
<1>4. orders \in [Order -> {"waiting", "loaded"}] /\ task \in [Handler -> Task]
  BY DEF Init, Task
<1>5. trips = <<>> /\ trips \in Seq(Row) /\ Len(trips) = 0
  BY DEF Init
<1>6. TypeOK
  BY <1>2, <1>3, <1>4, <1>5 DEF Init, TypeOK
<1> QED
  BY <1>5, <1>6 DEF Init, LInv, OwnLock, Inside, InsidePc

\* The part of LInv about the queue and the workers.
WorkerType ==
  /\ lock \in Worker \cup {NoWorker}
  /\ pc \in [Worker -> Pc]
  /\ work \in [Worker -> Work]
  /\ overran \subseteq Worker
  /\ \A w \in Worker : pc[w] = "write" => work[w].plan \in Plan

\* Every step of the queue keeps the type of the job.
LEMMA JobStep ==
  ASSUME LInv, [Next]_vars
  PROVE  job' \in [state : JobState, runner : Worker \cup {NoWorker}, failures : Nat,
                   stalls : Nat]
<1> DEFINE J == [state : JobState, runner : Worker \cup {NoWorker}, failures : Nat,
                 stalls : Nat]
<1>0. job \in J /\ job.failures \in Nat /\ job.stalls \in Nat
  BY DEF LInv, TypeOK
<1>1. CASE Request
  BY <1>0, <1>1 DEF Request, JobState
<1>2. CASE Retry
  BY <1>0, <1>2 DEF Retry, JobState
<1>3. CASE Stall
  <2>1. CASE job.stalls < MaxStalls
    <3>1. PICK n \in Nat : n = job.stalls + 1
      BY <1>0
    <3>2. job' = [job EXCEPT !.state = "waiting", !.runner = NoWorker, !.stalls = n]
      BY <1>3, <2>1, <3>1 DEF Stall
    <3> QED
      BY <1>0, <3>2 DEF JobState
  <2>2. CASE ~(job.stalls < MaxStalls)
    <3>1. job' = [job EXCEPT !.state = "failed", !.runner = NoWorker]
      BY <1>3, <2>2 DEF Stall
    <3> QED
      BY <1>0, <3>1 DEF JobState
  <2> QED
    BY <2>1, <2>2
<1>4. CASE Discard
  BY <1>4 DEF Discard, JobState
<1>5. ASSUME NEW w \in Worker, Take(w)
      PROVE  job' \in J
  BY <1>0, <1>5 DEF Take, JobState
<1>6. ASSUME NEW w \in Worker, Finish(w)
      PROVE  job' \in J
  <2>1. CASE job.runner # w
    BY <1>0, <1>6, <2>1 DEF Finish
  <2>2. CASE job.runner = w
    <3>1. PICK n : n = IF work[w].ok THEN job.failures ELSE FailuresAfter(job.failures)
      OBVIOUS
    <3>2. PICK state : state = Outcome(work[w].ok, n)
      OBVIOUS
    <3>3. n \in Nat /\ state \in JobState
      BY <1>0, <3>1, <3>2 DEF FailuresAfter, Outcome, JobState
    <3>4. job' = [job EXCEPT !.state = state, !.runner = NoWorker, !.failures = n]
      BY <1>6, <2>2, <3>1, <3>2 DEF Finish
    <3> QED
      BY <1>0, <3>3, <3>4
  <2> QED
    BY <2>1, <2>2
<1>7. CASE UNCHANGED job
  BY <1>0, <1>7
<1> QED
  BY <1>1, <1>2, <1>3, <1>4, <1>5, <1>6, <1>7
  DEF Next, vars, workerVars, WorkerStep, StaffStep, Expire, Acquire, FindVehicles,
      FindOrders, FindDrivers, Requery, Write, Release, Throw, Crash, ManualBegin,
      ManualCheck, AssignBegin, AssignCheck, StaffRequery, StaffWrite, ReassignBegin,
      ReassignCheck, ReassignWrite, StartTrip, CloseTrip

\* A step of a worker keeps the types of lock and workers.
LEMMA WorkerTypeStep ==
  ASSUME LInv, NEW w \in Worker, WorkerStep(w) \/ Throw(w) \/ Crash(w)
  PROVE  WorkerType'
<1> USE WorkerAssumption
<1>0. WorkerType /\ work[w] \in Work
  BY DEF LInv, TypeOK, WorkerType
<1>1. \A ok \in BOOLEAN : Done(ok) \in Work
  BY DEF Done, Work
<1>2. CASE Take(w)
  BY <1>0, <1>2 DEF Take, WorkerType, Pc
<1>3. CASE Acquire(w)
  BY <1>0, <1>3 DEF Acquire, Goto, WorkerType, Pc, InsidePc
<1>4. CASE FindVehicles(w)
  <2>1. [work[w] EXCEPT !.vehicles = {v \in Vehicle : VehicleFree(v)}] \in Work
    BY <1>0 DEF Work
  <2> QED
    BY <1>0, <1>4, <2>1 DEF FindVehicles, Goto, WorkerType, Pc, InsidePc
<1>5. CASE FindOrders(w)
  <2>1. [work[w] EXCEPT !.orders = Waiting] \in Work
    BY <1>0 DEF Work, Waiting
  <2> QED
    BY <1>0, <1>1, <1>5, <2>1 DEF FindOrders, Stop, Goto, WorkerType, Pc, InsidePc
<1>6. CASE FindDrivers(w)
  <2>1. [work[w] EXCEPT !.drivers = {d \in Driver : DriverFree(d)}] \in Work
    BY <1>0 DEF Work
  <2> QED
    BY <1>0, <1>1, <1>6, <2>1 DEF FindDrivers, Stop, Goto, WorkerType, Pc, InsidePc
<1>7. CASE Requery(w)
  <2>1. CASE Stop(w, TRUE) /\ UNCHANGED <<lock, overran>>
    BY <1>0, <1>1, <2>1 DEF Stop, Goto, WorkerType, Pc, InsidePc
  <2>2. ASSUME NEW d \in work[w].drivers, NEW v \in work[w].vehicles,
               NEW L \in SUBSET work[w].orders, NEW p \in Plan \cup {NoPlan},
               p \in Plan \/ pc' = [pc EXCEPT ![w] = "requery"],
               pc' = [pc EXCEPT ![w] = "requery"] \/ pc' = [pc EXCEPT ![w] = "write"],
               work' = [work EXCEPT ![w] =
                 [vehicles |-> {u \in work[w].vehicles : Rank[u] > Rank[v]},
                  orders |-> work[w].orders \ L, drivers |-> work[w].drivers \ {d},
                  plan |-> p, ok |-> TRUE]],
               UNCHANGED <<lock, overran>>
        PROVE  WorkerType'
    <3>1. [vehicles |-> {u \in work[w].vehicles : Rank[u] > Rank[v]},
           orders |-> work[w].orders \ L, drivers |-> work[w].drivers \ {d},
           plan |-> p, ok |-> TRUE] \in Work
      BY <1>0 DEF Work
    <3> QED
      BY <1>0, <2>2, <3>1 DEF WorkerType, Pc, InsidePc
  <2>3. CASE ~Stop(w, TRUE)
    <3>1. PICK d \in work[w].drivers, v \in work[w].vehicles :
            LET L == Packed(v, work[w].orders)
            IN /\ work' = [work EXCEPT ![w] =
                    [vehicles |-> {u \in work[w].vehicles : Rank[u] > Rank[v]},
                     orders |-> work[w].orders \ L,
                     drivers |-> work[w].drivers \ {d},
                     plan |-> IF L \cap Waiting = {} THEN NoPlan
                              ELSE [vehicle |-> v, driver |-> d, load |-> L \cap Waiting],
                     ok |-> TRUE]]
               /\ pc' = [pc EXCEPT ![w] = IF L \cap Waiting = {} THEN "requery"
                                          ELSE "write"]
      BY <1>7, <2>3 DEF Requery, Goto
    <3>2. PICK L : L = Packed(v, work[w].orders)
      OBVIOUS
    <3>3. L \subseteq work[w].orders
      BY <3>2, PackedSubset
    <3>4. work[w] \in Work /\ L \cap Waiting \subseteq Order
      BY <1>0 DEF Waiting
    <3>5. [vehicle |-> v, driver |-> d, load |-> L \cap Waiting] \in Plan
      BY <3>4 DEF Work, Plan
    <3>6. UNCHANGED <<lock, overran>>
      BY <1>7 DEF Requery
    <3>7. CASE L \cap Waiting = {}
      BY <2>2, <3>1, <3>2, <3>3, <3>6, <3>7
    <3>8. CASE L \cap Waiting # {}
      BY <2>2, <3>1, <3>2, <3>3, <3>5, <3>6, <3>8
    <3> QED
      BY <3>7, <3>8
  <2> QED
    BY <1>7, <2>1, <2>3 DEF Requery
<1>8. CASE Write(w)
  <2>1. [work[w] EXCEPT !.plan = NoPlan] \in Work
    BY <1>0 DEF Work
  <2> QED
    BY <1>0, <1>8, <2>1 DEF Write, Goto, WorkerType, Pc, InsidePc
<1>9. CASE Release(w)
  BY <1>0, <1>9 DEF Release, Released, Goto, WorkerType, Pc, InsidePc
<1>10. CASE Finish(w)
  BY <1>0, <1>1, <1>10 DEF Finish, WorkerType, Pc
<1>11. CASE Throw(w)
  BY <1>0, <1>1, <1>11 DEF Throw, Stop, Goto, WorkerType, Pc, InsidePc
<1>12. CASE Crash(w)
  BY <1>0, <1>1, <1>12 DEF Crash, Goto, WorkerType, Pc
<1> QED
  BY <1>2, <1>3, <1>4, <1>5, <1>6, <1>7, <1>8, <1>9, <1>10, <1>11, <1>12
  DEF WorkerStep

\* What happens to a trip that exists changes its row and nothing else.
LEMMA RowStep ==
  ASSUME LInv, UNCHANGED orders,
         \/ \E i \in DOMAIN trips : StartTrip(i) \/ CloseTrip(i)
         \/ \E h \in Handler : ReassignWrite(h)
  PROVE  /\ trips' \in Seq(Row) /\ Len(trips') = Len(trips)
         /\ DOMAIN trips' = DOMAIN trips
         /\ \A i \in DOMAIN trips :
              /\ trips'[i].load = trips[i].load
              /\ Booked(i)' => Booked(i) /\ trips'[i].vehicle = trips[i].vehicle
                                         /\ trips'[i].driver = trips[i].driver
<1>0. /\ trips \in Seq(Row) /\ DOMAIN trips = 1..Len(trips) /\ Len(trips) \in Nat
      /\ \A i \in DOMAIN trips : trips[i] \in Row
  BY TripsType DEF LInv, TypeOK
<1>1. ASSUME NEW i \in DOMAIN trips, NEW row \in Row, row.load = trips[i].load,
             row.by = "worker" =>
               /\ Booked(i)
               /\ row.vehicle = trips[i].vehicle /\ row.driver = trips[i].driver,
             trips' = [trips EXCEPT ![i] = row]
      PROVE  /\ trips' \in Seq(Row) /\ Len(trips') = Len(trips)
             /\ DOMAIN trips' = DOMAIN trips
             /\ \A j \in DOMAIN trips :
                  /\ trips'[j].load = trips[j].load
                  /\ Booked(j)' => Booked(j) /\ trips'[j].vehicle = trips[j].vehicle
                                             /\ trips'[j].driver = trips[j].driver
  <2>1. /\ trips' \in Seq(Row) /\ Len(trips') = Len(trips)
        /\ DOMAIN trips' = DOMAIN trips
        /\ \A j \in DOMAIN trips : trips'[j] = IF j = i THEN row ELSE trips[j]
    BY <1>0, <1>1
  <2> QED
    BY <1>1, <2>1 DEF Booked, Active
<1>2. ASSUME NEW i \in DOMAIN trips, NEW status \in {"IN_PROGRESS", "CLOSED"},
             trips' = [trips EXCEPT ![i].status = status], Active(trips[i])
      PROVE  \E row \in Row :
               /\ trips' = [trips EXCEPT ![i] = row]
               /\ row.load = trips[i].load /\ row.by = trips[i].by
               /\ row.vehicle = trips[i].vehicle /\ row.driver = trips[i].driver
  <2> DEFINE row == [trips[i] EXCEPT !.status = status]
  <2>1. trips[i] \in Row
    BY <1>0
  <2>2. /\ row \in Row /\ row.load = trips[i].load /\ row.by = trips[i].by
        /\ row.vehicle = trips[i].vehicle /\ row.driver = trips[i].driver
    BY <2>1 DEF Row
  <2>3. trips' = [trips EXCEPT ![i] = row]
    BY <1>2
  <2> HIDE DEF row
  <2> QED
    BY <2>2, <2>3
<1>3. ASSUME NEW i \in DOMAIN trips, StartTrip(i) \/ CloseTrip(i)
      PROVE  \E status \in {"IN_PROGRESS", "CLOSED"} :
               trips' = [trips EXCEPT ![i].status = status] /\ Active(trips[i])
  BY <1>3 DEF StartTrip, CloseTrip, OpenTrips, Active
<1>4. ASSUME NEW i \in DOMAIN trips, StartTrip(i) \/ CloseTrip(i)
      PROVE  \E row \in Row :
               /\ trips' = [trips EXCEPT ![i] = row]
               /\ row.load = trips[i].load
               /\ (row.by = "worker" =>
                    /\ Booked(i)
                    /\ row.vehicle = trips[i].vehicle /\ row.driver = trips[i].driver)
  BY <1>2, <1>3, <1>4 DEF Booked
<1>5. ASSUME NEW h \in Handler, ReassignWrite(h)
      PROVE  \/ trips' = trips
             \/ \E i \in DOMAIN trips, row \in Row :
                  /\ trips' = [trips EXCEPT ![i] = row]
                  /\ row.load = trips[i].load
                  /\ row.by = "staff"
  <2>1. /\ task[h].op = "rewrite" /\ task[h] \in Task
        /\ trips' = [trips EXCEPT ![task[h].trip].vehicle = task[h].vehicle,
                                  ![task[h].trip].by = "staff"]
    BY <1>5 DEF ReassignWrite, Op, LInv, TypeOK
  <2>2. PICK i \in 1..MaxTrips, v \in Vehicle : i = task[h].trip /\ v = task[h].vehicle
    BY <2>1, TaskShape
  <2>3. trips' = [trips EXCEPT ![i].vehicle = v, ![i].by = "staff"]
    BY <2>1, <2>2
  <2>4. CASE i \in DOMAIN trips
    <3> DEFINE row == [trips[i] EXCEPT !.vehicle = v, !.by = "staff"]
    <3>1. trips[i] \in Row
      BY <1>0, <2>4
    <3>2. row \in Row /\ row.load = trips[i].load /\ row.by = "staff"
      BY <3>1 DEF Row
    <3>3. trips' = [trips EXCEPT ![i] = row]
      BY <2>3, <2>4, <1>0
    <3> HIDE DEF row
    <3> QED
      BY <2>4, <3>2, <3>3
  <2>5. CASE i \notin DOMAIN trips
    BY <2>3, <2>5, <1>0
  <2> QED
    BY <2>4, <2>5
<1>6. CASE trips' = trips
  BY <1>0, <1>6 DEF Booked, Active
<1> QED
  BY <1>1, <1>4, <1>5, <1>6

\* A worker writes the trip it has planned, and staff one they asked for.
LEMMA WriteBooks ==
  ASSUME LInv, NEW w \in Worker, Write(w)
  PROVE  /\ Book(work[w].plan, IF w \in overran THEN "late" ELSE "worker")
         /\ work[w].plan.vehicle \in Vehicle /\ work[w].plan.driver \in Driver
         /\ work[w].plan.load \subseteq Order
BY DEF LInv, Write, Plan

LEMMA StaffWriteBooks ==
  ASSUME LInv, NEW h \in Handler, StaffWrite(h)
  PROVE  /\ Book(task[h], "staff")
         /\ task[h].vehicle \in Vehicle /\ task[h].driver \in Driver
         /\ task[h].load \subseteq Order
<1>1. task[h] \in Task /\ task[h].op = "write"
  BY DEF LInv, TypeOK, StaffWrite, Op
<1> QED
  BY <1>1, TaskShape DEF StaffWrite

\* Every step keeps the types of trips and orders.
LEMMA TripsTypeStep ==
  ASSUME LInv, [Next]_vars
  PROVE  /\ trips' \in Seq(Row) /\ Len(trips') <= MaxTrips
         /\ orders' \in [Order -> {"waiting", "loaded"}]
<1>0. /\ trips \in Seq(Row) /\ Len(trips) <= MaxTrips
      /\ orders \in [Order -> {"waiting", "loaded"}] /\ TypeOK
  BY DEF LInv, TypeOK
<1>1. ASSUME NEW w \in Worker, Write(w)
      PROVE  /\ trips' \in Seq(Row) /\ Len(trips') <= MaxTrips
             /\ orders' \in [Order -> {"waiting", "loaded"}]
  <2>1. PICK by \in {"worker", "late", "staff"} :
          by = IF w \in overran THEN "late" ELSE "worker"
    OBVIOUS
  <2>2. PICK p : /\ p = work[w].plan /\ Book(p, by)
                 /\ p.vehicle \in Vehicle /\ p.driver \in Driver /\ p.load \subseteq Order
    BY <1>1, <2>1, WriteBooks
  <2> QED
    BY <1>0, <2>2, BookFacts
<1>2. ASSUME NEW h \in Handler, StaffWrite(h)
      PROVE  /\ trips' \in Seq(Row) /\ Len(trips') <= MaxTrips
             /\ orders' \in [Order -> {"waiting", "loaded"}]
  <2>1. PICK p : /\ p = task[h] /\ Book(p, "staff")
                 /\ p.vehicle \in Vehicle /\ p.driver \in Driver /\ p.load \subseteq Order
    BY <1>2, StaffWriteBooks
  <2> QED
    BY <1>0, <2>1, BookFacts
<1>3. ASSUME \/ \E i \in DOMAIN trips : StartTrip(i) \/ CloseTrip(i)
             \/ \E h \in Handler : ReassignWrite(h)
      PROVE  /\ trips' \in Seq(Row) /\ Len(trips') <= MaxTrips
             /\ orders' \in [Order -> {"waiting", "loaded"}]
  <2>1. UNCHANGED orders
    BY <1>3 DEF StartTrip, CloseTrip, ReassignWrite
  <2> QED
    BY <1>0, <1>3, <2>1, RowStep
<1>4. CASE UNCHANGED <<trips, orders>>
  BY <1>0, <1>4
<1> QED
  BY <1>1, <1>2, <1>3, <1>4
  DEF Next, vars, workerVars, WorkerStep, StaffStep, Expire, Acquire, FindVehicles,
      FindOrders, FindDrivers, Requery, Release, Throw, Crash, ManualBegin,
      ManualCheck, AssignBegin, AssignCheck, StaffRequery, ReassignBegin,
      ReassignCheck, Request, Retry, Stall, Discard, Take, Finish

\* Every step keeps the type of the staff requests.
LEMMA TaskStep ==
  ASSUME LInv, [Next]_vars
  PROVE  task' \in [Handler -> Task]
<1>0. /\ task \in [Handler -> Task] /\ Idle \in Task
      /\ Len(trips) <= MaxTrips /\ Len(trips) \in Nat /\ DOMAIN trips = 1..Len(trips)
  BY TripsType DEF LInv, TypeOK, Task
<1> USE DEF Op, Set
<1>1. ASSUME NEW h \in Handler, NEW p \in Bookings, ManualBegin(h, p)
      PROVE  task' \in [Handler -> Task]
  <2>1. [op |-> "check", vehicle |-> p.vehicle, driver |-> p.driver,
         load |-> p.load] \in Task
    BY BookingAssumption DEF Task
  <2> QED
    BY <1>0, <1>1, <2>1 DEF ManualBegin
<1>2. ASSUME NEW h \in Handler, NEW p \in Bookings, AssignBegin(h, p)
      PROVE  task' \in [Handler -> Task]
  <2>1. [op |-> "checkProgress", vehicle |-> p.vehicle, driver |-> p.driver,
         load |-> p.load] \in Task
    BY BookingAssumption DEF Task
  <2> QED
    BY <1>0, <1>2, <2>1 DEF AssignBegin
<1>3. ASSUME NEW h \in Handler, NEW i \in DOMAIN trips, NEW v \in Vehicle,
             ReassignBegin(h, i, v)
      PROVE  task' \in [Handler -> Task]
  <2>1. i \in 1..MaxTrips
    BY <1>0, BoundAssumption
  <2>2. [op |-> "recheck", trip |-> i, vehicle |-> v] \in Task
    BY <2>1 DEF Task
  <2> QED
    BY <1>0, <1>3, <2>2 DEF ReassignBegin
<1>4. ASSUME NEW h \in Handler, ManualCheck(h) \/ AssignCheck(h) \/ StaffRequery(h)
      PROVE  task' \in [Handler -> Task]
  <2>1. task[h] \in Task /\ task[h].op \in {"check", "checkProgress", "requery"}
    BY <1>0, <1>4 DEF ManualCheck, AssignCheck, StaffRequery
  <2>2. task[h] \in [op : {"check", "checkProgress", "requery", "write"},
                     vehicle : Vehicle, driver : Driver, load : SUBSET Order]
    BY <2>1, TaskShape
  <2>3. /\ [task[h] EXCEPT !.op = "requery"] \in Task
        /\ \A L \in SUBSET Order :
             [task[h] EXCEPT !.op = "write", !.load = L] \in Task
    BY <2>2 DEF Task
  <2>4. task[h].load \cap Waiting \in SUBSET Order
    BY <2>2
  <2>5. CASE ManualCheck(h)
    BY <1>0, <2>3, <2>5 DEF ManualCheck
  <2>6. CASE AssignCheck(h)
    BY <1>0, <2>3, <2>6 DEF AssignCheck
  <2>7. CASE StaffRequery(h)
    BY <1>0, <2>3, <2>4, <2>7 DEF StaffRequery
  <2> QED
    BY <1>4, <2>5, <2>6, <2>7
<1>5. ASSUME NEW h \in Handler, ReassignCheck(h)
      PROVE  task' \in [Handler -> Task]
  <2>1. task[h] \in [op : {"recheck", "rewrite"}, trip : 1..MaxTrips,
                     vehicle : Vehicle]
    BY <1>0, <1>5, TaskShape DEF ReassignCheck
  <2>2. [task[h] EXCEPT !.op = "rewrite"] \in Task
    BY <2>1 DEF Task
  <2> QED
    BY <1>0, <1>5, <2>2 DEF ReassignCheck
<1>6. ASSUME NEW h \in Handler, StaffWrite(h) \/ ReassignWrite(h)
      PROVE  task' \in [Handler -> Task]
  BY <1>0, <1>6 DEF StaffWrite, ReassignWrite
<1>7. CASE UNCHANGED task
  BY <1>0, <1>7
<1> QED
  BY <1>1, <1>2, <1>3, <1>4, <1>5, <1>6, <1>7
  DEF Next, vars, workerVars, WorkerStep, StaffStep, Expire, Acquire, FindVehicles,
      FindOrders, FindDrivers, Requery, Write, Release, Throw, Crash, Request, Retry,
      Stall, Discard, Take, Finish, StartTrip, CloseTrip

\* Every step keeps the lock with the worker that works under it.
LEMMA LockStep ==
  ASSUME LInv, [Next]_vars
  PROVE  OwnLock'
<1> USE WorkerAssumption
<1>0. /\ OwnLock /\ pc \in [Worker -> Pc] /\ lock \in Worker \cup {NoWorker}
      /\ overran \subseteq Worker
  BY DEF LInv, TypeOK
<1> USE DEF OwnLock, Inside, InsidePc, Goto
<1>1. ASSUME NEW w \in Worker, Take(w)
      PROVE  OwnLock'
  BY <1>0, <1>1 DEF Take
<1>2. ASSUME NEW w \in Worker, Acquire(w)
      PROVE  OwnLock'
  BY <1>0, <1>2 DEF Acquire
<1>3. ASSUME NEW w \in Worker,
             \/ FindVehicles(w) \/ FindOrders(w) \/ FindDrivers(w) \/ Requery(w)
             \/ Write(w) \/ Throw(w)
      PROVE  OwnLock'
  <2>1. Inside(w) /\ UNCHANGED <<lock, overran>>
    BY <1>3 DEF FindVehicles, FindOrders, FindDrivers, Requery, Write, Throw
  <2>2. PICK next : pc' = [pc EXCEPT ![w] = next]
    BY <1>3 DEF FindVehicles, FindOrders, FindDrivers, Requery, Write, Throw, Stop
  <2> QED
    BY <1>0, <2>1, <2>2
<1>4. ASSUME NEW w \in Worker, Release(w)
      PROVE  OwnLock'
  BY <1>0, <1>4 DEF Release, Released
<1>5. ASSUME NEW w \in Worker, Finish(w) \/ Crash(w)
      PROVE  OwnLock'
  <2>1. /\ pc' = [pc EXCEPT ![w] = "idle"] /\ overran' = overran \ {w}
        /\ UNCHANGED lock
    BY <1>5 DEF Finish, Crash
  <2> QED
    BY <1>0, <2>1
<1>6. CASE Expire
  BY <1>0, <1>6 DEF Expire
<1>7. CASE UNCHANGED <<lock, pc, overran>>
  BY <1>0, <1>7
<1> QED
  BY <1>1, <1>2, <1>3, <1>4, <1>5, <1>6, <1>7
  DEF Next, vars, workerVars, WorkerStep, StaffStep, ManualBegin, ManualCheck,
      AssignBegin, AssignCheck, StaffRequery, StaffWrite, ReassignBegin,
      ReassignCheck, ReassignWrite, Request, Retry, Stall, Discard, StartTrip,
      CloseTrip

\* Every step keeps LInv.
LEMMA LStep ==
  ASSUME LInv, [Next]_vars
  PROVE  LInv'
<1>1. WorkerType'
  <2>0. WorkerType
    BY DEF LInv, TypeOK, WorkerType
  <2>1. ASSUME NEW w \in Worker, WorkerStep(w) \/ Throw(w) \/ Crash(w)
        PROVE  WorkerType'
    BY <2>1, WorkerTypeStep
  <2>2. CASE Expire
    BY <2>0, <2>2 DEF Expire, WorkerType
  <2>3. CASE UNCHANGED <<lock, pc, work, overran>>
    BY <2>0, <2>3 DEF WorkerType
  <2> QED
    BY <2>1, <2>2, <2>3
    DEF Next, vars, workerVars, StaffStep, ManualBegin, ManualCheck, AssignBegin,
        AssignCheck, StaffRequery, StaffWrite, ReassignBegin, ReassignCheck,
        ReassignWrite, Request, Retry, Stall, Discard, StartTrip, CloseTrip
<1> QED
  BY <1>1, JobStep, TripsTypeStep, TaskStep, LockStep DEF LInv, TypeOK, WorkerType

--------------------------------------------------------------------------------
(***************************************************************************)
(* The orders on trips.                                                    *)
(***************************************************************************)

LEMMA OInit == Init => OInv
BY DEF Init, OInv

\* A booking takes orders that wait, and no trip has those.
LEMMA OBook ==
  ASSUME LInv, OInv, NEW p, p.vehicle \in Vehicle, p.driver \in Driver,
         p.load \subseteq Order, NEW by \in {"worker", "late", "staff"}, Book(p, by)
  PROVE  OInv'
<1>0. TypeOK
  BY DEF LInv
<1>1. /\ \A i \in DOMAIN trips : trips'[i] = trips[i]
      /\ Waiting' = Waiting \ p.load
  BY <1>0, BookFacts
<1>2. PICK n : Added(n, p, by)
  BY <1>0, BookFacts
<1>3. \A i \in DOMAIN trips' : trips'[i].load \cap Waiting' = {}
  BY <1>1, <1>2 DEF OInv, Added
<1>4. \A i, j \in DOMAIN trips' : i # j => trips'[i].load \cap trips'[j].load = {}
  BY <1>1, <1>2 DEF OInv, Added
<1> QED
  BY <1>3, <1>4 DEF OInv

LEMMA OStep ==
  ASSUME LInv, OInv, [Next]_vars
  PROVE  OInv'
<1>1. ASSUME NEW w \in Worker, Write(w)
      PROVE  OInv'
  <2>1. PICK by \in {"worker", "late", "staff"} :
          by = IF w \in overran THEN "late" ELSE "worker"
    OBVIOUS
  <2>2. PICK p : /\ p = work[w].plan /\ Book(p, by)
                 /\ p.vehicle \in Vehicle /\ p.driver \in Driver /\ p.load \subseteq Order
    BY <1>1, <2>1, WriteBooks
  <2> QED
    BY <2>2, OBook
<1>2. ASSUME NEW h \in Handler, StaffWrite(h)
      PROVE  OInv'
  <2>1. PICK p : /\ p = task[h] /\ Book(p, "staff")
                 /\ p.vehicle \in Vehicle /\ p.driver \in Driver /\ p.load \subseteq Order
    BY <1>2, StaffWriteBooks
  <2> QED
    BY <2>1, OBook
<1>3. ASSUME \/ \E i \in DOMAIN trips : StartTrip(i) \/ CloseTrip(i)
             \/ \E h \in Handler : ReassignWrite(h)
      PROVE  OInv'
  <2>1. UNCHANGED orders
    BY <1>3 DEF StartTrip, CloseTrip, ReassignWrite
  <2>2. Waiting' = Waiting
    BY <2>1 DEF Waiting
  <2>3. /\ DOMAIN trips' = DOMAIN trips
        /\ \A i \in DOMAIN trips : trips'[i].load = trips[i].load
    BY <1>3, <2>1, RowStep
  <2> QED
    BY <2>2, <2>3 DEF OInv
<1>4. CASE UNCHANGED <<trips, orders>>
  BY <1>4 DEF OInv, Waiting
<1> QED
  BY <1>1, <1>2, <1>3, <1>4
  DEF Next, vars, workerVars, WorkerStep, StaffStep, Expire, Acquire, FindVehicles,
      FindOrders, FindDrivers, Requery, Release, Throw, Crash, ManualBegin,
      ManualCheck, AssignBegin, AssignCheck, StaffRequery, ReassignBegin,
      ReassignCheck, Request, Retry, Stall, Discard, Take, Finish

--------------------------------------------------------------------------------
(***************************************************************************)
(* What the lock lets a worker rely on.                                    *)
(***************************************************************************)

\* No trip is booked under the lock, and those that are keep driver and vehicle.
NoneBooked ==
  \A i \in DOMAIN trips' : Booked(i)' =>
    /\ i \in DOMAIN trips /\ Booked(i)
    /\ trips'[i].vehicle = trips[i].vehicle /\ trips'[i].driver = trips[i].driver

\* Only the worker with the lock books under the lock.
LEMMA NoneBookedStep ==
  ASSUME LInv, [Next]_vars, \A w \in Worker : Write(w) => w \in overran
  PROVE  NoneBooked
<1>0. TypeOK
  BY DEF LInv
<1>1. ASSUME NEW p, p.vehicle \in Vehicle, p.driver \in Driver, p.load \subseteq Order,
             NEW by \in {"late", "staff"}, Book(p, by)
      PROVE  NoneBooked
  <2>0. by \in {"worker", "late", "staff"}
    OBVIOUS
  <2>1. \A i \in DOMAIN trips : trips'[i] = trips[i]
    BY <1>0, <1>1, <2>0, BookFacts
  <2>2. PICK n : Added(n, p, by)
    BY <1>0, <1>1, <2>0, BookFacts
  <2> QED
    BY <2>1, <2>2 DEF Added, NoneBooked, Booked, Active
<1>2. ASSUME NEW w \in Worker, Write(w)
      PROVE  NoneBooked
  <2>1. PICK p : /\ p = work[w].plan /\ Book(p, "late")
                 /\ p.vehicle \in Vehicle /\ p.driver \in Driver /\ p.load \subseteq Order
    BY <1>2, WriteBooks
  <2> QED
    BY <1>1, <2>1
<1>3. ASSUME NEW h \in Handler, StaffWrite(h)
      PROVE  NoneBooked
  <2>1. PICK p : /\ p = task[h] /\ Book(p, "staff")
                 /\ p.vehicle \in Vehicle /\ p.driver \in Driver /\ p.load \subseteq Order
    BY <1>3, StaffWriteBooks
  <2> QED
    BY <1>1, <2>1
<1>4. ASSUME \/ \E i \in DOMAIN trips : StartTrip(i) \/ CloseTrip(i)
             \/ \E h \in Handler : ReassignWrite(h)
      PROVE  NoneBooked
  <2>1. UNCHANGED orders
    BY <1>4 DEF StartTrip, CloseTrip, ReassignWrite
  <2> QED
    BY <1>4, <2>1, RowStep DEF NoneBooked
<1>5. CASE UNCHANGED trips
  BY <1>5 DEF NoneBooked, Booked, Active
<1> QED
  BY <1>2, <1>3, <1>4, <1>5
  DEF Next, vars, workerVars, WorkerStep, StaffStep, Expire, Acquire, FindVehicles,
      FindOrders, FindDrivers, Requery, Release, Throw, Crash, ManualBegin,
      ManualCheck, AssignBegin, AssignCheck, StaffRequery, ReassignBegin,
      ReassignCheck, Request, Retry, Stall, Discard, Take, Finish

LEMMA UnbookedKept ==
  ASSUME NoneBooked
  PROVE  /\ \A v : VehicleUnbooked(v) => VehicleUnbooked(v)'
         /\ \A d : DriverUnbooked(d) => DriverUnbooked(d)'
         /\ WorkerTripsDisjoint => WorkerTripsDisjoint'
BY DEF NoneBooked, VehicleUnbooked, DriverUnbooked, WorkerTripsDisjoint, OpenTrips,
       Booked

\* A worker that does not step relies on what it relied on.
LEMMA OthersReliable ==
  ASSUME NoneBooked, NEW w \in Worker, Reliable(w), pc'[w] = pc[w], work'[w] = work[w]
  PROVE  Reliable(w)'
BY UnbookedKept DEF Reliable

\* What is free is not booked.
LEMMA FreeUnbooked ==
  /\ \A v : VehicleFree(v) => VehicleUnbooked(v)
  /\ \A d : DriverFree(d) => DriverUnbooked(d)
BY DEF VehicleFree, DriverFree, VehicleUnbooked, DriverUnbooked, OpenTrips, Booked

\* A worker whose lock has not expired reads and packs reliably.
LEMMA ReadsReliable ==
  ASSUME LInv, NEW w \in Worker, Reliable(w), UNCHANGED trips,
         FindVehicles(w) \/ FindOrders(w) \/ FindDrivers(w) \/ Requery(w)
  PROVE  Reliable(w)'
<1>0. /\ pc \in [Worker -> Pc] /\ work \in [Worker -> Work] /\ work[w] \in Work
      /\ Rank \in [Vehicle -> Nat]
  BY RankAssumption DEF LInv, TypeOK
<1>1. /\ \A v : VehicleUnbooked(v)' <=> VehicleUnbooked(v)
      /\ \A d : DriverUnbooked(d)' <=> DriverUnbooked(d)
  BY DEF VehicleUnbooked, DriverUnbooked, Booked, Active
<1>2. CASE pc'[w] = "release"
  BY <1>2 DEF Reliable
<1>3. CASE FindVehicles(w)
  <2>1. pc'[w] = "orders" /\ work'[w].vehicles = {v \in Vehicle : VehicleFree(v)}
    BY <1>0, <1>3 DEF FindVehicles, Goto, Work
  <2> QED
    BY <1>1, <2>1, FreeUnbooked DEF Reliable
<1>4. CASE FindOrders(w) /\ pc'[w] # "release"
  <2>0. ~Stop(w, TRUE)
    BY <1>0, <1>4 DEF Stop, Goto
  <2>1. /\ pc[w] = "orders" /\ pc'[w] = "drivers"
        /\ work'[w].vehicles = work[w].vehicles
    <3>1. /\ pc[w] = "orders" /\ pc' = [pc EXCEPT ![w] = "drivers"]
          /\ work' = [work EXCEPT ![w].orders = Waiting]
      BY <1>4, <2>0 DEF FindOrders, Goto
    <3> QED
      BY <1>0, <3>1 DEF Work
  <2> QED
    BY <1>1, <2>1 DEF Reliable
<1>5. CASE FindDrivers(w) /\ pc'[w] # "release"
  <2>0. ~Stop(w, TRUE)
    BY <1>0, <1>5 DEF Stop, Goto
  <2>1. /\ pc[w] = "drivers" /\ pc'[w] = "requery"
        /\ work'[w].vehicles = work[w].vehicles
        /\ work'[w].drivers = {d \in Driver : DriverFree(d)}
    <3>1. /\ pc[w] = "drivers" /\ pc' = [pc EXCEPT ![w] = "requery"]
          /\ work' = [work EXCEPT ![w].drivers = {d \in Driver : DriverFree(d)}]
      BY <1>5, <2>0 DEF FindDrivers, Goto
    <3> QED
      BY <1>0, <3>1 DEF Work
  <2> QED
    BY <1>1, <2>1, FreeUnbooked DEF Reliable
<1>6. CASE Requery(w) /\ pc'[w] # "release"
  <2>1. PICK d \in work[w].drivers, v \in work[w].vehicles :
          LET L == Packed(v, work[w].orders)
          IN /\ work' = [work EXCEPT ![w] =
                  [vehicles |-> {u \in work[w].vehicles : Rank[u] > Rank[v]},
                   orders |-> work[w].orders \ L,
                   drivers |-> work[w].drivers \ {d},
                   plan |-> IF L \cap Waiting = {} THEN NoPlan
                            ELSE [vehicle |-> v, driver |-> d, load |-> L \cap Waiting],
                   ok |-> TRUE]]
             /\ pc' = [pc EXCEPT ![w] = IF L \cap Waiting = {} THEN "requery"
                                        ELSE "write"]
    BY <1>0, <1>6 DEF Requery, Goto, Stop
  <2>2. PICK L : L = Packed(v, work[w].orders) \cap Waiting
    OBVIOUS
  <2>3. /\ work'[w].vehicles = {u \in work[w].vehicles : Rank[u] > Rank[v]}
        /\ work'[w].drivers = work[w].drivers \ {d}
        /\ work'[w].plan = IF L = {} THEN NoPlan
                           ELSE [vehicle |-> v, driver |-> d, load |-> L]
        /\ pc'[w] = IF L = {} THEN "requery" ELSE "write"
    BY <1>0, <2>1, <2>2
  <2>4. Rank[v] \in Nat /\ v \notin work'[w].vehicles
    BY <1>0, <2>3 DEF Work
  <2>5. /\ VehicleUnbooked(v)' /\ DriverUnbooked(d)'
        /\ \A u \in work'[w].vehicles : VehicleUnbooked(u)'
        /\ \A c \in work'[w].drivers : DriverUnbooked(c)'
    <3>1. pc[w] = "requery"
      BY <1>6 DEF Requery
    <3> QED
      BY <1>1, <2>3, <3>1 DEF Reliable
  <2>6. CASE L = {}
    BY <2>3, <2>5, <2>6 DEF Reliable
  <2>7. CASE L # {}
    <3>1. work'[w].plan.vehicle = v /\ work'[w].plan.driver = d /\ pc'[w] = "write"
      BY <2>3, <2>7
    <3> QED
      BY <2>3, <2>4, <2>5, <3>1 DEF Reliable
  <2> QED
    BY <2>6, <2>7
<1> QED
  BY <1>2, <1>3, <1>4, <1>5, <1>6

\* A worker whose lock has not expired books a driver and a vehicle that no trip
\* booked under the lock has, and none of those it has left.
LEMMA WriteReliable ==
  ASSUME LInv, RInv, NEW w \in Worker, w \notin overran, Write(w)
  PROVE  Reliable(w)' /\ WorkerTripsDisjoint'
<1>0. /\ TypeOK /\ pc \in [Worker -> Pc] /\ work \in [Worker -> Work]
      /\ pc[w] = "write" /\ work[w] \in Work
  BY DEF LInv, TypeOK, Write
<1>1. PICK p, by :
        /\ p = work[w].plan /\ by \in {"worker", "late", "staff"} /\ Book(p, by)
        /\ p.vehicle \in Vehicle /\ p.driver \in Driver /\ p.load \subseteq Order
  BY WriteBooks
<1>2. \A i \in DOMAIN trips : trips'[i] = trips[i]
  BY <1>0, <1>1, BookFacts
<1>3. PICK n : Added(n, p, by)
  BY <1>0, <1>1, BookFacts
<1>4. /\ VehicleUnbooked(p.vehicle) /\ DriverUnbooked(p.driver)
      /\ p.vehicle \notin work[w].vehicles /\ p.driver \notin work[w].drivers
      /\ \A v \in work[w].vehicles : VehicleUnbooked(v)
      /\ \A d \in work[w].drivers : DriverUnbooked(d)
  BY <1>0, <1>1 DEF RInv, Reliable
<1>5. /\ pc'[w] = "requery"
      /\ work'[w].vehicles = work[w].vehicles /\ work'[w].drivers = work[w].drivers
  BY <1>0 DEF Write, Goto, Work
<1>6. \A v : VehicleUnbooked(v) /\ v # p.vehicle => VehicleUnbooked(v)'
  BY <1>2, <1>3 DEF Added, VehicleUnbooked, Booked, Active
<1>7. \A d : DriverUnbooked(d) /\ d # p.driver => DriverUnbooked(d)'
  BY <1>2, <1>3 DEF Added, DriverUnbooked, Booked, Active
<1>8. Reliable(w)'
  BY <1>4, <1>5, <1>6, <1>7 DEF Reliable
<1>9. WorkerTripsDisjoint'
  <2>1. WorkerTripsDisjoint
    BY DEF RInv
  <2> QED
    BY <1>2, <1>3, <1>4, <2>1
    DEF Added, WorkerTripsDisjoint, OpenTrips, VehicleUnbooked, DriverUnbooked, Booked, Active
<1> QED
  BY <1>8, <1>9

LEMMA RInit == Init => RInv
BY DEF Init, RInv, Reliable, WorkerTripsDisjoint, OpenTrips

\* Every step keeps what the workers rely on.
LEMMA RStep ==
  ASSUME LInv, RInv, [Next]_vars
  PROVE  RInv'
<1>0. /\ pc \in [Worker -> Pc] /\ work \in [Worker -> Work] /\ OwnLock
      /\ \A w \in Worker : w \notin overran => Reliable(w)
      /\ WorkerTripsDisjoint
  BY DEF LInv, TypeOK, RInv
<1>1. ASSUME NEW w \in Worker, w \notin overran, Write(w)
      PROVE  RInv'
  <2>1. Reliable(w)' /\ WorkerTripsDisjoint'
    BY <1>1, WriteReliable
  <2>2. ASSUME NEW u \in Worker, u \notin overran', u # w
        PROVE  Reliable(u)'
    <3>1. u \notin overran /\ pc'[u] = pc[u] /\ Inside(w)
      BY <1>0, <1>1, <2>2 DEF Write, Goto, Inside, InsidePc
    <3>2. ~Inside(u)
      BY <1>0, <1>1, <2>2, <3>1 DEF OwnLock
    <3> QED
      BY <3>1, <3>2 DEF Reliable, Inside, InsidePc
  <2> QED
    BY <2>1, <2>2 DEF RInv
<1>2. ASSUME \A w \in Worker : Write(w) => w \in overran
      PROVE  RInv'
  <2>1. NoneBooked
    BY <1>2, NoneBookedStep
  <2>2. WorkerTripsDisjoint'
    BY <1>0, <2>1, UnbookedKept
  <2>3. ASSUME NEW w \in Worker, w \notin overran, pc'[w] = pc[w], work'[w] = work[w]
        PROVE  Reliable(w)'
    BY <1>0, <2>1, <2>3, OthersReliable
  <2>4. CASE UNCHANGED <<pc, work>> /\ overran \subseteq overran'
    BY <2>2, <2>3, <2>4 DEF RInv
  <2>5. ASSUME NEW w \in Worker, WorkerStep(w) \/ Throw(w) \/ Crash(w)
        PROVE  RInv'
    <3>1. ASSUME NEW u \in Worker, u # w
          PROVE  /\ pc'[u] = pc[u] /\ work'[u] = work[u]
                 /\ u \notin overran' => u \notin overran
      BY <1>0, <2>5, <3>1
      DEF WorkerStep, Take, Acquire, FindVehicles, FindOrders, FindDrivers, Requery,
          Write, Release, Finish, Throw, Crash, Stop, Goto
    <3>2. ASSUME pc'[w] \notin {"orders", "drivers", "requery", "write"}
          PROVE  Reliable(w)'
      BY <3>2 DEF Reliable
    <3>3. CASE Take(w) \/ Acquire(w) \/ Release(w) \/ Finish(w) \/ Throw(w) \/ Crash(w)
      <4>1. pc'[w] \in {"lock", "vehicles", "skip", "finish", "idle", "release"}
        BY <1>0, <3>3 DEF Take, Acquire, Release, Finish, Throw, Crash, Stop, Goto
      <4> QED
        BY <2>2, <2>3, <3>1, <3>2, <4>1 DEF RInv
    <3>4. CASE FindVehicles(w) \/ FindOrders(w) \/ FindDrivers(w) \/ Requery(w)
      <4>1. UNCHANGED <<overran, trips>>
        BY <3>4 DEF FindVehicles, FindOrders, FindDrivers, Requery
      <4>2. w \notin overran => Reliable(w)'
        BY <1>0, <3>4, <4>1, ReadsReliable
      <4> QED
        BY <2>2, <2>3, <3>1, <4>1, <4>2 DEF RInv
    <3>5. CASE Write(w)
      <4>1. w \in overran /\ UNCHANGED overran
        BY <1>2, <3>5 DEF Write
      <4> QED
        BY <2>2, <2>3, <3>1, <4>1 DEF RInv
    <3> QED
      BY <2>5, <3>3, <3>4, <3>5 DEF WorkerStep
  <2> QED
    BY <2>4, <2>5
    DEF Next, vars, workerVars, StaffStep, Expire, ManualBegin, ManualCheck,
        AssignBegin, AssignCheck, StaffRequery, StaffWrite, ReassignBegin,
        ReassignCheck, ReassignWrite, Request, Retry, Stall, Discard, StartTrip,
        CloseTrip
<1> QED
  BY <1>1, <1>2

--------------------------------------------------------------------------------
(***************************************************************************)
(* What a worker packs fits.                                               *)
(***************************************************************************)

\* A load that vehicle v carries.
Carries(v, L) ==
  /\ IsFiniteSet(L) /\ L \subseteq Order
  /\ \A f \in {"weight", "volume"} : TotalOf(f, L) <= Capacity[v][f]

CInv ==
  /\ \A w \in Worker : pc[w] = "write" => Carries(work[w].plan.vehicle, work[w].plan.load)
  /\ \A i \in DOMAIN trips :
       trips[i].by \in {"worker", "late"} => Carries(trips[i].vehicle, trips[i].load)

SizeOf(f) == [o \in Order |-> Size[o][f]]

\* A total is a sum of natural numbers.
LEMMA TotalIsSum ==
  ASSUME NEW f \in {"weight", "volume"}, NEW L \in SUBSET Order, IsFiniteSet(L)
  PROVE  /\ TotalOf(f, L) = SumOf(SizeOf(f), L) /\ TotalOf(f, L) \in Int
         /\ \A o \in Order : SizeOf(f)[o] \in Nat /\ SizeOf(f)[o] = Size[o][f]
<1>1. \A o \in Order : SizeOf(f)[o] \in Nat /\ SizeOf(f)[o] = Size[o][f]
  BY SizeAssumption DEF SizeOf
<1>2. TotalOf(f, L) = SumOf(SizeOf(f), L)
  <2>1. TotalOf(f, L) = FieldSum(Size, f, L)
    BY DEF TotalOf, FieldSum
  <2>2. FieldSum(Size, f, L) = SumOf([o \in Order |-> Size[o][f]], L)
    BY SumField
  <2> QED
    BY <2>1, <2>2 DEF SizeOf
<1>3. SumOf(SizeOf(f), L) \in Int
  BY <1>1, SumType
<1> QED
  BY <1>1, <1>2, <1>3

\* Less of what fits fits.
LEMMA CarriesLess ==
  ASSUME NEW v \in Vehicle, NEW L, Carries(v, L), NEW M \in SUBSET L
  PROVE  Carries(v, M)
<1>1. IsFiniteSet(L) /\ L \in SUBSET Order /\ M \in SUBSET Order /\ IsFiniteSet(M)
  BY FS_Subset DEF Carries
<1>2. ASSUME NEW f \in {"weight", "volume"} PROVE TotalOf(f, M) <= Capacity[v][f]
  <2>1. SumOf(SizeOf(f), M) <= SumOf(SizeOf(f), L)
    BY <1>1, TotalIsSum, SumSubset
  <2>2. TotalOf(f, M) <= TotalOf(f, L) /\ TotalOf(f, M) \in Int /\ TotalOf(f, L) \in Int
    BY <1>1, <2>1, TotalIsSum
  <2>3. TotalOf(f, L) <= Capacity[v][f] /\ Capacity[v][f] \in Int
    BY SizeAssumption DEF Carries
  <2> QED
    BY <2>2, <2>3
<1> QED
  BY <1>1, <1>2 DEF Carries

\* The vehicle before it is packed, and after it was offered one more order.
Empty(v) == [load |-> {}, weight |-> Capacity[v].weight, volume |-> Capacity[v].volume]
Offered(S, r, o) == IF o \in S /\ Fits(r, o) THEN Put(r, o) ELSE r

\* The vehicle after the first i of n orders.
Rooms(v, S, n, g) ==
  g = [i \in 0..n |-> IF i = 0 THEN Empty(v) ELSE Offered(S, g[i - 1], Orders[i])]

LEMMA RoomsStep ==
  ASSUME NEW v, NEW S, NEW n \in Nat, NEW g, Rooms(v, S, n, g)
  PROVE  /\ g[0] = Empty(v)
         /\ \A i \in 1..n : g[i] = Offered(S, g[i - 1], Orders[i])
<1>1. 0 \in 0..n /\ \A i \in 1..n : i \in 0..n /\ i # 0
  OBVIOUS
<1> QED
  BY <1>1 DEF Rooms

\* The packing goes through the orders one by one, so it is defined.
LEMMA RoomsExist ==
  ASSUME NEW v, NEW S, NEW n \in Nat
  PROVE  \E g : Rooms(v, S, n, g)
<1> DEFINE Q == {k \in Nat : \E g : Rooms(v, S, k, g)}
<1>1. 0 \in Q
  <2> DEFINE g == [i \in 0..0 |-> Empty(v)]
  <2>1. Rooms(v, S, 0, g)
    BY DEF Rooms
  <2> HIDE DEF g
  <2> QED
    BY <2>1
<1>2. ASSUME NEW k \in Nat, k \in Q PROVE k + 1 \in Q
  <2>1. PICK g : Rooms(v, S, k, g)
    BY <1>2
  <2> DEFINE h == [i \in 0..(k + 1) |-> IF i <= k THEN g[i] ELSE Offered(S, g[k], Orders[i])]
  <2>2. g[0] = Empty(v) /\ \A i \in 1..k : g[i] = Offered(S, g[i - 1], Orders[i])
    BY <2>1, RoomsStep
  <2>3. h[0] = Empty(v)
    BY <2>2
  <2>4. \A i \in 1..(k + 1) : h[i] = Offered(S, h[i - 1], Orders[i])
    <3> SUFFICES ASSUME NEW i \in 1..(k + 1) PROVE h[i] = Offered(S, h[i - 1], Orders[i])
      OBVIOUS
    <3>1. CASE i = k + 1
      <4>1. h[i] = Offered(S, g[k], Orders[i]) /\ h[k] = g[k] /\ i - 1 = k
        BY <3>1
      <4> QED
        BY <4>1
    <3>2. CASE i <= k
      <4>1. i \in 1..k /\ i - 1 \in 0..k
        BY <3>2
      <4>2. h[i] = g[i] /\ h[i - 1] = g[i - 1]
        BY <4>1
      <4> QED
        BY <2>2, <4>1, <4>2
    <3> QED
      BY <3>1, <3>2
  <2>5. \A i \in 0..(k + 1) : i # 0 => i \in 1..(k + 1)
    OBVIOUS
  <2>6. h = [i \in 0..(k + 1) |-> h[i]]
    OBVIOUS
  <2> HIDE DEF h
  <2>7. Rooms(v, S, k + 1, h)
    BY <2>3, <2>4, <2>5, <2>6 DEF Rooms
  <2> QED
    BY <2>7
<1> HIDE DEF Q
<1>3. n \in Q
  BY <1>1, <1>2, NatSetInduction
<1> QED
  BY <1>3 DEF Q

\* Room that is left and a load that filled the rest.
Filled(v, r) ==
  /\ IsFiniteSet(r.load) /\ r.load \subseteq Order
  /\ r.weight \in Nat /\ r.volume \in Nat
  /\ TotalOf("weight", r.load) + r.weight <= Capacity[v].weight
  /\ TotalOf("volume", r.load) + r.volume <= Capacity[v].volume

\* One more order on a load adds its size, or nothing if it was there.
LEMMA TotalAdded ==
  ASSUME NEW f \in {"weight", "volume"}, NEW L \in SUBSET Order, IsFiniteSet(L), NEW o \in Order
  PROVE  TotalOf(f, L \cup {o}) <= TotalOf(f, L) + Size[o][f]
<1>1. L \cup {o} \in SUBSET Order /\ IsFiniteSet(L \cup {o})
  BY FS_AddElement
<1>2. /\ TotalOf(f, L) = SumOf(SizeOf(f), L) /\ TotalOf(f, L) \in Int
      /\ \A x \in Order : SizeOf(f)[x] \in Nat /\ SizeOf(f)[x] = Size[x][f]
      /\ TotalOf(f, L \cup {o}) = SumOf(SizeOf(f), L \cup {o})
  BY <1>1, TotalIsSum
<1>3. CASE o \in L
  <2>1. L \cup {o} = L
    BY <1>3
  <2>2. TotalOf(f, L \cup {o}) = TotalOf(f, L)
    BY <2>1
  <2> QED
    BY <1>2, <2>2
<1>4. CASE o \notin L
  <2>1. SumOf(SizeOf(f), L \cup {o}) = SizeOf(f)[o] + SumOf(SizeOf(f), L)
    BY <1>2, <1>4, SumAdd
  <2>2. SizeOf(f)[o] = Size[o][f] /\ Size[o][f] \in Int
    BY <1>2
  <2>3. TotalOf(f, L \cup {o}) = Size[o][f] + TotalOf(f, L)
    BY <1>2, <2>1, <2>2, Zenon
  <2> QED
    BY <1>2, <2>2, <2>3
<1> QED
  BY <1>3, <1>4

LEMMA PutFilled ==
  ASSUME NEW v \in Vehicle, NEW r, Filled(v, r), NEW o \in Order, Fits(r, o)
  PROVE  Filled(v, Put(r, o))
<1> DEFINE q == Put(r, o)
<1>1. /\ q.load = r.load \cup {o}
      /\ q.weight = r.weight - Size[o].weight /\ q.volume = r.volume - Size[o].volume
  BY DEF Put
<1>2. Size[o].weight \in Nat /\ Size[o].volume \in Nat
      /\ Capacity[v].weight \in Nat /\ Capacity[v].volume \in Nat
  BY SizeAssumption
<1>3. IsFiniteSet(q.load) /\ q.load \subseteq Order
  BY <1>1, FS_AddElement DEF Filled
<1>4. q.weight \in Nat /\ q.volume \in Nat
  BY <1>1, <1>2 DEF Filled, Fits
<1>5. /\ TotalOf("weight", q.load) <= TotalOf("weight", r.load) + Size[o].weight
      /\ TotalOf("volume", q.load) <= TotalOf("volume", r.load) + Size[o].volume
  <2>1. /\ TotalOf("weight", r.load \cup {o}) <= TotalOf("weight", r.load) + Size[o]["weight"]
        /\ TotalOf("volume", r.load \cup {o}) <= TotalOf("volume", r.load) + Size[o]["volume"]
    BY TotalAdded DEF Filled
  <2> QED
    BY <1>1, <2>1
<1>6. /\ TotalOf("weight", q.load) \in Int /\ TotalOf("weight", r.load) \in Int
      /\ TotalOf("volume", q.load) \in Int /\ TotalOf("volume", r.load) \in Int
  BY <1>3, TotalIsSum DEF Filled
<1> HIDE DEF q
<1>7. /\ TotalOf("weight", q.load) + q.weight <= Capacity[v].weight
      /\ TotalOf("volume", q.load) + q.volume <= Capacity[v].volume
  BY <1>1, <1>2, <1>5, <1>6 DEF Filled
<1> QED
  BY <1>3, <1>4, <1>7 DEF Filled, q

\* First fit leaves a vehicle within its weight and its volume.
LEMMA PackedCarries ==
  ASSUME NEW v \in Vehicle, NEW S
  PROVE  Carries(v, Packed(v, S))
<1> DEFINE n == Len(Orders)
           g == CHOOSE k : Rooms(v, S, n, k)
<1>1. Packed(v, S) = S \cap g[n].load
  BY DEF Packed, Rooms, Empty, Offered
<1>2. n \in Nat /\ Rooms(v, S, n, g)
  BY OrdersAssumption, RoomsExist
<1>0. \A i \in 1..n : Orders[i] \in Order
  BY OrdersAssumption
<1> HIDE DEF g, n
<1>3. g[0] = Empty(v) /\ \A i \in 1..n : g[i] = Offered(S, g[i - 1], Orders[i])
  BY <1>2, RoomsStep
<1> DEFINE Q == {k \in Nat : k <= n => Filled(v, g[k])}
<1>5. 0 \in Q
  <2>1. IsFiniteSet({}) /\ {} \in SUBSET Order
    BY FS_EmptySet
  <2>2. TotalOf("weight", {}) = 0 /\ TotalOf("volume", {}) = 0
    BY <2>1, TotalIsSum, SumEmpty
  <2>3. Capacity[v].weight \in Nat /\ Capacity[v].volume \in Nat
    BY SizeAssumption
  <2>4. /\ g[0].load = {} /\ g[0].weight = Capacity[v].weight
        /\ g[0].volume = Capacity[v].volume
    BY <1>3 DEF Empty
  <2>5. /\ TotalOf("weight", g[0].load) + g[0].weight <= Capacity[v].weight
        /\ TotalOf("volume", g[0].load) + g[0].volume <= Capacity[v].volume
    BY <2>2, <2>3, <2>4
  <2>6. Filled(v, g[0])
    BY <2>1, <2>3, <2>4, <2>5 DEF Filled
  <2> QED
    BY <2>6
<1>6. ASSUME NEW k \in Nat, k \in Q PROVE k + 1 \in Q
  <2> SUFFICES ASSUME k + 1 <= n PROVE Filled(v, g[k + 1])
    OBVIOUS
  <2>1. Filled(v, g[k]) /\ k + 1 \in 1..n /\ (k + 1) - 1 = k
    BY <1>2, <1>6
  <2>2. Orders[k + 1] \in Order
    BY <1>0, <2>1
  <2>3. g[k + 1] = Offered(S, g[k], Orders[k + 1])
    BY <1>3, <2>1
  <2> QED
    BY <2>1, <2>2, <2>3, PutFilled DEF Offered
<1> HIDE DEF Q
<1>7. n \in Q
  BY <1>2, <1>5, <1>6, NatSetInduction
<1>8. Filled(v, g[n])
  BY <1>2, <1>7 DEF Q
<1>9. Carries(v, g[n].load)
  <2>1. /\ Capacity[v]["weight"] \in Int /\ Capacity[v]["volume"] \in Int
        /\ TotalOf("weight", g[n].load) \in Int /\ TotalOf("volume", g[n].load) \in Int
    BY <1>8, SizeAssumption, TotalIsSum DEF Filled
  <2>2. /\ TotalOf("weight", g[n].load) <= Capacity[v]["weight"]
        /\ TotalOf("volume", g[n].load) <= Capacity[v]["volume"]
    BY <1>8, <2>1 DEF Filled
  <2> QED
    BY <1>8, <2>2 DEF Carries, Filled
<1> QED
  BY <1>1, <1>9, CarriesLess

LEMMA CInit == Init => CInv
BY DEF Init, CInv

\* What is planned fits, and what is booked of it.
LEMMA CStep ==
  ASSUME LInv, CInv, [Next]_vars
  PROVE  CInv'
<1>0. /\ TypeOK /\ pc \in [Worker -> Pc] /\ work \in [Worker -> Work]
      /\ trips \in Seq(Row) /\ DOMAIN trips = 1..Len(trips) /\ Len(trips) \in Nat
      /\ \A i \in DOMAIN trips : trips[i] \in Row
  BY TripsType DEF LInv, TypeOK
<1>1. ASSUME UNCHANGED trips,
             \A w \in Worker : pc'[w] = "write" =>
               \/ pc[w] = "write" /\ work'[w] = work[w]
               \/ Carries(work'[w].plan.vehicle, work'[w].plan.load)
      PROVE  CInv'
  BY <1>1 DEF CInv
<1>2. ASSUME UNCHANGED <<pc, work>>,
             \A i \in DOMAIN trips' : trips'[i].by \in {"worker", "late"} =>
               /\ i \in DOMAIN trips /\ trips[i].by = trips'[i].by
               /\ trips'[i].vehicle = trips[i].vehicle /\ trips'[i].load = trips[i].load
      PROVE  CInv'
  BY <1>2 DEF CInv
<1>3. ASSUME NEW w \in Worker, Write(w) PROVE CInv'
  <2>1. PICK p : /\ p = work[w].plan /\ Book(p, IF w \in overran THEN "late" ELSE "worker")
                 /\ p.vehicle \in Vehicle /\ p.driver \in Driver /\ p.load \subseteq Order
    BY <1>3, WriteBooks
  <2>2. PICK by \in {"worker", "late", "staff"} :
          by = IF w \in overran THEN "late" ELSE "worker"
    OBVIOUS
  <2>3. \A i \in DOMAIN trips : trips'[i] = trips[i]
    BY <1>0, <2>1, <2>2, BookFacts
  <2>4. PICK n : Added(n, p, by)
    BY <1>0, <2>1, <2>2, BookFacts
  <2>5. Carries(p.vehicle, p.load)
    BY <1>3, <2>1 DEF CInv, Write
  <2>6. Carries(p.vehicle, p.load \cap Waiting)
    BY <2>1, <2>5, CarriesLess
  <2>7. \A i \in DOMAIN trips' : trips'[i].by \in {"worker", "late"} =>
          Carries(trips'[i].vehicle, trips'[i].load)
    BY <2>3, <2>4, <2>6 DEF Added, CInv
  <2>8. ASSUME NEW u \in Worker, pc'[u] = "write"
        PROVE  u # w /\ pc[u] = "write" /\ work'[u] = work[u]
    BY <1>0, <1>3, <2>8 DEF Write, Goto
  <2> QED
    BY <2>7, <2>8 DEF CInv
<1>4. ASSUME NEW w \in Worker, Requery(w) PROVE CInv'
  <2>1. \A u \in Worker : u # w => pc'[u] = pc[u] /\ work'[u] = work[u]
    BY <1>0, <1>4 DEF Requery, Goto, Stop
  <2>2. UNCHANGED trips
    BY <1>4 DEF Requery
  <2>3. ASSUME pc'[w] = "write" PROVE Carries(work'[w].plan.vehicle, work'[w].plan.load)
    <3>1. PICK d \in work[w].drivers, v \in work[w].vehicles :
            LET L == Packed(v, work[w].orders)
            IN /\ work' = [work EXCEPT ![w] =
                    [vehicles |-> {u \in work[w].vehicles : Rank[u] > Rank[v]},
                     orders |-> work[w].orders \ L,
                     drivers |-> work[w].drivers \ {d},
                     plan |-> IF L \cap Waiting = {} THEN NoPlan
                              ELSE [vehicle |-> v, driver |-> d, load |-> L \cap Waiting],
                     ok |-> TRUE]]
               /\ pc' = [pc EXCEPT ![w] = IF L \cap Waiting = {} THEN "requery"
                                          ELSE "write"]
      BY <1>0, <1>4, <2>3 DEF Requery, Goto, Stop
    <3>2. PICK L : L = Packed(v, work[w].orders)
      OBVIOUS
    <3>3. /\ work'[w].plan = IF L \cap Waiting = {} THEN NoPlan
                             ELSE [vehicle |-> v, driver |-> d, load |-> L \cap Waiting]
          /\ L \cap Waiting # {}
      BY <1>0, <2>3, <3>1, <3>2
    <3>4. work'[w].plan.vehicle = v /\ work'[w].plan.load = L \cap Waiting
      BY <3>3
    <3>5. v \in Vehicle
      <4>1. work[w] \in Work
        BY <1>0
      <4> QED
        BY <4>1 DEF Work
    <3>6. Carries(v, L \cap Waiting)
      <4>1. Carries(v, L)
        BY <3>2, <3>5, PackedCarries
      <4> QED
        BY <3>5, <4>1, CarriesLess
    <3> QED
      BY <3>4, <3>6
  <2> QED
    BY <1>1, <2>1, <2>2, <2>3
<1>5. ASSUME NEW w \in Worker,
             \/ Take(w) \/ Acquire(w) \/ FindVehicles(w) \/ FindOrders(w) \/ FindDrivers(w)
             \/ Release(w) \/ Finish(w) \/ Throw(w) \/ Crash(w)
      PROVE  CInv'
  <2>1. UNCHANGED trips /\ \A u \in Worker : u # w => pc'[u] = pc[u] /\ work'[u] = work[u]
    BY <1>0, <1>5 DEF Take, Acquire, FindVehicles, FindOrders, FindDrivers, Release, Finish,
                      Throw, Crash, Stop, Goto
  <2>2. pc'[w] # "write"
    BY <1>0, <1>5 DEF Take, Acquire, FindVehicles, FindOrders, FindDrivers, Release, Finish,
                      Throw, Crash, Stop, Goto
  <2> QED
    BY <1>1, <2>1, <2>2
<1>6. ASSUME NEW h \in Handler, StaffWrite(h) PROVE CInv'
  <2>1. PICK p : /\ p = task[h] /\ Book(p, "staff")
                 /\ p.vehicle \in Vehicle /\ p.driver \in Driver /\ p.load \subseteq Order
    BY <1>6, StaffWriteBooks
  <2>2. \A i \in DOMAIN trips : trips'[i] = trips[i]
    BY <1>0, <2>1, BookFacts
  <2>3. PICK n : Added(n, p, "staff")
    BY <1>0, <2>1, BookFacts
  <2>4. UNCHANGED <<pc, work>>
    BY <1>6 DEF StaffWrite, workerVars
  <2> QED
    BY <1>2, <2>2, <2>3, <2>4 DEF Added
<1>7. ASSUME NEW h \in Handler, ReassignWrite(h) PROVE CInv'
  <2>1. /\ task[h].op = "rewrite" /\ task[h] \in Task
        /\ trips' = [trips EXCEPT ![task[h].trip].vehicle = task[h].vehicle,
                                  ![task[h].trip].by = "staff"]
        /\ UNCHANGED <<pc, work>>
    BY <1>7 DEF ReassignWrite, Op, LInv, TypeOK, workerVars
  <2>2. PICK i, v : i = task[h].trip /\ v = task[h].vehicle
    OBVIOUS
  <2>3. \A j \in DOMAIN trips : j # i => trips'[j] = trips[j]
    BY <2>1, <2>2
  <2>4. DOMAIN trips' = DOMAIN trips
    BY <2>1, <2>2
  <2>5. i \in DOMAIN trips => trips'[i].by = "staff"
    <3>1. ASSUME i \in DOMAIN trips PROVE trips'[i].by = "staff"
      <4>1. trips[i] \in Row
        BY <1>0, <3>1
      <4>2. trips'[i] = [trips[i] EXCEPT !.vehicle = v, !.by = "staff"]
        BY <1>0, <2>1, <2>2, <3>1
      <4> QED
        BY <4>1, <4>2 DEF Row
    <3> QED
      BY <3>1
  <2> QED
    BY <1>2, <2>1, <2>3, <2>4, <2>5
<1>8. ASSUME NEW i \in DOMAIN trips, StartTrip(i) \/ CloseTrip(i) PROVE CInv'
  <2>1. PICK status : trips' = [trips EXCEPT ![i].status = status] /\ UNCHANGED <<pc, work>>
    BY <1>8 DEF StartTrip, CloseTrip, workerVars
  <2>2. DOMAIN trips' = DOMAIN trips /\ \A j \in DOMAIN trips : j # i => trips'[j] = trips[j]
    BY <2>1
  <2>3. /\ trips'[i].by = trips[i].by /\ trips'[i].vehicle = trips[i].vehicle
        /\ trips'[i].load = trips[i].load
    <3>1. trips[i] \in Row /\ trips'[i] = [trips[i] EXCEPT !.status = status]
      BY <1>0, <2>1
    <3> QED
      BY <3>1 DEF Row
  <2> QED
    BY <1>2, <2>1, <2>2, <2>3
<1>9. CASE UNCHANGED <<pc, work, trips>>
  BY <1>9 DEF CInv
<1> QED
  BY <1>3, <1>4, <1>5, <1>6, <1>7, <1>8, <1>9
  DEF Next, vars, workerVars, WorkerStep, StaffStep, Expire, ManualBegin, ManualCheck,
      AssignBegin, AssignCheck, StaffRequery, ReassignBegin, ReassignCheck, Request,
      Retry, Stall, Discard

--------------------------------------------------------------------------------
(***************************************************************************)
(* The theorems.                                                           *)
(***************************************************************************)

\* The inductive invariants: types and lock, orders on trips, and what the workers
\* rely on, hold in every reachable state.
THEOREM Invariant == Spec => [](LInv /\ OInv /\ RInv)
<1>1. Init => LInv /\ OInv /\ RInv
  BY LInit, OInit, RInit
<1>2. LInv /\ OInv /\ RInv /\ [Next]_vars => (LInv /\ OInv /\ RInv)'
  BY LStep, OStep, RStep
<1> QED
  BY <1>1, <1>2, PTL DEF Spec

\* Every reachable state of queue, lock, workers, orders, trips and staff requests is
\* well typed, for any number of them.
THEOREM TypeCorrect == Spec => []TypeOK
<1>1. LInv => TypeOK
  BY DEF LInv
<1> QED
  BY <1>1, Invariant, PTL

\* releaseLock deletes only its own value, so a worker loses the lock of a dispatch
\* under way only when its time to live is over, whoever stalls, dies or overruns.
THEOREM OwnLockSafe == Spec => []OwnLock
<1>1. LInv => OwnLock
  BY DEF LInv
<1> QED
  BY <1>1, Invariant, PTL

\* createTripWithStops takes only orders that wait, so no two trips of workers and
\* staff carry one order, with the lock or without it.
THEOREM OrderOnOneTripSafe == Spec => []OrderOnOneTrip
<1>1. OInv => OrderOnOneTrip
  BY DEF OInv, OrderOnOneTrip, OpenTrips
<1> QED
  BY <1>1, Invariant, PTL

\* The drivers and vehicles a worker read as free are free of other workers' trips
\* when it books them, as long as its lock has not expired.
THEOREM WorkerTripsDisjointSafe == Spec => []WorkerTripsDisjoint
<1>1. RInv => WorkerTripsDisjoint
  BY DEF RInv
<1> QED
  BY <1>1, Invariant, PTL

\* Trips of workers share no driver and no vehicle, and no two trips an order.
THEOREM BookedOnceSafe == Spec => []BookedOnce
<1>1. WorkerTripsDisjoint /\ OrderOnOneTrip => BookedOnce
  BY DEF BookedOnce
<1> QED
  BY <1>1, WorkerTripsDisjointSafe, OrderOnOneTripSafe, PTL

\* First fit packs a vehicle within its weight and volume, and a trip keeps what was
\* packed, less the orders that were taken meanwhile: for any sizes and capacities.
THEOREM WithinCapacitySafe == Spec => []WithinCapacity
<1>1. Init => LInv /\ CInv
  BY LInit, CInit
<1>2. LInv /\ CInv /\ [Next]_vars => (LInv /\ CInv)'
  BY LStep, CStep
<1>3. CInv => WithinCapacity
  BY DEF CInv, Carries, WithinCapacity
<1> QED
  BY <1>1, <1>2, <1>3, PTL DEF Spec

--------------------------------------------------------------------------------
(***************************************************************************)
(* The lock is a lease.                                                    *)
(***************************************************************************)

\* The steps that touch the lock, the places of the workers and the overruns.
LEMMA LockMoves ==
  ASSUME [Next]_vars
  PROVE  \/ \E w \in Worker : WorkerStep(w) \/ Throw(w) \/ Crash(w)
         \/ Expire
         \/ UNCHANGED <<lock, pc, overran>>
<1>1. CASE Request \/ Retry \/ Stall \/ Discard
  BY <1>1 DEF Request, Retry, Stall, Discard
<1>2. ASSUME NEW h \in Handler, StaffStep(h)
      PROVE  UNCHANGED <<lock, pc, overran>>
  BY <1>2 DEF StaffStep, ManualCheck, AssignCheck, StaffRequery, StaffWrite,
              ReassignCheck, ReassignWrite, workerVars
<1>3. ASSUME NEW h \in Handler, NEW p \in Bookings, ManualBegin(h, p) \/ AssignBegin(h, p)
      PROVE  UNCHANGED <<lock, pc, overran>>
  BY <1>3 DEF ManualBegin, AssignBegin, workerVars
<1>4. ASSUME NEW h \in Handler, NEW i \in DOMAIN trips, NEW v \in Vehicle,
             ReassignBegin(h, i, v)
      PROVE  UNCHANGED <<lock, pc, overran>>
  BY <1>4 DEF ReassignBegin, workerVars
<1>5. ASSUME NEW i \in DOMAIN trips, StartTrip(i) \/ CloseTrip(i)
      PROVE  UNCHANGED <<lock, pc, overran>>
  BY <1>5 DEF StartTrip, CloseTrip, workerVars
<1>6. CASE UNCHANGED vars
  BY <1>6 DEF vars
<1> QED
  BY <1>1, <1>2, <1>3, <1>4, <1>5, <1>6 DEF Next

\* Who overran its lock dispatches, or has just let go: a worker at its start is not late.
Overrun == \A w \in overran : Inside(w) \/ pc[w] = "finish"

\* Every step keeps Overrun: a worker that lets go or dies is no longer in overran once idle.
LEMMA OverrunStep ==
  ASSUME LInv, Overrun, [Next]_vars
  PROVE  Overrun'
<1> USE WorkerAssumption
<1>0. /\ pc \in [Worker -> Pc] /\ lock \in Worker \cup {NoWorker}
      /\ overran \subseteq Worker
  BY DEF LInv, TypeOK
<1> USE DEF Overrun, Inside, InsidePc, Goto
<1>1. ASSUME NEW w \in Worker, Take(w) \/ Acquire(w)
      PROVE  Overrun'
  <2>1. pc[w] \in {"idle", "lock"} /\ UNCHANGED overran
    BY <1>1 DEF Take, Acquire
  <2>2. PICK next : pc' = [pc EXCEPT ![w] = next]
    BY <1>1 DEF Take, Acquire
  <2> QED
    BY <1>0, <2>1, <2>2
<1>2. ASSUME NEW w \in Worker,
             \/ FindVehicles(w) \/ FindOrders(w) \/ FindDrivers(w) \/ Requery(w)
             \/ Write(w) \/ Throw(w)
      PROVE  Overrun'
  <2>1. /\ UNCHANGED overran
        /\ \E next \in {"orders", "drivers", "requery", "write", "release"} :
             pc' = [pc EXCEPT ![w] = next]
    BY <1>2 DEF FindVehicles, FindOrders, FindDrivers, Requery, Write, Throw, Stop
  <2> QED
    BY <1>0, <2>1
<1>3. ASSUME NEW w \in Worker, Release(w)
      PROVE  Overrun'
  BY <1>0, <1>3 DEF Release
<1>4. ASSUME NEW w \in Worker, Finish(w) \/ Crash(w)
      PROVE  Overrun'
  <2>1. pc' = [pc EXCEPT ![w] = "idle"] /\ overran' = overran \ {w}
    BY <1>4 DEF Finish, Crash
  <2> QED
    BY <1>0, <2>1
<1>5. CASE Expire
  BY <1>0, <1>5 DEF Expire
<1>6. CASE UNCHANGED <<pc, overran>>
  BY <1>0, <1>6
<1> QED
  BY <1>1, <1>2, <1>3, <1>4, <1>5, <1>6, LockMoves DEF WorkerStep

\* LeaseSpec: the hub's lock goes to a worker only while it is free, is given up by its
\* holder only, and whoever dispatches without it has overrun it.
THEOREM LeaseRefinement == Spec => LeaseSpec
<1> USE WorkerAssumption
<1> DEFINE working == {w \in Worker : Inside(w)}
           late == {w \in overran : Inside(w)}
<1>1. Init => Lease!Init
  BY DEF Init, Lease!Init, Inside, InsidePc
<1>2. ASSUME LInv, Overrun, [Next]_vars
      PROVE  [Lease!Next]_Lease!vars
  <2>0. /\ pc \in [Worker -> Pc] /\ lock \in Worker \cup {NoWorker}
        /\ overran \subseteq Worker
    BY <1>2 DEF LInv, TypeOK
  <2> USE DEF Goto
  <2>1. ASSUME NEW w \in Worker, Take(w) \/ Finish(w)
        PROVE  UNCHANGED Lease!vars
    <3>1. ~Inside(w) /\ overran' \in {overran, overran \ {w}} /\ UNCHANGED lock
      BY <2>1 DEF Take, Finish, Inside, InsidePc
    <3>2. \E next \in {"lock", "idle"} : pc' = [pc EXCEPT ![w] = next]
      BY <2>1 DEF Take, Finish
    <3>3. working' = working /\ late' = late
      BY <2>0, <3>1, <3>2 DEF Inside, InsidePc
    <3> QED
      BY <3>1, <3>3 DEF Lease!vars
  <2>2. ASSUME NEW w \in Worker, Acquire(w)
        PROVE  [Lease!Next]_Lease!vars
    <3>1. pc[w] = "lock" /\ w \notin overran /\ UNCHANGED overran
      BY <1>2, <2>2 DEF Acquire, Overrun, Inside, InsidePc
    <3>2. CASE lock = NoWorker
      <4>1. lock' = w /\ pc' = [pc EXCEPT ![w] = "vehicles"]
        BY <2>2, <3>2 DEF Acquire
      <4>2. w \notin working /\ working' = working \cup {w} /\ late' = late
        BY <2>0, <3>1, <4>1 DEF Inside, InsidePc
      <4>3. Lease!Enter(w)
        BY <3>2, <4>1, <4>2 DEF Lease!Enter
      <4> QED
        BY <4>3 DEF Lease!Next
    <3>3. CASE lock # NoWorker
      <4>1. lock' = lock /\ pc' = [pc EXCEPT ![w] = "skip"]
        BY <2>2, <3>3 DEF Acquire
      <4>2. working' = working /\ late' = late
        BY <2>0, <3>1, <4>1 DEF Inside, InsidePc
      <4> QED
        BY <4>1, <4>2 DEF Lease!vars
    <3> QED
      BY <3>2, <3>3
  <2>3. ASSUME NEW w \in Worker,
               \/ FindVehicles(w) \/ FindOrders(w) \/ FindDrivers(w) \/ Requery(w)
               \/ Write(w) \/ Throw(w)
        PROVE  UNCHANGED Lease!vars
    <3>1. Inside(w) /\ UNCHANGED <<lock, overran>>
      BY <2>3 DEF FindVehicles, FindOrders, FindDrivers, Requery, Write, Throw,
                  Inside, InsidePc
    <3>2. \E next \in {"orders", "drivers", "requery", "write", "release"} :
            pc' = [pc EXCEPT ![w] = next]
      BY <2>3 DEF FindVehicles, FindOrders, FindDrivers, Requery, Write, Throw, Stop
    <3>3. working' = working /\ late' = late
      BY <2>0, <3>1, <3>2 DEF Inside, InsidePc
    <3> QED
      BY <3>1, <3>3 DEF Lease!vars
  <2>4. ASSUME NEW w \in Worker, Release(w)
        PROVE  Lease!Next
    <3>1. /\ pc[w] = "release" /\ pc' = [pc EXCEPT ![w] = "finish"]
          /\ lock' = (IF lock = w THEN NoWorker ELSE lock) /\ UNCHANGED overran
      BY <2>4 DEF Release, Released
    <3>2. w \in working /\ working' = working \ {w} /\ late' = late \ {w}
      BY <2>0, <3>1 DEF Inside, InsidePc
    <3>3. Lease!Leave(w)
      BY <3>1, <3>2 DEF Lease!Leave, Lease!Stop
    <3> QED
      BY <3>3 DEF Lease!Next
  <2>5. ASSUME NEW w \in Worker, Crash(w)
        PROVE  [Lease!Next]_Lease!vars
    <3>1. /\ pc' = [pc EXCEPT ![w] = "idle"] /\ overran' = overran \ {w}
          /\ UNCHANGED lock
      BY <2>5 DEF Crash
    <3>2. working' = working \ {w} /\ late' = late \ {w}
      BY <2>0, <3>1 DEF Inside, InsidePc
    <3>3. CASE w \in working
      <4>1. Lease!Die(w)
        BY <3>1, <3>2, <3>3 DEF Lease!Die, Lease!Stop
      <4> QED
        BY <4>1 DEF Lease!Next
    <3>4. CASE w \notin working
      <4>1. working' = working /\ late' = late
        BY <3>2, <3>4
      <4> QED
        BY <3>1, <4>1 DEF Lease!vars
    <3> QED
      BY <3>3, <3>4
  <2>6. CASE Expire
    <3>1. /\ lock # NoWorker /\ lock' = NoWorker /\ UNCHANGED pc
          /\ overran' = IF Inside(lock) THEN overran \cup {lock} ELSE overran
      BY <2>6 DEF Expire
    <3>2. working' = working /\ late' = late \cup ({lock} \cap working)
      BY <2>0, <3>1 DEF Inside
    <3>3. Lease!Expire
      BY <3>1, <3>2 DEF Lease!Expire
    <3> QED
      BY <3>3 DEF Lease!Next
  <2>7. CASE UNCHANGED <<lock, pc, overran>>
    BY <2>7 DEF Lease!vars, Inside
  <2> QED
    BY <1>2, <2>1, <2>2, <2>3, <2>4, <2>5, <2>6, <2>7, LockMoves DEF WorkerStep
<1>3. Init => LInv /\ Overrun
  BY LInit DEF Init, Overrun
<1>4. LInv /\ Overrun /\ [Next]_vars => (LInv /\ Overrun)'
  BY LStep, OverrunStep
<1> QED
  BY <1>1, <1>2, <1>3, <1>4, PTL DEF Spec, LeaseSpec, Lease!Spec
================================================================================

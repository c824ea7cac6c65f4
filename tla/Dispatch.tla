-------------------------------- MODULE Dispatch --------------------------------
(***************************************************************************)
(* The automatic dispatch of a hub: its job on the BullMQ queue, the Redis *)
(* lock that keeps a second worker out, the worker that packs the waiting  *)
(* orders on free vehicles, and the requests of staff, which book drivers  *)
(* and vehicles without the lock.                                          *)
(*                                                                         *)
(* One hub: jobs and locks of different hubs have different keys.  What a  *)
(* trip does to its orders is the subject of TripLifecycle; here an order  *)
(* waits for dispatch or is loaded.                                        *)
(*                                                                         *)
(* BullMQ and Redis are external.  BullMQ gives a job to one worker, puts  *)
(* it back when that worker stops renewing it (a stall), ignores the       *)
(* result of a worker that no longer owns it, and ignores an add whose job *)
(* id it still keeps.  Redis drops a key when its time to live is over.    *)
(***************************************************************************)
EXTENDS Naturals, Sequences, FiniteSets, FiniteSetsExt

CONSTANTS
  Worker,      \* workers of the queue, each with one job at a time
  Handler,     \* staff requests in flight at a time
  Order, Vehicle, Driver,
  Orders,      \* the orders by createdAt: a sequence
  Rank,        \* per vehicle: its place in the order of findAvailableVehicles
  Size,        \* per order: its weight and volume
  Capacity,    \* per vehicle: the weight and volume it carries
  NoWorker,    \* the lock is free, or nobody runs the job
  Bookings,    \* the trips staff may ask for
  Events,      \* the events of this instance, besides the worker's own steps
  Attempts,    \* the attempts option of the queue
  MaxStalls,   \* stalls BullMQ forgives a job
  MaxOverruns, \* bound on the workers that overrun their lock at a time
  MaxTrips     \* bound on the trips created

ASSUME WorkerAssumption == NoWorker \notin Worker
ASSUME OrdersAssumption == Orders \in Seq(Order)
ASSUME RankAssumption == Rank \in [Vehicle -> Nat]
\* The schemas of items and vehicles admit positive weights and volumes only; in units
\* small enough they are whole.
ASSUME SizeAssumption ==
  /\ Size \in [Order -> [weight : Nat, volume : Nat]]
  /\ Capacity \in [Vehicle -> [weight : Nat, volume : Nat]]
ASSUME BookingAssumption ==
  Bookings \subseteq
    [vehicle : Vehicle, driver : Driver, load : (SUBSET Order) \ {{}}]
ASSUME BoundAssumption ==
  Attempts \in Nat /\ MaxStalls \in Nat /\ MaxTrips \in Nat /\ MaxOverruns \in Nat

VARIABLES
  job,       \* the job dispatch-hub-<id>
  lock,      \* the worker whose value is under the hub's lock key
  pc,        \* per worker: the step it is about to take
  work,      \* per worker: what it has read and packed
  overran,   \* the workers whose lock expired under them
  orders,    \* per order: waiting for dispatch, or loaded
  trips,     \* the trips in the order of their ids
  task       \* per staff request: what it holds between two steps

workerVars == <<job, lock, pc, work, overran>>
vars == <<job, lock, pc, work, overran, orders, trips, task>>

JobState == {"absent", "waiting", "active", "delayed", "completed", "failed"}
InsidePc == {"vehicles", "orders", "drivers", "requery", "write", "release"}
Pc == {"idle", "lock", "skip", "finish"} \cup InsidePc

\* The rows of trips; by is a history variable that says who booked the trip: a
\* worker under its lock, a worker that overran it, or staff.
Row == [status : {"PENDING", "IN_PROGRESS", "CLOSED"}, vehicle : Vehicle,
        driver : Driver, load : SUBSET Order, by : {"worker", "late", "staff"}]

\* What a worker holds: the vehicles, orders and drivers it may still use, and
\* the trip it is about to write.
Plan == [vehicle : Vehicle, driver : Driver, load : SUBSET Order]
NoPlan == [load |-> {}]
Work == [vehicles : SUBSET Vehicle, orders : SUBSET Order, drivers : SUBSET Driver,
         plan : Plan \cup {NoPlan}, ok : BOOLEAN]
Done(ok) == [vehicles |-> {}, orders |-> {}, drivers |-> {}, plan |-> NoPlan, ok |-> ok]

Idle == [op |-> "idle"]
Task ==
  {Idle}
    \cup [op : {"check", "checkProgress", "requery", "write"}, vehicle : Vehicle,
          driver : Driver, load : SUBSET Order]
    \cup [op : {"recheck", "rewrite"}, trip : 1..MaxTrips, vehicle : Vehicle]

TypeOK ==
  /\ job \in [state : JobState, runner : Worker \cup {NoWorker}, failures : Nat,
              stalls : Nat]
  /\ lock \in Worker \cup {NoWorker}
  /\ pc \in [Worker -> Pc]
  /\ work \in [Worker -> Work]
  /\ overran \subseteq Worker
  /\ orders \in [Order -> {"waiting", "loaded"}]
  /\ trips \in Seq(Row)
  /\ task \in [Handler -> Task]

Inside(w) == pc[w] \in InsidePc

Waiting == {o \in Order : orders[o] = "waiting"}
ActiveStarted(t) == t.status = "IN_PROGRESS"  \* mutant
Active(t) == t.status \in {"PENDING", "IN_PROGRESS"}
OpenTrips == {i \in DOMAIN trips : Active(trips[i])}

\* The vehicles and drivers that no open trip uses: assertDriverAndVehicle-
\* Availability, findAvailableVehicles and findAvailableDrivers.
VehicleFree(v) == \A i \in OpenTrips : trips[i].vehicle # v
DriverFree(d) == \A i \in OpenTrips : trips[i].driver # d

\* The WHERE clause of the updateMany that loads orders.
Anyway(load) == load  \* mutant
StillWaiting(load) == load \cap Waiting

\* createTripWithStops: the trip takes the orders that still wait.
Book(p, by) ==
  /\ Len(trips) < MaxTrips
  /\ trips' = Append(trips, [status |-> "PENDING", vehicle |-> p.vehicle,
                             driver |-> p.driver, load |-> StillWaiting(p.load),
                             by |-> by])
  /\ orders' = [o \in Order |-> IF o \in StillWaiting(p.load) THEN "loaded" ELSE orders[o]]

Init ==
  /\ job = [state |-> "absent", runner |-> NoWorker, failures |-> 0, stalls |-> 0]
  /\ lock = NoWorker
  /\ pc = [w \in Worker |-> "idle"]
  /\ work = [w \in Worker |-> Done(TRUE)]
  /\ overran = {}
  /\ orders = [o \in Order |-> "waiting"]
  /\ trips = <<>>
  /\ task = [h \in Handler |-> Idle]

--------------------------------------------------------------------------------
(***************************************************************************)
(* The queue.                                                              *)
(***************************************************************************)

\* autoDispatchLocalTask, or the global one for this hub: the job id is fixed, so
\* the add is ignored while the queue knows the job in any state.
Request ==
  /\ job' = IF job.state = "absent"
            THEN [state |-> "waiting", runner |-> NoWorker, failures |-> 0,
                  stalls |-> 0]
            ELSE job
  /\ UNCHANGED <<lock, pc, work, overran, orders, trips, task>>

Take(w) ==
  /\ pc[w] = "idle"
  /\ job.state = "waiting"
  /\ job' = [job EXCEPT !.state = "active", !.runner = w]
  /\ pc' = [pc EXCEPT ![w] = "lock"]
  /\ UNCHANGED <<lock, work, overran, orders, trips, task>>

\* The result of process(): ignored unless the worker still owns the job.
Outcome(ok, failures) ==
  IF ok THEN "completed" ELSE IF failures < Attempts THEN "delayed" ELSE "failed"

\* attemptsMade after one more failure.
FailuresForgotten(n) == 0  \* mutant
FailuresAfter(n) == n + 1

Finish(w) ==
  /\ pc[w] \in {"skip", "finish"}
  /\ pc' = [pc EXCEPT ![w] = "idle"]
  /\ overran' = overran \ {w}
  /\ LET ok == work[w].ok
         failures == IF ok THEN job.failures ELSE FailuresAfter(job.failures)
     IN job' = IF job.runner = w
               THEN [job EXCEPT !.state = Outcome(ok, failures), !.runner = NoWorker,
                                !.failures = failures]
               ELSE job
  /\ work' = [work EXCEPT ![w] = Done(TRUE)]
  /\ UNCHANGED <<lock, orders, trips, task>>

\* The backoff of a failed attempt is over.
Retry ==
  /\ job.state = "delayed"
  /\ job' = [job EXCEPT !.state = "waiting"]
  /\ UNCHANGED <<lock, pc, work, overran, orders, trips, task>>

RunnerDead == job.state = "active" /\ pc[job.runner] = "idle"

\* The runner died, or did not renew the job in time although it goes on.
Stall ==
  /\ job.state = "active"
  /\ RunnerDead \/ "stall" \in Events
  /\ job' = IF job.stalls < MaxStalls
            THEN [job EXCEPT !.state = "waiting", !.runner = NoWorker, !.stalls = @ + 1]
            ELSE [job EXCEPT !.state = "failed", !.runner = NoWorker]
  /\ UNCHANGED <<lock, pc, work, overran, orders, trips, task>>

\* A kept job is removed: removeOnComplete, removeOnFail.
Discard ==
  /\ job.state \in {"completed", "failed"}
  /\ job' = [state |-> "absent", runner |-> NoWorker, failures |-> 0, stalls |-> 0]
  /\ UNCHANGED <<lock, pc, work, overran, orders, trips, task>>

--------------------------------------------------------------------------------
(***************************************************************************)
(* The worker: process and executeDispatch.  Each read and each            *)
(* transaction is awaited, so each is a step.                              *)
(***************************************************************************)

Goto(w, next) == pc' = [pc EXCEPT ![w] = next]

\* executeDispatch returns or throws; the finally block is next.
Stop(w, ok) == Goto(w, "release") /\ work' = [work EXCEPT ![w] = Done(ok)]

\* SET key value NX: a job that does not get the lock ends as completed.
Acquire(w) ==
  /\ pc[w] = "lock"
  /\ lock' = IF lock = NoWorker THEN w ELSE lock
  /\ Goto(w, IF lock = NoWorker THEN "vehicles" ELSE "skip")
  /\ UNCHANGED <<job, work, overran, orders, trips, task>>

FindVehicles(w) ==
  /\ pc[w] = "vehicles"
  /\ work' = [work EXCEPT ![w].vehicles = {v \in Vehicle : VehicleFree(v)}]
  /\ Goto(w, "orders")
  /\ UNCHANGED <<job, lock, overran, orders, trips, task>>

FindOrders(w) ==
  /\ pc[w] = "orders"
  /\ IF work[w].vehicles = {} \/ Waiting = {}
     THEN Stop(w, TRUE)
     ELSE /\ work' = [work EXCEPT ![w].orders = Waiting]
          /\ Goto(w, "drivers")
  /\ UNCHANGED <<job, lock, overran, orders, trips, task>>

FindDrivers(w) ==
  /\ pc[w] = "drivers"
  /\ LET free == {d \in Driver : DriverFree(d)}
     IN IF free = {}
        THEN Stop(w, TRUE)
        ELSE /\ work' = [work EXCEPT ![w].drivers = free]
             /\ Goto(w, "requery")
  /\ UNCHANGED <<job, lock, overran, orders, trips, task>>

\* First fit: the orders of S, oldest first, that the vehicle still has room for.
Fits(room, o) == Size[o].weight <= room.weight /\ Size[o].volume <= room.volume
PutUnweighed(room, o) ==  \* mutant
  [room EXCEPT !.load = @ \cup {o}, !.volume = @ - Size[o].volume]
Put(room, o) ==
  [load |-> room.load \cup {o}, weight |-> room.weight - Size[o].weight,
   volume |-> room.volume - Size[o].volume]
Packed(v, S) ==
  LET room[i \in 0..Len(Orders)] ==
        IF i = 0
        THEN [load |-> {}, weight |-> Capacity[v].weight, volume |-> Capacity[v].volume]
        ELSE IF Orders[i] \in S /\ Fits(room[i - 1], Orders[i])
             THEN Put(room[i - 1], Orders[i])
             ELSE room[i - 1]
  IN S \cap room[Len(Orders)].load

\* The next vehicle that some order fits in gets a free driver; the transaction
\* re-queries its orders and creates nothing when none is left.
Requery(w) ==
  /\ pc[w] = "requery"
  /\ LET left == work[w]
         usable == {v \in left.vehicles : Packed(v, left.orders) # {}}
     IN IF usable = {} \/ left.drivers = {}
        THEN Stop(w, TRUE)
        ELSE \E d \in left.drivers, v \in usable :
               LET load == Packed(v, left.orders)
               IN /\ \A u \in usable : Rank[v] <= Rank[u]
                  /\ work' = [work EXCEPT ![w] =
                       [vehicles |-> {u \in left.vehicles : Rank[u] > Rank[v]},
                        orders |-> left.orders \ load,
                        drivers |-> left.drivers \ {d},
                        plan |-> IF load \cap Waiting = {} THEN NoPlan
                                 ELSE [vehicle |-> v, driver |-> d,
                                       load |-> load \cap Waiting],
                        ok |-> TRUE]]
                  /\ Goto(w, IF load \cap Waiting = {} THEN "requery" ELSE "write")
  /\ UNCHANGED <<job, lock, overran, orders, trips, task>>

Write(w) ==
  /\ pc[w] = "write"
  /\ Book(work[w].plan, IF w \in overran THEN "late" ELSE "worker")
  /\ work' = [work EXCEPT ![w].plan = NoPlan]
  /\ Goto(w, "requery")
  /\ UNCHANGED <<job, lock, overran, task>>

\* The finally block.  Compare-and-delete in one Lua script: only the value this
\* worker set is deleted.
ReleasedAny(w) == NoWorker  \* mutant
Released(w) == IF lock = w THEN NoWorker ELSE lock

Release(w) ==
  /\ pc[w] = "release"
  /\ lock' = Released(w)
  /\ Goto(w, "finish")
  /\ UNCHANGED <<job, work, overran, orders, trips, task>>

\* A query throws: the finally block still runs, the attempt fails.
Throw(w) ==
  /\ "throw" \in Events
  /\ Inside(w) /\ pc[w] # "release"
  /\ Stop(w, FALSE)
  /\ UNCHANGED <<job, lock, overran, orders, trips, task>>

\* The worker's process dies: its lock stays.
Crash(w) ==
  /\ "crash" \in Events
  /\ pc[w] # "idle"
  /\ Goto(w, "idle")
  /\ overran' = overran \ {w}
  /\ work' = [work EXCEPT ![w] = Done(TRUE)]
  /\ UNCHANGED <<job, lock, orders, trips, task>>

\* The key is set with a time to live, which is over after its worker died or, if
\* the dispatch takes long, while it works.
NeverExpires == FALSE  \* mutant
Expirable == ~Inside(lock) \/ Cardinality(overran) < MaxOverruns

Expire ==
  /\ lock # NoWorker
  /\ Expirable
  /\ lock' = NoWorker
  /\ overran' = IF Inside(lock) THEN overran \cup {lock} ELSE overran
  /\ UNCHANGED <<job, pc, work, orders, trips, task>>

WorkerStep(w) ==
  \/ Take(w) \/ Acquire(w) \/ FindVehicles(w) \/ FindOrders(w) \/ FindDrivers(w)
  \/ Requery(w) \/ Write(w) \/ Release(w) \/ Finish(w)
--------------------------------------------------------------------------------
(***************************************************************************)
(* Requests of staff.  They check that driver and vehicle are free in an   *)
(* awaited read of their own, and book them later without the lock.        *)
(***************************************************************************)

StaffIdle(h) == "staff" \in Events /\ task[h] = Idle
Set(h, next) == task' = [task EXCEPT ![h] = next]
Op(h, op) == task[h].op = op

\* manualCreateTrip and approveDispatch check the orders first.
ManualBegin(h, p) ==
  /\ StaffIdle(h)
  /\ p.load \subseteq Waiting
  /\ Set(h, [op |-> "check", vehicle |-> p.vehicle, driver |-> p.driver, load |-> p.load])
  /\ UNCHANGED <<workerVars, orders, trips>>

\* assertDriverAndVehicleAvailability.
ManualCheck(h) ==
  /\ Op(h, "check")
  /\ Set(h, IF VehicleFree(task[h].vehicle) /\ DriverFree(task[h].driver)
            THEN [task[h] EXCEPT !.op = "requery"] ELSE Idle)
  /\ UNCHANGED <<workerVars, orders, trips>>

\* approveAssignmentRequest for a driver with no PENDING trip: it never asks
\* whether the vehicle is free.
AssignBegin(h, p) ==
  /\ StaffIdle(h)
  /\ p.load \subseteq Waiting /\ Cardinality(p.load) = 1
  /\ \A i \in DOMAIN trips : trips[i].driver = p.driver => trips[i].status # "PENDING"
  /\ Set(h, [op |-> "checkProgress", vehicle |-> p.vehicle, driver |-> p.driver,
             load |-> p.load])
  /\ UNCHANGED <<workerVars, orders, trips>>

\* assertDriverHasNoInProgressTrip.
AssignCheck(h) ==
  /\ Op(h, "checkProgress")
  /\ Set(h, IF \E i \in DOMAIN trips : /\ trips[i].driver = task[h].driver
                                       /\ trips[i].status = "IN_PROGRESS"
            THEN Idle ELSE [task[h] EXCEPT !.op = "requery"])
  /\ UNCHANGED <<workerVars, orders, trips>>

\* createTripWithStops.
StaffRequery(h) ==
  /\ Op(h, "requery")
  /\ LET valid == task[h].load \cap Waiting
     IN Set(h, IF valid = {} THEN Idle
               ELSE [task[h] EXCEPT !.op = "write", !.load = valid])
  /\ UNCHANGED <<workerVars, orders, trips>>

StaffWrite(h) ==
  /\ Op(h, "write")
  /\ Book(task[h], "staff")
  /\ Set(h, Idle)
  /\ UNCHANGED workerVars

\* reassignTripVehicle of a PENDING trip; the update is by id.
ReassignBegin(h, i, v) ==
  /\ StaffIdle(h)
  /\ trips[i].status = "PENDING"
  /\ Set(h, [op |-> "recheck", trip |-> i, vehicle |-> v])
  /\ UNCHANGED <<workerVars, orders, trips>>

ReassignCheck(h) ==
  /\ Op(h, "recheck")
  /\ LET i == task[h].trip
         others == OpenTrips \ {i}
     IN Set(h, IF \A j \in others : /\ trips[j].vehicle # task[h].vehicle
                                    /\ trips[j].driver # trips[i].driver
               THEN [task[h] EXCEPT !.op = "rewrite"] ELSE Idle)
  /\ UNCHANGED <<workerVars, orders, trips>>

ReassignWrite(h) ==
  /\ Op(h, "rewrite")
  /\ trips' = [trips EXCEPT ![task[h].trip].vehicle = task[h].vehicle,
                            ![task[h].trip].by = "staff"]
  /\ Set(h, Idle)
  /\ UNCHANGED <<workerVars, orders>>

--------------------------------------------------------------------------------
(***************************************************************************)
(* What happens around the dispatch.                                       *)
(***************************************************************************)

\* A trip is started; it is completed or cancelled, and its driver and vehicle are
\* free again. Orders that return to the hub are left out: they wait like new ones.
StartTrip(i) ==
  /\ trips[i].status = "PENDING"
  /\ trips' = [trips EXCEPT ![i].status = "IN_PROGRESS"]
  /\ UNCHANGED <<workerVars, orders, task>>

CloseTrip(i) ==
  /\ i \in OpenTrips
  /\ trips' = [trips EXCEPT ![i].status = "CLOSED"]
  /\ UNCHANGED <<workerVars, orders, task>>

StaffStep(h) ==
  \/ ManualCheck(h) \/ AssignCheck(h) \/ StaffRequery(h) \/ StaffWrite(h)
  \/ ReassignCheck(h) \/ ReassignWrite(h)

Next ==
  \/ Request \/ Retry \/ Stall \/ Discard \/ Expire
  \/ \E w \in Worker : WorkerStep(w) \/ Throw(w) \/ Crash(w)
  \/ \E h \in Handler : StaffStep(h)
  \/ \E h \in Handler, p \in Bookings : ManualBegin(h, p) \/ AssignBegin(h, p)
  \/ \E h \in Handler, i \in DOMAIN trips, v \in Vehicle : ReassignBegin(h, i, v)
  \/ \E i \in DOMAIN trips : StartTrip(i) \/ CloseTrip(i)

Spec == Init /\ [][Next]_vars

\* Workers go on, Redis drops keys in time, and BullMQ takes jobs back from dead
\* workers and ends backoffs.  Nothing is assumed of staff, of trips and of those
\* who ask for a dispatch.
FairSpec ==
  /\ Spec
  /\ \A w \in Worker : WF_vars(WorkerStep(w))
  /\ WF_vars(Expire) /\ WF_vars(RunnerDead /\ Stall) /\ WF_vars(Retry)
--------------------------------------------------------------------------------
(***************************************************************************)
(* Properties.                                                             *)
(***************************************************************************)

\* A worker in executeDispatch whose lock has not expired holds the lock, although
\* others stall, die, overrun it and release after it: so two workers are in
\* executeDispatch only if one of them overran its lock.  It follows from LeaseSpec.
OwnLock == \A w \in Worker : Inside(w) /\ w \notin overran => lock = w

\* The lock makes the worker's reads of free drivers and vehicles good until it
\* books them: its open trips share none, whatever staff book meanwhile.
WorkerTripsDisjoint ==
  \A i, j \in OpenTrips :
    i # j /\ trips[i].by = "worker" /\ trips[j].by = "worker" =>
      trips[i].driver # trips[j].driver /\ trips[i].vehicle # trips[j].vehicle

\* An order is on one trip, also when an overrun worker and staff planned it too.
OrderOnOneTrip ==
  \A i, j \in OpenTrips : i # j => trips[i].load \cap trips[j].load = {}

\* However the trips of workers and of staff come about, none of what is to be booked once
\* is booked twice.
BookedOnce == WorkerTripsDisjoint /\ OrderOnOneTrip

TotalOf(f, load) == MapThenSumSet(LAMBDA o : Size[o][f], load)

\* What a worker packs never exceeds the vehicle, also after the transaction
\* dropped some of it.
WithinCapacity ==
  \A i \in DOMAIN trips :
    trips[i].by \in {"worker", "late"} =>
      \A f \in {"weight", "volume"} :
        TotalOf(f, trips[i].load) <= Capacity[trips[i].vehicle][f]

\* The lock is a lease on the hub, and executeDispatch the work it is for. Between a
\* death and an expiry too, no step gives it to a second worker, takes it from another,
\* or lets a worker go on without it that has not overrun it.
Lease == INSTANCE HubLease WITH
  holder <- lock,
  working <- {w \in Worker : Inside(w)},
  late <- {w \in overran : Inside(w)}
LeaseSpec == Lease!Spec

\* The hub's lock is free again and again: a dead worker's lock does not shut the
\* hub for ever.
LockFreed == []<>(lock = NoWorker)

\* A job comes to an end, whatever crashes, stalls and failures it meets: they are
\* bounded by the attempts of the queue and the stalls BullMQ forgives.
JobSettles ==
  job.state \in {"waiting", "active", "delayed"} ~>
    job.state \in {"completed", "failed"}
================================================================================

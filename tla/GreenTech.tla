------------------------------- MODULE GreenTech -------------------------------
(***************************************************************************)
(* From the last delivery of a trip to the points of its driver: the trip  *)
(* is completed, by the tracking service or by its driver, a job computes  *)
(* its emission as the next version of a log, and the points for the CO2   *)
(* it saved and the rank they make are written to a profile.               *)
(*                                                                         *)
(* In the application as it is assembled no module registers the processor *)
(* of the queue, which is Worker = {} here: no log is ever written, and no *)
(* point awarded.  The model has workers, to say what the services do once *)
(* they run.                                                               *)
(***************************************************************************)
EXTENDS Integers, Sequences, FiniteSets, FiniteSetsExt

CONSTANTS
  Handler,   \* requests in flight at a time
  Worker,    \* the consumers of the green-tech queue
  Trip, Driver, Order,
  DriverOf,  \* per trip
  TripOf,    \* per order: the trip it was dispatched on
  Distance,  \* per trip: totalDistance in km, 0 when there is none
  Rate,      \* per trip: emissionRatePerKm of its vehicle, in grams
  MaxStalls  \* bound: how often a worker may die

ASSUME DriverOfAssumption == DriverOf \in [Trip -> Driver]
ASSUME TripAssumption == IsFiniteSet(Trip)
ASSUME TripOfAssumption == TripOf \in [Order -> Trip]
ASSUME AmountsAssumption == Distance \in [Trip -> Nat] /\ Rate \in [Trip -> Nat]
ASSUME KindsAssumption == Trip \cap Driver = {}
ASSUME MaxStallsAssumption == MaxStalls \in Nat

VARIABLES
  trip,      \* per trip: its status
  order,     \* per order: its status, and whether currentTripId is its trip
  jobs,      \* per trip: the calculate-emission jobs that wait
  worker,    \* per worker: what its job holds between two awaits
  logs,      \* per trip: its rows of TripEmissionLog
  profile,   \* per driver: the row of UserGreenProfile
  task,      \* per handler: what its request holds between two awaits
  stalls,    \* how often a worker died
  awards,    \* history: how often the points of a trip were added to a profile
  disturbed  \* history: trips and drivers whose requests overlapped, and drivers
             \* for whom one broke off

vars == <<trip, order, jobs, worker, logs, profile, task, stalls, awards, disturbed>>

Rank == {"SEED", "LEAF", "TREE", "FOREST", "EARTH_GUARDIAN"}
NoProfile == [points |-> -1, rank |-> "SEED"]
Idle == [op |-> "idle"]
LogRow == [version : Nat \ {0}, isLatest : BOOLEAN, charged : SUBSET Order]

Task ==
  {Idle}
    \cup [op : {"check", "autoComplete", "enqueue", "complete", "latest", "find",
                "create", "increment"}, trip : Trip]
    \cup [op : {"rank"}, trip : Trip, points : Nat]
    \cup [op : {"default"}, driver : Driver]

Job ==
  {Idle}
    \cup [op : {"versions", "saved"}, trip : Trip, charged : SUBSET Order]
    \cup [op : {"save"}, trip : Trip, charged : SUBSET Order, version : Nat \ {0}]

TypeOK ==
  /\ trip \in [Trip -> {"PENDING", "IN_PROGRESS", "COMPLETED"}]
  /\ order \in [Order -> [status : {"OPEN", "DELIVERED", "CANCELLED"}, onBoard : BOOLEAN]]
  /\ jobs \in [Trip -> Nat]
  /\ worker \in [Worker -> Job]
  /\ logs \in [Trip -> SUBSET LogRow]
  /\ profile \in [Driver -> {NoProfile} \cup [points : Nat, rank : Rank]]
  /\ task \in [Handler -> Task]
  /\ stalls \in 0..MaxStalls
  /\ awards \in [Trip -> Nat]
  /\ disturbed \subseteq Trip \cup Driver

Init ==
  /\ trip = [t \in Trip |-> "PENDING"]
  /\ order = [o \in Order |-> [status |-> "OPEN", onBoard |-> TRUE]]
  /\ jobs = [t \in Trip |-> 0]
  /\ worker = [w \in Worker |-> Idle]
  /\ logs = [t \in Trip |-> {}]
  /\ profile = [d \in Driver |-> NoProfile]
  /\ task = [h \in Handler |-> Idle]
  /\ stalls = 0
  /\ awards = [t \in Trip |-> 0]
  /\ disturbed = {}

\* The trip or the profile a request is about.
Subject(r) ==
  CASE r.op \in {"check", "autoComplete", "enqueue", "complete", "latest"} -> {r.trip}
    [] r.op \in {"find", "create", "increment", "rank"} -> {r.trip, DriverOf[r.trip]}
    [] r.op = "default" -> {r.driver}
    [] OTHER -> {}

Hold(h, r) ==
  /\ task' = [task EXCEPT ![h] = r]
  /\ disturbed' = disturbed \cup
       (Subject(r) \cap UNION {Subject(task[g]) : g \in Handler \ {h}})
Op(h, op) == task[h].op = op

OnBoard(t) == {o \in Order : TripOf[o] = t /\ order[o].onBoard}
Closed(o) == order[o].status \in {"DELIVERED", "CANCELLED"}

--------------------------------------------------------------------------------
(***************************************************************************)
(* Trips and orders, and TrackingService.createEvent.                      *)
(***************************************************************************)

\* A driver has one trip at a time.
StartTrip(t) ==
  /\ trip[t] = "PENDING"
  /\ \A u \in Trip : DriverOf[u] = DriverOf[t] => trip[u] # "IN_PROGRESS"
  /\ trip' = [trip EXCEPT ![t] = "IN_PROGRESS"]
  /\ UNCHANGED <<order, jobs, worker, logs, profile, task, stalls, awards, disturbed>>

\* A delivered order leaves the trip. The trip it was on is looked at next.
DeliveredStays(o) ==  \* mutant
  [status |-> "DELIVERED", onBoard |-> order[o].onBoard]
Delivered(o) ==
  [status |-> "DELIVERED", onBoard |-> FALSE]

Deliver(h, o) ==
  /\ task[h] = Idle
  /\ trip[TripOf[o]] # "PENDING"
  /\ order[o].status = "OPEN"
  /\ order' = [order EXCEPT ![o] = Delivered(o)]
  /\ Hold(h, [op |-> "check", trip |-> TripOf[o]])
  /\ UNCHANGED <<trip, jobs, worker, logs, profile, stalls, awards>>

\* A note that names the status DELIVERED changes no order and has its trip looked at too.
Note(h, o) ==
  /\ task[h] = Idle
  /\ trip[TripOf[o]] # "PENDING"
  /\ order[o].onBoard
  /\ Hold(h, [op |-> "check", trip |-> TripOf[o]])
  /\ UNCHANGED <<trip, order, jobs, worker, logs, profile, stalls, awards>>

\* A cancelled order keeps its currentTripId.
Cancel(o) ==
  /\ trip[TripOf[o]] # "PENDING"
  /\ order[o].status = "OPEN"
  /\ order' = [order EXCEPT ![o].status = "CANCELLED"]
  /\ UNCHANGED <<trip, jobs, worker, logs, profile, task, stalls, awards, disturbed>>

\* checkAndCompleteTrip.
CheckRead(h) ==
  /\ Op(h, "check")
  /\ LET t == task[h].trip
     IN IF (\A o \in OnBoard(t) : Closed(o)) /\ trip[t] # "COMPLETED"
        THEN Hold(h, [op |-> "autoComplete", trip |-> t])
        ELSE Hold(h, Idle)
  /\ UNCHANGED <<trip, order, jobs, worker, logs, profile, stalls, awards>>

CheckWrite(h) ==
  /\ Op(h, "autoComplete")
  /\ trip' = [trip EXCEPT ![task[h].trip] = "COMPLETED"]
  /\ Hold(h, [task[h] EXCEPT !.op = "enqueue"])
  /\ UNCHANGED <<order, jobs, worker, logs, profile, stalls, awards>>

Enqueue(h) ==
  /\ Op(h, "enqueue")
  /\ jobs' = [jobs EXCEPT ![task[h].trip] = @ + 1]
  /\ Hold(h, Idle)
  /\ UNCHANGED <<trip, order, worker, logs, profile, stalls, awards>>
--------------------------------------------------------------------------------
(***************************************************************************)
(* The emission.                                                           *)
(***************************************************************************)

BaselineRate == 250
Km(t) == IF Distance[t] = 0 THEN 10 ELSE Distance[t]
\* co2Saved, in grams.
Saved(t) ==
  Max({0, Km(t) * BaselineRate - Km(t) * Rate[t]})

\* calculateTripEmission reads the trip and what is on board of it, then the last version.
JobBegin(w, t) ==
  /\ worker[w] = Idle
  /\ jobs[t] > 0
  /\ jobs' = [jobs EXCEPT ![t] = @ - 1]
  /\ worker' = [worker EXCEPT ![w] = [op |-> "versions", trip |-> t, charged |-> OnBoard(t)]]
  /\ UNCHANGED <<trip, order, logs, profile, task, stalls, awards, disturbed>>

LastVersion(t) ==  \* mutant
  Max({0} \cup {l.version : l \in logs[t]})
NextVersion(t) ==
  Max({0} \cup {l.version : l \in logs[t]}) + 1

JobVersions(w) ==
  /\ worker[w].op = "versions"
  /\ LET r == worker[w]
     IN worker' = [worker EXCEPT ![w] =
          [op |-> "save", trip |-> r.trip, charged |-> r.charged,
           version |-> NextVersion(r.trip)]]
  /\ UNCHANGED <<trip, order, jobs, logs, profile, task, stalls, awards, disturbed>>

\* The unique index on trip and version.
TakenByOther(t, version) ==  \* mutant
  \E l \in logs[t] : l.version = version /\ ~l.isLatest
Taken(t, version) ==
  \E l \in logs[t] : l.version = version

ObsoleteNone(rows) == rows  \* mutant
Obsolete(rows) ==
  {[l EXCEPT !.isLatest = FALSE] : l \in rows}

\* saveEmissionData: the transaction rolls back if the version is taken, and the job fails.
JobSave(w) ==
  /\ worker[w].op = "save"
  /\ LET r == worker[w]
     IN IF Taken(r.trip, r.version)
        THEN worker' = [worker EXCEPT ![w] = Idle] /\ UNCHANGED logs
        ELSE /\ logs' = [logs EXCEPT ![r.trip] = Obsolete(@) \cup
                          {[version |-> r.version, isLatest |-> TRUE, charged |-> r.charged]}]
             /\ worker' = [worker EXCEPT ![w] =
                          [op |-> "saved", trip |-> r.trip, charged |-> r.charged]]
  /\ UNCHANGED <<trip, order, jobs, profile, task, stalls, awards, disturbed>>

JobDone(w) ==
  /\ worker[w].op = "saved"
  /\ worker' = [worker EXCEPT ![w] = Idle]
  /\ UNCHANGED <<trip, order, jobs, logs, profile, task, stalls, awards, disturbed>>

\* A worker dies. Its job is found stalled and waits again.
Stall(w) ==
  /\ worker[w] # Idle
  /\ stalls < MaxStalls
  /\ stalls' = stalls + 1
  /\ jobs' = [jobs EXCEPT ![worker[w].trip] = @ + 1]
  /\ worker' = [worker EXCEPT ![w] = Idle]
  /\ UNCHANGED <<trip, order, logs, profile, task, awards, disturbed>>
--------------------------------------------------------------------------------
(***************************************************************************)
(* completeTripWithTracking and the points.                                *)
(***************************************************************************)

CompletableAgain(t) ==  \* mutant
  trip[t] # "PENDING"
Completable(t) ==
  trip[t] = "IN_PROGRESS"

CompleteBegin(h, t) ==
  /\ task[h] = Idle
  /\ Completable(t)
  /\ \A o \in Order : TripOf[o] = t => Closed(o)
  /\ Hold(h, [op |-> "complete", trip |-> t])
  /\ UNCHANGED <<trip, order, jobs, worker, logs, profile, stalls, awards>>

CompleteWrite(h) ==
  /\ Op(h, "complete")
  /\ trip' = [trip EXCEPT ![task[h].trip] = "COMPLETED"]
  /\ Hold(h, [task[h] EXCEPT !.op = "latest"])
  /\ UNCHANGED <<order, jobs, worker, logs, profile, stalls, awards>>

\* A point for 100 grams.
Points(t) == Saved(t) \div 100

\* processTripEmission: what the last log says was saved.
LatestLogs(t) == {l \in logs[t] : l.isLatest}

ReadLatest(h) ==
  /\ Op(h, "latest")
  /\ LET t == task[h].trip
     IN IF LatestLogs(t) # {} /\ Saved(t) > 0
        THEN Hold(h, [op |-> "find", trip |-> t]) ELSE Hold(h, Idle)
  /\ UNCHANGED <<trip, order, jobs, worker, logs, profile, stalls, awards>>

ProfileOf(h) == profile[DriverOf[task[h].trip]]

\* awardPoints.
FindProfile(h) ==
  /\ Op(h, "find")
  /\ Hold(h, [task[h] EXCEPT !.op = IF ProfileOf(h) = NoProfile THEN "create" ELSE "increment"])
  /\ UNCHANGED <<trip, order, jobs, worker, logs, profile, stalls, awards>>

\* Without a row the points are those of the trip, with one they are added.
WithPoints(row, t) ==
  IF row = NoProfile THEN [points |-> Points(t), rank |-> "SEED"]
  ELSE [row EXCEPT !.points = @ + Points(t)]

AwardWrite(h) ==
  /\ \/ Op(h, "increment")
     \/ Op(h, "create") /\ ProfileOf(h) = NoProfile
  /\ LET t == task[h].trip
         row == WithPoints(ProfileOf(h), t)
     IN /\ profile' = [profile EXCEPT ![DriverOf[t]] = row]
        /\ awards' = [awards EXCEPT ![t] = @ + 1]
        /\ Hold(h, [op |-> "rank", trip |-> t, points |-> row.points])
  /\ UNCHANGED <<trip, order, jobs, worker, logs, stalls>>

\* A row that another request made first breaks the unique userId. The error is caught:
\* the points are lost.
AwardLost(h) ==
  /\ Op(h, "create")
  /\ ProfileOf(h) # NoProfile
  /\ Hold(h, Idle)
  /\ UNCHANGED <<trip, order, jobs, worker, logs, profile, stalls, awards>>

\* The thresholds of updateRank.
RankOf(points) ==
  CASE points >= 10000 -> "EARTH_GUARDIAN"
    [] points >= 5000 /\ points < 10000 -> "FOREST"
    [] points >= 2000 /\ points < 5000 -> "TREE"
    [] points >= 500 /\ points < 2000 -> "LEAF"
    [] OTHER -> "SEED"

\* updateRank, from the points the row had after the award.
WriteRank(h) ==
  /\ Op(h, "rank")
  /\ profile' = [profile EXCEPT ![DriverOf[task[h].trip]].rank = RankOf(task[h].points)]
  /\ Hold(h, Idle)
  /\ UNCHANGED <<trip, order, jobs, worker, logs, stalls, awards>>

\* getProfile makes the row of who has none.
ProfileBegin(h, d) ==
  /\ task[h] = Idle
  /\ profile[d] = NoProfile
  /\ Hold(h, [op |-> "default", driver |-> d])
  /\ UNCHANGED <<trip, order, jobs, worker, logs, profile, stalls, awards>>

ProfileCreate(h) ==
  /\ Op(h, "default")
  /\ profile[task[h].driver] = NoProfile
  /\ profile' = [profile EXCEPT ![task[h].driver] = [points |-> 0, rank |-> "SEED"]]
  /\ Hold(h, Idle)
  /\ UNCHANGED <<trip, order, jobs, worker, logs, stalls, awards>>

--------------------------------------------------------------------------------
\* The process dies, or a call throws.
BreakOff(h) ==
  /\ task[h] # Idle
  /\ task' = [task EXCEPT ![h] = Idle]
  /\ disturbed' = disturbed \cup (Subject(task[h]) \cap Driver)
  /\ UNCHANGED <<trip, order, jobs, worker, logs, profile, stalls, awards>>

Next ==
  \/ \E t \in Trip : StartTrip(t)
  \/ \E o \in Order : Cancel(o)
  \/ \E h \in Handler :
       \/ \E o \in Order : Deliver(h, o) \/ Note(h, o)
       \/ CheckRead(h) \/ CheckWrite(h) \/ Enqueue(h)
       \/ \E t \in Trip : CompleteBegin(h, t)
       \/ CompleteWrite(h) \/ ReadLatest(h) \/ FindProfile(h)
       \/ AwardWrite(h) \/ AwardLost(h) \/ WriteRank(h)
       \/ \E d \in Driver : ProfileBegin(h, d)
       \/ ProfileCreate(h) \/ BreakOff(h)
  \/ \E w \in Worker :
       \/ \E t \in Trip : JobBegin(w, t)
       \/ JobVersions(w) \/ JobSave(w) \/ JobDone(w) \/ Stall(w)

Spec == Init /\ [][Next]_vars

--------------------------------------------------------------------------------
(***************************************************************************)
(* Properties.                                                             *)
(***************************************************************************)

\* However many jobs a trip gets, and however often one is run again: the versions of its
\* log have no gap, the last one is the latest and no other is. Only a trip that is over
\* has one, and what it charges it charges to orders that were cancelled: those delivered
\* have left the trip before its emission is computed.
LogsVersioned ==
  \A t \in Trip :
    /\ {l.version : l \in logs[t]} = 1..Cardinality(logs[t])
    /\ \A l \in logs[t] : /\ l.isLatest <=> l.version = Cardinality(logs[t])
                          /\ \A o \in l.charged : order[o].status = "CANCELLED"
    /\ logs[t] # {} => trip[t] = "COMPLETED"

\* The points of trips that were each awarded as often as given says.
PointsFor(given, trips) == MapThenSumSet(LAMBDA t : given[t] * Points(t), trips)

\* A profile holds the points of the trips that were awarded, and the rank they make unless
\* requests about it met or broke off. And a trip is awarded only if the driver's completion
\* met the automatic one: alone, it comes before there is a log.
PointsAccounted ==
  /\ \A t \in Trip : awards[t] > 0 => t \in disturbed
  /\ \A d \in Driver :
       /\ profile[d] # NoProfile =>
            profile[d].points = PointsFor(awards, {t \in Trip : DriverOf[t] = d})
       /\ \/ d \in disturbed
          \/ \E h \in Handler : Op(h, "rank") /\ d \in Subject(task[h])
          \/ profile[d].rank = RankOf(profile[d].points)
================================================================================

---------------------------- MODULE GreenTech_proofs ----------------------------
(***************************************************************************)
(* The safety of emission logs and points, for any trips, orders, workers  *)
(* and requests in flight.  Two inductive invariants build on the types:   *)
(* what the log of a trip rests on (LogInv), and who may award points and  *)
(* what a profile then holds (AwardInv).                                   *)
(***************************************************************************)
EXTENDS GreenTech, SetLemmas

\* Everything on board of a trip was cancelled.
Settled(t) == \A o \in OnBoard(t) : order[o].status = "CANCELLED"

\* The log L has a row for each of the versions 1 to n, and only the last is the latest.
Versioned(L, n) ==
  /\ \A l \in L : l.version \in 1..n /\ (l.isLatest <=> l.version = n)
  /\ \A i \in 1..n : \E l \in L : l.version = i
  /\ \A l, m \in L : l.version = m.version => l = m

\* A trip that a request is about to complete is settled, and so is one that is over;
\* jobs, workers and logs are those of trips that are over, and what they charge was
\* cancelled.
LogInv ==
  /\ \A o \in Order : order[o].status = "DELIVERED" => ~order[o].onBoard
  /\ \A t \in Trip : trip[t] = "COMPLETED" => Settled(t)
  /\ \A h \in Handler :
       /\ task[h].op \in {"autoComplete", "complete"} => Settled(task[h].trip)
       /\ task[h].op = "enqueue" => trip[task[h].trip] = "COMPLETED"
  /\ \A t \in Trip : jobs[t] > 0 \/ logs[t] # {} => trip[t] = "COMPLETED"
  /\ \A w \in Worker : worker[w].op # "idle" =>
       /\ trip[worker[w].trip] = "COMPLETED"
       /\ \A o \in worker[w].charged : order[o].status = "CANCELLED"
  /\ \A t \in Trip : \A l \in logs[t] : \A o \in l.charged : order[o].status = "CANCELLED"
  /\ \A t \in Trip : \E n \in Nat :
       /\ Versioned(logs[t], n)
       /\ \A w \in Worker : worker[w].op = "save" /\ worker[w].trip = t =>
            worker[w].version <= n + 1

\* No emission of trip t is computed, nor was one.
Uncharged(t) ==
  /\ jobs[t] = 0 /\ logs[t] = {}
  /\ \A w \in Worker : worker[w].op # "idle" => worker[w].trip # t

\* The points of the trips of d that were awarded.
Awarded(d) == PointsFor(awards, {t \in Trip : DriverOf[t] = d})

\* Whoever completes a trip alone finds no log; so who awards points met another. A
\* profile without a row was awarded nothing, and the rank that is to be written to one
\* that no two requests are about is the rank of its points.
AwardInv ==
  /\ \A g, h \in Handler : g # h =>
       Subject(task[g]) \cap Subject(task[h]) \subseteq disturbed
  /\ \A h \in Handler :
       /\ task[h].op = "complete" /\ task[h].trip \notin disturbed =>
            trip[task[h].trip] = "IN_PROGRESS"
       /\ task[h].op = "latest" /\ task[h].trip \notin disturbed => Uncharged(task[h].trip)
       /\ task[h].op \in {"find", "create", "increment", "rank"} => task[h].trip \in disturbed
       /\ task[h].op = "rank" =>
            /\ profile[DriverOf[task[h].trip]] # NoProfile
            /\ \/ DriverOf[task[h].trip] \in disturbed
               \/ task[h].points = profile[DriverOf[task[h].trip]].points
  /\ \A t \in Trip :
       /\ awards[t] > 0 => t \in disturbed
       /\ awards[t] > 0 => profile[DriverOf[t]] # NoProfile
  /\ \A d \in Driver :
       /\ profile[d] # NoProfile => profile[d].points = Awarded(d)
       /\ \/ d \in disturbed
          \/ \E h \in Handler : Op(h, "rank") /\ d \in Subject(task[h])
          \/ profile[d].rank = RankOf(profile[d].points)

--------------------------------------------------------------------------------
(***************************************************************************)
(* Types.                                                                  *)
(***************************************************************************)

\* What a request holds, and a worker, is determined by the step that is next.
LEMMA TaskShape ==
  ASSUME NEW r \in Task
  PROVE  /\ r.op \in {"check", "autoComplete", "enqueue", "complete", "latest", "find",
                      "create", "increment"} =>
              r \in [op : {"check", "autoComplete", "enqueue", "complete", "latest",
                           "find", "create", "increment"}, trip : Trip]
         /\ r.op = "rank" => r \in [op : {"rank"}, trip : Trip, points : Nat]
         /\ r.op = "default" => r \in [op : {"default"}, driver : Driver]
         /\ r.op \in {"idle", "check", "autoComplete", "enqueue", "complete", "latest",
                      "find", "create", "increment", "rank", "default"}
BY DEF Task, Idle

LEMMA JobShape ==
  ASSUME NEW r \in Job
  PROVE  /\ r.op \in {"idle", "versions", "save", "saved"}
         /\ r.op # "idle" => /\ r.trip \in Trip /\ r.charged \in SUBSET Order
                             /\ r # Idle
         /\ r.op = "save" => r.version \in Nat \ {0}
         /\ r.op = "idle" => r = Idle
BY DEF Job, Idle

\* Which trip and which driver a request is about.
LEMMA SubjectFacts ==
  ASSUME NEW r \in Task
  PROVE  /\ r.op \in {"check", "autoComplete", "enqueue", "complete", "latest"} =>
              Subject(r) = {r.trip}
         /\ r.op \in {"find", "create", "increment", "rank"} =>
              Subject(r) = {r.trip, DriverOf[r.trip]}
         /\ r.op = "default" => Subject(r) = {r.driver}
         /\ r = Idle => Subject(r) = {}
         /\ Subject(r) \subseteq Trip \cup Driver
<1>1. r.op = "idle" => r = Idle
  BY DEF Task, Idle
<1>2. r = Idle => Subject(r) = {}
  BY DEF Subject, Idle
<1>3. r.op \in {"check", "autoComplete", "enqueue", "complete", "latest"} =>
        Subject(r) = {r.trip} /\ r.trip \in Trip
  BY TaskShape DEF Subject
<1>4. r.op \in {"find", "create", "increment", "rank"} =>
        Subject(r) = {r.trip, DriverOf[r.trip]} /\ r.trip \in Trip
  BY TaskShape DEF Subject
<1>5. r.op = "default" => Subject(r) = {r.driver} /\ r.driver \in Driver
  BY TaskShape DEF Subject
<1> QED
  BY <1>1, <1>2, <1>3, <1>4, <1>5, TaskShape, DriverOfAssumption

\* A request that goes on is marked where it meets another.
LEMMA HoldFacts ==
  ASSUME TypeOK, NEW h \in Handler, NEW r \in Task, Hold(h, r)
  PROVE  /\ task' \in [Handler -> Task] /\ task'[h] = r
         /\ \A g \in Handler : g # h => task'[g] = task[g]
         /\ disturbed \subseteq disturbed' /\ disturbed' \subseteq Trip \cup Driver
         /\ \A g \in Handler : g # h => Subject(r) \cap Subject(task[g]) \subseteq disturbed'
BY SubjectFacts DEF Hold, TypeOK

\* The points of a trip and the versions of a log are numbers.
LEMMA PointsType ==
  ASSUME NEW t \in Trip
  PROVE  Points(t) \in Nat
<1>1. Distance[t] \in Nat /\ Rate[t] \in Nat
  BY AmountsAssumption
<1>2. Km(t) \in Nat
  BY <1>1 DEF Km
<1>3. Km(t) * BaselineRate - Km(t) * Rate[t] \in Int
  BY <1>1, <1>2 DEF BaselineRate
<1>4. PICK x \in Int : x = Km(t) * BaselineRate - Km(t) * Rate[t]
  BY <1>3
<1>5. IsFiniteSet({0, x}) /\ {0, x} \in SUBSET Int /\ {0, x} # {}
  <2>1. IsFiniteSet({0} \cup {x})
    BY FS_EmptySet, FS_AddElement, FS_Singleton
  <2>2. {0, x} = {0} \cup {x}
    OBVIOUS
  <2> QED
    BY <2>1, <2>2
<1>6. Max({0, x}) \in {0, x} /\ Max({0, x}) >= 0
  BY <1>5, MaxFacts
<1>7. Saved(t) \in Nat
  BY <1>4, <1>6 DEF Saved
<1> QED
  BY <1>7 DEF Points

LEMMA TypeInit == Init => TypeOK
BY MaxStallsAssumption DEF Init, TypeOK, Task, Job, NoProfile

\* The next version of a log with the versions 1 to n.
LEMMA NextVersionIs ==
  ASSUME NEW t \in Trip, NEW n \in Nat, Versioned(logs[t], n)
  PROVE  NextVersion(t) = n + 1
<1>1. {0} \cup {l.version : l \in logs[t]} = 0..n
  BY DEF Versioned
<1>2. IsFiniteSet(0..n) /\ 0..n \in SUBSET Int /\ 0..n # {}
  <2>1. 0 \in 0..n /\ 0..n \in SUBSET Int /\ 0 \in Int /\ n \in Int
    OBVIOUS
  <2>2. IsFiniteSet(0..n)
    BY <2>1, FS_Interval
  <2> QED
    BY <2>1, <2>2
<1>3. PICK m : m = Max(0..n)
  OBVIOUS
<1>4. m \in 0..n /\ \A y \in 0..n : m >= y
  BY <1>2, <1>3, MaxFacts
<1>5. m = n
  BY <1>4
<1> QED
  BY <1>1, <1>3, <1>5 DEF NextVersion

\* The steps of requests about a trip.
LEMMA TripType ==
  ASSUME TypeOK, NEW h \in Handler,
         \/ \E t \in Trip : CompleteBegin(h, t)
         \/ \E o \in Order : Deliver(h, o) \/ Note(h, o)
         \/ CheckRead(h) \/ CheckWrite(h) \/ Enqueue(h) \/ CompleteWrite(h) \/ ReadLatest(h)
  PROVE  TypeOK'
<1>0. /\ task[h] \in Task /\ Idle \in Task
      /\ trip \in [Trip -> {"PENDING", "IN_PROGRESS", "COMPLETED"}]
      /\ jobs \in [Trip -> Nat]
  BY DEF TypeOK, Task
<1>1. ASSUME NEW r \in Task, Hold(h, r), UNCHANGED <<worker, logs, profile, stalls, awards>>,
             trip' \in [Trip -> {"PENDING", "IN_PROGRESS", "COMPLETED"}],
             order' \in [Order -> [status : {"OPEN", "DELIVERED", "CANCELLED"},
                                   onBoard : BOOLEAN]],
             jobs' \in [Trip -> Nat]
      PROVE  TypeOK'
  BY <1>1, HoldFacts DEF TypeOK
<1>2. \A t \in Trip, op \in {"check", "autoComplete", "enqueue", "complete", "latest",
                              "find"} : [op |-> op, trip |-> t] \in Task
  BY DEF Task
<1>3. ASSUME NEW t \in Trip, CompleteBegin(h, t)
      PROVE  TypeOK'
  BY <1>1, <1>2, <1>3 DEF CompleteBegin, TypeOK
<1>4. ASSUME NEW o \in Order, Deliver(h, o) \/ Note(h, o)
      PROVE  TypeOK'
  <2>1. TripOf[o] \in Trip
    BY TripOfAssumption
  <2>2. order' \in [Order -> [status : {"OPEN", "DELIVERED", "CANCELLED"},
                              onBoard : BOOLEAN]]
    <3>1. order \in [Order -> [status : {"OPEN", "DELIVERED", "CANCELLED"},
                               onBoard : BOOLEAN]]
      BY DEF TypeOK
    <3>2. \/ order' = [order EXCEPT ![o] = [status |-> "DELIVERED", onBoard |-> FALSE]]
          \/ order' = order
      BY <1>4 DEF Deliver, Note, Delivered
    <3>3. PICK row \in [status : {"OPEN", "DELIVERED", "CANCELLED"}, onBoard : BOOLEAN] :
            row = [status |-> "DELIVERED", onBoard |-> FALSE]
      OBVIOUS
    <3> QED
      BY <3>1, <3>2, <3>3
  <2> QED
    BY <1>1, <1>2, <1>4, <2>1, <2>2 DEF Deliver, Note, TypeOK
<1>5. CASE CheckRead(h)
  <2>1. task[h].trip \in Trip
    BY <1>0, <1>5, TaskShape DEF CheckRead, Op
  <2>2. \E r \in Task : Hold(h, r)
    BY <1>0, <1>2, <1>5, <2>1 DEF CheckRead
  <2> QED
    BY <1>1, <1>5, <2>2 DEF CheckRead, TypeOK
<1>6. CASE CheckWrite(h) \/ CompleteWrite(h)
  <2>1. /\ task[h].trip \in Trip
        /\ [task[h] EXCEPT !.op = "enqueue"] \in Task
        /\ [task[h] EXCEPT !.op = "latest"] \in Task
    <3>1. task[h] \in [op : {"autoComplete", "complete"}, trip : Trip]
      BY <1>0, <1>6, TaskShape DEF CheckWrite, CompleteWrite, Op
    <3> QED
      BY <3>1 DEF Task
  <2>2. trip' \in [Trip -> {"PENDING", "IN_PROGRESS", "COMPLETED"}]
    BY <1>0, <1>6, <2>1 DEF CheckWrite, CompleteWrite
  <2> QED
    BY <1>1, <1>6, <2>1, <2>2 DEF CheckWrite, CompleteWrite, TypeOK
<1>7. CASE Enqueue(h)
  <2>1. task[h].trip \in Trip
    BY <1>0, <1>7, TaskShape DEF Enqueue, Op
  <2>2. jobs' \in [Trip -> Nat]
    BY <1>0, <1>7, <2>1 DEF Enqueue
  <2> QED
    BY <1>0, <1>1, <1>7, <2>2 DEF Enqueue, TypeOK
<1>8. CASE ReadLatest(h)
  <2>1. task[h].trip \in Trip
    BY <1>0, <1>8, TaskShape DEF ReadLatest, Op
  <2>2. \E r \in Task : Hold(h, r)
    BY <1>0, <1>2, <1>8, <2>1 DEF ReadLatest
  <2> QED
    BY <1>1, <1>8, <2>2 DEF ReadLatest, TypeOK
<1> QED
  BY <1>3, <1>4, <1>5, <1>6, <1>7, <1>8

\* The steps of requests about a profile, and of a request that breaks off.
LEMMA ProfileType ==
  ASSUME TypeOK, AwardInv, NEW h \in Handler,
         \/ \E d \in Driver : ProfileBegin(h, d)
         \/ FindProfile(h) \/ AwardWrite(h) \/ AwardLost(h) \/ WriteRank(h)
         \/ ProfileCreate(h) \/ BreakOff(h)
  PROVE  TypeOK'
<1>0. /\ task[h] \in Task /\ Idle \in Task
      /\ profile \in [Driver -> {NoProfile} \cup [points : Nat, rank : Rank]]
      /\ awards \in [Trip -> Nat]
  BY DEF TypeOK, Task
<1>1. ASSUME NEW r \in Task, Hold(h, r), UNCHANGED <<trip, order, jobs, worker, logs, stalls>>,
             profile' \in [Driver -> {NoProfile} \cup [points : Nat, rank : Rank]],
             awards' \in [Trip -> Nat]
      PROVE  TypeOK'
  BY <1>1, HoldFacts DEF TypeOK
<1>2. ASSUME NEW d \in Driver, ProfileBegin(h, d)
      PROVE  TypeOK'
  <2>1. [op |-> "default", driver |-> d] \in Task
    BY DEF Task
  <2> QED
    BY <1>1, <1>2, <2>1 DEF ProfileBegin, TypeOK
<1>3. CASE FindProfile(h)
  <2>1. \A op \in {"create", "increment"} : [task[h] EXCEPT !.op = op] \in Task
    <3>1. task[h] \in [op : {"find"}, trip : Trip]
      BY <1>0, <1>3, TaskShape DEF FindProfile, Op
    <3> QED
      BY <3>1 DEF Task
  <2> QED
    BY <1>1, <1>3, <2>1 DEF FindProfile, TypeOK
<1>4. CASE AwardWrite(h)
  <2>1. PICK t \in Trip : t = task[h].trip
    BY <1>0, <1>4, TaskShape DEF AwardWrite, Op
  <2>2. DriverOf[t] \in Driver /\ Points(t) \in Nat
    BY DriverOfAssumption, PointsType
  <2>3. WithPoints(ProfileOf(h), t) \in [points : Nat, rank : Rank]
    <3>1. PICK old \in {NoProfile} \cup [points : Nat, rank : Rank] : old = ProfileOf(h)
      BY <1>0, <2>1, <2>2 DEF ProfileOf
    <3>2. [points |-> Points(t), rank |-> "SEED"] \in [points : Nat, rank : Rank]
      BY <2>2 DEF Rank
    <3>3. old # NoProfile =>
            [old EXCEPT !.points = @ + Points(t)] \in [points : Nat, rank : Rank]
      BY <2>2
    <3> QED
      BY <3>1, <3>2, <3>3 DEF WithPoints
  <2>7. PICK row \in [points : Nat, rank : Rank] : row = WithPoints(ProfileOf(h), t)
    BY <2>3
  <2>4. [op |-> "rank", trip |-> t, points |-> row.points] \in Task
    BY DEF Task
  <2>5. /\ profile' = [profile EXCEPT ![DriverOf[t]] = row]
        /\ awards' = [awards EXCEPT ![t] = @ + 1]
        /\ Hold(h, [op |-> "rank", trip |-> t, points |-> row.points])
    BY <1>4, <2>1, <2>7 DEF AwardWrite
  <2>6. /\ profile' \in [Driver -> {NoProfile} \cup [points : Nat, rank : Rank]]
        /\ awards' \in [Trip -> Nat]
    BY <1>0, <2>2, <2>5
  <2> QED
    BY <1>1, <1>4, <2>4, <2>5, <2>6 DEF AwardWrite
<1>5. CASE AwardLost(h)
  BY <1>0, <1>1, <1>5 DEF AwardLost, TypeOK
<1>6. CASE WriteRank(h)
  <2>1. PICK d \in Driver : d = DriverOf[task[h].trip]
    BY <1>0, <1>6, TaskShape, DriverOfAssumption DEF WriteRank, Op
  <2>2. RankOf(task[h].points) \in Rank
    BY DEF RankOf, Rank
  <2>3. profile' = [profile EXCEPT ![d] = [profile[d] EXCEPT !.rank = RankOf(task[h].points)]]
    BY <1>0, <1>6, <2>1 DEF WriteRank
  <2>4. profile[d] \in [points : Nat, rank : Rank]
    BY <1>0, <1>6, <2>1 DEF WriteRank, Op, AwardInv
  <2>5. PICK row \in [points : Nat, rank : Rank] :
          row = [profile[d] EXCEPT !.rank = RankOf(task[h].points)]
    BY <2>2, <2>4
  <2>6. profile' \in [Driver -> {NoProfile} \cup [points : Nat, rank : Rank]]
    BY <1>0, <2>1, <2>3, <2>5
  <2> QED
    BY <1>0, <1>1, <1>6, <2>6 DEF WriteRank, TypeOK
<1>7. CASE ProfileCreate(h)
  <2>1. task[h].driver \in Driver
    BY <1>0, <1>7, TaskShape DEF ProfileCreate, Op
  <2>2. profile' \in [Driver -> {NoProfile} \cup [points : Nat, rank : Rank]]
    BY <1>0, <1>7, <2>1 DEF ProfileCreate, Rank
  <2> QED
    BY <1>0, <1>1, <1>7, <2>2 DEF ProfileCreate, TypeOK
<1>8. CASE BreakOff(h)
  BY <1>0, <1>8 DEF BreakOff, TypeOK
<1> QED
  BY <1>2, <1>3, <1>4, <1>5, <1>6, <1>7, <1>8

\* The steps of a worker.
LEMMA WorkerType ==
  ASSUME TypeOK, LogInv, NEW w \in Worker,
         \/ \E t \in Trip : JobBegin(w, t)
         \/ JobVersions(w) \/ JobSave(w) \/ JobDone(w) \/ Stall(w)
  PROVE  TypeOK'
<1>0. /\ worker[w] \in Job /\ Idle \in Job /\ worker \in [Worker -> Job]
      /\ jobs \in [Trip -> Nat] /\ logs \in [Trip -> SUBSET LogRow]
      /\ stalls \in 0..MaxStalls
  BY DEF TypeOK, Job
<1>1. ASSUME NEW t \in Trip, JobBegin(w, t)
      PROVE  TypeOK'
  <2>1. OnBoard(t) \in SUBSET Order
    BY DEF OnBoard
  <2>2. [op |-> "versions", trip |-> t, charged |-> OnBoard(t)] \in Job
    BY <2>1 DEF Job
  <2>3. jobs' \in [Trip -> Nat]
    BY <1>0, <1>1 DEF JobBegin
  <2>4. worker' \in [Worker -> Job]
    BY <1>0, <1>1, <2>2 DEF JobBegin
  <2> QED
    BY <1>1, <2>3, <2>4 DEF JobBegin, TypeOK
<1>2. CASE JobVersions(w)
  <2>1. PICK t \in Trip, charged \in SUBSET Order :
          t = worker[w].trip /\ charged = worker[w].charged
    BY <1>0, <1>2, JobShape DEF JobVersions
  <2>2. NextVersion(t) \in Nat \ {0}
    BY NextVersionIs DEF LogInv
  <2>3. [op |-> "save", trip |-> t, charged |-> charged, version |-> NextVersion(t)] \in Job
    BY <2>2 DEF Job
  <2>4. worker' \in [Worker -> Job]
    BY <1>0, <1>2, <2>1, <2>3 DEF JobVersions
  <2> QED
    BY <1>2, <2>4 DEF JobVersions, TypeOK
<1>3. CASE JobSave(w)
  <2>1. PICK t \in Trip, charged \in SUBSET Order, version \in Nat \ {0} :
          t = worker[w].trip /\ charged = worker[w].charged /\ version = worker[w].version
    BY <1>0, <1>3, JobShape DEF JobSave
  <2>2. [op |-> "saved", trip |-> t, charged |-> charged] \in Job
    BY DEF Job
  <2>3. worker' \in [Worker -> Job]
    BY <1>0, <1>3, <2>1, <2>2 DEF JobSave
  <2>4. PICK row \in LogRow :
          row = [version |-> version, isLatest |-> TRUE, charged |-> charged]
    BY DEF LogRow
  <2>5. Obsolete(logs[t]) \subseteq LogRow
    <3>1. \A l \in LogRow : [l EXCEPT !.isLatest = FALSE] \in LogRow
      BY DEF LogRow
    <3> QED
      BY <1>0, <3>1 DEF Obsolete
  <2>6. \/ logs' = logs
        \/ logs' = [logs EXCEPT ![t] = Obsolete(logs[t]) \cup {row}]
    BY <1>0, <1>3, <2>1, <2>4 DEF JobSave
  <2>7. logs' \in [Trip -> SUBSET LogRow]
    BY <1>0, <2>5, <2>6
  <2> QED
    BY <1>3, <2>3, <2>7 DEF JobSave, TypeOK
<1>4. CASE JobDone(w)
  BY <1>0, <1>4 DEF JobDone, TypeOK
<1>5. CASE Stall(w)
  <2>1. worker[w].trip \in Trip
    BY <1>0, <1>5, JobShape DEF Stall
  <2>2. jobs' \in [Trip -> Nat] /\ worker' \in [Worker -> Job]
    BY <1>0, <1>5, <2>1 DEF Stall
  <2>3. stalls' \in 0..MaxStalls
    BY <1>0, <1>5, MaxStallsAssumption DEF Stall
  <2> QED
    BY <1>5, <2>2, <2>3 DEF Stall, TypeOK
<1> QED
  BY <1>1, <1>2, <1>3, <1>4, <1>5

\* The steps outside of requests and workers.
LEMMA OutsideType ==
  ASSUME TypeOK, \/ \E t \in Trip : StartTrip(t)
                 \/ \E o \in Order : Cancel(o)
  PROVE  TypeOK'
<1>1. ASSUME NEW t \in Trip, StartTrip(t)
      PROVE  TypeOK'
  <2>1. trip' \in [Trip -> {"PENDING", "IN_PROGRESS", "COMPLETED"}]
    BY <1>1 DEF StartTrip, TypeOK
  <2> QED
    BY <1>1, <2>1 DEF StartTrip, TypeOK
<1>2. ASSUME NEW o \in Order, Cancel(o)
      PROVE  TypeOK'
  <2>1. order' \in [Order -> [status : {"OPEN", "DELIVERED", "CANCELLED"},
                              onBoard : BOOLEAN]]
    BY <1>2 DEF Cancel, TypeOK
  <2> QED
    BY <1>2, <2>1 DEF Cancel, TypeOK
<1> QED
  BY <1>1, <1>2

LEMMA TypeStep ==
  ASSUME TypeOK, LogInv, AwardInv, [Next]_vars
  PROVE  TypeOK'
<1>1. CASE UNCHANGED vars
  BY <1>1 DEF TypeOK, vars
<1>2. CASE Next
  BY <1>2, TripType, ProfileType, WorkerType, OutsideType DEF Next
<1> QED
  BY <1>1, <1>2

--------------------------------------------------------------------------------
(***************************************************************************)
(* What a step changes.                                                    *)
(***************************************************************************)

HandlerStep(h) ==
  \/ \E o \in Order : Deliver(h, o) \/ Note(h, o)
  \/ \E t \in Trip : CompleteBegin(h, t)
  \/ \E d \in Driver : ProfileBegin(h, d)
  \/ CheckRead(h) \/ CheckWrite(h) \/ Enqueue(h) \/ CompleteWrite(h) \/ ReadLatest(h)
  \/ FindProfile(h) \/ AwardWrite(h) \/ AwardLost(h) \/ WriteRank(h)
  \/ ProfileCreate(h) \/ BreakOff(h)

WorkerStep(w) ==
  \/ \E t \in Trip : JobBegin(w, t)
  \/ JobVersions(w) \/ JobSave(w) \/ JobDone(w) \/ Stall(w)

LEMMA NextSteps ==
  ASSUME [Next]_vars
  PROVE  \/ UNCHANGED vars
         \/ \E t \in Trip : StartTrip(t)
         \/ \E o \in Order : Cancel(o)
         \/ \E h \in Handler : HandlerStep(h)
         \/ \E w \in Worker : WorkerStep(w)
BY DEF Next, HandlerStep, WorkerStep

\* The step of a request leaves workers and logs alone.
LEMMA HandlerFrame ==
  ASSUME NEW h, HandlerStep(h)
  PROVE  /\ UNCHANGED <<worker, logs>>
         /\ UNCHANGED jobs \/ Enqueue(h)
         /\ UNCHANGED trip \/ CheckWrite(h) \/ CompleteWrite(h)
         /\ UNCHANGED order \/ \E o \in Order : Deliver(h, o)
         /\ UNCHANGED awards \/ AwardWrite(h)
         /\ UNCHANGED profile \/ AwardWrite(h) \/ WriteRank(h) \/ ProfileCreate(h)
BY DEF HandlerStep, Deliver, Note, CompleteBegin, ProfileBegin, CheckRead, CheckWrite,
       Enqueue, CompleteWrite, ReadLatest, FindProfile, AwardWrite, AwardLost, WriteRank,
       ProfileCreate, BreakOff

\* The step of a worker leaves all but workers, jobs and logs alone.
LEMMA WorkerFrame ==
  ASSUME NEW w, WorkerStep(w)
  PROVE  /\ UNCHANGED <<trip, order, profile, task, awards, disturbed>>
         /\ UNCHANGED logs \/ JobSave(w)
         /\ UNCHANGED jobs \/ Stall(w) \/ \E t \in Trip : JobBegin(w, t)
BY DEF WorkerStep, JobBegin, JobVersions, JobSave, JobDone, Stall

\* Another request is not touched by the step of one, and a mark stays.
LEMMA OthersStay ==
  ASSUME TypeOK, NEW h \in Handler, HandlerStep(h)
  PROVE  /\ \A g \in Handler : g # h => task'[g] = task[g]
         /\ disturbed \subseteq disturbed'
<1>1. task \in [Handler -> Task]
  BY DEF TypeOK
<1>2. ASSUME NEW r, Hold(h, r)
      PROVE  /\ \A g \in Handler : g # h => task'[g] = task[g]
             /\ disturbed \subseteq disturbed'
  BY <1>1, <1>2 DEF Hold
<1>3. CASE BreakOff(h)
  BY <1>1, <1>3 DEF BreakOff
<1>4. (\E r : Hold(h, r)) \/ BreakOff(h)
  BY DEF HandlerStep, Deliver, Note, CompleteBegin, ProfileBegin, CheckRead, CheckWrite,
         Enqueue, CompleteWrite, ReadLatest, FindProfile, AwardWrite, AwardLost, WriteRank,
         ProfileCreate
<1> QED
  BY <1>2, <1>3, <1>4

\* What is cancelled or over stays so, and nothing comes on board.
LEMMA Lasting ==
  ASSUME TypeOK, [Next]_vars
  PROVE  /\ \A o \in Order :
              /\ order[o].status = "CANCELLED" => order'[o].status = "CANCELLED"
              /\ order'[o].onBoard => order[o].onBoard
              /\ order'[o].status = "DELIVERED" =>
                   order[o].status = "DELIVERED" \/ ~order'[o].onBoard
         /\ \A t \in Trip : trip[t] = "COMPLETED" => trip'[t] = "COMPLETED"
<1>0. /\ order \in [Order -> [status : {"OPEN", "DELIVERED", "CANCELLED"},
                              onBoard : BOOLEAN]]
      /\ trip \in [Trip -> {"PENDING", "IN_PROGRESS", "COMPLETED"}]
      /\ task \in [Handler -> Task]
  BY DEF TypeOK
<1>1. ASSUME NEW t \in Trip, StartTrip(t)
      PROVE  UNCHANGED order /\ \A u \in Trip : trip[u] = "COMPLETED" => trip'[u] = "COMPLETED"
  BY <1>0, <1>1 DEF StartTrip
<1>2. ASSUME NEW o \in Order, Cancel(o)
      PROVE  /\ UNCHANGED trip
             /\ \A q \in Order : q # o => order'[q] = order[q]
             /\ order[o].status = "OPEN" /\ order'[o].status = "CANCELLED"
             /\ order'[o].onBoard = order[o].onBoard
  BY <1>0, <1>2 DEF Cancel
<1>3. ASSUME NEW h \in Handler, NEW o \in Order, Deliver(h, o)
      PROVE  /\ UNCHANGED trip
             /\ \A q \in Order : q # o => order'[q] = order[q]
             /\ order[o].status = "OPEN" /\ order'[o].status = "DELIVERED"
             /\ ~order'[o].onBoard
  BY <1>0, <1>3 DEF Deliver, Delivered
<1>4. ASSUME NEW h \in Handler, CheckWrite(h) \/ CompleteWrite(h)
      PROVE  UNCHANGED order /\ \A u \in Trip : trip[u] = "COMPLETED" => trip'[u] = "COMPLETED"
  BY <1>0, <1>4 DEF CheckWrite, CompleteWrite
<1>5. CASE UNCHANGED <<order, trip>>
  BY <1>5
<1>6. UNCHANGED vars => UNCHANGED <<order, trip>>
  BY DEF vars
<1> QED
  BY <1>1, <1>2, <1>3, <1>4, <1>5, <1>6, NextSteps, HandlerFrame, WorkerFrame

LEMMA SettledLast ==
  ASSUME TypeOK, [Next]_vars, NEW t \in Trip, Settled(t)
  PROVE  Settled(t)'
BY Lasting DEF Settled, OnBoard

--------------------------------------------------------------------------------
(***************************************************************************)
(* The log of a trip.                                                      *)
(***************************************************************************)

\* With nothing to deliver a trip is settled: what is delivered has left it.
LEMMA ClosedSettled ==
  ASSUME LogInv, NEW t \in Trip, \A o \in OnBoard(t) : Closed(o)
  PROVE  Settled(t)
BY DEF LogInv, Closed, Settled, OnBoard

\* A trip is over only when a request completes it that found it settled.
LEMMA TripsStep ==
  ASSUME TypeOK, LogInv, [Next]_vars, NEW t \in Trip, trip'[t] = "COMPLETED"
  PROVE  Settled(t)'
<1>0. trip \in [Trip -> {"PENDING", "IN_PROGRESS", "COMPLETED"}]
  BY DEF TypeOK
<1>1. CASE trip[t] = "COMPLETED"
  BY <1>1, SettledLast DEF LogInv
<1>2. ASSUME NEW h \in Handler, CheckWrite(h) \/ CompleteWrite(h), trip[t] # "COMPLETED"
      PROVE  Settled(t)'
  <2>1. t = task[h].trip /\ task[h].op \in {"autoComplete", "complete"}
    BY <1>0, <1>2 DEF CheckWrite, CompleteWrite, Op
  <2> QED
    BY <2>1, SettledLast DEF LogInv
<1>3. \A u \in Trip : ~(StartTrip(u) /\ trip[t] # "COMPLETED")
  BY <1>0 DEF StartTrip
<1>4. CASE UNCHANGED trip
  BY <1>1, <1>4
<1>5. /\ UNCHANGED vars => UNCHANGED trip
      /\ \A o \in Order : Cancel(o) => UNCHANGED trip
  BY DEF vars, Cancel
<1> QED
  BY <1>1, <1>2, <1>3, <1>4, <1>5, NextSteps, HandlerFrame, WorkerFrame

\* Who is to complete a trip found it settled, who is to queue its job completed it.
LEMMA TasksStep ==
  ASSUME TypeOK, LogInv, [Next]_vars, NEW h \in Handler
  PROVE  /\ task'[h].op \in {"autoComplete", "complete"} => Settled(task[h].trip)'
         /\ task'[h].op = "enqueue" => trip'[task'[h].trip] = "COMPLETED"
<1>0. /\ task \in [Handler -> Task] /\ task[h] \in Task
      /\ trip \in [Trip -> {"PENDING", "IN_PROGRESS", "COMPLETED"}]
      /\ order \in [Order -> [status : {"OPEN", "DELIVERED", "CANCELLED"},
                              onBoard : BOOLEAN]]
  BY DEF TypeOK
<1>1. CASE task'[h] = task[h]
  <2>1. CASE task[h].op \in {"autoComplete", "complete"}
    <3>1. PICK t \in Trip : t = task[h].trip /\ t = task'[h].trip
      BY <1>0, <1>1, <2>1, TaskShape
    <3>2. Settled(t)'
      BY <2>1, <3>1, SettledLast DEF LogInv
    <3>3. Settled(task[h].trip)'
      BY <3>1, <3>2 DEF Settled, OnBoard
    <3> QED
      BY <1>1, <2>1, <3>3
  <2>2. CASE task[h].op = "enqueue"
    <3>1. task[h].trip \in Trip
      BY <1>0, <2>2, TaskShape
    <3> QED
      BY <1>1, <2>2, <3>1, Lasting DEF LogInv
  <2> QED
    BY <1>1, <2>1, <2>2
<1>2. CASE HandlerStep(h)
  <2>1. ASSUME NEW t \in Trip, CompleteBegin(h, t)
        PROVE  task'[h].op = "complete" /\ task'[h].trip = t /\ Settled(t)'
    <3>1. Settled(t)
      BY <2>1, ClosedSettled DEF CompleteBegin, OnBoard
    <3> QED
      BY <1>0, <2>1, <3>1, SettledLast DEF CompleteBegin, Hold
  <2>2. ASSUME CheckRead(h)
        PROVE  \/ task'[h].op = "idle"
               \/ \E t \in Trip : /\ task'[h].op = "autoComplete" /\ task'[h].trip = t
                                  /\ Settled(t)'
    <3>1. PICK t \in Trip : t = task[h].trip
      BY <1>0, <2>2, TaskShape DEF CheckRead, Op
    <3>2. CASE \A o \in OnBoard(t) : Closed(o)
      BY <1>0, <2>2, <3>1, <3>2, ClosedSettled, SettledLast DEF CheckRead, Hold, Idle
    <3>3. CASE ~ \A o \in OnBoard(t) : Closed(o)
      BY <1>0, <2>2, <3>1, <3>3 DEF CheckRead, Hold, Idle
    <3> QED
      BY <3>2, <3>3
  <2>3. ASSUME CheckWrite(h)
        PROVE  task'[h].op = "enqueue" /\ trip'[task'[h].trip] = "COMPLETED"
    <3>1. task[h] \in [op : {"autoComplete"}, trip : Trip]
      BY <1>0, <2>3, TaskShape DEF CheckWrite, Op
    <3> QED
      BY <1>0, <2>3, <3>1 DEF CheckWrite, Hold
  <2>4. ASSUME CompleteWrite(h)
        PROVE  task'[h].op = "latest"
    <3>1. task[h] \in [op : {"complete"}, trip : Trip]
      BY <1>0, <2>4, TaskShape DEF CompleteWrite, Op
    <3> QED
      BY <1>0, <2>4, <3>1 DEF CompleteWrite, Hold
  <2>5. ASSUME \/ \E o \in Order : Deliver(h, o) \/ Note(h, o)
               \/ \E d \in Driver : ProfileBegin(h, d)
               \/ Enqueue(h) \/ ReadLatest(h) \/ AwardWrite(h) \/ AwardLost(h)
               \/ WriteRank(h) \/ ProfileCreate(h) \/ BreakOff(h)
        PROVE  task'[h].op \notin {"autoComplete", "complete", "enqueue"}
    <3>1. \E r : /\ r.op \in {"idle", "check", "default", "find", "rank"}
                 /\ Hold(h, r) \/ (r = Idle /\ BreakOff(h))
      <4>1. CASE \E o \in Order : Deliver(h, o) \/ Note(h, o)
        BY <4>1 DEF Deliver, Note
      <4>2. CASE \E d \in Driver : ProfileBegin(h, d)
        BY <4>2 DEF ProfileBegin
      <4>3. CASE Enqueue(h) \/ AwardLost(h) \/ WriteRank(h) \/ ProfileCreate(h) \/ BreakOff(h)
        BY <4>3 DEF Enqueue, AwardLost, WriteRank, ProfileCreate, Idle
      <4>4. CASE ReadLatest(h)
        <5>1. Hold(h, [op |-> "find", trip |-> task[h].trip]) \/ Hold(h, Idle)
          BY <4>4 DEF ReadLatest
        <5> QED
          BY <5>1 DEF Idle
      <4>5. CASE AwardWrite(h)
        BY <4>5 DEF AwardWrite
      <4> QED
        BY <2>5, <4>1, <4>2, <4>3, <4>4, <4>5
    <3>2. PICK r : /\ r.op \in {"idle", "check", "default", "find", "rank"}
                   /\ Hold(h, r) \/ (r = Idle /\ BreakOff(h))
      BY <3>1
    <3>3. task'[h] = r
      BY <1>0, <3>2 DEF Hold, BreakOff
    <3> QED
      BY <3>2, <3>3
  <2>6. ASSUME FindProfile(h)
        PROVE  task'[h].op \notin {"autoComplete", "complete", "enqueue"}
    <3>1. task[h] \in [op : {"find"}, trip : Trip]
      BY <1>0, <2>6, TaskShape DEF FindProfile, Op
    <3> QED
      BY <1>0, <2>6, <3>1 DEF FindProfile, Hold
  <2>7. ASSUME NEW t, task'[h].trip = t, Settled(t)'
        PROVE  Settled(task[h].trip)'
    BY <2>7 DEF Settled, OnBoard
  <2> QED
    BY <1>2, <2>1, <2>2, <2>3, <2>4, <2>5, <2>6, <2>7 DEF HandlerStep
<1>3. task'[h] = task[h] \/ HandlerStep(h)
  BY NextSteps, OthersStay, WorkerFrame DEF vars, StartTrip, Cancel
<1> QED
  BY <1>1, <1>2, <1>3

\* Jobs and logs are those of trips that are over.
LEMMA JobsStep ==
  ASSUME TypeOK, LogInv, [Next]_vars, NEW t \in Trip, jobs'[t] > 0 \/ logs'[t] # {}
  PROVE  trip'[t] = "COMPLETED"
<1>0. /\ jobs \in [Trip -> Nat] /\ logs \in [Trip -> SUBSET LogRow]
      /\ \A h \in Handler : task[h] \in Task
      /\ \A w \in Worker : worker[w] \in Job
  BY DEF TypeOK
<1>1. trip[t] = "COMPLETED" => trip'[t] = "COMPLETED"
  BY Lasting
<1>2. ASSUME NEW h \in Handler, Enqueue(h)
      PROVE  task[h].trip = t \/ jobs'[t] = jobs[t]
  BY <1>0, <1>2 DEF Enqueue
<1>3. ASSUME NEW w \in Worker, Stall(w)
      PROVE  worker[w].trip = t \/ jobs'[t] = jobs[t]
  BY <1>0, <1>3 DEF Stall
<1>4. ASSUME NEW w \in Worker, NEW u \in Trip, JobBegin(w, u)
      PROVE  jobs[t] > 0 \/ jobs'[t] = jobs[t]
  BY <1>0, <1>4 DEF JobBegin
<1>5. ASSUME NEW w \in Worker, JobSave(w)
      PROVE  worker[w].trip = t \/ logs'[t] = logs[t]
  BY <1>0, <1>5 DEF JobSave
<1>6. ASSUME NEW h \in Handler, Enqueue(h)
      PROVE  trip[task[h].trip] = "COMPLETED"
  BY <1>6 DEF Enqueue, Op, LogInv
<1>7. ASSUME NEW w \in Worker, Stall(w) \/ JobSave(w)
      PROVE  trip[worker[w].trip] = "COMPLETED"
  <2>1. worker[w].op # "idle"
    BY <1>0, <1>7, JobShape DEF Stall, JobSave
  <2> QED
    BY <2>1 DEF LogInv
<1>8. CASE jobs'[t] = jobs[t] /\ logs'[t] = logs[t]
  BY <1>1, <1>8 DEF LogInv
<1>9. \/ jobs'[t] = jobs[t] /\ logs'[t] = logs[t]
      \/ jobs[t] > 0
      \/ \E h \in Handler : Enqueue(h) /\ task[h].trip = t
      \/ \E w \in Worker : (Stall(w) \/ JobSave(w)) /\ worker[w].trip = t
  <2>1. CASE UNCHANGED <<jobs, logs>>
    BY <2>1
  <2>2. ASSUME NEW h \in Handler, HandlerStep(h)
        PROVE  \/ jobs'[t] = jobs[t] /\ logs'[t] = logs[t]
               \/ Enqueue(h) /\ task[h].trip = t
    BY <1>2, <2>2, HandlerFrame
  <2>3. ASSUME NEW w \in Worker, WorkerStep(w)
        PROVE  \/ jobs'[t] = jobs[t] /\ logs'[t] = logs[t]
               \/ jobs[t] > 0
               \/ (Stall(w) \/ JobSave(w)) /\ worker[w].trip = t
    <3>1. logs'[t] = logs[t] \/ (JobSave(w) /\ worker[w].trip = t)
      BY <1>5, <2>3, WorkerFrame
    <3>2. \/ jobs'[t] = jobs[t] \/ jobs[t] > 0
          \/ Stall(w) /\ worker[w].trip = t
      BY <1>3, <1>4, <2>3, WorkerFrame
    <3> QED
      BY <3>1, <3>2
  <2> QED
    BY <2>1, <2>2, <2>3, NextSteps DEF vars, StartTrip, Cancel
<1> QED
  BY <1>1, <1>6, <1>7, <1>8, <1>9 DEF LogInv

\* What a step makes of one worker.
LEMMA WorkerChange ==
  ASSUME TypeOK, [Next]_vars, NEW w \in Worker
  PROVE  \/ worker'[w] = worker[w]
         \/ worker'[w].op = "idle"
         \/ \E t \in Trip : /\ JobBegin(w, t) /\ worker'[w].op = "versions"
                            /\ worker'[w].trip = t /\ worker'[w].charged = OnBoard(t)
         \/ /\ JobVersions(w) \/ JobSave(w)
            /\ worker'[w].trip = worker[w].trip /\ worker'[w].charged = worker[w].charged
            /\ worker'[w].op = "save" => worker'[w].version = NextVersion(worker[w].trip)
<1>0. worker \in [Worker -> Job]
  BY DEF TypeOK
<1>1. ASSUME NEW x \in Worker, WorkerStep(x), x # w
      PROVE  worker'[w] = worker[w]
  BY <1>0, <1>1 DEF WorkerStep, JobBegin, JobVersions, JobSave, JobDone, Stall
<1>2. ASSUME NEW t \in Trip, JobBegin(w, t)
      PROVE  /\ worker'[w].op = "versions"
             /\ worker'[w].trip = t /\ worker'[w].charged = OnBoard(t)
  BY <1>0, <1>2 DEF JobBegin
<1>3. ASSUME JobVersions(w)
      PROVE  /\ worker'[w].trip = worker[w].trip /\ worker'[w].charged = worker[w].charged
             /\ worker'[w].version = NextVersion(worker[w].trip)
  BY <1>0, <1>3 DEF JobVersions
<1>4. ASSUME JobSave(w)
      PROVE  \/ worker'[w].op = "idle"
             \/ /\ worker'[w].trip = worker[w].trip /\ worker'[w].charged = worker[w].charged
                /\ worker'[w].op = "saved"
  <2>1. \/ worker'[w] = Idle
        \/ worker'[w] = [op |-> "saved", trip |-> worker[w].trip,
                         charged |-> worker[w].charged]
    BY <1>0, <1>4 DEF JobSave
  <2> QED
    BY <2>1 DEF Idle
<1>5. JobDone(w) \/ Stall(w) => worker'[w].op = "idle"
  BY <1>0 DEF JobDone, Stall, Idle
<1>6. worker'[w] = worker[w] \/ WorkerStep(w)
  BY <1>1, NextSteps, HandlerFrame DEF vars, StartTrip, Cancel
<1> QED
  BY <1>2, <1>3, <1>4, <1>5, <1>6 DEF WorkerStep

\* What a worker computes is of a trip that is over, and charged to what was cancelled.
LEMMA WorkersStep ==
  ASSUME TypeOK, LogInv, [Next]_vars, NEW w \in Worker, worker'[w].op # "idle"
  PROVE  /\ trip'[worker'[w].trip] = "COMPLETED"
         /\ \A o \in worker'[w].charged : order'[o].status = "CANCELLED"
<1>0. worker[w] \in Job /\ jobs \in [Trip -> Nat]
  BY DEF TypeOK
<1>1. ASSUME worker[w].op # "idle", worker'[w].trip = worker[w].trip,
             worker'[w].charged = worker[w].charged
      PROVE  /\ trip'[worker'[w].trip] = "COMPLETED"
             /\ \A o \in worker'[w].charged : order'[o].status = "CANCELLED"
  <2>1. PICK t \in Trip, C \in SUBSET Order : t = worker[w].trip /\ C = worker[w].charged
    BY <1>0, <1>1, JobShape
  <2>2. trip[t] = "COMPLETED" /\ \A o \in C : order[o].status = "CANCELLED"
    BY <1>1, <2>1 DEF LogInv
  <2> QED
    BY <1>1, <2>1, <2>2, Lasting
<1>2. ASSUME NEW t \in Trip, JobBegin(w, t), worker'[w].trip = t,
             worker'[w].charged = OnBoard(t)
      PROVE  /\ trip'[worker'[w].trip] = "COMPLETED"
             /\ \A o \in worker'[w].charged : order'[o].status = "CANCELLED"
  <2>1. trip[t] = "COMPLETED" /\ Settled(t)
    BY <1>2 DEF JobBegin, LogInv
  <2>2. UNCHANGED <<trip, order>>
    BY <1>2 DEF JobBegin
  <2> QED
    BY <1>2, <2>1, <2>2 DEF Settled
<1>3. CASE worker'[w] = worker[w]
  BY <1>1, <1>3
<1>4. ASSUME JobVersions(w) \/ JobSave(w)
      PROVE  worker[w].op # "idle"
  BY <1>4 DEF JobVersions, JobSave
<1> QED
  BY <1>1, <1>2, <1>3, <1>4, WorkerChange

\* What a step makes of the log of one trip.
LEMMA LogChange ==
  ASSUME TypeOK, [Next]_vars, NEW t \in Trip
  PROVE  \/ logs'[t] = logs[t]
         \/ \E w \in Worker :
              /\ JobSave(w) /\ worker[w].trip = t /\ ~Taken(t, worker[w].version)
              /\ logs'[t] = Obsolete(logs[t]) \cup
                   {[version |-> worker[w].version, isLatest |-> TRUE,
                     charged |-> worker[w].charged]}
<1>0. logs \in [Trip -> SUBSET LogRow]
  BY DEF TypeOK
<1>1. ASSUME NEW w \in Worker, JobSave(w), logs'[t] # logs[t]
      PROVE  /\ worker[w].trip = t /\ ~Taken(t, worker[w].version)
             /\ logs'[t] = Obsolete(logs[t]) \cup
                  {[version |-> worker[w].version, isLatest |-> TRUE,
                    charged |-> worker[w].charged]}
  <2>1. ~Taken(worker[w].trip, worker[w].version)
    BY <1>1 DEF JobSave
  <2>2. logs' = [logs EXCEPT ![worker[w].trip] = Obsolete(@) \cup
                   {[version |-> worker[w].version, isLatest |-> TRUE,
                     charged |-> worker[w].charged]}]
    BY <1>1 DEF JobSave
  <2>3. worker[w].trip = t
    BY <1>0, <1>1, <2>2
  <2> QED
    BY <1>0, <2>1, <2>2, <2>3
<1> QED
  BY <1>1, NextSteps, HandlerFrame, WorkerFrame DEF vars, StartTrip, Cancel

\* The rows of a log charge what was cancelled.
LEMMA ChargedStep ==
  ASSUME TypeOK, LogInv, [Next]_vars, NEW t \in Trip, NEW l \in logs'[t], NEW o \in l.charged
  PROVE  order'[o].status = "CANCELLED"
<1>0. logs \in [Trip -> SUBSET LogRow] /\ \A w \in Worker : worker[w] \in Job
  BY DEF TypeOK
<1>1. ASSUME NEW m \in logs[t], o \in m.charged
      PROVE  order'[o].status = "CANCELLED"
  <2>1. o \in Order /\ order[o].status = "CANCELLED"
    BY <1>0, <1>1 DEF LogInv, LogRow
  <2> QED
    BY <2>1, Lasting
<1>2. ASSUME NEW w \in Worker, JobSave(w), o \in worker[w].charged
      PROVE  order'[o].status = "CANCELLED"
  <2>1. worker[w].op # "idle"
    BY <1>2 DEF JobSave
  <2>2. o \in Order /\ order[o].status = "CANCELLED"
    BY <1>0, <1>2, <2>1, JobShape DEF LogInv
  <2> QED
    BY <2>2, Lasting
<1>3. ASSUME l \in Obsolete(logs[t])
      PROVE  \E m \in logs[t] : o \in m.charged
  <2>1. PICK m \in logs[t] : l = [m EXCEPT !.isLatest = FALSE]
    BY <1>3 DEF Obsolete
  <2>2. m \in LogRow
    BY <1>0
  <2>3. l.charged = m.charged
    BY <2>1, <2>2 DEF LogRow
  <2> QED
    BY <2>3
<1> QED
  BY <1>1, <1>2, <1>3, LogChange

\* The next row makes the log one longer: the last one is the latest.
LEMMA VersionedAdd ==
  ASSUME NEW L \in SUBSET LogRow, NEW n \in Nat, Versioned(L, n), NEW row \in LogRow,
         row.version = n + 1, row.isLatest
  PROVE  Versioned(Obsolete(L) \cup {row}, n + 1)
<1> DEFINE old(l) == [l EXCEPT !.isLatest = FALSE]
<1>1. \A l \in L : /\ old(l) \in Obsolete(L) /\ old(l).version = l.version
                   /\ ~old(l).isLatest /\ l.version \in 1..n
  BY DEF Obsolete, LogRow, Versioned
<1>2. \A k \in Obsolete(L) : \E l \in L : k = old(l)
  BY DEF Obsolete
<1> HIDE DEF old
<1>3. \A k \in Obsolete(L) : k.version \in 1..n /\ ~k.isLatest
  BY <1>1, <1>2
<1>4. \A k \in Obsolete(L) \cup {row} :
        k.version \in 1..(n + 1) /\ (k.isLatest <=> k.version = n + 1)
  <2>1. ASSUME NEW k \in Obsolete(L)
        PROVE  k.version \in 1..(n + 1) /\ ~(k.version = n + 1) /\ ~k.isLatest
    BY <1>3
  <2>2. row.version \in 1..(n + 1)
    OBVIOUS
  <2> QED
    BY <2>1, <2>2
<1>5. \A i \in 1..(n + 1) : \E k \in Obsolete(L) \cup {row} : k.version = i
  <2>1. ASSUME NEW i \in 1..(n + 1)
        PROVE  i = n + 1 \/ i \in 1..n
    OBVIOUS
  <2>2. ASSUME NEW i \in 1..n
        PROVE  \E k \in Obsolete(L) : k.version = i
    BY <1>1 DEF Versioned
  <2> QED
    BY <2>1, <2>2
<1>6. ASSUME NEW k \in Obsolete(L) \cup {row}, NEW m \in Obsolete(L) \cup {row},
             k.version = m.version
      PROVE  k = m
  <2>1. CASE k \in Obsolete(L) /\ m \in Obsolete(L)
    BY <1>1, <1>2, <1>6, <2>1 DEF Versioned
  <2>2. n + 1 \notin 1..n
    OBVIOUS
  <2> QED
    BY <1>3, <1>6, <2>1, <2>2
<1> QED
  BY <1>4, <1>5, <1>6 DEF Versioned

\* The length of a log is the number of its versions.
LEMMA VersionedLength ==
  ASSUME NEW L, NEW n \in Nat, Versioned(L, n)
  PROVE  IsFiniteSet(L) /\ Cardinality(L) = n
<1> DEFINE f == [l \in L |-> l.version]
<1>1. f \in [L -> 1..n]
  BY DEF Versioned
<1>2. \A k, l \in L : k # l => f[k] # f[l]
  BY DEF Versioned
<1>3. \A i \in 1..n : \E l \in L : f[l] = i
  BY DEF Versioned
<1>4. IsFiniteSet(1..n) /\ Cardinality(1..n) = n
  BY FS_Interval
<1> HIDE DEF f
<1>5. f \in Injection(L, 1..n)
  BY <1>1, <1>2 DEF Injection, IsInjective
<1>6. f \in Surjection(L, 1..n)
  BY <1>1, <1>3 DEF Surjection
<1> QED
  BY <1>4, <1>5, <1>6, FS_Injection

\* A log gets the versions one after the other, and no worker skips one.
LEMMA VersionsStep ==
  ASSUME TypeOK, LogInv, [Next]_vars, NEW t \in Trip
  PROVE  \E n \in Nat :
           /\ Versioned(logs'[t], n)
           /\ \A w \in Worker : worker'[w].op = "save" /\ worker'[w].trip = t =>
                worker'[w].version <= n + 1
<1>0. logs[t] \in SUBSET LogRow /\ \A w \in Worker : worker[w] \in Job
  BY DEF TypeOK
<1>1. PICK n \in Nat : /\ Versioned(logs[t], n)
                       /\ \A w \in Worker : worker[w].op = "save" /\ worker[w].trip = t =>
                            worker[w].version <= n + 1
  BY DEF LogInv
<1>2. ASSUME NEW w \in Worker, worker'[w].op = "save", worker'[w].trip = t
      PROVE  worker'[w].version <= n + 1 /\ worker'[w].version \in Nat
  <2>1. CASE worker'[w] = worker[w]
    BY <1>0, <1>1, <1>2, <2>1, JobShape
  <2>2. CASE worker[w].trip = t /\ worker'[w].version = NextVersion(worker[w].trip)
    <3>1. NextVersion(t) = n + 1
      BY <1>1, NextVersionIs
    <3> QED
      BY <2>2, <3>1
  <2>3. \/ worker'[w] = worker[w]
        \/ worker[w].trip = t /\ worker'[w].version = NextVersion(worker[w].trip)
    BY <1>2, WorkerChange
  <2> QED
    BY <2>1, <2>2, <2>3
<1>3. CASE logs'[t] = logs[t]
  BY <1>1, <1>2, <1>3
<1>4. ASSUME NEW w \in Worker, JobSave(w), worker[w].trip = t,
             ~Taken(t, worker[w].version),
             logs'[t] = Obsolete(logs[t]) \cup
                   {[version |-> worker[w].version, isLatest |-> TRUE,
                     charged |-> worker[w].charged]}
      PROVE  Versioned(logs'[t], n + 1)
  <2>1. worker[w].op = "save"
    BY <1>4 DEF JobSave
  <2>2. PICK v \in Nat \ {0}, C \in SUBSET Order :
          v = worker[w].version /\ C = worker[w].charged /\ v <= n + 1
    BY <1>0, <1>1, <1>4, <2>1, JobShape
  <2>3. v \notin 1..n
    BY <1>1, <1>4, <2>2 DEF Versioned, Taken
  <2>4. v = n + 1
    BY <2>2, <2>3
  <2>5. PICK row \in LogRow : row = [version |-> v, isLatest |-> TRUE, charged |-> C]
    BY DEF LogRow
  <2>6. row.version = n + 1 /\ row.isLatest
    BY <2>4, <2>5
  <2>7. Versioned(Obsolete(logs[t]) \cup {row}, n + 1)
    BY <1>0, <1>1, <2>6, VersionedAdd
  <2> QED
    BY <1>4, <2>2, <2>5, <2>7
<1>5. \A w \in Worker : worker'[w].op = "save" /\ worker'[w].trip = t =>
        worker'[w].version <= (n + 1) + 1
  BY <1>2
<1> QED
  BY <1>3, <1>4, <1>5, LogChange

LEMMA LogStep ==
  ASSUME TypeOK, LogInv, [Next]_vars
  PROVE  LogInv'
<1>1. \A o \in Order : order'[o].status = "DELIVERED" => ~order'[o].onBoard
  BY Lasting DEF LogInv
<1>2. ASSUME NEW t \in Trip, trip'[t] = "COMPLETED"
      PROVE  Settled(t)'
  BY <1>2, TripsStep
<1>3. \A t \in Trip : jobs'[t] > 0 \/ logs'[t] # {} => trip'[t] = "COMPLETED"
  BY JobsStep
<1>4. \A w \in Worker : worker'[w].op # "idle" =>
        /\ trip'[worker'[w].trip] = "COMPLETED"
        /\ \A o \in worker'[w].charged : order'[o].status = "CANCELLED"
  BY WorkersStep
<1>5. \A t \in Trip : \A l \in logs'[t] : \A o \in l.charged : order'[o].status = "CANCELLED"
  BY ChargedStep
<1>6. \A t \in Trip : \E n \in Nat :
        /\ Versioned(logs'[t], n)
        /\ \A w \in Worker : worker'[w].op = "save" /\ worker'[w].trip = t =>
             worker'[w].version <= n + 1
  BY VersionsStep
<1>7. ASSUME NEW h \in Handler
      PROVE  /\ task'[h].op \in {"autoComplete", "complete"} => Settled(task[h].trip)'
             /\ task'[h].op = "enqueue" => trip'[task'[h].trip] = "COMPLETED"
  BY TasksStep
<1> QED
  BY <1>1, <1>2, <1>3, <1>4, <1>5, <1>6, <1>7 DEF LogInv, Versioned

LEMMA LogInit == Init => LogInv
<1> SUFFICES ASSUME Init PROVE LogInv
  OBVIOUS
<1>1. \A t \in Trip : Versioned(logs[t], 0) /\ logs[t] = {} /\ jobs[t] = 0
  BY DEF Init, Versioned
<1>2. /\ \A w \in Worker : worker[w].op = "idle"
      /\ \A h \in Handler : task[h].op = "idle"
  BY DEF Init, Idle
<1>3. \A t \in Trip : trip[t] = "PENDING"
  BY DEF Init
<1>4. \A o \in Order : order[o].status = "OPEN"
  BY DEF Init
<1> QED
  BY <1>1, <1>2, <1>3, <1>4 DEF LogInv

--------------------------------------------------------------------------------
(***************************************************************************)
(* The points of a driver.                                                 *)
(***************************************************************************)

\* Points awarded are a sum of a function.
PointsBy(given) == [t \in Trip |-> given[t] * Points(t)]

PointsIterate(given, T, k) ==
  k = [s \in SUBSET T |->
         IF s = {} THEN 0
         ELSE LET t == CHOOSE y \in s : TRUE IN given[t] * Points(t) + k[s \ {t}]]

LEMMA PointsForIsSum ==
  ASSUME NEW given, NEW T \in SUBSET Trip
  PROVE  PointsFor(given, T) = SumOf(PointsBy(given), T)
<1> DEFINE w == PointsBy(given)
           g == CHOOSE k : PointsIterate(given, T, k)
           h == CHOOSE k : Iterates(w, T, k)
<1>1. SumOf(w, T) = h[T]
  BY DEF SumOf, MapThenSumSet, MapThenFoldSet, Iterates
<1>2. PointsFor(given, T) = g[T]
  BY DEF PointsFor, MapThenSumSet, MapThenFoldSet, PointsIterate
<1>3. ASSUME NEW k
      PROVE  PointsIterate(given, T, k) <=> Iterates(w, T, k)
  <2> DEFINE F(s) == IF s = {} THEN 0
                     ELSE LET t == CHOOSE y \in s : TRUE
                          IN given[t] * Points(t) + k[s \ {t}]
             G(s) == IF s = {} THEN 0
                     ELSE LET t == CHOOSE y \in s : TRUE IN w[t] + k[s \ {t}]
  <2>1. \A s \in SUBSET T : F(s) = G(s)
    BY DEF PointsBy
  <2>2. PointsIterate(given, T, k) <=> k = [s \in SUBSET T |-> F(s)]
    BY DEF PointsIterate
  <2>3. Iterates(w, T, k) <=> k = [s \in SUBSET T |-> G(s)]
    BY DEF Iterates
  <2> HIDE DEF F, G
  <2>4. [s \in SUBSET T |-> F(s)] = [s \in SUBSET T |-> G(s)]
    BY <2>1
  <2> QED
    BY <2>2, <2>3, <2>4
<1> HIDE DEF w
<1>4. g = h
  BY <1>3, Zenon
<1> QED
  BY <1>1, <1>2, <1>4 DEF w

\* The trips of a driver, finitely many, and what was awarded for them.
TripsOf(d) == {t \in Trip : DriverOf[t] = d}

LEMMA TripsFacts ==
  ASSUME NEW d, NEW given \in [Trip -> Nat]
  PROVE  /\ IsFiniteSet(TripsOf(d)) /\ TripsOf(d) \subseteq Trip
         /\ PointsFor(given, TripsOf(d)) = SumOf(PointsBy(given), TripsOf(d))
         /\ \A t \in Trip : /\ PointsBy(given)[t] = given[t] * Points(t)
                            /\ PointsBy(given)[t] \in Int
<1>1. TripsOf(d) \subseteq Trip
  BY DEF TripsOf
<1>2. IsFiniteSet(TripsOf(d))
  BY <1>1, TripAssumption, FS_Subset
<1>3. ASSUME NEW t \in Trip
      PROVE  given[t] * Points(t) \in Int
  BY PointsType
<1> QED
  BY <1>1, <1>2, <1>3, PointsForIsSum DEF PointsBy

\* Nothing awarded is no points; another award of a trip adds its points to those of its
\* driver, and to no other.
LEMMA NothingAwarded ==
  ASSUME NEW d, NEW given \in [Trip -> Nat], \A t \in TripsOf(d) : given[t] = 0
  PROVE  PointsFor(given, TripsOf(d)) = 0
<1>1. \A t \in TripsOf(d) : PointsBy(given)[t] = 0
  BY PointsType DEF PointsBy, TripsOf
<1> QED
  BY <1>1, TripsFacts, SumZero

LEMMA AwardAdds ==
  ASSUME NEW d, NEW given \in [Trip -> Nat], NEW t \in Trip
  PROVE  LET after == [given EXCEPT ![t] = @ + 1]
         IN  PointsFor(after, TripsOf(d)) =
               IF DriverOf[t] = d THEN PointsFor(given, TripsOf(d)) + Points(t)
               ELSE PointsFor(given, TripsOf(d))
<1>1. PICK after \in [Trip -> Nat] : after = [given EXCEPT ![t] = @ + 1]
  <2>1. given[t] + 1 \in Nat
    OBVIOUS
  <2>2. [given EXCEPT ![t] = @ + 1] \in [Trip -> Nat]
    BY <2>1
  <2> QED
    BY <2>2
<1>2. /\ \A u \in Trip : u # t => PointsBy(after)[u] = PointsBy(given)[u]
      /\ PointsBy(after)[t] = PointsBy(given)[t] + Points(t)
  <2>1. after[t] = given[t] + 1 /\ given[t] \in Int /\ Points(t) \in Int
    BY <1>1, PointsType
  <2>2. (given[t] + 1) * Points(t) = given[t] * Points(t) + Points(t)
    BY <2>1
  <2>3. PointsBy(after)[t] = PointsBy(given)[t] + Points(t)
    BY <2>1, <2>2 DEF PointsBy
  <2>4. \A u \in Trip : u # t => after[u] = given[u]
    BY <1>1
  <2> QED
    BY <2>3, <2>4 DEF PointsBy
<1>3. /\ PointsFor(after, TripsOf(d)) = SumOf(PointsBy(after), TripsOf(d))
      /\ PointsFor(given, TripsOf(d)) = SumOf(PointsBy(given), TripsOf(d))
      /\ IsFiniteSet(TripsOf(d))
      /\ \A u \in TripsOf(d) : PointsBy(given)[u] \in Int
  BY TripsFacts
<1>4. CASE DriverOf[t] = d
  <2>1. t \in TripsOf(d) /\ TripsOf(d) \subseteq Trip /\ Points(t) \in Int
    BY <1>4, PointsType DEF TripsOf
  <2>2. SumOf(PointsBy(after), TripsOf(d)) = SumOf(PointsBy(given), TripsOf(d)) + Points(t)
    BY <1>2, <1>3, <2>1, SumGrown
  <2> QED
    BY <1>1, <1>3, <1>4, <2>2
<1>5. CASE DriverOf[t] # d
  <2>1. \A u \in TripsOf(d) : PointsBy(given)[u] = PointsBy(after)[u]
    BY <1>2, <1>5 DEF TripsOf
  <2>2. SumOf(PointsBy(given), TripsOf(d)) = SumOf(PointsBy(after), TripsOf(d))
    BY <1>3, <2>1, SumSame
  <2> QED
    BY <1>1, <1>3, <1>5, <2>2
<1> QED
  BY <1>4, <1>5

--------------------------------------------------------------------------------
(***************************************************************************)
(* Who awards points, and what a profile holds.                            *)
(***************************************************************************)

\* The step of a request holds what it holds then, or breaks off.
LEMMA HandlerHolds ==
  ASSUME TypeOK, NEW h \in Handler, HandlerStep(h)
  PROVE  Hold(h, task'[h]) \/ BreakOff(h)
<1>1. ASSUME NEW r, Hold(h, r)
      PROVE  Hold(h, task'[h])
  <2>1. task'[h] = r
    BY <1>1 DEF Hold, TypeOK
  <2> QED
    BY <1>1, <2>1
<1>2. (\E r : Hold(h, r)) \/ BreakOff(h)
  BY DEF HandlerStep, Deliver, Note, CompleteBegin, ProfileBegin, CheckRead, CheckWrite,
         Enqueue, CompleteWrite, ReadLatest, FindProfile, AwardWrite, AwardLost, WriteRank,
         ProfileCreate
<1> QED
  BY <1>1, <1>2

\* Marks stay, and only a step of a request changes what requests hold.
LEMMA TaskFrame ==
  ASSUME TypeOK, [Next]_vars
  PROVE  /\ disturbed \subseteq disturbed'
         /\ UNCHANGED <<task, disturbed>> \/ \E h \in Handler : HandlerStep(h)
         /\ \A g \in Handler : task'[g] = task[g] \/ HandlerStep(g)
BY NextSteps, OthersStay, WorkerFrame DEF vars, StartTrip, Cancel

\* Requests about the same trip or profile have marked it.
LEMMA OverlapStep ==
  ASSUME TypeOK, TypeOK', AwardInv, [Next]_vars, NEW g \in Handler, NEW h \in Handler, g # h
  PROVE  Subject(task'[g]) \cap Subject(task'[h]) \subseteq disturbed'
<1>1. Subject(task[g]) \cap Subject(task[h]) \subseteq disturbed /\ disturbed \subseteq disturbed'
  BY TaskFrame DEF AwardInv
<1>2. ASSUME NEW k \in Handler, HandlerStep(k), NEW x \in Handler, x # k
      PROVE  Subject(task'[k]) \cap Subject(task'[x]) \subseteq disturbed'
  <2>1. task'[x] = task[x] /\ task'[k] \in Task
    BY <1>2, OthersStay DEF TypeOK
  <2>2. CASE Hold(k, task'[k])
    BY <1>2, <2>1, <2>2, HoldFacts
  <2>3. CASE BreakOff(k)
    <3>1. task'[k] = Idle
      BY <2>3 DEF BreakOff, TypeOK
    <3>2. Subject(Idle) = {}
      BY DEF Subject, Idle
    <3> QED
      BY <3>1, <3>2
  <2> QED
    BY <1>2, <2>2, <2>3, HandlerHolds
<1>3. CASE UNCHANGED <<task, disturbed>>
  BY <1>1, <1>3
<1>4. ASSUME NEW k \in Handler, HandlerStep(k)
      PROVE  Subject(task'[g]) \cap Subject(task'[h]) \subseteq disturbed'
  <2>1. CASE k = g \/ k = h
    BY <1>2, <1>4, <2>1
  <2>2. CASE k # g /\ k # h
    <3>1. task'[g] = task[g] /\ task'[h] = task[h]
      BY <1>4, <2>2, OthersStay
    <3> QED
      BY <1>1, <3>1
  <2> QED
    BY <2>1, <2>2
<1> QED
  BY <1>3, <1>4, TaskFrame

\* Two requests about one trip or driver: it is marked.
LEMMA Meeting ==
  ASSUME AwardInv, NEW g \in Handler, NEW h \in Handler, g # h,
         NEW x, x \in Subject(task[g]), x \in Subject(task[h])
  PROVE  x \in disturbed
BY DEF AwardInv

\* The step a request holds next tells the step it made.
LEMMA HandlerNext ==
  ASSUME TypeOK, NEW h \in Handler, HandlerStep(h)
  PROVE  \/ task'[h].op \in {"idle", "check", "autoComplete", "enqueue", "default"}
         \/ /\ task'[h].op = "complete" /\ CompleteBegin(h, task'[h].trip)
         \/ /\ task'[h].op = "latest" /\ task'[h].trip = task[h].trip
            /\ task[h].op = "complete" /\ CompleteWrite(h)
         \/ /\ task'[h].op = "find" /\ task'[h].trip = task[h].trip
            /\ task[h].op = "latest" /\ ReadLatest(h)
         \/ /\ task'[h].op \in {"create", "increment"} /\ task'[h].trip = task[h].trip
            /\ task[h].op = "find" /\ FindProfile(h)
         \/ /\ task'[h].op = "rank" /\ task'[h].trip = task[h].trip
            /\ task[h].op \in {"create", "increment"} /\ AwardWrite(h)
<1>0. task \in [Handler -> Task] /\ task[h] \in Task
  BY DEF TypeOK
<1>1. \A r : Hold(h, r) => task'[h] = r
  BY <1>0 DEF Hold
<1>2. Idle.op = "idle" /\ (BreakOff(h) => task'[h] = Idle)
  BY <1>0 DEF BreakOff, Idle
<1>3. ASSUME NEW op, task[h].op \in {"autoComplete", "complete", "find"}
      PROVE  /\ [task[h] EXCEPT !.op = op].op = op
             /\ [task[h] EXCEPT !.op = op].trip = task[h].trip
  BY <1>0, <1>3, TaskShape
<1>4. CASE \E o \in Order : Deliver(h, o) \/ Note(h, o)
  <2>1. PICK o \in Order : Hold(h, [op |-> "check", trip |-> TripOf[o]])
    BY <1>4 DEF Deliver, Note
  <2>2. task'[h] = [op |-> "check", trip |-> TripOf[o]]
    BY <1>1, <2>1
  <2> QED
    BY <2>2
<1>5. CASE \E d \in Driver : ProfileBegin(h, d)
  <2>1. PICK d \in Driver : Hold(h, [op |-> "default", driver |-> d])
    BY <1>5 DEF ProfileBegin
  <2>2. task'[h] = [op |-> "default", driver |-> d]
    BY <1>1, <2>1
  <2> QED
    BY <2>2
<1>6. CASE \E t \in Trip : CompleteBegin(h, t)
  <2>1. PICK t \in Trip : CompleteBegin(h, t)
    BY <1>6
  <2>2. task'[h] = [op |-> "complete", trip |-> t]
    BY <1>1, <2>1 DEF CompleteBegin
  <2> QED
    BY <2>1, <2>2
<1>7. CASE Enqueue(h) \/ AwardLost(h) \/ WriteRank(h) \/ ProfileCreate(h) \/ BreakOff(h)
  BY <1>1, <1>2, <1>7 DEF Enqueue, AwardLost, WriteRank, ProfileCreate
<1>8. CASE CheckRead(h)
  BY <1>1, <1>2, <1>8 DEF CheckRead
<1>9. CASE CheckWrite(h)
  BY <1>1, <1>3, <1>9 DEF CheckWrite, Op
<1>10. CASE CompleteWrite(h)
  <2>1. task[h].op = "complete" /\ task'[h] = [task[h] EXCEPT !.op = "latest"]
    BY <1>1, <1>10 DEF CompleteWrite, Op
  <2>2. task'[h].op = "latest" /\ task'[h].trip = task[h].trip
    BY <1>3, <2>1
  <2> QED
    BY <1>10, <2>1, <2>2
<1>11. CASE ReadLatest(h)
  <2>1. task'[h] = [op |-> "find", trip |-> task[h].trip] \/ task'[h] = Idle
    BY <1>1, <1>11 DEF ReadLatest
  <2> QED
    BY <1>2, <1>11, <2>1 DEF ReadLatest, Op
<1>12. CASE FindProfile(h)
  <2>1. PICK op \in {"create", "increment"} :
          task[h].op = "find" /\ task'[h] = [task[h] EXCEPT !.op = op]
    BY <1>1, <1>12 DEF FindProfile, Op
  <2>2. task'[h].op = op /\ task'[h].trip = task[h].trip
    BY <1>3, <2>1
  <2> QED
    BY <1>12, <2>1, <2>2
<1>13. CASE AwardWrite(h)
  <2>1. PICK t, p : t = task[h].trip /\ task'[h] = [op |-> "rank", trip |-> t, points |-> p]
    BY <1>1, <1>13 DEF AwardWrite
  <2>2. task'[h].op = "rank" /\ task'[h].trip = t
    BY <2>1
  <2> QED
    BY <1>13, <2>1, <2>2 DEF AwardWrite, Op
<1> QED
  BY <1>4, <1>5, <1>6, <1>7, <1>8, <1>9, <1>10, <1>11, <1>12, <1>13 DEF HandlerStep

\* Only a request that completes a trip it alone is about finds it in progress.
LEMMA CompleteStep ==
  ASSUME TypeOK, AwardInv, [Next]_vars, NEW h \in Handler, NEW t \in Trip,
         task'[h].op = "complete", task'[h].trip = t, t \notin disturbed'
  PROVE  trip'[t] = "IN_PROGRESS"
<1>0. /\ trip \in [Trip -> {"PENDING", "IN_PROGRESS", "COMPLETED"}]
      /\ task \in [Handler -> Task]
      /\ t \notin disturbed
  BY TaskFrame DEF TypeOK
<1>1. CASE task'[h] = task[h]
  <2>1. trip[t] = "IN_PROGRESS" /\ t \in Subject(task[h])
    BY <1>0, <1>1, SubjectFacts DEF AwardInv
  <2>2. ASSUME NEW g \in Handler, CheckWrite(g) \/ CompleteWrite(g), task[g].trip = t
        PROVE  FALSE
    <3>1. t \in Subject(task[g])
      BY <1>0, <2>2, SubjectFacts DEF CheckWrite, CompleteWrite, Op
    <3>2. g = h
      BY <1>0, <2>1, <3>1, Meeting
    <3>3. task[h] \in [op : {"complete"}, trip : Trip]
      BY <1>0, <1>1, TaskShape
    <3>4. task'[h] = [task[h] EXCEPT !.op = "latest"]
      BY <1>0, <1>1, <2>2, <3>2, <3>3 DEF CheckWrite, CompleteWrite, Hold, Op
    <3> QED
      BY <1>1, <3>3, <3>4
  <2>3. ASSUME NEW g \in Handler, CheckWrite(g) \/ CompleteWrite(g)
        PROVE  trip'[t] = trip[t]
    BY <1>0, <2>2, <2>3 DEF CheckWrite, CompleteWrite
  <2>4. ASSUME NEW u \in Trip, StartTrip(u)
        PROVE  trip'[t] = trip[t]
    BY <1>0, <2>1, <2>4 DEF StartTrip
  <2>5. trip'[t] = trip[t]
    BY <2>3, <2>4, NextSteps, HandlerFrame, WorkerFrame DEF vars, Cancel
  <2> QED
    BY <2>1, <2>5
<1>2. CASE HandlerStep(h) /\ task'[h] # task[h]
  <2>1. CompleteBegin(h, t)
    BY <1>2, HandlerNext
  <2> QED
    BY <2>1 DEF CompleteBegin, Completable
<1> QED
  BY <1>1, <1>2, TaskFrame

\* A request that completed its trip alone finds nothing computed: the job is not queued.
LEMMA LatestStep ==
  ASSUME TypeOK, LogInv, AwardInv, [Next]_vars, NEW h \in Handler, NEW t \in Trip,
         task'[h].op = "latest", task'[h].trip = t, t \notin disturbed'
  PROVE  Uncharged(t)'
<1>0. /\ task \in [Handler -> Task] /\ t \notin disturbed
      /\ \A w \in Worker : worker[w] \in Job
      /\ jobs \in [Trip -> Nat] /\ logs \in [Trip -> SUBSET LogRow]
      /\ worker \in [Worker -> Job]
  BY TaskFrame DEF TypeOK
<1>1. CASE task'[h] = task[h]
  <2>1. Uncharged(t) /\ t \in Subject(task[h])
    BY <1>0, <1>1, SubjectFacts DEF AwardInv
  <2>2. ASSUME NEW g \in Handler, Enqueue(g)
        PROVE  jobs'[t] = jobs[t]
    <3>1. CASE task[g].trip = t
      <4>1. t \in Subject(task[g])
        BY <1>0, <2>2, <3>1, SubjectFacts DEF Enqueue, Op
      <4>2. g = h
        BY <1>0, <2>1, <4>1, Meeting
      <4> QED
        BY <1>1, <2>2, <4>2 DEF Enqueue, Op
    <3>2. CASE task[g].trip # t
      BY <1>0, <2>2, <3>2 DEF Enqueue
    <3> QED
      BY <3>1, <3>2
  <2>3. ASSUME NEW w \in Worker, NEW u \in Trip, JobBegin(w, u)
        PROVE  u # t /\ jobs'[t] = jobs[t] /\ UNCHANGED logs
    BY <1>0, <2>1, <2>3 DEF JobBegin, Uncharged
  <2>4. ASSUME NEW w \in Worker, JobSave(w) \/ JobVersions(w) \/ JobDone(w) \/ Stall(w)
        PROVE  /\ worker[w].trip # t
               /\ jobs'[t] = jobs[t] /\ logs'[t] = logs[t]
    <3>1. worker[w].op # "idle"
      BY <1>0, <2>4, JobShape DEF JobSave, JobVersions, JobDone, Stall
    <3>2. worker[w].trip # t /\ worker[w].trip \in Trip
      BY <1>0, <2>1, <3>1, JobShape DEF Uncharged
    <3> QED
      BY <1>0, <2>4, <3>2 DEF JobSave, JobVersions, JobDone, Stall
  <2>5. jobs'[t] = jobs[t] /\ logs'[t] = logs[t]
    <3>1. ASSUME NEW w \in Worker, WorkerStep(w)
          PROVE  jobs'[t] = jobs[t] /\ logs'[t] = logs[t]
      BY <2>3, <2>4, <3>1 DEF WorkerStep
    <3>2. ASSUME NEW g \in Handler, HandlerStep(g)
          PROVE  jobs'[t] = jobs[t] /\ logs'[t] = logs[t]
      BY <2>2, <3>2, HandlerFrame
    <3> QED
      BY <3>1, <3>2, NextSteps DEF vars, StartTrip, Cancel
  <2>6. ASSUME NEW w \in Worker, worker'[w].op # "idle"
        PROVE  worker'[w].trip # t
    <3>1. CASE worker'[w] = worker[w]
      BY <2>1, <2>6, <3>1 DEF Uncharged
    <3>2. CASE worker'[w] # worker[w]
      <4>1. \/ \E u \in Trip : JobBegin(w, u)
            \/ JobVersions(w) \/ JobSave(w) \/ JobDone(w) \/ Stall(w)
        <5>1. WorkerStep(w)
          <6>1. ASSUME NEW v \in Worker, WorkerStep(v), v # w
                PROVE  worker'[w] = worker[w]
            BY <1>0, <6>1 DEF WorkerStep, JobBegin, JobVersions, JobSave, JobDone, Stall
          <6> QED
            BY <3>2, <6>1, NextSteps, HandlerFrame DEF vars, StartTrip, Cancel
        <5> QED
          BY <5>1 DEF WorkerStep
      <4>2. ASSUME NEW u \in Trip, JobBegin(w, u)
            PROVE  worker'[w].trip # t
        <5>1. worker'[w] = [op |-> "versions", trip |-> u, charged |-> OnBoard(u)]
          BY <1>0, <4>2 DEF JobBegin
        <5> QED
          BY <2>3, <4>2, <5>1
      <4>3. ASSUME JobVersions(w) \/ JobSave(w) \/ JobDone(w) \/ Stall(w)
            PROVE  worker'[w].trip # t
        <5>3. CASE JobVersions(w)
          <6>1. worker'[w] = [op |-> "save", trip |-> worker[w].trip,
                              charged |-> worker[w].charged,
                              version |-> NextVersion(worker[w].trip)]
            BY <1>0, <5>3 DEF JobVersions
          <6> QED
            BY <2>4, <5>3, <6>1
        <5>4. CASE JobSave(w)
          <6>1. \/ worker'[w] = Idle
                \/ worker'[w] = [op |-> "saved", trip |-> worker[w].trip,
                                charged |-> worker[w].charged]
            BY <1>0, <5>4 DEF JobSave
          <6> QED
            BY <2>4, <2>6, <5>4, <6>1 DEF Idle
        <5>5. CASE JobDone(w) \/ Stall(w)
          BY <1>0, <2>6, <5>5 DEF JobDone, Stall, Idle
        <5> QED
          BY <4>3, <5>3, <5>4, <5>5
      <4> QED
        BY <4>1, <4>2, <4>3
    <3> QED
      BY <3>1, <3>2
  <2> QED
    BY <2>1, <2>5, <2>6 DEF Uncharged
<1>2. CASE HandlerStep(h) /\ task'[h] # task[h]
  <2>1. task[h].op = "complete" /\ task[h].trip = t /\ CompleteWrite(h)
    BY <1>2, HandlerNext
  <2>2. trip[t] = "IN_PROGRESS"
    BY <1>0, <2>1 DEF AwardInv
  <2>3. jobs[t] = 0 /\ logs[t] = {}
    BY <1>0, <2>2 DEF LogInv
  <2>4. \A w \in Worker : worker[w].op # "idle" => worker[w].trip # t
    BY <2>2 DEF LogInv
  <2>5. UNCHANGED <<jobs, logs, worker>>
    BY <2>1 DEF CompleteWrite
  <2> QED
    BY <2>3, <2>4, <2>5 DEF Uncharged
<1> QED
  BY <1>1, <1>2, TaskFrame

\* Who has found a log to award points for met another request about the trip.
LEMMA FoundStep ==
  ASSUME TypeOK, AwardInv, [Next]_vars, NEW h \in Handler,
         task'[h].op \in {"find", "create", "increment", "rank"}
  PROVE  task'[h].trip \in disturbed'
<1>0. disturbed \subseteq disturbed'
  BY TaskFrame
<1>1. CASE task'[h] = task[h]
  BY <1>0, <1>1 DEF AwardInv
<1>2. CASE HandlerStep(h) /\ task[h].op \in {"find", "create", "increment"}
           /\ task'[h].trip = task[h].trip
  BY <1>0, <1>2 DEF AwardInv
<1>3. CASE task[h].op = "latest" /\ ReadLatest(h) /\ task'[h].trip = task[h].trip
           /\ task'[h].op = "find"
  <2>1. LatestLogs(task[h].trip) # {}
    <3>1. task'[h] # Idle
      BY <1>3 DEF Idle
    <3> QED
      BY <3>1, <1>3 DEF ReadLatest, Hold, TypeOK
  <2>2. ~Uncharged(task[h].trip)
    BY <2>1 DEF Uncharged, LatestLogs
  <2> QED
    BY <1>0, <1>3, <2>2 DEF AwardInv
<1> QED
  BY <1>1, <1>2, <1>3, HandlerNext, TaskFrame

\* An award sets the points of one profile, and the request goes on to its rank.
LEMMA AwardEffect ==
  ASSUME TypeOK, NEW h \in Handler, AwardWrite(h)
  PROVE  \E t \in Trip :
           /\ t = task[h].trip
           /\ task'[h].op = "rank" /\ task'[h].trip = t
           /\ task'[h].points = profile'[DriverOf[t]].points
           /\ awards' = [awards EXCEPT ![t] = @ + 1]
           /\ profile'[DriverOf[t]] # NoProfile
           /\ profile'[DriverOf[t]].points =
                IF profile[DriverOf[t]] = NoProfile THEN Points(t)
                ELSE profile[DriverOf[t]].points + Points(t)
           /\ \A e \in Driver : e # DriverOf[t] => profile'[e] = profile[e]
<1>0. /\ task \in [Handler -> Task]
      /\ profile \in [Driver -> {NoProfile} \cup [points : Nat, rank : Rank]]
      /\ awards \in [Trip -> Nat]
  BY DEF TypeOK
<1>1. PICK t \in Trip : t = task[h].trip
  BY <1>0, TaskShape DEF AwardWrite, Op
<1>2. PICK d \in Driver : d = DriverOf[t]
  BY DriverOfAssumption
<1>3. Points(t) \in Nat
  BY PointsType
<1>4. PICK old \in {NoProfile} \cup [points : Nat, rank : Rank] : old = profile[d]
  BY <1>0
<1>5. PICK row : row = WithPoints(old, t)
  OBVIOUS
<1>6. /\ row.points = IF old = NoProfile THEN Points(t) ELSE old.points + Points(t)
      /\ row.points \in Nat
  <2>1. CASE old = NoProfile
    BY <1>3, <1>5, <2>1 DEF WithPoints
  <2>2. CASE old # NoProfile
    BY <1>3, <1>4, <1>5, <2>2 DEF WithPoints
  <2> QED
    BY <2>1, <2>2
<1>7. row # NoProfile
  BY <1>6 DEF NoProfile
<1>8. PICK r : r = [op |-> "rank", trip |-> t, points |-> row.points]
  OBVIOUS
<1>9. r.op = "rank" /\ r.trip = t /\ r.points = row.points
  BY <1>8
<1>10. /\ profile' = [profile EXCEPT ![d] = row]
       /\ awards' = [awards EXCEPT ![t] = @ + 1]
       /\ Hold(h, r)
  BY <1>1, <1>2, <1>4, <1>5, <1>8 DEF AwardWrite, ProfileOf
<1>11. /\ profile'[d] = row /\ task'[h] = r
       /\ \A e \in Driver : e # d => profile'[e] = profile[e]
  BY <1>0, <1>10 DEF Hold
<1> QED
  BY <1>1, <1>2, <1>4, <1>6, <1>7, <1>9, <1>10, <1>11

\* What a step makes of the profiles: an award sets the points of one, and the request
\* goes on to its rank; a rank is written to one; one is made for who has none.
LEMMA ProfileChange ==
  ASSUME TypeOK, AwardInv, [Next]_vars
  PROVE  \/ UNCHANGED <<profile, awards>>
         \/ \E h \in Handler, t \in Trip :
              /\ AwardWrite(h) /\ t = task[h].trip
              /\ task'[h].op = "rank" /\ task'[h].trip = t
              /\ task'[h].points = profile'[DriverOf[t]].points
              /\ awards' = [awards EXCEPT ![t] = @ + 1]
              /\ profile'[DriverOf[t]] # NoProfile
              /\ profile'[DriverOf[t]].points =
                   IF profile[DriverOf[t]] = NoProfile THEN Points(t)
                   ELSE profile[DriverOf[t]].points + Points(t)
              /\ \A e \in Driver : e # DriverOf[t] => profile'[e] = profile[e]
         \/ \E h \in Handler, t \in Trip :
              /\ WriteRank(h) /\ t = task[h].trip /\ task[h].op = "rank"
              /\ UNCHANGED awards
              /\ profile'[DriverOf[t]] # NoProfile
              /\ profile'[DriverOf[t]].points = profile[DriverOf[t]].points
              /\ profile'[DriverOf[t]].rank = RankOf(task[h].points)
              /\ \A e \in Driver : e # DriverOf[t] => profile'[e] = profile[e]
         \/ \E h \in Handler, d \in Driver :
              /\ ProfileCreate(h)
              /\ UNCHANGED awards
              /\ profile[d] = NoProfile /\ profile'[d] # NoProfile
              /\ profile'[d].points = 0 /\ profile'[d].rank = "SEED"
              /\ \A e \in Driver : e # d => profile'[e] = profile[e]
<1>0. /\ task \in [Handler -> Task]
      /\ profile \in [Driver -> {NoProfile} \cup [points : Nat, rank : Rank]]
      /\ awards \in [Trip -> Nat]
  BY DEF TypeOK
<1>1. ASSUME NEW h \in Handler, AwardWrite(h)
      PROVE  \E t \in Trip :
               /\ AwardWrite(h) /\ t = task[h].trip
               /\ task'[h].op = "rank" /\ task'[h].trip = t
               /\ task'[h].points = profile'[DriverOf[t]].points
               /\ awards' = [awards EXCEPT ![t] = @ + 1]
               /\ profile'[DriverOf[t]] # NoProfile
               /\ profile'[DriverOf[t]].points =
                    IF profile[DriverOf[t]] = NoProfile THEN Points(t)
                    ELSE profile[DriverOf[t]].points + Points(t)
               /\ \A e \in Driver : e # DriverOf[t] => profile'[e] = profile[e]
  BY <1>1, AwardEffect
<1>2. ASSUME NEW h \in Handler, WriteRank(h)
      PROVE  \E t \in Trip :
               /\ WriteRank(h) /\ t = task[h].trip /\ task[h].op = "rank"
               /\ UNCHANGED awards
               /\ profile'[DriverOf[t]] # NoProfile
               /\ profile'[DriverOf[t]].points = profile[DriverOf[t]].points
               /\ profile'[DriverOf[t]].rank = RankOf(task[h].points)
               /\ \A e \in Driver : e # DriverOf[t] => profile'[e] = profile[e]
  <2>1. PICK t \in Trip : t = task[h].trip /\ task[h].op = "rank"
    BY <1>0, <1>2, TaskShape DEF WriteRank, Op
  <2>2. PICK d \in Driver : d = DriverOf[t]
    BY DriverOfAssumption
  <2>3. PICK old \in [points : Nat, rank : Rank] : old = profile[d]
    BY <1>0, <2>1, <2>2 DEF AwardInv
  <2>4. PICK k : k = RankOf(task[h].points)
    OBVIOUS
  <2>5. profile' = [profile EXCEPT ![d] = [old EXCEPT !.rank = k]] /\ UNCHANGED awards
    BY <1>0, <1>2, <2>1, <2>2, <2>3, <2>4 DEF WriteRank
  <2>6. PICK row : row = [old EXCEPT !.rank = k]
    OBVIOUS
  <2>7. row.points = old.points /\ row.rank = k /\ row # NoProfile
    BY <2>3, <2>6 DEF NoProfile
  <2>8. profile'[d] = row /\ \A e \in Driver : e # d => profile'[e] = profile[e]
    BY <1>0, <2>5, <2>6
  <2> QED
    BY <1>2, <2>1, <2>2, <2>3, <2>4, <2>5, <2>7, <2>8
<1>3. ASSUME NEW h \in Handler, ProfileCreate(h)
      PROVE  \E d \in Driver :
               /\ ProfileCreate(h)
               /\ UNCHANGED awards
               /\ profile[d] = NoProfile /\ profile'[d] # NoProfile
               /\ profile'[d].points = 0 /\ profile'[d].rank = "SEED"
               /\ \A e \in Driver : e # d => profile'[e] = profile[e]
  <2>1. PICK d \in Driver : d = task[h].driver
    BY <1>0, <1>3, TaskShape DEF ProfileCreate, Op
  <2>2. PICK row : row = [points |-> 0, rank |-> "SEED"]
    OBVIOUS
  <2>3. row.points = 0 /\ row.rank = "SEED" /\ row # NoProfile
    BY <2>2 DEF NoProfile
  <2>4. profile[d] = NoProfile /\ profile' = [profile EXCEPT ![d] = row] /\ UNCHANGED awards
    BY <1>3, <2>1, <2>2 DEF ProfileCreate
  <2>5. profile'[d] = row /\ \A e \in Driver : e # d => profile'[e] = profile[e]
    BY <1>0, <2>4
  <2> QED
    BY <1>3, <2>3, <2>4, <2>5
<1>4. \/ UNCHANGED <<profile, awards>>
      \/ \E h \in Handler : AwardWrite(h) \/ WriteRank(h) \/ ProfileCreate(h)
  BY NextSteps, HandlerFrame, WorkerFrame DEF vars, StartTrip, Cancel
<1> QED
  BY <1>1, <1>2, <1>3, <1>4

\* A row of a profile stays.
LEMMA ProfileLasts ==
  ASSUME TypeOK, AwardInv, [Next]_vars, NEW d \in Driver, profile[d] # NoProfile
  PROVE  profile'[d] # NoProfile
BY ProfileChange

\* The points of a profile are those of the awards.
LEMMA PointsStep ==
  ASSUME TypeOK, AwardInv, [Next]_vars, NEW d \in Driver, profile'[d] # NoProfile
  PROVE  profile'[d].points = PointsFor(awards', TripsOf(d))
<1>0. /\ awards \in [Trip -> Nat]
      /\ profile[d] # NoProfile => profile[d].points = PointsFor(awards, TripsOf(d))
  BY DEF TypeOK, AwardInv, Awarded, TripsOf
<1>1. profile[d] = NoProfile => PointsFor(awards, TripsOf(d)) = 0
  <2> SUFFICES ASSUME profile[d] = NoProfile
               PROVE  PointsFor(awards, TripsOf(d)) = 0
    OBVIOUS
  <2>1. \A t \in TripsOf(d) : awards[t] = 0
    BY <1>0 DEF AwardInv, TripsOf
  <2> QED
    BY <1>0, <2>1, NothingAwarded
<1>2. CASE UNCHANGED <<profile, awards>>
  BY <1>0, <1>2
<1>3. CASE profile'[d].points = profile[d].points /\ profile[d] # NoProfile /\ UNCHANGED awards
  BY <1>0, <1>3
<1>4. CASE profile'[d].points = 0 /\ profile[d] = NoProfile /\ UNCHANGED awards
  BY <1>1, <1>4
<1>5. ASSUME NEW t \in Trip, awards' = [awards EXCEPT ![t] = @ + 1],
             profile'[DriverOf[t]].points =
               IF profile[DriverOf[t]] = NoProfile THEN Points(t)
               ELSE profile[DriverOf[t]].points + Points(t),
             \A e \in Driver : e # DriverOf[t] => profile'[e] = profile[e]
      PROVE  profile'[d].points = PointsFor(awards', TripsOf(d))
  <2>1. PointsFor(awards', TripsOf(d)) =
          IF DriverOf[t] = d THEN PointsFor(awards, TripsOf(d)) + Points(t)
          ELSE PointsFor(awards, TripsOf(d))
    BY <1>0, <1>5, AwardAdds
  <2>2. Points(t) \in Nat
    BY PointsType
  <2>3. CASE DriverOf[t] = d
    BY <1>0, <1>1, <1>5, <2>1, <2>2, <2>3
  <2>4. CASE DriverOf[t] # d
    BY <1>0, <1>5, <2>1, <2>4
  <2> QED
    BY <2>3, <2>4
<1>6. CASE profile'[d] = profile[d] /\ UNCHANGED awards
  BY <1>0, <1>6
<1>7. \/ UNCHANGED <<profile, awards>>
      \/ profile'[d].points = profile[d].points /\ profile[d] # NoProfile /\ UNCHANGED awards
      \/ profile'[d].points = 0 /\ profile[d] = NoProfile /\ UNCHANGED awards
      \/ profile'[d] = profile[d] /\ UNCHANGED awards
      \/ \E t \in Trip :
           /\ awards' = [awards EXCEPT ![t] = @ + 1]
           /\ profile'[DriverOf[t]].points =
                IF profile[DriverOf[t]] = NoProfile THEN Points(t)
                ELSE profile[DriverOf[t]].points + Points(t)
           /\ \A e \in Driver : e # DriverOf[t] => profile'[e] = profile[e]
  <2>1. \A h \in Handler : task[h].op = "rank" => profile[DriverOf[task[h].trip]] # NoProfile
    BY DEF AwardInv
  <2> QED
    BY <2>1, ProfileChange
<1> QED
  BY <1>2, <1>3, <1>4, <1>5, <1>6, <1>7

\* A trip is awarded after its requests met, to a profile there is.
LEMMA AwardsStep ==
  ASSUME TypeOK, AwardInv, [Next]_vars, NEW t \in Trip, awards'[t] > 0
  PROVE  t \in disturbed' /\ profile'[DriverOf[t]] # NoProfile
<1>0. awards \in [Trip -> Nat] /\ DriverOf[t] \in Driver /\ disturbed \subseteq disturbed'
  BY TaskFrame, DriverOfAssumption DEF TypeOK
<1>1. CASE awards'[t] = awards[t]
  BY <1>0, <1>1, ProfileLasts DEF AwardInv
<1>2. ASSUME NEW h \in Handler, AwardWrite(h), task[h].trip = t,
             profile'[DriverOf[t]] # NoProfile
      PROVE  t \in disturbed' /\ profile'[DriverOf[t]] # NoProfile
  BY <1>0, <1>2 DEF AwardWrite, Op, AwardInv
<1> QED
  BY <1>0, <1>1, <1>2, ProfileChange

\* The rank that is to be written is that of the points, unless another request came between.
LEMMA RankStep ==
  ASSUME TypeOK, AwardInv, [Next]_vars, NEW h \in Handler, task'[h].op = "rank",
         NEW d \in Driver, d = DriverOf[task'[h].trip]
  PROVE  /\ profile'[d] # NoProfile
         /\ d \in disturbed' \/ task'[h].points = profile'[d].points
<1>0. disturbed \subseteq disturbed' /\ \A g \in Handler : task[g] \in Task
  BY TaskFrame DEF TypeOK
<1>1. CASE task'[h] = task[h]
  <2>1. /\ profile[d] # NoProfile
        /\ d \in disturbed \/ task[h].points = profile[d].points
        /\ d \in Subject(task[h])
    BY <1>0, <1>1, SubjectFacts DEF AwardInv
  <2>2. ASSUME NEW g \in Handler, AwardWrite(g), d = DriverOf[task[g].trip]
        PROVE  d \in disturbed
    <3>1. d \in Subject(task[g]) /\ task[g].op # "rank"
      BY <1>0, <2>2, SubjectFacts DEF AwardWrite, Op
    <3> QED
      BY <1>1, <2>1, <3>1, Meeting
  <2>3. d \in disturbed \/ profile'[d].points = profile[d].points
    BY <2>1, <2>2, ProfileChange
  <2> QED
    BY <1>0, <1>1, <2>1, <2>3, ProfileLasts
<1>2. CASE HandlerStep(h) /\ task'[h] # task[h]
  <2>1. AwardWrite(h)
    BY <1>2, HandlerNext
  <2> QED
    BY <2>1, AwardEffect
<1> QED
  BY <1>1, <1>2, TaskFrame

\* A request with a rank to write writes it or breaks off.
LEMMA RankNext ==
  ASSUME NEW h \in Handler, HandlerStep(h), task[h].op = "rank"
  PROVE  WriteRank(h) \/ BreakOff(h)
<1>1. task[h] # Idle
  BY DEF Idle
<1>2. /\ \A o \in Order : ~Deliver(h, o) /\ ~Note(h, o)
      /\ \A t \in Trip : ~CompleteBegin(h, t)
      /\ \A d \in Driver : ~ProfileBegin(h, d)
  BY <1>1 DEF Deliver, Note, CompleteBegin, ProfileBegin
<1>3. ~CheckRead(h) /\ ~CheckWrite(h) /\ ~Enqueue(h) /\ ~CompleteWrite(h) /\ ~ReadLatest(h)
  BY DEF CheckRead, CheckWrite, Enqueue, CompleteWrite, ReadLatest, Op
<1>4. ~FindProfile(h) /\ ~AwardWrite(h) /\ ~AwardLost(h) /\ ~ProfileCreate(h)
  BY DEF FindProfile, AwardWrite, AwardLost, ProfileCreate, Op
<1> QED
  BY <1>2, <1>3, <1>4 DEF HandlerStep

\* The rank of a profile is that of its points, unless requests about it met, one broke
\* off, or one is about to write it.
LEMMA RankedStep ==
  ASSUME TypeOK, TypeOK', AwardInv, [Next]_vars, NEW d \in Driver
  PROVE  \/ d \in disturbed'
         \/ \E h \in Handler : task'[h].op = "rank" /\ d \in Subject(task'[h])
         \/ profile'[d].rank = RankOf(profile'[d].points)
<1>0. /\ disturbed \subseteq disturbed'
      /\ \A g \in Handler : task[g] \in Task /\ task'[g] \in Task
  BY TaskFrame DEF TypeOK
<1>1. ASSUME NEW h \in Handler, WriteRank(h), d = DriverOf[task[h].trip],
             profile'[d].rank = RankOf(task[h].points),
             profile'[d].points = profile[d].points
      PROVE  d \in disturbed' \/ profile'[d].rank = RankOf(profile'[d].points)
  <2>1. d \in disturbed \/ task[h].points = profile[d].points
    BY <1>1 DEF WriteRank, Op, AwardInv
  <2> QED
    BY <1>0, <1>1, <2>1
<1>2. ASSUME NEW h \in Handler, AwardWrite(h), d = DriverOf[task'[h].trip],
             task'[h].op = "rank"
      PROVE  d \in Subject(task'[h])
  BY <1>0, <1>2, SubjectFacts
<1>3. RankOf(0) = "SEED"
  BY DEF RankOf
<1>4. CASE profile'[d] = profile[d]
  <2>1. CASE d \in disturbed \/ profile[d].rank = RankOf(profile[d].points)
    BY <1>0, <1>4, <2>1
  <2>2. ASSUME NEW h \in Handler, task[h].op = "rank", d \in Subject(task[h]),
               task'[h] # task[h]
        PROVE  d \in disturbed' \/ profile'[d].rank = RankOf(profile'[d].points)
    <3>1. CASE BreakOff(h)
      BY <2>2, <3>1 DEF BreakOff
    <3>2. CASE WriteRank(h)
      <4>1. d = DriverOf[task[h].trip]
        BY <1>0, <2>2, SubjectFacts, TaskShape, KindsAssumption
      <4>2. /\ profile'[d].rank = RankOf(task[h].points)
            /\ profile'[d].points = profile[d].points
        <5>1. PICK old \in [points : Nat, rank : Rank] : old = profile[d]
          BY <2>2, <4>1 DEF AwardInv, TypeOK
        <5>2. PICK k : k = RankOf(task[h].points)
          OBVIOUS
        <5>3. profile' = [profile EXCEPT ![d] = [old EXCEPT !.rank = k]]
          BY <3>2, <4>1, <5>1, <5>2 DEF WriteRank, TypeOK
        <5>4. profile'[d] = [old EXCEPT !.rank = k]
          BY <5>3 DEF TypeOK
        <5> QED
          BY <1>4, <5>1, <5>2, <5>4
      <4> QED
        BY <1>1, <3>2, <4>1, <4>2
    <3>3. BreakOff(h) \/ WriteRank(h)
      <4>1. HandlerStep(h)
        BY <2>2, TaskFrame
      <4> QED
        BY <2>2, <4>1, RankNext
    <3> QED
      BY <3>1, <3>2, <3>3
  <2>3. \/ d \in disturbed \/ profile[d].rank = RankOf(profile[d].points)
        \/ \E h \in Handler : task[h].op = "rank" /\ d \in Subject(task[h])
    BY DEF AwardInv, Op
  <2> QED
    BY <2>1, <2>2, <2>3
<1> QED
  BY <1>1, <1>2, <1>3, <1>4, ProfileChange

LEMMA AwardStep ==
  ASSUME TypeOK, LogInv, AwardInv, [Next]_vars
  PROVE  AwardInv'
<1>0. TypeOK'
  BY TypeStep
<1>1. \A g, h \in Handler : g # h => Subject(task'[g]) \cap Subject(task'[h]) \subseteq disturbed'
  BY <1>0, OverlapStep
<1>2. ASSUME NEW h \in Handler
      PROVE  /\ task'[h].op = "complete" /\ task'[h].trip \notin disturbed' =>
                  trip'[task'[h].trip] = "IN_PROGRESS"
             /\ task'[h].op = "latest" /\ task'[h].trip \notin disturbed' =>
                  Uncharged(task[h].trip)'
             /\ task'[h].op \in {"find", "create", "increment", "rank"} =>
                  task'[h].trip \in disturbed'
             /\ task'[h].op = "rank" =>
                  /\ profile'[DriverOf[task'[h].trip]] # NoProfile
                  /\ \/ DriverOf[task'[h].trip] \in disturbed'
                     \/ task'[h].points = profile'[DriverOf[task'[h].trip]].points
  <2>1. task'[h].op \in {"complete", "latest", "rank"} => task'[h].trip \in Trip
    BY <1>0, TaskShape DEF TypeOK
  <2>2. ASSUME NEW t \in Trip, task'[h].op = "latest", t = task'[h].trip, t \notin disturbed'
        PROVE  Uncharged(task[h].trip)'
    <3>1. Uncharged(t)'
      BY <2>2, LatestStep
    <3> QED
      BY <2>2, <3>1 DEF Uncharged
  <2>3. task'[h].op = "latest" /\ task'[h].trip \notin disturbed' => Uncharged(task[h].trip)'
    BY <2>1, <2>2
  <2>4. task'[h].op = "complete" /\ task'[h].trip \notin disturbed' =>
          trip'[task'[h].trip] = "IN_PROGRESS"
    BY <2>1, CompleteStep
  <2>5. task'[h].op = "rank" =>
          /\ profile'[DriverOf[task'[h].trip]] # NoProfile
          /\ \/ DriverOf[task'[h].trip] \in disturbed'
             \/ task'[h].points = profile'[DriverOf[task'[h].trip]].points
    BY <2>1, RankStep, DriverOfAssumption
  <2> QED
    BY <2>3, <2>4, <2>5, FoundStep
<1>3. \A t \in Trip : awards'[t] > 0 =>
        t \in disturbed' /\ profile'[DriverOf[t]] # NoProfile
  BY AwardsStep
<1>4. \A d \in Driver : profile'[d] # NoProfile =>
        profile'[d].points = PointsFor(awards', {t \in Trip : DriverOf[t] = d})
  BY PointsStep DEF TripsOf
<1>5. \A d \in Driver :
        \/ d \in disturbed'
        \/ \E h \in Handler : Op(h, "rank")' /\ d \in Subject(task'[h])
        \/ profile'[d].rank = RankOf(profile'[d].points)
  BY <1>0, RankedStep DEF Op
<1> QED
  BY <1>1, <1>2, <1>3, <1>4, <1>5 DEF AwardInv, Awarded

LEMMA AwardInit == Init => AwardInv
<1> SUFFICES ASSUME Init PROVE AwardInv
  OBVIOUS
<1>1. /\ \A h \in Handler : task[h] = Idle /\ task[h].op = "idle"
      /\ Subject(Idle) = {}
  BY DEF Init, Idle, Subject
<1>2. \A t \in Trip : awards[t] = 0
  BY DEF Init
<1>3. \A d \in Driver : profile[d] = NoProfile /\ NoProfile.rank = "SEED" /\ NoProfile.points = -1
  BY DEF Init, NoProfile
<1>4. RankOf(-1) = "SEED"
  BY DEF RankOf
<1> QED
  BY <1>1, <1>2, <1>3, <1>4 DEF AwardInv

--------------------------------------------------------------------------------
(***************************************************************************)
(* Theorems.                                                               *)
(***************************************************************************)

\* The types, what logs rest on and who awards points hold in every state.
THEOREM Invariant == Spec => [](TypeOK /\ LogInv /\ AwardInv)
<1>1. Init => TypeOK /\ LogInv /\ AwardInv
  BY TypeInit, LogInit, AwardInit
<1>2. TypeOK /\ LogInv /\ AwardInv /\ [Next]_vars => (TypeOK /\ LogInv /\ AwardInv)'
  BY TypeStep, LogStep, AwardStep
<1> QED
  BY <1>1, <1>2, PTL DEF Spec

\* Every variable keeps its type, for any trips, workers and requests in flight.
THEOREM TypeCorrect == Spec => []TypeOK
BY Invariant, PTL

\* The versions of a trip's log have no gap and only the last is the latest; a log is that
\* of a trip that is over, and charges cancelled orders alone.
THEOREM LogsVersionedSafe == Spec => []LogsVersioned
<1>1. TypeOK /\ LogInv => LogsVersioned
  <2> SUFFICES ASSUME TypeOK, LogInv, NEW t \in Trip
               PROVE  /\ {l.version : l \in logs[t]} = 1..Cardinality(logs[t])
                      /\ \A l \in logs[t] :
                           /\ l.isLatest <=> l.version = Cardinality(logs[t])
                           /\ \A o \in l.charged : order[o].status = "CANCELLED"
                      /\ logs[t] # {} => trip[t] = "COMPLETED"
    BY DEF LogsVersioned
  <2>1. PICK n \in Nat : Versioned(logs[t], n)
    BY DEF LogInv
  <2>2. Cardinality(logs[t]) = n
    BY <2>1, VersionedLength
  <2>3. {l.version : l \in logs[t]} = 1..n
    BY <2>1 DEF Versioned
  <2>4. \A l \in logs[t] : l.isLatest <=> l.version = n
    BY <2>1 DEF Versioned
  <2> QED
    BY <2>2, <2>3, <2>4 DEF LogInv
<1> QED
  BY <1>1, Invariant, PTL

\* A profile holds the points of the trips awarded to its driver, and their rank unless
\* requests met or broke off; and no trip is awarded that was completed alone.
THEOREM PointsAccountedSafe == Spec => []PointsAccounted
<1>1. AwardInv => PointsAccounted
  BY DEF AwardInv, PointsAccounted, Awarded
<1> QED
  BY <1>1, Invariant, PTL
================================================================================

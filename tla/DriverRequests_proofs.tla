-------------------------- MODULE DriverRequests_proofs -------------------------
(***************************************************************************)
(* The safety of assignment requests, for any drivers, orders, trips,      *)
(* handlers, weights and capacity.  The inductive invariant says what a    *)
(* request in flight may rely on of what it read: a handler whose decision *)
(* was overtaken has its subject in contended, and one that adds to a trip *)
(* holds a sequence number that is taken as soon as its load is stale.     *)
(***************************************************************************)
EXTENDS DriverRequests, SetLemmas, SequenceTheorems

\* What request task r decides about stands as it was read, or the decision was
\* overtaken.
HoldsRequest(r) ==
  /\ r.request \in DOMAIN request
  /\ \/ <<"request", r.request>> \in contended
     \/ request[r.request].status = IF r.op = "confirm" THEN "APPROVED" ELSE "PENDING"

HoldsOrder(o) == <<"order", o>> \in contended \/ Loadable(o)

PendingPair(o, d) ==
  \E r \in DOMAIN request :
    /\ request[r].order = o /\ request[r].driver = d /\ request[r].status = "PENDING"

\* All numbers below n are taken on trip t.
TakenBelow(t, n) == \A j \in Nat \ {0} : j < n => SeqTaken(t, j)

HoldsStops(r) ==
  /\ trip[r.trip].status # "NONE"
  /\ r.next # 0
  /\ r.trip \notin shrunk => TakenBelow(r.trip, r.next)

TaskInv(r) ==
  /\ r.op \in {"pick", "cancel", "reject", "confirm", "add"} => HoldsRequest(r)
  /\ r.op \in {"requery", "newTrip"} /\ r.request # NoRequest =>
       /\ HoldsRequest(r)
       /\ request[r.request].order = r.order /\ request[r.request].driver = r.driver
  /\ r.op = "newTrip" => HoldsOrder(r.order)
  /\ r.op = "create" =>
       /\ HoldsOrder(r.order)
       /\ \/ <<"pair", <<r.order, r.driver>>>> \in contended
          \/ ~PendingPair(r.order, r.driver)
  /\ r.op \in {"add", "staffAdd"} => HoldsStops(r)
  /\ r.op = "add" =>
       /\ trip[r.trip].driver = request[r.request].driver
       /\ r.trip \in shrunk \/ SeqTaken(r.trip, r.next)
            \/ Fits(request[r.request].order, r.trip)

\* The stops of a trip are finitely many, no two have one number, and unless it lost one
\* while a request held them the numbers have no gap.
StopsInv(t) ==
  /\ IsFiniteSet(stops[t])
  /\ \A x, y \in stops[t] : x.seq = y.seq => x = y
  /\ t \notin shrunk => \A x \in stops[t] : TakenBelow(t, x.seq)

\* Two requests in flight to create the same row have met.
CreatesMeet ==
  \A g, h \in Handler :
    /\ g # h /\ Op(g, "create") /\ Op(h, "create")
    /\ task[g].order = task[h].order /\ task[g].driver = task[h].driver
    => <<"pair", <<task[g].order, task[g].driver>>>> \in contended

IInv ==
  /\ TypeOK
  /\ \A t \in Trip : StopsInv(t)
  /\ \A h \in Handler : TaskInv(task[h])
  /\ \A r \in Request \ DOMAIN request : carried[r] = NoDriver
  /\ CreatesMeet
  /\ RequestsFollowOrders
--------------------------------------------------------------------------------
(***************************************************************************)
(* Types.                                                                  *)
(***************************************************************************)

Subjects ==
  ({"order"} \X Order) \cup ({"request"} \X Request) \cup ({"pair"} \X (Order \X Driver))

\* What a request holds is determined by its next step.
LEMMA TaskShape ==
  ASSUME NEW r \in Task
  PROVE  /\ r.op \in {"pick", "cancel", "reject", "confirm"} => r.request \in Request
         /\ r.op = "add" => r.request \in Request /\ r.trip \in Trip /\ r.next \in Nat
         /\ r.op = "staffAdd" => r.order \in Order /\ r.trip \in Trip /\ r.next \in Nat
         /\ r.op = "create" => r.order \in Order /\ r.driver \in Driver
         /\ r.op \in {"requery", "newTrip"} =>
              r \in [op : {"requery", "newTrip"}, order : Order, driver : Driver,
                     request : Request \cup {NoRequest}]
BY DEF Task, Idle

LEMMA SubjectType ==
  ASSUME NEW r \in Task
  PROVE  Subject(r) \subseteq Subjects
BY TaskShape DEF Subject, Subjects

\* What is marked as contended is a subject.
LEMMA TouchType ==
  ASSUME TypeOK, NEW S, NEW G \in SUBSET Handler, Touch(S, G)
  PROVE  contended' \subseteq Subjects /\ contended \subseteq contended'
<1>1. \A g \in G : task[g] \in Task
  BY DEF TypeOK
<1>2. InFlight(G) \subseteq Subjects
  BY <1>1, SubjectType DEF InFlight
<1> QED
  BY <1>2 DEF TypeOK, Touch, Subjects

\* Rows as a sequence.
LEMMA RowsType ==
  ASSUME TypeOK
  PROVE  /\ DOMAIN request = 1..Len(request) /\ Len(request) \in Nat
         /\ DOMAIN request \subseteq Request
         /\ \A r \in DOMAIN request : request[r] \in RequestRow
BY BoundAssumption DEF TypeOK, Request

\* The rows keep their order and driver when some get another status.
LEMMA RowsKept ==
  ASSUME TypeOK,
         NEW status \in [DOMAIN request -> {"PENDING", "APPROVED", "REJECTED", "CANCELLED"}],
         request' = [s \in DOMAIN request |-> [request[s] EXCEPT !.status = status[s]]]
  PROVE  /\ request' \in Seq(RequestRow) /\ Len(request') = Len(request)
         /\ DOMAIN request' = DOMAIN request
         /\ \A s \in DOMAIN request :
              /\ request'[s].order = request[s].order
              /\ request'[s].driver = request[s].driver
              /\ request'[s].status = status[s]
<1>1. DOMAIN request = 1..Len(request) /\ Len(request) \in Nat
  BY RowsType
<1>2. \A s \in DOMAIN request :
        request[s] \in RequestRow /\ [request[s] EXCEPT !.status = status[s]] \in RequestRow
  BY RowsType DEF RequestRow
<1>3. request' \in [1..Len(request) -> RequestRow]
  BY <1>1, <1>2
<1>4. request' \in Seq(RequestRow) /\ Len(request') = Len(request)
  BY <1>1, <1>3, SeqDef
<1> QED
  BY <1>2, <1>4 DEF RequestRow

\* A number of its own for one more stop.
LEMMA NextSeqFacts ==
  ASSUME TypeOK, NEW t \in Trip, IsFiniteSet(stops[t])
  PROVE  /\ NextSeq(t) \in Nat \ {0}
         /\ \A s \in stops[t] : s.seq < NextSeq(t)
         /\ stops[t] # {} => \E s \in stops[t] : NextSeq(t) = s.seq + 1
         /\ stops[t] = {} => NextSeq(t) = 1
<1> DEFINE N == {s.seq : s \in stops[t]}
<1>0. stops[t] \in SUBSET Stop
  BY DEF TypeOK
<1>1. N \in SUBSET Nat /\ N \in SUBSET Int /\ \A s \in stops[t] : s.seq \in Nat \ {0}
  BY <1>0 DEF Stop
<1>2. IsFiniteSet(N)
  <2> DEFINE f == [s \in stops[t] |-> s.seq]
  <2>1. {f[s] : s \in stops[t]} = N
    OBVIOUS
  <2> HIDE DEF f, N
  <2> QED
    BY <2>1, ImageFacts
<1>3. CASE stops[t] = {}
  BY <1>3 DEF NextSeq
<1>4. CASE stops[t] # {}
  <2>1. N # {}
    BY <1>4
  <2> HIDE DEF N
  <2>2. Max(N) \in N /\ \A y \in N : Max(N) >= y
    BY <1>1, <1>2, <2>1, MaxFacts
  <2>3. NextSeq(t) = Max(N) + 1
    BY <1>4 DEF NextSeq, N
  <2> USE DEF N
  <2>4. \A s \in stops[t] : s.seq \in N
    OBVIOUS
  <2>5. PICK s \in stops[t] : Max(N) = s.seq
    BY <2>2
  <2> HIDE DEF N
  <2> QED
    BY <1>1, <1>4, <2>2, <2>3, <2>4, <2>5
<1> QED
  BY <1>3, <1>4

--------------------------------------------------------------------------------
(***************************************************************************)
(* What a step does to requests in flight.                                 *)
(***************************************************************************)

\* A step leaves the handlers in G where they are, and marks as contended what it takes
\* from under them.
Undisturbed(G) ==
  /\ \A g \in G : task'[g] = task[g]
  /\ contended \subseteq contended'
  /\ shrunk \subseteq shrunk'
  /\ \A r \in DOMAIN request :
       /\ r \in DOMAIN request'
       /\ request'[r].order = request[r].order
       /\ request'[r].driver = request[r].driver
       /\ \/ request'[r].status = request[r].status
          \/ <<"request", r>> \in InFlight(G) => <<"request", r>> \in contended'
  /\ \A o \in Order :
       Loadable(o) => \/ Loadable(o)'
                      \/ <<"order", o>> \in InFlight(G) => <<"order", o>> \in contended'
  /\ \A g \in G : Op(g, "create") =>
       LET o == task[g].order
           d == task[g].driver
       IN PendingPair(o, d)' => PendingPair(o, d) \/ <<"pair", <<o, d>>>> \in contended'
  /\ \A t \in Trip :
       /\ trip[t].status # "NONE" =>
            trip'[t].status # "NONE" /\ trip'[t].driver = trip[t].driver
  /\ \A g \in G : task[g].op \in {"add", "staffAdd"} =>
       LET t == task[g].trip
       IN \/ t \in shrunk'
          \/ stops'[t] = stops[t]
          \/ /\ SeqTaken(t, task[g].next)'
             /\ \A n \in Nat : SeqTaken(t, n) => SeqTaken(t, n)'

\* Then what the handlers in G hold is still sound.
LEMMA OthersSound ==
  ASSUME IInv, NEW G \in SUBSET Handler, Undisturbed(G)
  PROVE  \A g \in G : TaskInv(task[g])'
<1> SUFFICES ASSUME NEW g \in G PROVE TaskInv(task[g])'
  OBVIOUS
<1> DEFINE r == task[g]
<1>1. r \in Task /\ TaskInv(r) /\ task'[g] = r
  BY DEF IInv, TypeOK, Undisturbed
<1>2. \A s \in Subject(r) : s \in InFlight(G)
  BY DEF InFlight
<1>3. contended \subseteq contended' /\ shrunk \subseteq shrunk'
  BY DEF Undisturbed
<1>4. ASSUME NEW q \in DOMAIN request, <<"request", q>> \in Subject(r)
      PROVE  /\ q \in DOMAIN request'
             /\ request'[q].order = request[q].order
             /\ request'[q].driver = request[q].driver
             /\ <<"request", q>> \in contended' \/ request'[q].status = request[q].status
  BY <1>2, <1>4 DEF Undisturbed
<1>5. /\ r.op \in {"pick", "cancel", "reject", "confirm", "add"} =>
           <<"request", r.request>> \in Subject(r)
      /\ r.op \in {"requery", "newTrip"} /\ r.request # NoRequest =>
           <<"request", r.request>> \in Subject(r)
      /\ r.op \in {"requery", "newTrip", "create"} => <<"order", r.order>> \in Subject(r)
  BY DEF Subject
<1>6. ASSUME r.op \in {"newTrip", "create"}, HoldsOrder(r.order)
      PROVE  HoldsOrder(r.order)'
  <2>1. r.order \in Order
    BY <1>1, <1>6, TaskShape
  <2> QED
    BY <1>2, <1>3, <1>5, <1>6, <2>1 DEF HoldsOrder, Undisturbed
<1>7. ASSUME HoldsRequest(r), <<"request", r.request>> \in Subject(r)
      PROVE  HoldsRequest(r)'
  BY <1>1, <1>3, <1>4, <1>7 DEF HoldsRequest
<1>8. ASSUME r.op \in {"add", "staffAdd"}
      PROVE  /\ HoldsStops(r)'
             /\ r.op = "add" =>
                  /\ trip'[r.trip].driver = request'[r.request].driver
                  /\ r.trip \in shrunk' \/ SeqTaken(r.trip, r.next)'
                       \/ Fits(request[r.request].order, r.trip)'
  <2>1. r.trip \in Trip /\ r.next \in Nat
    BY <1>1, <1>8, TaskShape
  <2>2. HoldsStops(r)
    BY <1>1, <1>8 DEF TaskInv
  <2>3. /\ trip'[r.trip].status # "NONE"
        /\ trip'[r.trip].driver = trip[r.trip].driver
    BY <2>1, <2>2 DEF HoldsStops, Undisturbed
  <2>4. \/ r.trip \in shrunk'
        \/ stops'[r.trip] = stops[r.trip]
        \/ /\ SeqTaken(r.trip, r.next)'
           /\ \A n \in Nat : SeqTaken(r.trip, n) => SeqTaken(r.trip, n)'
    BY <1>8 DEF Undisturbed
  <2>5. r.trip \notin shrunk' => \A n \in Nat : SeqTaken(r.trip, n) => SeqTaken(r.trip, n)'
    BY <1>1, <2>4 DEF SeqTaken
  <2>6. HoldsStops(r)'
    BY <1>1, <1>3, <2>2, <2>3, <2>5 DEF HoldsStops, TakenBelow
  <2>7. CASE r.op = "add"
    <3>1. HoldsRequest(r)
      BY <1>1, <2>7 DEF TaskInv
    <3>2. request'[r.request].driver = request[r.request].driver
      BY <1>4, <1>5, <2>7, <3>1 DEF HoldsRequest
    <3>3. trip[r.trip].driver = request[r.request].driver
      BY <1>1, <2>7 DEF TaskInv
    <3>4. r.trip \in shrunk \/ SeqTaken(r.trip, r.next)
            \/ Fits(request[r.request].order, r.trip)
      BY <1>1, <2>7 DEF TaskInv
    <3>5. request'[r.request].order = request[r.request].order
      BY <1>4, <1>5, <2>7, <3>1 DEF HoldsRequest
    <3>6. stops'[r.trip] = stops[r.trip] =>
            /\ SeqTaken(r.trip, r.next) => SeqTaken(r.trip, r.next)'
            /\ Fits(request[r.request].order, r.trip) =>
                 Fits(request[r.request].order, r.trip)'
      BY <1>1, <3>5 DEF SeqTaken, Fits
    <3> QED
      BY <1>1, <1>3, <2>3, <2>4, <2>6, <3>2, <3>3, <3>4, <3>6
  <2> QED
    BY <2>6, <2>7
<1>9. r.op = "create" =>
         \/ <<"pair", <<r.order, r.driver>>>> \in contended'
         \/ ~PendingPair(r.order, r.driver)'
  BY <1>1, <1>3 DEF TaskInv, Undisturbed, Op
<1>10. r.op \in {"requery", "newTrip"} /\ r.request # NoRequest =>
         request'[r.request].order = r.order /\ request'[r.request].driver = r.driver
  BY <1>1, <1>4, <1>5 DEF TaskInv, HoldsRequest
<1>11. r.op = "newTrip" => HoldsOrder(r.order)'
  BY <1>1, <1>6 DEF TaskInv
<1>12. r.op = "create" => HoldsOrder(r.order)'
  BY <1>1, <1>6 DEF TaskInv
<1>13. \/ r.op \in {"pick", "cancel", "reject", "confirm", "add"}
       \/ r.op \in {"requery", "newTrip"} /\ r.request # NoRequest
       => HoldsRequest(r)'
  BY <1>1, <1>5, <1>7 DEF TaskInv
<1> QED
  BY <1>1, <1>8, <1>9, <1>10, <1>11, <1>12, <1>13 DEF TaskInv

\* A step that only moves handler h on, to something it may rely on.
LEMMA QuietStep ==
  ASSUME IInv, NEW h \in Handler, NEW r \in Task,
         task' = [task EXCEPT ![h] = r],
         UNCHANGED <<tripVars, request, carried, swept, shrunk>>,
         contended \subseteq contended', contended' \subseteq Subjects,
         TaskInv(r),
         \A g \in Handler \ {h} :
           /\ r.op = "create" /\ Op(g, "create")
           /\ task[g].order = r.order /\ task[g].driver = r.driver
           => <<"pair", <<r.order, r.driver>>>> \in contended'
  PROVE  IInv'
<1> USE DEF tripVars
<1>1. task \in [Handler -> Task] /\ task'[h] = r /\ task' \in [Handler -> Task]
      /\ \A g \in Handler \ {h} : task'[g] = task[g]
  BY DEF IInv, TypeOK
<1>2. TypeOK'
  BY <1>1 DEF IInv, TypeOK, Subjects
<1>3. Undisturbed(Handler \ {h})
  <2>1. \A o \in Order : Loadable(o) => Loadable(o)'
    BY DEF Loadable
  <2>2. \A o, d : PendingPair(o, d)' => PendingPair(o, d)
    BY DEF PendingPair
  <2>3. /\ trip' = trip /\ stops' = stops /\ request' = request /\ shrunk' = shrunk
        /\ \A g \in Handler \ {h} : task'[g] = task[g]
    BY <1>1
  <2> QED
    BY <2>1, <2>2, <2>3 DEF Undisturbed
<1>4. \A g \in Handler \ {h} : TaskInv(task[g])'
  BY <1>3, OthersSound
<1>5. TaskInv(task[h])'
  <2>1. TaskInv(r)'
    BY DEF TaskInv, HoldsRequest, HoldsOrder, Loadable, PendingPair, HoldsStops,
           TakenBelow, SeqTaken, Fits
  <2> QED
    BY <1>1, <2>1
<1>6. (\A t \in Trip : StopsInv(t))'
  BY DEF IInv, StopsInv, TakenBelow, SeqTaken
<1>7. CreatesMeet'
  <2> SUFFICES ASSUME NEW f \in Handler, NEW g \in Handler, f # g,
                      task'[f].op = "create", task'[g].op = "create",
                      task'[f].order = task'[g].order, task'[f].driver = task'[g].driver
               PROVE  <<"pair", <<task'[f].order, task'[f].driver>>>> \in contended'
    BY DEF CreatesMeet, Op
  <2>1. CASE f # h /\ g # h
    BY <1>1, <2>1 DEF IInv, CreatesMeet, Op
  <2>2. CASE f = h \/ g = h
    BY <1>1, <2>2 DEF Op
  <2> QED
    BY <2>1, <2>2
<1>8. RequestsFollowOrders'
  BY DEF IInv, RequestsFollowOrders, ApprovalIsLoading, PendingRequestsSound,
         NoneLeftPending, OnePendingPerPair, Pending, RequestsFor
<1>9. (\A q \in Request \ DOMAIN request : carried[q] = NoDriver)'
  BY DEF IInv
<1> QED
  BY <1>1, <1>2, <1>4, <1>5, <1>6, <1>7, <1>8, <1>9 DEF IInv

\* A handler that goes on and creates no row.
LEMMA ContinueStep ==
  ASSUME IInv, NEW h \in Handler, NEW r \in Task, r.op # "create",
         Continue(h, r), TaskInv(r),
         UNCHANGED <<tripVars, request, carried, swept, shrunk>>
  PROVE  IInv'
<1>1. contended' = contended /\ contended \subseteq Subjects
  BY DEF Continue, IInv, TypeOK, Subjects
<1> QED
  BY <1>1, QuietStep DEF Continue, Hold

\* A request that arrives.
LEMMA BeginStep ==
  ASSUME IInv, NEW h \in Handler, NEW r \in Task,
         Begin(h, r), TaskInv(r),
         UNCHANGED <<tripVars, request, carried, swept, shrunk>>
  PROVE  IInv'
<1>1. contended' \subseteq Subjects /\ contended \subseteq contended'
  BY TouchType DEF Begin, IInv
<1>2. ASSUME NEW g \in Handler, r.op = "create", Op(g, "create"),
             task[g].order = r.order, task[g].driver = r.driver
      PROVE  <<"pair", <<r.order, r.driver>>>> \in contended'
  <2>1. /\ <<"pair", <<r.order, r.driver>>>> \in Subject(r)
        /\ <<"pair", <<r.order, r.driver>>>> \in Subject(task[g])
    BY <1>2 DEF Subject, Op
  <2>2. <<"pair", <<r.order, r.driver>>>>[1] # "order"
    OBVIOUS
  <2> QED
    BY <2>1, <2>2 DEF Begin, Touch, InFlight
<1> QED
  BY <1>1, <1>2, QuietStep DEF Begin

LEMMA InitInv == Init => IInv
<1> SUFFICES ASSUME Init PROVE IInv
  OBVIOUS
<1>1. TypeOK
  <2>1. Idle \in Task /\ request \in Seq(RequestRow) /\ Len(request) = 0
    BY DEF Init, Task
  <2>2. order \in [Order -> OrderRow] /\ trip \in [Trip -> TripRow]
    BY DEF Init, OrderRow, TripRow
  <2> QED
    BY <2>1, <2>2, BoundAssumption DEF Init, TypeOK
<1>2. \A t \in Trip : StopsInv(t)
  BY FS_EmptySet DEF Init, StopsInv
<1>3. \A h \in Handler : task[h] = Idle
  BY DEF Init
<1>4. \A h \in Handler : TaskInv(task[h])
  BY <1>3 DEF TaskInv, Idle
<1>5. DOMAIN request = {}
  BY DEF Init
<1>6. CreatesMeet
  BY <1>3 DEF CreatesMeet, Op, Idle
<1>7. RequestsFollowOrders
  BY <1>5 DEF RequestsFollowOrders, ApprovalIsLoading, PendingRequestsSound, Init,
              NoneLeftPending, OnePendingPerPair, Pending, RequestsFor
<1> QED
  BY <1>1, <1>2, <1>4, <1>6, <1>7 DEF IInv, Init
--------------------------------------------------------------------------------
(***************************************************************************)
(* The steps that only read.                                               *)
(***************************************************************************)

LEMMA IdleSound == TaskInv(Idle) /\ Idle \in Task /\ Idle.op = "idle"
BY DEF TaskInv, Idle, Task

\* A request decidable when it is read is held as it is.
LEMMA DecidableHeld ==
  ASSUME TypeOK, NEW q \in Request, Decidable(q)
  PROVE  \A op \in {"pick", "cancel", "reject"} :
           /\ [op |-> op, request |-> q] \in Task
           /\ TaskInv([op |-> op, request |-> q])
BY DEF Decidable, TaskInv, HoldsRequest, Task

LEMMA CreateBeginInv ==
  ASSUME IInv, NEW h \in Handler, NEW o \in Order, NEW d \in Driver, CreateBegin(h, o, d)
  PROVE  IInv'
<1> DEFINE r == [op |-> "create", order |-> o, driver |-> d]
<1>1. r \in Task
  BY DEF Task
<1>2. ~PendingPair(o, d)
  BY DEF CreateBegin, Requestable, PendingPair, Pending, RequestsFor
<1>3. TaskInv(r)
  BY <1>2 DEF TaskInv, CreateBegin, Requestable, HoldsOrder
<1> QED
  BY <1>1, <1>3, BeginStep DEF CreateBegin

LEMMA ApproveBeginInv ==
  ASSUME IInv, NEW h \in Handler, NEW q \in Request, ApproveBegin(h, q)
  PROVE  IInv'
<1> DEFINE op == IF Loadable(request[q].order) THEN "pick" ELSE "cancel"
<1> DEFINE r == [op |-> op, request |-> q]
<1>1. r \in Task /\ TaskInv(r)
  BY DecidableHeld DEF ApproveBegin, IInv
<1>2. Begin(h, r) /\ UNCHANGED <<tripVars, request, carried, swept, shrunk>>
  BY DEF ApproveBegin
<1> HIDE DEF r
<1> QED
  BY <1>1, <1>2, BeginStep

LEMMA RejectBeginInv ==
  ASSUME IInv, NEW h \in Handler, NEW q \in Request, RejectBegin(h, q)
  PROVE  IInv'
<1> DEFINE r == [op |-> "reject", request |-> q]
<1>1. r \in Task /\ TaskInv(r)
  BY DecidableHeld DEF RejectBegin, IInv
<1> HIDE DEF r
<1> QED
  BY <1>1, BeginStep DEF RejectBegin, r

\* The number that is computed for a stop is free, and the numbers below it are taken.
LEMMA NextSeqHeld ==
  ASSUME IInv, NEW t \in Trip
  PROVE  /\ NextSeq(t) \in Nat \ {0}
         /\ t \notin shrunk => TakenBelow(t, NextSeq(t))
<1>1. TypeOK /\ StopsInv(t) /\ IsFiniteSet(stops[t])
  BY DEF IInv, StopsInv
<1>2. \A x \in stops[t] : x.seq \in Nat
  BY <1>1 DEF TypeOK, Stop
<1>3. ASSUME t \notin shrunk, NEW j \in Nat \ {0}, j < NextSeq(t)
      PROVE  SeqTaken(t, j)
  <2>1. stops[t] # {}
    BY <1>1, <1>3, NextSeqFacts
  <2>2. PICK x \in stops[t] : NextSeq(t) = x.seq + 1
    BY <1>1, <2>1, NextSeqFacts
  <2>3. CASE j = x.seq
    BY <2>3 DEF SeqTaken
  <2>4. CASE j < x.seq
    BY <1>1, <1>3, <2>4 DEF StopsInv, TakenBelow
  <2> QED
    BY <1>2, <1>3, <2>2, <2>3, <2>4
<1> QED
  BY <1>1, <1>3, NextSeqFacts DEF TakenBelow

LEMMA StaffAddBeginInv ==
  ASSUME IInv, NEW h \in Handler, NEW o \in Order, NEW t \in Trip, StaffAddBegin(h, o, t)
  PROVE  IInv'
<1> DEFINE r == [op |-> "staffAdd", order |-> o, trip |-> t, next |-> NextSeq(t)]
<1>1. NextSeq(t) \in Nat \ {0} /\ (t \notin shrunk => TakenBelow(t, NextSeq(t)))
  BY NextSeqHeld
<1>2. r \in Task
  BY <1>1 DEF Task
<1>3. TaskInv(r)
  BY <1>1 DEF TaskInv, StaffAddBegin, HoldsStops
<1> HIDE DEF r
<1> QED
  BY <1>2, <1>3, BeginStep DEF StaffAddBegin, r

LEMMA DispatchBeginInv ==
  ASSUME IInv, NEW h \in Handler, NEW o \in Order, NEW d \in Driver, DispatchBegin(h, o, d)
  PROVE  IInv'
<1> DEFINE r == [op |-> "requery", order |-> o, driver |-> d, request |-> NoRequest]
<1>1. r \in Task /\ TaskInv(r)
  BY DEF Task, TaskInv
<1> HIDE DEF r
<1> QED
  BY <1>1, BeginStep DEF DispatchBegin, r

LEMMA RequeryInv ==
  ASSUME IInv, NEW h \in Handler, Requery(h)
  PROVE  IInv'
<1> DEFINE s == task[h]
           r == [s EXCEPT !.op = "newTrip"]
<1>1. s \in Task /\ TaskInv(s) /\ s.op = "requery" /\ Loadable(s.order)
  BY DEF IInv, TypeOK, Requery, Op
<1>2. s \in [op : {"requery", "newTrip"}, order : Order, driver : Driver,
             request : Request \cup {NoRequest}]
  BY <1>1, TaskShape
<1>3. /\ r \in [op : {"requery", "newTrip"}, order : Order, driver : Driver,
                request : Request \cup {NoRequest}]
      /\ r.op = "newTrip" /\ r.order = s.order /\ r.driver = s.driver
      /\ r.request = s.request
  BY <1>2
<1>4. Continue(h, r) /\ UNCHANGED <<tripVars, request, carried, swept, shrunk>>
  BY DEF Requery
<1> HIDE DEF r, s
<1>5. r \in Task
  BY <1>3 DEF Task
<1>6. TaskInv(r)
  BY <1>1, <1>3 DEF TaskInv, HoldsRequest, HoldsOrder
<1> QED
  BY <1>3, <1>4, <1>5, <1>6, ContinueStep

LEMMA BreakOffInv ==
  ASSUME IInv, NEW h \in Handler, BreakOff(h)
  PROVE  IInv'
BY IdleSound, ContinueStep DEF BreakOff

\* The warehouse's choice: a waiting trip with room, or a new one.
LEMMA ApprovePickInv ==
  ASSUME IInv, NEW h \in Handler, ApprovePick(h)
  PROVE  IInv'
<1> DEFINE q == task[h].request
           d == request[q].driver
           o == request[q].order
<1>1. task[h] \in Task /\ TaskInv(task[h]) /\ task[h].op = "pick"
  BY DEF IInv, TypeOK, ApprovePick, Op
<1>2. q \in DOMAIN request /\ q \in Request /\ HoldsRequest(task[h])
  BY <1>1, TaskShape DEF TaskInv, HoldsRequest
<1>3. o \in Order /\ d \in Driver
  BY <1>2, RowsType DEF IInv, RequestRow
<1>4. <<"request", q>> \in contended \/ request[q].status = "PENDING"
  BY <1>1, <1>2 DEF HoldsRequest
<1>5. UNCHANGED <<tripVars, request, carried, swept, shrunk>>
  BY DEF ApprovePick
<1>6. ASSUME NEW t \in TripsOf(d, "PENDING"), Fits(o, t),
             Continue(h, [op |-> "add", request |-> q, trip |-> t, next |-> NextSeq(t)])
      PROVE  IInv'
  <2> DEFINE r == [op |-> "add", request |-> q, trip |-> t, next |-> NextSeq(t)]
  <2>1. t \in Trip /\ trip[t].driver = d /\ trip[t].status = "PENDING"
    BY DEF TripsOf
  <2>2. NextSeq(t) \in Nat \ {0} /\ (t \notin shrunk => TakenBelow(t, NextSeq(t)))
    BY <2>1, NextSeqHeld
  <2>3. r \in Task
    BY <1>2, <2>1, <2>2 DEF Task
  <2>4. TaskInv(r)
    BY <1>2, <1>4, <1>6, <2>1, <2>2 DEF TaskInv, HoldsRequest, HoldsStops
  <2>5. r.op # "create" /\ Continue(h, r)
    BY <1>6
  <2> HIDE DEF r
  <2> QED
    BY <1>5, <2>3, <2>4, <2>5, ContinueStep
<1>7. ASSUME Continue(h, [op |-> "requery", order |-> o, driver |-> d, request |-> q])
      PROVE  IInv'
  <2> DEFINE r == [op |-> "requery", order |-> o, driver |-> d, request |-> q]
  <2>1. r \in Task
    BY <1>2, <1>3 DEF Task
  <2>2. TaskInv(r)
    BY <1>2, <1>4 DEF TaskInv, HoldsRequest
  <2>3. r.op # "create" /\ Continue(h, r)
    BY <1>7
  <2> HIDE DEF r
  <2> QED
    BY <1>5, <2>1, <2>2, <2>3, ContinueStep
<1> QED
  BY <1>6, <1>7 DEF ApprovePick
--------------------------------------------------------------------------------
(***************************************************************************)
(* The steps that write, part by part of the invariant.                    *)
(***************************************************************************)

\* A handler is moved on, the rest of TypeOK and of the handlers being known.
LEMMA MoveOn ==
  ASSUME IInv, NEW h \in Handler, NEW r \in Task, r.op # "create",
         task' = [task EXCEPT ![h] = r],
         contended \subseteq contended',
         TaskInv(r)', Undisturbed(Handler \ {h})
  PROVE  /\ task' \in [Handler -> Task]
         /\ (\A g \in Handler : TaskInv(task[g]))'
         /\ CreatesMeet'
<1>1. /\ task' \in [Handler -> Task] /\ task'[h] = r
      /\ \A g \in Handler \ {h} : task'[g] = task[g]
  BY DEF IInv, TypeOK
<1>2. \A g \in Handler \ {h} : TaskInv(task[g])'
  BY OthersSound
<1>3. TaskInv(task[h])'
  BY <1>1
<1>4. CreatesMeet'
  BY <1>1 DEF IInv, CreatesMeet, Op
<1> QED
  BY <1>1, <1>2, <1>3, <1>4

\* No handler moves.
LEMMA StayPut ==
  ASSUME IInv, UNCHANGED task, contended \subseteq contended', Undisturbed(Handler)
  PROVE  /\ task' \in [Handler -> Task]
         /\ (\A g \in Handler : TaskInv(task[g]))'
         /\ CreatesMeet'
<1>1. \A g \in Handler : TaskInv(task[g])'
  BY OthersSound
<1>2. CreatesMeet'
  BY DEF IInv, CreatesMeet, Op
<1> QED
  BY <1>1, <1>2 DEF IInv, TypeOK

\* A step that writes no request and loads no order that it does not sweep.
LEMMA BoardKept ==
  ASSUME IInv, UNCHANGED <<request, carried>>, contended \subseteq contended',
         \A o \in swept' : order'[o].trip # NoTrip => o \in swept /\ order[o].trip # NoTrip
  PROVE  /\ RequestsFollowOrders'
         /\ (\A r \in Request \ DOMAIN request : carried[r] = NoDriver)'
<1>1. ApprovalIsLoading'
  BY DEF IInv, RequestsFollowOrders, ApprovalIsLoading
<1>2. NoneLeftPending'
  BY DEF IInv, RequestsFollowOrders, PendingRequestsSound, NoneLeftPending, Pending,
         RequestsFor
<1>3. OnePendingPerPair'
  BY DEF IInv, RequestsFollowOrders, PendingRequestsSound, OnePendingPerPair, Pending
<1> QED
  BY <1>1, <1>2, <1>3 DEF RequestsFollowOrders, PendingRequestsSound, IInv

\* The stops of a trip get one more, at a number that is free and has none free below.
LEMMA StopAdded ==
  ASSUME IInv, NEW t \in Trip, NEW o \in Order, NEW n \in Nat \ {0},
         ~SeqTaken(t, n), t \notin shrunk => TakenBelow(t, n), UNCHANGED shrunk,
         stops' = [stops EXCEPT ![t] = @ \cup {[order |-> o, seq |-> n]}]
  PROVE  stops' \in [Trip -> SUBSET Stop] /\ (\A u \in Trip : StopsInv(u))'
<1> DEFINE z == [order |-> o, seq |-> n]
<1>1. stops \in [Trip -> SUBSET Stop] /\ z \in Stop /\ z.seq = n
  BY DEF IInv, TypeOK, Stop
<1>2. /\ stops'[t] = stops[t] \cup {z}
      /\ \A u \in Trip \ {t} : stops'[u] = stops[u]
      /\ stops' \in [Trip -> SUBSET Stop]
  BY <1>1
<1> HIDE DEF z
<1>3. \A u \in Trip : StopsInv(u)
  BY DEF IInv
<1>4. \A u \in Trip : \A j : SeqTaken(u, j) => SeqTaken(u, j)'
  BY <1>2 DEF SeqTaken
<1>5. ASSUME NEW u \in Trip, u # t PROVE StopsInv(u)'
  BY <1>2, <1>3, <1>4, <1>5 DEF StopsInv, TakenBelow
<1>6. StopsInv(t)'
  <2>1. IsFiniteSet(stops'[t])
    BY <1>2, <1>3, FS_AddElement DEF StopsInv
  <2>2. \A x, y \in stops'[t] : x.seq = y.seq => x = y
    BY <1>1, <1>2, <1>3 DEF StopsInv, SeqTaken
  <2>3. t \notin shrunk' => \A x \in stops'[t] : TakenBelow(t, x.seq)'
    BY <1>1, <1>2, <1>3, <1>4 DEF StopsInv, TakenBelow
  <2> QED
    BY <2>1, <2>2, <2>3 DEF StopsInv
<1> QED
  BY <1>2, <1>5, <1>6

\* Of two that hold a number for a stop of one trip, the second to write finds its own
\* number, or all that it counted on, taken.
LEMMA StopAddedOthers ==
  ASSUME IInv, NEW h \in Handler, task[h].op \in {"add", "staffAdd"},
         NEW o \in Order, ~SeqTaken(task[h].trip, task[h].next), UNCHANGED shrunk,
         stops' = [stops EXCEPT ![task[h].trip] =
                     @ \cup {[order |-> o, seq |-> task[h].next]}],
         NEW g \in Handler, task[g].op \in {"add", "staffAdd"}, task'[g] = task[g]
  PROVE  LET t == task[g].trip
         IN \/ t \in shrunk'
            \/ stops'[t] = stops[t]
            \/ /\ SeqTaken(t, task[g].next)'
               /\ \A n \in Nat : SeqTaken(t, n) => SeqTaken(t, n)'
<1> DEFINE t == task[g].trip
           n == task[h].next
           z == [order |-> o, seq |-> n]
<1>1. /\ task[h].trip \in Trip /\ n \in Nat \ {0} /\ HoldsStops(task[h])
      /\ t \in Trip /\ task[g].next \in Nat \ {0} /\ HoldsStops(task[g])
  BY TaskShape DEF IInv, TypeOK, TaskInv, HoldsStops
<1>2. CASE t # task[h].trip
  BY <1>1, <1>2 DEF IInv, TypeOK
<1>3. CASE t = task[h].trip /\ t \notin shrunk
  <2>1. stops'[t] = stops[t] \cup {z} /\ z.seq = n
    BY <1>1, <1>3 DEF IInv, TypeOK
  <2>2. /\ \E s \in stops'[t] : s.seq = n
        /\ \A j : SeqTaken(t, j) => \E s \in stops'[t] : s.seq = j
    BY <2>1 DEF SeqTaken
  <2>8. SUFFICES \E s \in stops'[t] : s.seq = task[g].next
    BY <2>2 DEF SeqTaken
  <2>3. TakenBelow(t, task[g].next)
    BY <1>1, <1>3 DEF HoldsStops
  <2>4. ~(n < task[g].next)
    BY <1>1, <1>3, <2>3 DEF TakenBelow
  <2>5. TakenBelow(t, n)
    BY <1>1, <1>3 DEF HoldsStops
  <2>6. CASE task[g].next = n
    BY <2>2, <2>6
  <2>7. CASE task[g].next < n
    BY <1>1, <2>2, <2>5, <2>7 DEF TakenBelow
  <2> QED
    BY <1>1, <2>2, <2>4, <2>6, <2>7
<1>4. CASE t \in shrunk
  BY <1>4
<1> QED
  BY <1>2, <1>3, <1>4
--------------------------------------------------------------------------------
(***************************************************************************)
(* The rows after a decision.                                              *)
(***************************************************************************)

\* A decision by id writes one row.
LEMMA OneDecided ==
  ASSUME TypeOK, NEW q \in DOMAIN request,
         NEW st \in {"PENDING", "APPROVED", "REJECTED", "CANCELLED"},
         request' = SetStatus({q}, st)
  PROVE  /\ request' \in Seq(RequestRow) /\ Len(request') = Len(request)
         /\ DOMAIN request' = DOMAIN request
         /\ \A s \in DOMAIN request :
              /\ request'[s].order = request[s].order
              /\ request'[s].driver = request[s].driver
              /\ request'[s].status = IF s = q THEN st ELSE request[s].status
<1> DEFINE f == [s \in DOMAIN request |-> IF s = q THEN st ELSE request[s].status]
<1>1. \A s \in DOMAIN request : request[s] \in RequestRow
  BY RowsType
<1>2. f \in [DOMAIN request -> {"PENDING", "APPROVED", "REJECTED", "CANCELLED"}]
  BY <1>1 DEF RequestRow
<1>3. \A s \in DOMAIN request : [request[s] EXCEPT !.status = request[s].status] = request[s]
  BY <1>1 DEF RequestRow
<1>4. request' = [s \in DOMAIN request |-> [request[s] EXCEPT !.status = f[s]]]
  BY <1>3 DEF SetStatus
<1>5. \A s \in DOMAIN request : f[s] = IF s = q THEN st ELSE request[s].status
  OBVIOUS
<1> HIDE DEF f
<1> QED
  BY <1>2, <1>4, <1>5, RowsKept

\* A sweep approves one row and cancels the pending ones of the same order.
LEMMA SweptRows ==
  ASSUME TypeOK, NEW o, NEW q, Sweep(o, q)
  PROVE  /\ request' \in Seq(RequestRow) /\ Len(request') = Len(request)
         /\ DOMAIN request' = DOMAIN request
         /\ \A s \in DOMAIN request :
              /\ request'[s].order = request[s].order
              /\ request'[s].driver = request[s].driver
              /\ request'[s].status =
                   IF s = q THEN "APPROVED"
                   ELSE IF request[s].order = o /\ request[s].status = "PENDING"
                        THEN "CANCELLED" ELSE request[s].status
<1> DEFINE f == [s \in DOMAIN request |->
                   IF s = q THEN "APPROVED"
                   ELSE IF request[s].order = o /\ request[s].status = "PENDING"
                        THEN "CANCELLED" ELSE request[s].status]
<1>1. \A s \in DOMAIN request : request[s] \in RequestRow
  BY RowsType
<1>2. f \in [DOMAIN request -> {"PENDING", "APPROVED", "REJECTED", "CANCELLED"}]
  BY <1>1 DEF RequestRow
<1>3. \A s \in DOMAIN request :
        s \in Others(o, q) <=>
          s # q /\ request[s].order = o /\ request[s].status = "PENDING"
  BY DEF Others, Pending, RequestsFor
<1>4. \A s \in DOMAIN request :
        /\ [request[s] EXCEPT !.status = IF s = q THEN "APPROVED"
                                         ELSE IF s \in Others(o, q) THEN "CANCELLED"
                                         ELSE @] =
             [request[s] EXCEPT !.status = f[s]]
  BY <1>1, <1>3 DEF RequestRow
<1>5. request' = [s \in DOMAIN request |-> [request[s] EXCEPT !.status = f[s]]]
  BY <1>4 DEF Sweep
<1>6. \A s \in DOMAIN request :
        f[s] = IF s = q THEN "APPROVED"
               ELSE IF request[s].order = o /\ request[s].status = "PENDING"
                    THEN "CANCELLED" ELSE request[s].status
  OBVIOUS
<1> HIDE DEF f
<1> QED
  BY <1>2, <1>5, <1>6, RowsKept

\* What the sweep does to the requests that follow the orders: the approved one has its
\* order on a trip of its driver, or decisions about it overlapped, and nobody waits
\* for the order any more.
LEMMA SweepFollows ==
  ASSUME IInv, NEW o \in Order, NEW q \in Request \cup {NoRequest}, Sweep(o, q),
         contended \subseteq contended',
         \/ UNCHANGED carried
         \/ q # NoRequest /\ carried' = [carried EXCEPT ![q] = request[q].driver],
         q # NoRequest =>
           /\ q \in DOMAIN request /\ request[q].order = o
           /\ \/ carried'[q] = request[q].driver
              \/ {<<"request", q>>, <<"order", o>>} \cap contended # {},
         \A p \in swept' \ {o} :
           order'[p].trip # NoTrip => p \in swept /\ order[p].trip # NoTrip
  PROVE  /\ RequestsFollowOrders'
         /\ (\A r \in Request \ DOMAIN request : carried[r] = NoDriver)'
<1>1. /\ DOMAIN request' = DOMAIN request /\ DOMAIN request \subseteq Request
      /\ \A s \in DOMAIN request :
           /\ request'[s].order = request[s].order
           /\ request'[s].driver = request[s].driver
           /\ request'[s].status =
                IF s = q THEN "APPROVED"
                ELSE IF request[s].order = o /\ request[s].status = "PENDING"
                     THEN "CANCELLED" ELSE request[s].status
  BY SweptRows, RowsType DEF IInv
<1>2. \A s \in Request : s # q => carried'[s] = carried[s]
  BY DEF IInv, TypeOK
<1>3. NoRequest \notin Request
  BY BoundAssumption DEF NoRequest, Request
<1>4. ApprovalIsLoading'
  <2> SUFFICES ASSUME NEW s \in DOMAIN request,
                      {<<"request", s>>, <<"order", request[s].order>>} \cap contended = {}
               PROVE  request'[s].status = "APPROVED" <=> carried'[s] = request[s].driver
    BY <1>1 DEF ApprovalIsLoading
  <2>1. CASE s = q
    BY <1>1, <1>3, <2>1
  <2>2. CASE s # q
    <3>1. carried'[s] = carried[s]
      BY <1>1, <1>2, <2>2
    <3>2. request[s].status = "APPROVED" <=> carried[s] = request[s].driver
      BY DEF IInv, RequestsFollowOrders, ApprovalIsLoading
    <3> QED
      BY <1>1, <2>2, <3>1, <3>2
  <2> QED
    BY <2>1, <2>2
<1>5. \A s \in DOMAIN request :
        request'[s].status = "PENDING" => request[s].status = "PENDING" /\ request[s].order # o
  BY <1>1
<1>6. NoneLeftPending'
  <2> SUFFICES ASSUME NEW p \in swept', order'[p].trip # NoTrip,
                      <<"order", p>> \notin contended', NEW s \in DOMAIN request',
                      request'[s].order = p, request'[s].status = "PENDING"
               PROVE  FALSE
    BY DEF NoneLeftPending, Pending, RequestsFor
  <2>1. s \in DOMAIN request /\ request[s].status = "PENDING" /\ request[s].order = p /\ p # o
    BY <1>1, <1>5
  <2>2. p \in swept /\ order[p].trip # NoTrip /\ <<"order", p>> \notin contended
    BY <2>1
  <2> QED
    BY <2>1, <2>2 DEF IInv, RequestsFollowOrders, PendingRequestsSound, NoneLeftPending,
                      Pending, RequestsFor
<1>7. OnePendingPerPair'
  <2> SUFFICES ASSUME NEW r \in DOMAIN request', NEW s \in DOMAIN request', r # s,
                      request'[r].status = "PENDING", request'[s].status = "PENDING",
                      request'[r].order = request'[s].order,
                      request'[r].driver = request'[s].driver
               PROVE  <<"pair", <<request'[r].order, request'[r].driver>>>> \in contended'
    BY DEF OnePendingPerPair, Pending
  <2> QED
    BY <1>1, <1>5 DEF IInv, RequestsFollowOrders, PendingRequestsSound, OnePendingPerPair,
                      Pending
<1>8. (\A r \in Request \ DOMAIN request : carried[r] = NoDriver)'
  BY <1>1, <1>2, <1>3 DEF IInv
<1> QED
  BY <1>4, <1>6, <1>7, <1>8 DEF RequestsFollowOrders, PendingRequestsSound
--------------------------------------------------------------------------------
(***************************************************************************)
(* The steps that write.                                                   *)
(***************************************************************************)

\* Of what a step marks, what a request in flight is about is contended.
LEMMA Touched ==
  ASSUME NEW S, NEW G \in SUBSET Handler, Touch(S, G)
  PROVE  /\ contended \subseteq contended'
         /\ \A x \in S : x \in InFlight(G) => x \in contended'
BY DEF Touch

LEMMA OverruleInv ==
  ASSUME IInv, NEW h \in Handler,
         NEW op, NEW st, Overrule(h, op, st),
         \/ op = "cancel" /\ st = "CANCELLED"
         \/ op = "reject" /\ st = "REJECTED"
         \/ op = "confirm" /\ st = "APPROVED"
  PROVE  IInv'
<1> DEFINE q == task[h].request
<1>1. /\ task[h] \in Task /\ TaskInv(task[h]) /\ task[h].op = op /\ TypeOK
      /\ op \in {"cancel", "reject", "confirm"}
  BY DEF IInv, TypeOK, Overrule, Op
<1>2. q \in DOMAIN request /\ Subject(task[h]) = {<<"request", q>>} /\ HoldsRequest(task[h])
  BY <1>1 DEF TaskInv, HoldsRequest, Subject
<1>3. /\ request' \in Seq(RequestRow) /\ Len(request') = Len(request)
      /\ DOMAIN request' = DOMAIN request
      /\ \A s \in DOMAIN request :
           /\ request'[s].order = request[s].order
           /\ request'[s].driver = request[s].driver
           /\ request'[s].status = IF s = q THEN st ELSE request[s].status
  <2>1. request' = SetStatus({q}, st) /\ q \in DOMAIN request
    BY <1>2 DEF Overrule
  <2>2. st \in {"PENDING", "APPROVED", "REJECTED", "CANCELLED"}
    OBVIOUS
  <2> HIDE DEF q
  <2> QED
    BY <1>1, <2>1, <2>2, OneDecided
<1>4. /\ contended \subseteq contended' /\ contended' \subseteq Subjects
      /\ <<"request", q>> \in InFlight(Handler \ {h}) => <<"request", q>> \in contended'
  BY <1>1, <1>2, TouchType, Touched DEF Overrule
<1>5. UNCHANGED <<order, trip, stops, carried, swept, shrunk>> /\ task' = [task EXCEPT ![h] = Idle]
  BY DEF Overrule, tripVars, Hold
<1>6. \A g \in Handler \ {h} : task'[g] = task[g]
  BY <1>1, <1>5 DEF TypeOK
<1>7. Undisturbed(Handler \ {h})
  <2>1. \A o \in Order : Loadable(o) => Loadable(o)'
    BY <1>5 DEF Loadable
  <2>2. \A o, d : PendingPair(o, d)' => PendingPair(o, d)
    BY <1>1, <1>3 DEF PendingPair
  <2>3. \A r \in DOMAIN request :
          /\ r \in DOMAIN request'
          /\ request'[r].order = request[r].order
          /\ request'[r].driver = request[r].driver
          /\ \/ request'[r].status = request[r].status
             \/ <<"request", r>> \in InFlight(Handler \ {h}) => <<"request", r>> \in contended'
    BY <1>3, <1>4
  <2> QED
    BY <1>4, <1>5, <1>6, <2>1, <2>2, <2>3 DEF Undisturbed
<1>8. TaskInv(Idle)'
  BY DEF TaskInv, Idle
<1>9. /\ task' \in [Handler -> Task]
      /\ (\A g \in Handler : TaskInv(task[g]))'
      /\ CreatesMeet'
  BY <1>4, <1>5, <1>7, <1>8, IdleSound, MoveOn
<1>10. TypeOK'
  BY <1>1, <1>3, <1>4, <1>5, <1>9 DEF TypeOK, Subjects
<1>11. (\A t \in Trip : StopsInv(t))'
  BY <1>5 DEF IInv, StopsInv, TakenBelow, SeqTaken
<1>12. ApprovalIsLoading'
  <2> SUFFICES ASSUME NEW s \in DOMAIN request,
                      {<<"request", s>>, <<"order", request[s].order>>} \cap contended = {}
               PROVE  request'[s].status = "APPROVED" <=> carried[s] = request[s].driver
    BY <1>3, <1>4, <1>5 DEF ApprovalIsLoading
  <2>1. request[s].status = "APPROVED" <=> carried[s] = request[s].driver
    BY DEF IInv, RequestsFollowOrders, ApprovalIsLoading
  <2>2. s = q => (request'[s].status = "APPROVED" <=> request[s].status = "APPROVED")
    BY <1>1, <1>2, <1>3 DEF HoldsRequest
  <2> QED
    BY <1>3, <2>1, <2>2
<1>13. \A s \in DOMAIN request : request'[s].status = "PENDING" => request[s].status = "PENDING"
  BY <1>1, <1>3
<1>14. NoneLeftPending'
  BY <1>3, <1>4, <1>5, <1>13 DEF IInv, RequestsFollowOrders, PendingRequestsSound,
     NoneLeftPending, Pending, RequestsFor
<1>15. OnePendingPerPair'
  <2> SUFFICES ASSUME NEW r \in DOMAIN request, NEW s \in DOMAIN request, r # s,
                      request'[r].status = "PENDING", request'[s].status = "PENDING",
                      request[r].order = request[s].order,
                      request[r].driver = request[s].driver
               PROVE  <<"pair", <<request[r].order, request[r].driver>>>> \in contended
    BY <1>3, <1>4 DEF OnePendingPerPair, Pending
  <2> QED
    BY <1>13 DEF IInv, RequestsFollowOrders, PendingRequestsSound, OnePendingPerPair, Pending
<1> QED
  BY <1>3, <1>5, <1>9, <1>10, <1>11, <1>12, <1>14, <1>15
     DEF IInv, RequestsFollowOrders, PendingRequestsSound

\* A row is created: nobody waits for the order on a trip, or the order is contended.
LEMMA CreateWriteInv ==
  ASSUME IInv, NEW h \in Handler, CreateWrite(h)
  PROVE  IInv'
<1> DEFINE o == task[h].order
           d == task[h].driver
           row == [order |-> o, driver |-> d, status |-> "PENDING"]
           n == Len(request) + 1
<1>1. /\ task[h] \in Task /\ TaskInv(task[h]) /\ task[h].op = "create" /\ TypeOK
      /\ o \in Order /\ d \in Driver /\ Len(request) < MaxRequests
  BY TaskShape DEF IInv, TypeOK, CreateWrite, Op
<1>2. row \in RequestRow /\ row.status = "PENDING" /\ row.order = o /\ row.driver = d
  BY <1>1 DEF RequestRow
<1>3. UNCHANGED <<order, trip, stops, carried, swept, shrunk, contended>>
      /\ task' = [task EXCEPT ![h] = Idle] /\ request' = Append(request, row)
  BY DEF CreateWrite, tripVars, Continue, Hold
<1> HIDE DEF row
<1>4. /\ request \in Seq(RequestRow) /\ DOMAIN request = 1..Len(request) /\ Len(request) \in Nat
      /\ DOMAIN request \subseteq Request
  BY <1>1, RowsType DEF TypeOK
<1>5. /\ request' \in Seq(RequestRow) /\ Len(request') = n
      /\ DOMAIN request' = DOMAIN request \cup {n} /\ n \notin DOMAIN request /\ n \in Request
      /\ request'[n] = row
      /\ \A r \in DOMAIN request : request'[r] = request[r]
  BY <1>1, <1>2, <1>3, <1>4, BoundAssumption DEF Request
<1>6. \A g \in Handler \ {h} : task'[g] = task[g]
  BY <1>1, <1>3 DEF TypeOK
<1>7. Undisturbed(Handler \ {h})
  <2>1. \A p \in Order : Loadable(p) => Loadable(p)'
    BY <1>3 DEF Loadable
  <2>2. ASSUME NEW g \in Handler \ {h}, Op(g, "create"),
               PendingPair(task[g].order, task[g].driver)'
        PROVE  \/ PendingPair(task[g].order, task[g].driver)
               \/ <<"pair", <<task[g].order, task[g].driver>>>> \in contended
    <3>1. PICK r \in DOMAIN request' : /\ request'[r].order = task[g].order
                                       /\ request'[r].driver = task[g].driver
                                       /\ request'[r].status = "PENDING"
      BY <1>6, <2>2 DEF PendingPair
    <3>2. CASE r = n
      BY <1>1, <1>2, <1>5, <2>2, <3>1, <3>2 DEF IInv, CreatesMeet, Op
    <3>3. CASE r \in DOMAIN request
      BY <1>5, <3>1, <3>3 DEF PendingPair
    <3> QED
      BY <1>5, <3>2, <3>3
  <2> QED
    BY <1>3, <1>5, <1>6, <2>1, <2>2 DEF Undisturbed
<1>8. TaskInv(Idle)'
  BY DEF TaskInv, Idle
<1>9. /\ task' \in [Handler -> Task]
      /\ (\A g \in Handler : TaskInv(task[g]))'
      /\ CreatesMeet'
  BY <1>3, <1>7, <1>8, IdleSound, MoveOn
<1>10. TypeOK'
  BY <1>1, <1>3, <1>4, <1>5, <1>9, BoundAssumption DEF TypeOK, Subjects
<1>11. (\A t \in Trip : StopsInv(t))'
  BY <1>3 DEF IInv, StopsInv, TakenBelow, SeqTaken
<1>12. ApprovalIsLoading'
  <2>1. carried[n] = NoDriver /\ NoDriver # d
    BY <1>1, <1>5, NoneAssumption DEF IInv
  <2> QED
    BY <1>2, <1>3, <1>5, <2>1 DEF IInv, RequestsFollowOrders, ApprovalIsLoading
<1>13. NoneLeftPending'
  <2> SUFFICES ASSUME NEW p \in swept, order[p].trip # NoTrip,
                      <<"order", p>> \notin contended, NEW s \in DOMAIN request',
                      request'[s].order = p, request'[s].status = "PENDING"
               PROVE  FALSE
    BY <1>3 DEF NoneLeftPending, Pending, RequestsFor
  <2>1. CASE s = n
    BY <1>1, <1>2, <1>5, <2>1 DEF TaskInv, HoldsOrder, Loadable
  <2>2. CASE s \in DOMAIN request
    BY <1>5, <2>2 DEF IInv, RequestsFollowOrders, PendingRequestsSound, NoneLeftPending,
                      Pending, RequestsFor
  <2> QED
    BY <1>5, <2>1, <2>2
<1>14. OnePendingPerPair'
  <2> SUFFICES ASSUME NEW r \in DOMAIN request', NEW s \in DOMAIN request', r # s,
                      request'[r].status = "PENDING", request'[s].status = "PENDING",
                      request'[r].order = request'[s].order,
                      request'[r].driver = request'[s].driver
               PROVE  <<"pair", <<request'[r].order, request'[r].driver>>>> \in contended
    BY <1>3 DEF OnePendingPerPair, Pending
  <2>1. CASE r \in DOMAIN request /\ s \in DOMAIN request
    BY <1>5, <2>1 DEF IInv, RequestsFollowOrders, PendingRequestsSound, OnePendingPerPair,
                      Pending
  <2>2. CASE r = n \/ s = n
    <3>1. request'[r].order = o /\ request'[r].driver = d /\ PendingPair(o, d)
      BY <1>2, <1>5, <2>2 DEF PendingPair
    <3> QED
      BY <1>1, <3>1 DEF TaskInv
  <2> QED
    BY <1>5, <2>1, <2>2
<1>15. (\A r \in Request \ DOMAIN request : carried[r] = NoDriver)'
  BY <1>3, <1>5 DEF IInv
<1> QED
  BY <1>9, <1>10, <1>11, <1>12, <1>13, <1>14, <1>15
     DEF IInv, RequestsFollowOrders, PendingRequestsSound

LEMMA AddWriteInv ==
  ASSUME IInv, NEW h \in Handler, AddWrite(h)
  PROVE  IInv'
<1> DEFINE q == task[h].request
           o == request[q].order
           t == task[h].trip
           n == task[h].next
<1>1. /\ task[h] \in Task /\ TaskInv(task[h]) /\ task[h].op = "add" /\ TypeOK
      /\ q \in Request /\ t \in Trip /\ n \in Nat \ {0}
      /\ HoldsRequest(task[h]) /\ HoldsStops(task[h])
  BY TaskShape DEF IInv, TypeOK, AddWrite, Op, TaskInv, HoldsStops
<1>2. /\ q \in DOMAIN request /\ q # NoRequest /\ o \in Order
      /\ trip[t].driver = request[q].driver
  BY <1>1, RowsType, BoundAssumption DEF HoldsRequest, TaskInv, RequestRow, NoRequest, Request
<1>3. /\ Loadable(o) /\ ~SeqTaken(t, n)
      /\ order' = [order EXCEPT ![o] = [status |-> "assigned", trip |-> t]]
      /\ stops' = [stops EXCEPT ![t] = @ \cup {[order |-> o, seq |-> n]}]
      /\ Sweep(o, q) /\ SweepTouch(h, o, q)
      /\ carried' = [carried EXCEPT ![q] = request[q].driver]
      /\ swept' = swept \cup {o}
      /\ task' = [task EXCEPT ![h] = Idle]
      /\ UNCHANGED <<trip, shrunk>>
  BY <1>2 DEF AddWrite, Addable, Load, Hold
<1>4. /\ request' \in Seq(RequestRow) /\ Len(request') = Len(request)
      /\ DOMAIN request' = DOMAIN request
      /\ \A s \in DOMAIN request :
           /\ request'[s].order = request[s].order
           /\ request'[s].driver = request[s].driver
           /\ request'[s].status =
                IF s = q THEN "APPROVED"
                ELSE IF request[s].order = o /\ request[s].status = "PENDING"
                     THEN "CANCELLED" ELSE request[s].status
  <2> HIDE DEF q, o
  <2> QED
    BY <1>1, <1>3, SweptRows
<1>5. /\ contended \subseteq contended' /\ contended' \subseteq Subjects
      /\ \A x \in {<<"order", o>>} \cup ({"request"} \X (Others(o, q) \cup {q})) :
           x \in InFlight(Handler \ {h}) => x \in contended'
  BY <1>1, <1>3, TouchType, Touched DEF SweepTouch
<1>6. \A g \in Handler \ {h} : task'[g] = task[g]
  BY <1>1, <1>3 DEF TypeOK
<1>7. Undisturbed(Handler \ {h})
  <2>1. ASSUME NEW p \in Order, Loadable(p), ~Loadable(p)' PROVE p = o
    BY <1>1, <1>3, <2>1 DEF Loadable, TypeOK
  <2>2. \A p, d : PendingPair(p, d)' => PendingPair(p, d)
    BY <1>4 DEF PendingPair
  <2>3. \A s \in DOMAIN request : request'[s].status # request[s].status => s \in Others(o, q) \cup {q}
    BY <1>4 DEF Others, Pending, RequestsFor
  <2>4. \A g \in Handler \ {h} : task[g].op \in {"add", "staffAdd"} =>
          LET u == task[g].trip
          IN \/ u \in shrunk'
             \/ stops'[u] = stops[u]
             \/ /\ SeqTaken(u, task[g].next)'
                /\ \A j \in Nat : SeqTaken(u, j) => SeqTaken(u, j)'
    BY <1>1, <1>2, <1>3, <1>6, StopAddedOthers
  <2>5. \A g \in Handler \ {h} : Op(g, "create") =>
          LET p == task[g].order
              d == task[g].driver
          IN PendingPair(p, d)' => PendingPair(p, d) \/ <<"pair", <<p, d>>>> \in contended'
    BY <1>6, <2>2 DEF PendingPair
  <2>6. \A s \in DOMAIN request :
          /\ s \in DOMAIN request'
          /\ request'[s].order = request[s].order
          /\ request'[s].driver = request[s].driver
          /\ \/ request'[s].status = request[s].status
             \/ <<"request", s>> \in InFlight(Handler \ {h}) => <<"request", s>> \in contended'
    BY <1>4, <1>5, <2>3
  <2>7. \A p \in Order :
          Loadable(p) => \/ Loadable(p)'
                         \/ <<"order", p>> \in InFlight(Handler \ {h}) => <<"order", p>> \in contended'
    BY <1>5, <2>1
  <2>8. \A u \in Trip :
          trip[u].status # "NONE" =>
            trip'[u].status # "NONE" /\ trip'[u].driver = trip[u].driver
    BY <1>3
  <2>9. shrunk' = shrunk
    BY <1>3
  <2> HIDE DEF q, o, t, n
  <2> QED
    BY <1>5, <1>6, <2>4, <2>5, <2>6, <2>7, <2>8, <2>9 DEF Undisturbed
<1>8. TaskInv(Idle)'
  BY DEF TaskInv, Idle
<1>9. /\ task' \in [Handler -> Task]
      /\ (\A g \in Handler : TaskInv(task[g]))'
      /\ CreatesMeet'
  BY <1>3, <1>5, <1>7, <1>8, IdleSound, MoveOn
<1>10. stops' \in [Trip -> SUBSET Stop] /\ (\A u \in Trip : StopsInv(u))'
  <2>1. t \notin shrunk => TakenBelow(t, n)
    BY <1>1 DEF HoldsStops
  <2> HIDE DEF q, o, t, n
  <2> QED
    BY <1>1, <1>2, <1>3, <2>1, StopAdded
<1>11. TypeOK'
  <2>1. order' \in [Order -> OrderRow]
    BY <1>1, <1>2, <1>3 DEF TypeOK, OrderRow
  <2>2. carried' \in [Request -> Driver \cup {NoDriver}]
    BY <1>1, <1>2, <1>3, RowsType DEF TypeOK, RequestRow
  <2>3. swept' \subseteq Order
    BY <1>1, <1>2, <1>3 DEF TypeOK
  <2> QED
    BY <1>1, <1>3, <1>4, <1>5, <1>9, <1>10, <2>1, <2>2, <2>3 DEF TypeOK, Subjects
<1>12. /\ RequestsFollowOrders'
       /\ (\A r \in Request \ DOMAIN request : carried[r] = NoDriver)'
  <2>1. carried'[q] = request[q].driver
    BY <1>1, <1>3 DEF TypeOK
  <2>2. \A p \in swept' \ {o} : p \in swept /\ order'[p] = order[p]
    BY <1>1, <1>3 DEF TypeOK
  <2> HIDE DEF q, o, t, n
  <2> QED
    BY <1>1, <1>2, <1>3, <1>5, <2>1, <2>2, SweepFollows DEF o
<1> QED
  BY <1>9, <1>10, <1>11, <1>12 DEF IInv

\* The new trip was nobody's: no handler holds its stops.
LEMMA NewTripWriteInv ==
  ASSUME IInv, NEW h \in Handler, NEW t \in Trip, NewTripWrite(h, t)
  PROVE  IInv'
<1> DEFINE q == task[h].request
           o == task[h].order
           d == task[h].driver
           z == [order |-> o, seq |-> 1]
<1>0. PICK r : r = IF q = NoRequest THEN Idle ELSE [op |-> "confirm", request |-> q]
  OBVIOUS
<1>1. /\ task[h] \in Task /\ TaskInv(task[h]) /\ task[h].op = "newTrip" /\ TypeOK
      /\ q \in Request \cup {NoRequest} /\ o \in Order /\ d \in Driver
      /\ trip[t].status = "NONE" /\ HoldsOrder(o)
  BY TaskShape DEF IInv, TypeOK, NewTripWrite, Op, TaskInv
<1>2. q # NoRequest =>
        /\ q \in DOMAIN request /\ HoldsRequest(task[h])
        /\ request[q].order = o /\ request[q].driver = d
  BY <1>1 DEF HoldsRequest, TaskInv
<1>3. /\ trip' = [trip EXCEPT ![t] = [status |-> "PENDING", driver |-> d]]
      /\ stops' = [stops EXCEPT ![t] = {z}]
      /\ Sweep(o, q) /\ SweepTouch(h, o, q)
      /\ task' = [task EXCEPT ![h] = r]
      /\ UNCHANGED shrunk
  BY <1>0 DEF NewTripWrite, Hold
<1>4. /\ Loadable(o) =>
           /\ order' = [order EXCEPT ![o] = [status |-> "assigned", trip |-> t]]
           /\ swept' = swept \cup {o}
      /\ ~Loadable(o) => UNCHANGED <<order, swept>>
      /\ carried' = IF Loadable(o) /\ q # NoRequest
                    THEN [carried EXCEPT ![q] = d] ELSE carried
  BY DEF NewTripWrite, Load
<1>5. /\ request' \in Seq(RequestRow) /\ Len(request') = Len(request)
      /\ DOMAIN request' = DOMAIN request
      /\ \A s \in DOMAIN request :
           /\ request'[s].order = request[s].order
           /\ request'[s].driver = request[s].driver
           /\ request'[s].status =
                IF s = q THEN "APPROVED"
                ELSE IF request[s].order = o /\ request[s].status = "PENDING"
                     THEN "CANCELLED" ELSE request[s].status
  <2> HIDE DEF q, o
  <2> QED
    BY <1>1, <1>3, SweptRows
<1>6. /\ contended \subseteq contended' /\ contended' \subseteq Subjects
      /\ \A x \in {<<"order", o>>} \cup ({"request"} \X (Others(o, q) \cup {q})) :
           x \in InFlight(Handler \ {h}) => x \in contended'
  BY <1>1, <1>3, TouchType, Touched DEF SweepTouch
<1>7. /\ \A g \in Handler \ {h} : task'[g] = task[g]
      /\ \A u \in Trip \ {t} : trip'[u] = trip[u] /\ stops'[u] = stops[u]
      /\ trip'[t].status # "NONE" /\ stops'[t] = {z}
  BY <1>1, <1>3 DEF TypeOK
<1>8. Undisturbed(Handler \ {h})
  <2>1. ASSUME NEW p \in Order, Loadable(p), ~Loadable(p)' PROVE p = o
    BY <1>1, <1>4, <2>1 DEF Loadable, TypeOK
  <2>2. \A p, e : PendingPair(p, e)' => PendingPair(p, e)
    BY <1>5 DEF PendingPair
  <2>3. \A s \in DOMAIN request : request'[s].status # request[s].status => s \in Others(o, q) \cup {q}
    BY <1>5 DEF Others, Pending, RequestsFor
  <2>4. ASSUME NEW g \in Handler \ {h}, task[g].op \in {"add", "staffAdd"}
        PROVE  stops'[task[g].trip] = stops[task[g].trip]
    <3>1. task[g] \in Task /\ TaskInv(task[g])
      BY <1>1 DEF IInv, TypeOK
    <3>2. task[g].trip \in Trip /\ trip[task[g].trip].status # "NONE"
      BY <2>4, <3>1, TaskShape DEF TaskInv, HoldsStops
    <3> QED
      BY <1>1, <1>7, <3>2
  <2>5. \A g \in Handler \ {h} : Op(g, "create") =>
          LET p == task[g].order
              e == task[g].driver
          IN PendingPair(p, e)' => PendingPair(p, e) \/ <<"pair", <<p, e>>>> \in contended'
    BY <1>7, <2>2 DEF PendingPair
  <2>6. \A s \in DOMAIN request :
          /\ s \in DOMAIN request'
          /\ request'[s].order = request[s].order
          /\ request'[s].driver = request[s].driver
          /\ \/ request'[s].status = request[s].status
             \/ <<"request", s>> \in InFlight(Handler \ {h}) => <<"request", s>> \in contended'
    BY <1>5, <1>6, <2>3
  <2>7. \A p \in Order :
          Loadable(p) => \/ Loadable(p)'
                         \/ <<"order", p>> \in InFlight(Handler \ {h}) => <<"order", p>> \in contended'
    BY <1>6, <2>1
  <2>8. \A u \in Trip :
          trip[u].status # "NONE" =>
            trip'[u].status # "NONE" /\ trip'[u].driver = trip[u].driver
    BY <1>1, <1>7
  <2>9. shrunk' = shrunk /\ \A g \in Handler \ {h} : task'[g] = task[g]
    BY <1>3, <1>7
  <2> HIDE DEF q, o, d, z
  <2> QED
    BY <1>6, <2>4, <2>5, <2>6, <2>7, <2>8, <2>9 DEF Undisturbed
<1>9. r \in Task /\ r.op # "create" /\ TaskInv(r)'
  <2>1. CASE q = NoRequest
    BY <1>0, <2>1, IdleSound DEF TaskInv, Idle
  <2>2. CASE q # NoRequest
    <3>1. r.op = "confirm" /\ r.request = q /\ q \in Request /\ r \in Task
      BY <1>0, <1>1, <2>2 DEF Task
    <3>2. q \in DOMAIN request' /\ request'[q].status = "APPROVED"
      BY <1>2, <1>5, <2>2
    <3> QED
      BY <3>1, <3>2 DEF TaskInv, HoldsRequest
  <2> QED
    BY <2>1, <2>2
<1>10. /\ task' \in [Handler -> Task]
       /\ (\A g \in Handler : TaskInv(task[g]))'
       /\ CreatesMeet'
  BY <1>3, <1>6, <1>8, <1>9, MoveOn
<1>11. stops' \in [Trip -> SUBSET Stop] /\ trip' \in [Trip -> TripRow]
  BY <1>1, <1>3 DEF TypeOK, Stop, TripRow
<1>12. (\A u \in Trip : StopsInv(u))'
  <2>1. ASSUME NEW u \in Trip, u # t PROVE StopsInv(u)'
    BY <1>3, <1>7, <2>1 DEF IInv, StopsInv, TakenBelow, SeqTaken
  <2>2. StopsInv(t)'
    <3>1. IsFiniteSet(stops'[t])
      BY <1>7, FS_Singleton
    <3>2. \A x \in stops'[t] : x.seq = 1 /\ x = z
      BY <1>7
    <3>3. \A x \in stops'[t] : TakenBelow(t, x.seq)'
      BY <3>2 DEF TakenBelow
    <3> QED
      BY <3>1, <3>2, <3>3 DEF StopsInv
  <2> QED
    BY <2>1, <2>2
<1>13. TypeOK'
  <2>1. order' \in [Order -> OrderRow]
    BY <1>1, <1>4 DEF TypeOK, OrderRow
  <2>2. carried' \in [Request -> Driver \cup {NoDriver}]
    BY <1>1, <1>2, <1>4 DEF TypeOK
  <2>3. swept' \subseteq Order
    BY <1>1, <1>4 DEF TypeOK
  <2> QED
    BY <1>1, <1>3, <1>5, <1>6, <1>10, <1>11, <2>1, <2>2, <2>3 DEF TypeOK, Subjects
<1>14. /\ RequestsFollowOrders'
       /\ (\A s \in Request \ DOMAIN request : carried[s] = NoDriver)'
  <2>1. \A p \in swept' \ {o} : p \in swept /\ order'[p] = order[p]
    BY <1>1, <1>4 DEF TypeOK
  <2>2. \/ UNCHANGED carried
        \/ q # NoRequest /\ carried' = [carried EXCEPT ![q] = request[q].driver]
    <3>1. CASE Loadable(o) /\ q # NoRequest
      BY <1>2, <1>4, <3>1
    <3>2. CASE ~(Loadable(o) /\ q # NoRequest)
      BY <1>4, <3>2
    <3> QED
      BY <3>1, <3>2
  <2>3. q # NoRequest =>
          /\ q \in DOMAIN request /\ request[q].order = o
          /\ \/ carried'[q] = request[q].driver
             \/ {<<"request", q>>, <<"order", o>>} \cap contended # {}
    <3>1. CASE Loadable(o) /\ q # NoRequest
      BY <1>1, <1>2, <1>4, <3>1 DEF TypeOK
    <3>2. CASE ~Loadable(o)
      BY <1>1, <1>2, <3>2 DEF HoldsOrder
    <3> QED
      BY <3>1, <3>2
  <2> HIDE DEF q, o, d, z
  <2> QED
    BY <1>1, <1>3, <1>6, <2>1, <2>2, <2>3, SweepFollows
<1> QED
  BY <1>10, <1>12, <1>13, <1>14 DEF IInv

LEMMA StaffAddWriteInv ==
  ASSUME IInv, NEW h \in Handler, StaffAddWrite(h)
  PROVE  IInv'
<1> DEFINE o == task[h].order
           t == task[h].trip
           n == task[h].next
<1>1. /\ task[h] \in Task /\ TaskInv(task[h]) /\ task[h].op = "staffAdd" /\ TypeOK
      /\ o \in Order /\ t \in Trip /\ n \in Nat \ {0} /\ HoldsStops(task[h])
  BY TaskShape DEF IInv, TypeOK, StaffAddWrite, Op, TaskInv, HoldsStops
<1>2. /\ ~SeqTaken(t, n)
      /\ stops' = [stops EXCEPT ![t] = @ \cup {[order |-> o, seq |-> n]}]
      /\ task' = [task EXCEPT ![h] = Idle]
      /\ UNCHANGED <<trip, request, carried, shrunk>>
  BY DEF StaffAddWrite, Hold
<1>3. /\ Loadable(o) =>
           /\ order' = [order EXCEPT ![o] = [status |-> "assigned", trip |-> t]]
           /\ swept' = swept \ {o} /\ Touch({<<"order", o>>}, Handler \ {h})
      /\ ~Loadable(o) => UNCHANGED <<order, swept, contended>>
  BY DEF StaffAddWrite, Load
<1>4. /\ contended \subseteq contended' /\ contended' \subseteq Subjects
      /\ Loadable(o) /\ <<"order", o>> \in InFlight(Handler \ {h}) => <<"order", o>> \in contended'
  <2>1. CASE Loadable(o)
    BY <1>1, <1>3, <2>1, TouchType, Touched
  <2>2. CASE ~Loadable(o)
    BY <1>1, <1>3, <2>2 DEF TypeOK, Subjects
  <2> QED
    BY <2>1, <2>2
<1>5. \A g \in Handler \ {h} : task'[g] = task[g]
  BY <1>1, <1>2 DEF TypeOK
<1>6. Undisturbed(Handler \ {h})
  <2>1. ASSUME NEW p \in Order, Loadable(p), ~Loadable(p)' PROVE p = o
    BY <1>1, <1>3, <2>1 DEF Loadable, TypeOK
  <2>2. \A p, e : PendingPair(p, e)' => PendingPair(p, e)
    BY <1>2 DEF PendingPair
  <2>3. \A g \in Handler \ {h} : task[g].op \in {"add", "staffAdd"} =>
          LET u == task[g].trip
          IN \/ u \in shrunk'
             \/ stops'[u] = stops[u]
             \/ /\ SeqTaken(u, task[g].next)'
                /\ \A j \in Nat : SeqTaken(u, j) => SeqTaken(u, j)'
    BY <1>1, <1>2, <1>5, StopAddedOthers
  <2>4. \A p \in Order :
          Loadable(p) => \/ Loadable(p)'
                         \/ <<"order", p>> \in InFlight(Handler \ {h}) => <<"order", p>> \in contended'
    BY <1>4, <2>1
  <2>5. UNCHANGED <<trip, request, shrunk>> /\ \A g \in Handler \ {h} : task'[g] = task[g]
    BY <1>2, <1>5
  <2> HIDE DEF o, t, n
  <2> QED
    BY <1>4, <2>2, <2>3, <2>4, <2>5 DEF Undisturbed
<1>7. TaskInv(Idle)'
  BY DEF TaskInv, Idle
<1>8. /\ task' \in [Handler -> Task]
      /\ (\A g \in Handler : TaskInv(task[g]))'
      /\ CreatesMeet'
  BY <1>2, <1>4, <1>6, <1>7, IdleSound, MoveOn
<1>9. stops' \in [Trip -> SUBSET Stop] /\ (\A u \in Trip : StopsInv(u))'
  <2>1. t \notin shrunk => TakenBelow(t, n)
    BY <1>1 DEF HoldsStops
  <2> HIDE DEF o, t, n
  <2> QED
    BY <1>1, <1>2, <2>1, StopAdded
<1>10. order' \in [Order -> OrderRow] /\ swept' \subseteq Order
  <2>1. CASE Loadable(o)
    BY <1>1, <1>3, <2>1 DEF TypeOK, OrderRow
  <2>2. CASE ~Loadable(o)
    BY <1>1, <1>3, <2>2 DEF TypeOK
  <2> QED
    BY <2>1, <2>2
<1>11. TypeOK'
  BY <1>1, <1>2, <1>4, <1>8, <1>9, <1>10 DEF TypeOK, Subjects
<1>12. \A p \in swept' : p \in swept /\ order'[p] = order[p]
  BY <1>1, <1>3 DEF TypeOK
<1>13. /\ RequestsFollowOrders'
       /\ (\A r \in Request \ DOMAIN request : carried[r] = NoDriver)'
  BY <1>2, <1>4, <1>12, BoardKept
<1> QED
  BY <1>8, <1>9, <1>11, <1>13 DEF IInv

\* Renumbering leaves no gap and no number twice.
LEMMA RenumberedFacts ==
  ASSUME NEW S \in SUBSET Stop, IsFiniteSet(S), \A x, y \in S : x.seq = y.seq => x = y
  PROVE  /\ Renumbered(S) \in SUBSET Stop /\ IsFiniteSet(Renumbered(S))
         /\ \A x, y \in Renumbered(S) : x.seq = y.seq => x = y
         /\ \A x \in Renumbered(S) : \A j \in Nat \ {0} :
              j < x.seq => \E y \in Renumbered(S) : y.seq = j
<1> DEFINE below(z) == {y \in S : y.seq <= z.seq}
           rank == [z \in S |-> Cardinality(below(z))]
           row == [z \in S |-> [order |-> z.order, seq |-> rank[z]]]
           R == {row[z] : z \in S}
<1>1. \A z \in S : z.order \in Order /\ z.seq \in Nat \ {0}
  BY DEF Stop
<1>2. ASSUME NEW z \in S
      PROVE  rank[z] \in 1..Cardinality(S) /\ IsFiniteSet(below(z))
  <2>1. below(z) \in SUBSET S /\ z \in below(z)
    BY <1>1
  <2> HIDE DEF below
  <2>2. IsFiniteSet(below(z)) /\ Cardinality(below(z)) <= Cardinality(S)
    BY <2>1, FS_Subset
  <2>3. Cardinality(below(z)) \in Nat /\ Cardinality(S) \in Nat /\ Cardinality(below(z)) # 0
    BY <2>1, <2>2, FS_CardinalityType, FS_EmptySet
  <2> QED
    BY <2>2, <2>3
<1>3. ASSUME NEW x \in S, NEW z \in S, x.seq < z.seq PROVE rank[x] < rank[z]
  <2>1. below(x) \in SUBSET below(z) /\ z \in below(z) /\ z \notin below(x)
    BY <1>1, <1>3
  <2>2. rank[x] = Cardinality(below(x)) /\ rank[z] = Cardinality(below(z))
    OBVIOUS
  <2>3. IsFiniteSet(below(z)) /\ IsFiniteSet(below(x)) /\ rank[x] \in Int /\ rank[z] \in Int
    BY <1>2
  <2> HIDE DEF below, rank
  <2>4. Cardinality(below(x)) <= Cardinality(below(z)) /\ Cardinality(below(z)) # Cardinality(below(x))
    BY <2>1, <2>3, FS_Subset
  <2> QED
    BY <2>2, <2>3, <2>4
<1>4. \A x, z \in S : rank[x] = rank[z] => x = z
  <2> SUFFICES ASSUME NEW x \in S, NEW z \in S, rank[x] = rank[z], x.seq # z.seq PROVE FALSE
    OBVIOUS
  <2>1. rank[x] \in Int /\ rank[z] \in Int
    BY <1>2
  <2>2. x.seq < z.seq \/ z.seq < x.seq
    BY <1>1
  <2> HIDE DEF rank
  <2> QED
    BY <1>3, <2>1, <2>2
<1>5. {rank[z] : z \in S} = 1..Cardinality(S)
  <2> HIDE DEF rank
  <2> DEFINE T == {rank[z] : z \in S}
  <2>1. IsFiniteSet(T) /\ Cardinality(T) = Cardinality(S)
    BY <1>4, ImageFacts
  <2>2. T \in SUBSET (1..Cardinality(S))
    BY <1>2
  <2> HIDE DEF T
  <2>3. IsFiniteSet(1..Cardinality(S)) /\ Cardinality(1..Cardinality(S)) = Cardinality(S)
    <3>1. Cardinality(S) \in Nat
      BY FS_CardinalityType
    <3> QED
      BY <3>1, FS_Interval
  <2>4. T = 1..Cardinality(S)
    BY <2>1, <2>2, <2>3, FS_Subset
  <2> QED
    BY <2>4 DEF T
<1>6. \A z \in S : row[z] \in Stop /\ row[z].seq = rank[z]
  <2> HIDE DEF rank
  <2>1. \A z \in S : row[z] = [order |-> z.order, seq |-> rank[z]]
    OBVIOUS
  <2>2. \A z \in S : rank[z] \in Nat \ {0}
    <3>1. Cardinality(S) \in Nat
      BY FS_CardinalityType
    <3>2. \A z \in S : rank[z] \in 1..Cardinality(S)
      BY <1>2
    <3> QED
      BY <3>1, <3>2
  <2> HIDE DEF row
  <2>3. ASSUME NEW z \in S
        PROVE  row[z] \in Stop /\ row[z].seq = rank[z]
    <3>1. z.order \in Order /\ rank[z] \in Nat \ {0}
      BY <1>1, <2>2
    <3>2. row[z] = [order |-> z.order, seq |-> rank[z]]
      BY <2>1
    <3> QED
      BY <3>1, <3>2 DEF Stop
  <2> QED
    BY <2>3
<1>7. Renumbered(S) = R
  BY DEF Renumbered
<1>8. IsFiniteSet(R)
  <2> HIDE DEF row
  <2> QED
    BY ImageFacts
<1>9. R \in SUBSET Stop
  <2> HIDE DEF row, rank
  <2> QED
    BY <1>6
<1>10. \A x, y \in R : x.seq = y.seq => x = y
  <2> HIDE DEF row, rank
  <2> QED
    BY <1>4, <1>6
<1>11. ASSUME NEW x \in R, NEW j \in Nat \ {0}, j < x.seq
       PROVE  \E y \in R : y.seq = j
  <2> HIDE DEF row, rank
  <2>1. x.seq \in 1..Cardinality(S)
    BY <1>5, <1>6
  <2>2. j \in 1..Cardinality(S)
    BY <1>11, <2>1, FS_CardinalityType
  <2>3. PICK z \in S : rank[z] = j
    BY <1>5, <2>2
  <2> QED
    BY <1>6, <2>3
<1> HIDE DEF R
<1> QED
  BY <1>7, <1>8, <1>9, <1>10, <1>11

LEMMA RemoveOrderInv ==
  ASSUME IInv, NEW t \in Trip, NEW s \in stops[t], RemoveOrder(t, s)
  PROVE  IInv'
<1> DEFINE o == s.order
           left == stops[t] \ {s}
<1>1. TypeOK /\ StopsInv(t) /\ s \in Stop /\ o \in Order
  BY DEF IInv, TypeOK, Stop
<1>2. /\ trip[t].status = "PENDING"
      /\ stops' = [stops EXCEPT ![t] = Renumbered(left)]
      /\ trip' = IF left = {} THEN [trip EXCEPT ![t].status = "CLOSED"] ELSE trip
      /\ order' = [order EXCEPT ![o] = [status |-> "open", trip |-> NoTrip]]
      /\ swept' = swept \ {o}
      /\ shrunk' = IF HeldStops(t) THEN shrunk \cup {t} ELSE shrunk
      /\ Touch({<<"order", o>>}, Handler)
      /\ UNCHANGED <<request, carried, task>>
  BY DEF RemoveOrder
<1>3. contended \subseteq contended' /\ contended' \subseteq Subjects
  BY <1>1, <1>2, TouchType
<1>4. /\ left \in SUBSET Stop /\ IsFiniteSet(left)
      /\ \A x, y \in left : x.seq = y.seq => x = y
  BY <1>1, FS_RemoveElement DEF StopsInv, TypeOK
<1>5. /\ Renumbered(left) \in SUBSET Stop /\ IsFiniteSet(Renumbered(left))
      /\ \A x, y \in Renumbered(left) : x.seq = y.seq => x = y
      /\ \A x \in Renumbered(left) : \A j \in Nat \ {0} :
           j < x.seq => \E y \in Renumbered(left) : y.seq = j
  <2> HIDE DEF left
  <2> QED
    BY <1>4, RenumberedFacts
<1>6. /\ stops'[t] = Renumbered(left)
      /\ \A u \in Trip \ {t} : stops'[u] = stops[u]
      /\ stops' \in [Trip -> SUBSET Stop]
  BY <1>1, <1>2, <1>5 DEF TypeOK
<1> HIDE DEF left
<1>7. /\ trip' \in [Trip -> TripRow]
      /\ \A u \in Trip : trip[u].status # "NONE" =>
           trip'[u].status # "NONE" /\ trip'[u].driver = trip[u].driver
  BY <1>1, <1>2 DEF TypeOK, TripRow
<1>8. order' \in [Order -> OrderRow] /\ swept' \subseteq Order /\ shrunk' \subseteq Trip
      /\ shrunk \subseteq shrunk'
  BY <1>1, <1>2 DEF TypeOK, OrderRow
<1>9. \A p \in Order : Loadable(p) => Loadable(p)'
  BY <1>1, <1>2 DEF TypeOK, Loadable
<1>10. Undisturbed(Handler)
  <2>1. ASSUME NEW g \in Handler, task[g].op \in {"add", "staffAdd"}
        PROVE  task[g].trip \in shrunk' \/ stops'[task[g].trip] = stops[task[g].trip]
    <3>1. task[g].trip \in Trip
      BY <1>1, <2>1, TaskShape DEF TypeOK
    <3>2. CASE task[g].trip = t
      BY <1>2, <2>1, <3>2 DEF HeldStops
    <3>3. CASE task[g].trip # t
      BY <1>6, <3>1, <3>3
    <3> QED
      BY <3>2, <3>3
  <2>2. \A p, e : PendingPair(p, e)' => PendingPair(p, e)
    BY <1>2 DEF PendingPair
  <2>3. UNCHANGED <<task, request>>
    BY <1>2
  <2> HIDE DEF o
  <2> QED
    BY <1>3, <1>7, <1>8, <1>9, <2>1, <2>2, <2>3 DEF Undisturbed
<1>11. /\ task' \in [Handler -> Task]
       /\ (\A g \in Handler : TaskInv(task[g]))'
       /\ CreatesMeet'
  BY <1>2, <1>3, <1>10, StayPut
<1>12. (\A u \in Trip : StopsInv(u))'
  <2>1. ASSUME NEW u \in Trip, u # t PROVE StopsInv(u)'
    BY <1>6, <1>8, <2>1 DEF IInv, StopsInv, TakenBelow, SeqTaken
  <2>2. StopsInv(t)'
    BY <1>5, <1>6 DEF StopsInv, TakenBelow, SeqTaken
  <2> QED
    BY <2>1, <2>2
<1>13. TypeOK'
  BY <1>1, <1>2, <1>3, <1>6, <1>7, <1>8, <1>11 DEF TypeOK, Subjects
<1>14. \A p \in swept' : p \in swept /\ order'[p] = order[p]
  BY <1>1, <1>2 DEF TypeOK
<1>15. /\ RequestsFollowOrders'
       /\ (\A r \in Request \ DOMAIN request : carried[r] = NoDriver)'
  BY <1>2, <1>3, <1>14, BoardKept
<1> QED
  BY <1>11, <1>12, <1>13, <1>15 DEF IInv

LEMMA MoveTripInv ==
  ASSUME IInv, NEW t \in Trip, NEW from \in {"PENDING", "IN_PROGRESS"},
         NEW to \in {"IN_PROGRESS", "CLOSED"}, NEW row \in OrderRow,
         row.trip \in {t, NoTrip}, MoveTrip(t, from, to, row)
  PROVE  IInv'
<1>1. TypeOK /\ t # NoTrip
  BY NoneAssumption DEF IInv
<1>2. /\ trip[t].status = from
      /\ trip' = [trip EXCEPT ![t].status = to]
      /\ order' = [o \in Order |-> IF order[o].trip = t THEN row ELSE order[o]]
      /\ UNCHANGED <<stops, request, carried, swept, shrunk, task>>
      /\ Touch({"order"} \X {o \in Order : order[o].trip = t}, Handler)
  BY DEF MoveTrip
<1>3. contended \subseteq contended' /\ contended' \subseteq Subjects
  BY <1>1, <1>2, TouchType
<1>4. /\ trip' \in [Trip -> TripRow]
      /\ \A u \in Trip : trip[u].status # "NONE" =>
           trip'[u].status # "NONE" /\ trip'[u].driver = trip[u].driver
  BY <1>1, <1>2 DEF TypeOK, TripRow
<1>5. order' \in [Order -> OrderRow]
  BY <1>1, <1>2 DEF TypeOK
<1>6. \A p \in Order : Loadable(p) => Loadable(p)'
  BY <1>1, <1>2 DEF TypeOK, Loadable
<1>7. Undisturbed(Handler)
  <2>1. \A p, e : PendingPair(p, e)' => PendingPair(p, e)
    BY <1>2 DEF PendingPair
  <2>2. UNCHANGED <<task, request, stops, shrunk>>
    BY <1>2
  <2> QED
    BY <1>3, <1>4, <1>6, <2>1, <2>2 DEF Undisturbed
<1>8. /\ task' \in [Handler -> Task]
      /\ (\A g \in Handler : TaskInv(task[g]))'
      /\ CreatesMeet'
  BY <1>2, <1>3, <1>7, StayPut
<1>9. (\A u \in Trip : StopsInv(u))'
  BY <1>2 DEF IInv, StopsInv, TakenBelow, SeqTaken
<1>10. TypeOK'
  BY <1>1, <1>2, <1>3, <1>4, <1>5, <1>8 DEF TypeOK, Subjects
<1>11. \A p \in swept' : order'[p].trip # NoTrip => p \in swept /\ order[p].trip # NoTrip
  BY <1>1, <1>2 DEF TypeOK
<1>12. /\ RequestsFollowOrders'
       /\ (\A r \in Request \ DOMAIN request : carried[r] = NoDriver)'
  BY <1>2, <1>3, <1>11, BoardKept
<1> QED
  BY <1>8, <1>9, <1>10, <1>12 DEF IInv

LEMMA CancelOrderInv ==
  ASSUME IInv, NEW o \in Order, CancelOrder(o)
  PROVE  IInv'
<1>1. TypeOK
  BY DEF IInv
<1>2. /\ order' = [order EXCEPT ![o] = [status |-> "away", trip |-> NoTrip]]
      /\ Touch({<<"order", o>>}, Handler)
      /\ UNCHANGED <<trip, stops, request, carried, swept, shrunk, task>>
  BY DEF CancelOrder
<1>3. /\ contended \subseteq contended' /\ contended' \subseteq Subjects
      /\ <<"order", o>> \in InFlight(Handler) => <<"order", o>> \in contended'
  BY <1>1, <1>2, TouchType, Touched
<1>4. order' \in [Order -> OrderRow]
  BY <1>1, <1>2 DEF TypeOK, OrderRow
<1>5. Undisturbed(Handler)
  <2>1. \A p, e : PendingPair(p, e)' => PendingPair(p, e)
    BY <1>2 DEF PendingPair
  <2>2. \A p \in Order : p # o => (Loadable(p) => Loadable(p)')
    BY <1>1, <1>2 DEF TypeOK, Loadable
  <2>3. UNCHANGED <<task, trip, request, stops, shrunk>>
    BY <1>2
  <2> QED
    BY <1>3, <2>1, <2>2, <2>3 DEF Undisturbed
<1>6. /\ task' \in [Handler -> Task]
      /\ (\A g \in Handler : TaskInv(task[g]))'
      /\ CreatesMeet'
  BY <1>2, <1>3, <1>5, StayPut
<1>7. (\A u \in Trip : StopsInv(u))'
  BY <1>2 DEF IInv, StopsInv, TakenBelow, SeqTaken
<1>8. TypeOK'
  BY <1>1, <1>2, <1>3, <1>4, <1>6 DEF TypeOK, Subjects
<1>9. \A p \in swept' : order'[p].trip # NoTrip => p \in swept /\ order[p].trip # NoTrip
  BY <1>1, <1>2 DEF TypeOK
<1>10. /\ RequestsFollowOrders'
       /\ (\A r \in Request \ DOMAIN request : carried[r] = NoDriver)'
  BY <1>2, <1>3, <1>9, BoardKept
<1> QED
  BY <1>6, <1>7, <1>8, <1>10 DEF IInv
--------------------------------------------------------------------------------
(***************************************************************************)
(* The theorems.                                                           *)
(***************************************************************************)

LEMMA NextInv == IInv /\ [Next]_vars => IInv'
<1> SUFFICES ASSUME IInv, [Next]_vars PROVE IInv'
  OBVIOUS
<1>1. ASSUME NEW h \in Handler, Proceed(h) PROVE IInv'
  <2>1. CASE CreateWrite(h)
    BY <2>1, CreateWriteInv
  <2>2. CASE ApproveCancel(h)
    BY <2>2, OverruleInv DEF ApproveCancel
  <2>3. CASE ApprovePick(h)
    BY <2>3, ApprovePickInv
  <2>4. CASE AddWrite(h)
    BY <2>4, AddWriteInv
  <2>5. CASE ApproveConfirm(h)
    BY <2>5, OverruleInv DEF ApproveConfirm
  <2>6. CASE Requery(h)
    BY <2>6, RequeryInv
  <2>7. CASE RejectWrite(h)
    BY <2>7, OverruleInv DEF RejectWrite
  <2>8. CASE StaffAddWrite(h)
    BY <2>8, StaffAddWriteInv
  <2>9. CASE BreakOff(h)
    BY <2>9, BreakOffInv
  <2> QED
    BY <1>1, <2>1, <2>2, <2>3, <2>4, <2>5, <2>6, <2>7, <2>8, <2>9 DEF Proceed
<1>2. ASSUME NEW h \in Handler, NEW o \in Order, NEW d \in Driver,
             CreateBegin(h, o, d) \/ DispatchBegin(h, o, d)
      PROVE  IInv'
  BY <1>2, CreateBeginInv, DispatchBeginInv
<1>3. ASSUME NEW h \in Handler, NEW q \in Request, ApproveBegin(h, q) \/ RejectBegin(h, q)
      PROVE  IInv'
  BY <1>3, ApproveBeginInv, RejectBeginInv
<1>4. ASSUME NEW h \in Handler, NEW t \in Trip, NewTripWrite(h, t) PROVE IInv'
  BY <1>4, NewTripWriteInv
<1>5. ASSUME NEW h \in Handler, NEW o \in Order, NEW t \in Trip, StaffAddBegin(h, o, t)
      PROVE  IInv'
  BY <1>5, StaffAddBeginInv
<1>6. ASSUME NEW t \in Trip, NEW s \in stops[t], RemoveOrder(t, s) PROVE IInv'
  BY <1>6, RemoveOrderInv
<1>7. ASSUME NEW t \in Trip, StartTrip(t) \/ CompleteTrip(t) \/ CancelTrip(t) PROVE IInv'
  <2>1. /\ [status |-> "away", trip |-> t] \in OrderRow
        /\ [status |-> "away", trip |-> NoTrip] \in OrderRow
        /\ [status |-> "open", trip |-> NoTrip] \in OrderRow
    BY DEF OrderRow
  <2>2. CASE StartTrip(t)
    BY <2>1, <2>2, MoveTripInv DEF StartTrip
  <2>3. CASE CompleteTrip(t)
    BY <2>1, <2>3, MoveTripInv DEF CompleteTrip
  <2>4. CASE CancelTrip(t)
    BY <2>1, <2>4, MoveTripInv DEF CancelTrip
  <2> QED
    BY <1>7, <2>2, <2>3, <2>4
<1>8. ASSUME NEW o \in Order, CancelOrder(o) PROVE IInv'
  BY <1>8, CancelOrderInv
<1>9. CASE UNCHANGED vars
  <2>1. UNCHANGED <<order, trip, stops, request, carried, swept, shrunk, task, contended>>
    BY <1>9 DEF vars, tripVars
  <2>2. TypeOK'
    BY <2>1 DEF IInv, TypeOK
  <2>3. (\A t \in Trip : StopsInv(t))'
    BY <2>1 DEF IInv, StopsInv, TakenBelow, SeqTaken
  <2>4. Undisturbed(Handler)
    BY <2>1 DEF Undisturbed, Loadable, PendingPair
  <2>5. (\A h \in Handler : TaskInv(task[h]))' /\ CreatesMeet'
    BY <2>1, <2>4, StayPut
  <2>6. /\ RequestsFollowOrders'
        /\ (\A r \in Request \ DOMAIN request : carried[r] = NoDriver)'
    BY <2>1, BoardKept
  <2> QED
    BY <2>2, <2>3, <2>5, <2>6 DEF IInv
<1> QED
  BY <1>1, <1>2, <1>3, <1>4, <1>5, <1>6, <1>7, <1>8, <1>9 DEF Next

\* In every reachable state the requests in flight hold what the invariant says.
THEOREM Invariant == Spec => []IInv
BY InitInv, NextInv, PTL DEF Spec

\* Rows, trips, stops and requests in flight keep their shape.
THEOREM TypeCorrect == Spec => []TypeOK
BY Invariant, PTL DEF IInv

\* What was approved was loaded for the driver who asked, and what is pending can still
\* be decided: for any number of requests in flight, short of those that overlapped.
THEOREM RequestsFollowOrdersSafe == Spec => []RequestsFollowOrders
BY Invariant, PTL DEF IInv
--------------------------------------------------------------------------------
(***************************************************************************)
(* Action properties.                                                      *)
(***************************************************************************)

\* The load of a trip is a sum over the orders of its stops.
LEMMA LoadIsSum ==
  ASSUME NEW S \in SUBSET Stop, IsFiniteSet(S)
  PROVE  /\ LoadOf(S) = SumOf(Weight, StopOrders(S))
         /\ IsFiniteSet(StopOrders(S)) /\ StopOrders(S) \subseteq Order
         /\ LoadOf(S) \in Int
<1>1. LoadOf(S) = SumOf(Weight, StopOrders(S))
  BY DEF LoadOf, SumOf
<1>2. IsFiniteSet(StopOrders(S)) /\ StopOrders(S) \subseteq Order
  <2> DEFINE f == [s \in S |-> s.order]
  <2>1. {f[s] : s \in S} = StopOrders(S)
    BY DEF StopOrders
  <2>2. StopOrders(S) \subseteq Order
    BY DEF StopOrders, Stop
  <2> HIDE DEF f
  <2> QED
    BY <2>1, <2>2, ImageFacts
<1>3. SumOf(Weight, StopOrders(S)) \in Int
  <2>1. \A o \in StopOrders(S) : Weight[o] \in Int
    BY <1>2, WeightAssumption
  <2> QED
    BY <1>2, <2>1, SumType
<1> QED
  BY <1>1, <1>2, <1>3

\* One more order on a trip weighs what it weighs.
LEMMA LoadAdded ==
  ASSUME NEW S \in SUBSET Stop, IsFiniteSet(S), NEW z \in Stop
  PROVE  LoadOf(S \cup {z}) <= LoadOf(S) + Weight[z.order]
<1> DEFINE o == z.order
<1>1. o \in Order /\ Weight[o] \in Nat
  BY WeightAssumption DEF Stop
<1>2. S \cup {z} \in SUBSET Stop /\ IsFiniteSet(S \cup {z})
  BY FS_AddElement
<1>3. /\ LoadOf(S) = SumOf(Weight, StopOrders(S))
      /\ IsFiniteSet(StopOrders(S)) /\ StopOrders(S) \subseteq Order /\ LoadOf(S) \in Int
  BY LoadIsSum
<1>4. LoadOf(S \cup {z}) = SumOf(Weight, StopOrders(S \cup {z}))
  BY <1>2, LoadIsSum
<1>5. StopOrders(S \cup {z}) = StopOrders(S) \cup {o}
  BY DEF StopOrders
<1>6. CASE o \in StopOrders(S)
  <2>1. StopOrders(S) \cup {o} = StopOrders(S)
    BY <1>6
  <2>2. LoadOf(S \cup {z}) = LoadOf(S)
    BY <1>3, <1>4, <1>5, <2>1, Zenon
  <2> QED
    BY <1>1, <1>3, <2>2
<1>7. CASE o \notin StopOrders(S)
  <2>1. \A x \in StopOrders(S) \cup {o} : Weight[x] \in Int
    BY <1>1, <1>3, WeightAssumption
  <2>2. SumOf(Weight, StopOrders(S) \cup {o}) = Weight[o] + SumOf(Weight, StopOrders(S))
    BY <1>3, <1>7, <2>1, SumAdd
  <2>3. LoadOf(S \cup {z}) = Weight[o] + LoadOf(S)
    BY <1>3, <1>4, <1>5, <2>2, Zenon
  <2> QED
    BY <1>1, <1>3, <2>3
<1> QED
  BY <1>6, <1>7

\* An approval that adds an order to a waiting trip counts on a load that is still the
\* trip's, or finds its sequence number taken: the vehicle is never overloaded.
THEOREM CapacityKeptSafe == Spec => CapacityKept
<1>1. ASSUME IInv, NEW h \in Handler, AddWrite(h), task[h].trip \notin shrunk
      PROVE  LoadOf(stops'[task[h].trip]) <= Capacity
  <2> DEFINE q == task[h].request
             o == request[q].order
             t == task[h].trip
             n == task[h].next
             z == [order |-> o, seq |-> n]
  <2>1. /\ task[h] \in Task /\ TaskInv(task[h]) /\ task[h].op = "add" /\ TypeOK
        /\ t \in Trip /\ n \in Nat \ {0}
        /\ HoldsRequest(task[h]) /\ HoldsStops(task[h]) /\ StopsInv(t)
    BY <1>1, TaskShape DEF IInv, TypeOK, AddWrite, Op, TaskInv, HoldsStops
  <2>2. o \in Order /\ z \in Stop /\ z.order = o
    BY <2>1, RowsType DEF HoldsRequest, RequestRow, Stop
  <2>3. ~SeqTaken(t, n) /\ stops'[t] = stops[t] \cup {z}
    BY <1>1, <2>1 DEF AddWrite, Addable, TypeOK
  <2>4. LoadOf(stops[t]) + Weight[o] <= Capacity
    BY <1>1, <2>1, <2>3 DEF TaskInv, Fits
  <2>5. stops[t] \in SUBSET Stop /\ IsFiniteSet(stops[t])
    BY <2>1 DEF TypeOK, StopsInv
  <2> HIDE DEF q, o, t, n, z
  <2>6. LoadOf(stops[t] \cup {z}) <= LoadOf(stops[t]) + Weight[o]
    BY <2>2, <2>5, LoadAdded
  <2>7. LoadOf(stops[t] \cup {z}) \in Int /\ LoadOf(stops[t]) \in Int
        /\ Weight[o] \in Int /\ Capacity \in Int
    BY <2>2, <2>5, FS_AddElement, LoadIsSum, WeightAssumption
  <2>8. LoadOf(stops'[t]) <= Capacity
    BY <2>3, <2>4, <2>6, <2>7
  <2> QED
    BY <2>8 DEF t
<1>2. IInv =>
        \A h \in Handler :
          AddWrite(h) /\ task[h].trip \notin shrunk
            => LoadOf(stops'[task[h].trip]) <= Capacity
  BY <1>1
<1> QED
  BY <1>2, Invariant, PTL DEF CapacityKept

\* A decided request changes again only if decisions about it overlapped.
THEOREM DecidedOnceSafe == Spec => DecidedOnce
<1> DEFINE Once(r) == Decided(r) /\ request'[r].status # request[r].status
                        => <<"request", r>> \in contended'
<1>1. ASSUME IInv, [Next]_vars, NEW r \in DOMAIN request,
             request[r].status # "PENDING", request'[r].status # request[r].status
      PROVE  <<"request", r>> \in contended'
  <2>0. TypeOK /\ \A h \in Handler : task[h] \in Task /\ TaskInv(task[h])
    BY <1>1 DEF IInv, TypeOK
  <2>1. ASSUME NEW h \in Handler, NEW op, NEW st, Overrule(h, op, st),
               \/ op \in {"cancel", "reject"}
               \/ op = "confirm" /\ st = "APPROVED",
               st \in {"CANCELLED", "REJECTED", "APPROVED"}
        PROVE  <<"request", r>> \in contended'
    <3> DEFINE q == task[h].request
    <3>1. /\ task[h].op = op /\ HoldsRequest(task[h]) /\ contended \subseteq contended'
          /\ request' = SetStatus({q}, st)
      BY <2>0, <2>1, Touched DEF Overrule, Op, TaskInv
    <3>2. q = r /\ st # request[r].status
      BY <1>1, <3>1 DEF SetStatus
    <3> QED
      BY <1>1, <2>1, <3>1, <3>2 DEF HoldsRequest
  <2>2. ASSUME NEW o, NEW q, Sweep(o, q), contended \subseteq contended',
               q = r => <<"request", r>> \in contended \/ request[r].status = "PENDING"
        PROVE  <<"request", r>> \in contended'
    <3>1. request'[r].status =
            IF r = q THEN "APPROVED"
            ELSE IF request[r].order = o /\ request[r].status = "PENDING"
                 THEN "CANCELLED" ELSE request[r].status
      BY <2>0, <2>2, SweptRows
    <3> QED
      BY <1>1, <2>2, <3>1
  <2>3. ASSUME NEW h \in Handler, AddWrite(h) PROVE <<"request", r>> \in contended'
    <3>1. task[h].op = "add" /\ HoldsRequest(task[h])
      BY <2>0, <2>3 DEF AddWrite, Op, TaskInv
    <3>2. /\ Sweep(request[task[h].request].order, task[h].request)
          /\ contended \subseteq contended'
      BY <2>3, Touched DEF AddWrite, SweepTouch
    <3> QED
      BY <2>2, <3>1, <3>2 DEF HoldsRequest
  <2>4. ASSUME NEW h \in Handler, NEW t \in Trip, NewTripWrite(h, t)
        PROVE  <<"request", r>> \in contended'
    <3>1. task[h].op = "newTrip" /\ (task[h].request # NoRequest => HoldsRequest(task[h]))
      BY <2>0, <2>4 DEF NewTripWrite, Op, TaskInv
    <3>2. Sweep(task[h].order, task[h].request) /\ contended \subseteq contended'
      BY <2>4, Touched DEF NewTripWrite, SweepTouch
    <3>3. r # NoRequest
      BY <2>0, RowsType DEF NoRequest, Request
    <3> QED
      BY <2>2, <3>1, <3>2, <3>3 DEF HoldsRequest
  <2>5. ASSUME NEW h \in Handler, CreateWrite(h) PROVE FALSE
    <3> DEFINE row == [order |-> task[h].order, driver |-> task[h].driver,
                       status |-> "PENDING"]
    <3>1. request' = Append(request, row)
      BY <2>5 DEF CreateWrite
    <3>2. r \in 1..Len(request) /\ Len(request) \in Nat
      BY <2>0, RowsType
    <3> HIDE DEF row
    <3>3. request'[r] = request[r]
      BY <3>1, <3>2
    <3> QED
      BY <1>1, <3>3
  <2>6. UNCHANGED request => FALSE
    BY <1>1
  <2>7. ASSUME NEW h \in Handler, Proceed(h) PROVE <<"request", r>> \in contended'
    <3>1. CASE ApproveCancel(h)
      BY <2>1, <3>1 DEF ApproveCancel
    <3>2. CASE ApproveConfirm(h)
      BY <2>1, <3>2 DEF ApproveConfirm
    <3>3. CASE RejectWrite(h)
      BY <2>1, <3>3 DEF RejectWrite
    <3>4. CASE ApprovePick(h) \/ Requery(h) \/ StaffAddWrite(h) \/ BreakOff(h)
      BY <2>6, <3>4 DEF ApprovePick, Requery, StaffAddWrite, BreakOff
    <3> QED
      BY <2>3, <2>5, <2>7, <3>1, <3>2, <3>3, <3>4 DEF Proceed
  <2>8. ASSUME NEW h \in Handler, NEW o \in Order, NEW d \in Driver,
               CreateBegin(h, o, d) \/ DispatchBegin(h, o, d)
        PROVE  FALSE
    BY <2>6, <2>8 DEF CreateBegin, DispatchBegin
  <2>9. ASSUME NEW h \in Handler, NEW q \in Request, ApproveBegin(h, q) \/ RejectBegin(h, q)
        PROVE  FALSE
    BY <2>6, <2>9 DEF ApproveBegin, RejectBegin
  <2>10. ASSUME NEW h \in Handler, NEW o \in Order, NEW t \in Trip, StaffAddBegin(h, o, t)
         PROVE  FALSE
    BY <2>6, <2>10 DEF StaffAddBegin
  <2>11. ASSUME NEW t \in Trip, NEW s \in stops[t], RemoveOrder(t, s) PROVE FALSE
    BY <2>6, <2>11 DEF RemoveOrder
  <2>12. ASSUME NEW t \in Trip, StartTrip(t) \/ CompleteTrip(t) \/ CancelTrip(t) PROVE FALSE
    BY <2>6, <2>12 DEF StartTrip, CompleteTrip, CancelTrip, MoveTrip
  <2>13. ASSUME NEW o \in Order, CancelOrder(o) PROVE FALSE
    BY <2>6, <2>13 DEF CancelOrder
  <2>14. UNCHANGED vars => FALSE
    BY <2>6 DEF vars
  <2> QED
    BY <1>1, <2>4, <2>7, <2>8, <2>9, <2>10, <2>11, <2>12, <2>13, <2>14 DEF Next
<1>2. IInv /\ [Next]_vars => \A r \in DOMAIN request : Once(r)
  BY <1>1 DEF Decided
<1> QED
  BY <1>2, Invariant, PTL DEF Spec, DecidedOnce
================================================================================

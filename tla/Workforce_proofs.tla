---------------------------- MODULE Workforce_proofs ----------------------------
(***************************************************************************)
(* The safety of role requests, of the hubs of people and of the hubs of   *)
(* orders, for any people, hubs and requests in flight.  What a request    *)
(* read and acts on later still holds where no other one overlapped it:    *)
(* RoleInv and HubInv say so of people, ListInv of the list of hubs.       *)
(*                                                                         *)
(* Then what people have on their screens: the rooms of TrackingRooms      *)
(* (RoomsInv), what users are told of orders in OrderUpdates (UpdatesInv), *)
(* and what the staff plans in DispatchPlanning (PlanInv).                 *)
(***************************************************************************)
EXTENDS Workforce, Screens, SetLemmas

\* Requests that are about the role or the hub of one person have overlapped.
OverlapInv ==
  \A g, h \in Handler : g # h => Subject(task[g]) \cap Subject(task[h]) \subseteq contended

RoleFree(p) == <<"role", p>> \notin contended
HubFree(p) == <<"hub", p>> \notin contended

\* Who decides a request, or tells of a decision, holds one of the requester's. Alone, it
\* finds the table as it read it: nothing pending, the request pending, or decided as it
\* is to be told.
RoleTask(r) ==
  /\ r.op \in {"approve", "reject", "tell"} =>
       /\ r.request \in DOMAIN request
       /\ request[r.request].requester = r.person
  /\ r.op \in {"submit", "approve", "reject", "tell"} /\ RoleFree(r.person) =>
       /\ r.op = "submit" => PendingOf(r.person) = {}
       /\ r.op \in {"approve", "reject"} => request[r.request].status = "PENDING"
       /\ r.op = "tell" => request[r.request].status = r.status

\* The role of p is the target of the last of its requests that stand approved.
RoleIsLast(p) ==
  \/ Approved(p) = {} /\ person[p].role = "CUSTOMER"
  \/ \E r \in Approved(p) :
       (\A s \in Approved(p) : s <= r) /\ person[p].role = request[r].target

\* What was told of a request is what it stands at, and a pending one is the last.
RowSound(r) ==
  RoleFree(request[r].requester) =>
    /\ told[r] \subseteq {request[r].status}
    /\ request[r].status = "PENDING" =>
         \A s \in DOMAIN request : request[s].requester = request[r].requester => s <= r

RoleInv ==
  /\ \A h \in Handler : RoleTask(task[h])
  /\ \A r \in Request \ DOMAIN request : told[r] = {}
  /\ \A p \in Person : RoleFree(p) => RoleIsLast(p)
  /\ \A r \in DOMAIN request : RowSound(r)

\* Who is about to be taken out of a hub is in it, if no other request is about it.
HubTask(r) ==
  r.op = "remove" /\ HubFree(r.person) =>
    person[r.person].role = r.role /\ person[r.person].hub = r.hub

HubInv ==
  /\ \A h \in Handler : HubTask(task[h])
  /\ HublessWasRemoved

\* A list that was read since the last change has the hubs that are open.
ListTask(r) ==
  /\ r.op = "list" => r.at <= changes /\ (r.at = changes => r.hubs = OpenHub)
  /\ r.op = "place" => r.at <= changes /\ (r.at = changes => r.hub \in Nearest(OpenHub))

ListInv ==
  /\ cache # NoList => cache.at <= changes /\ (cache.at = changes => cache.hubs = OpenHub)
  /\ \A h \in Handler : ListTask(task[h])
  /\ OrderAtOpenHub

IInv == TypeOK /\ OverlapInv /\ RoleInv /\ HubInv /\ ListInv

--------------------------------------------------------------------------------
(***************************************************************************)
(* Types, and what a step changes.                                         *)
(***************************************************************************)

\* What a request holds is determined by the step that is next.
LEMMA TaskShape ==
  ASSUME NEW r \in Task
  PROVE  /\ r.op = "submit" =>
              r.person \in Person /\ r.target \in TargetRole /\ r.hub \in Hub
         /\ r.op = "approve" =>
              r.request \in Request /\ r.person \in Person /\ r.hub \in Hub
         /\ r.op = "reject" => r.request \in Request /\ r.person \in Person
         /\ r.op = "tell" => /\ r.request \in Request /\ r.person \in Person
                             /\ r.status \in {"APPROVED", "REJECTED"}
         /\ r.op \in {"assign", "remove"} =>
              r.person \in Person /\ r.role \in TargetRole /\ r.hub \in Hub
         /\ r.op = "delete" => r.hub \in Hub
         /\ r.op = "list" => r.hubs \in SUBSET Hub /\ r.at \in Nat
         /\ r.op = "place" => r.hub \in Hub \cup {NoHub} /\ r.at \in Nat
         /\ r.op \in {"idle", "submit", "approve", "reject", "tell", "assign", "remove",
                      "delete", "list", "place"}
<1>1. r \in [op : {"submit"}, person : Person, target : TargetRole, hub : Hub] =>
        /\ r.op = "submit"
        /\ r.person \in Person /\ r.target \in TargetRole /\ r.hub \in Hub
  OBVIOUS
<1>2. r \in [op : {"approve"}, request : Request, person : Person, hub : Hub] =>
        /\ r.op = "approve"
        /\ r.request \in Request /\ r.person \in Person /\ r.hub \in Hub
  OBVIOUS
<1>3. r \in [op : {"reject"}, request : Request, person : Person] =>
        r.op = "reject" /\ r.request \in Request /\ r.person \in Person
  OBVIOUS
<1>4. r \in [op : {"tell"}, request : Request, person : Person,
             status : {"APPROVED", "REJECTED"}] =>
        /\ r.op = "tell" /\ r.request \in Request /\ r.person \in Person
        /\ r.status \in {"APPROVED", "REJECTED"}
  OBVIOUS
<1>5. r \in [op : {"assign", "remove"}, person : Person, role : TargetRole, hub : Hub] =>
        /\ r.op \in {"assign", "remove"}
        /\ r.person \in Person /\ r.role \in TargetRole /\ r.hub \in Hub
  OBVIOUS
<1>6. r \in [op : {"delete"}, hub : Hub] => r.op = "delete" /\ r.hub \in Hub
  OBVIOUS
<1>7. r \in [op : {"list"}, hubs : SUBSET Hub, at : Nat] =>
        r.op = "list" /\ r.hubs \in SUBSET Hub /\ r.at \in Nat
  OBVIOUS
<1>8. r \in [op : {"place"}, hub : Hub \cup {NoHub}, at : Nat] =>
        r.op = "place" /\ r.hub \in Hub \cup {NoHub} /\ r.at \in Nat
  OBVIOUS
<1>9. r = Idle => r.op = "idle"
  BY DEF Idle
<1> QED
  BY <1>1, <1>2, <1>3, <1>4, <1>5, <1>6, <1>7, <1>8, <1>9 DEF Task

\* Idle requests and those that only have to tell or place something are about nobody.
LEMMA SubjectFacts ==
  ASSUME NEW r
  PROVE  /\ r.op \in {"idle", "tell", "delete", "list", "place"} => Subject(r) = {}
         /\ r.op \in {"submit", "reject"} => Subject(r) = {<<"role", r.person>>}
         /\ r.op \in {"assign", "remove"} => Subject(r) = {<<"hub", r.person>>}
         /\ r.op = "approve" =>
              <<"role", r.person>> \in Subject(r) /\ <<"hub", r.person>> \in Subject(r)
BY DEF Subject

LEMMA SubjectType ==
  ASSUME NEW r \in Task
  PROVE  Subject(r) \subseteq {"role", "hub"} \X Person
<1>1. r.op \in {"submit", "reject", "assign", "remove", "approve"} => r.person \in Person
  BY TaskShape
<1> QED
  BY <1>1, TaskShape DEF Subject

\* What a step about the others leaves: the tables.
TablesStay == UNCHANGED <<person, hubVars, request, told, left, orderVars>>

\* A request arrives with what it read, which holds then.
BeginStep(h) ==
  \E r \in Task : /\ Begin(h, r) /\ TablesStay
                  /\ RoleTask(r) /\ HubTask(r) /\ ListTask(r)

\* What one more row makes of a sequence, and another value of one of its rows.
LEMMA RowAdded ==
  ASSUME NEW S, NEW s \in Seq(S), NEW x \in S
  PROVE  /\ Append(s, x) \in Seq(S) /\ Len(Append(s, x)) = Len(s) + 1
         /\ DOMAIN Append(s, x) = DOMAIN s \cup {Len(s) + 1}
         /\ Append(s, x)[Len(s) + 1] = x
         /\ \A i \in DOMAIN s : Append(s, x)[i] = s[i]
         /\ Len(s) + 1 \notin DOMAIN s /\ \A i \in DOMAIN s : i \in Nat /\ i <= Len(s)
         /\ Len(s) \in Nat
OBVIOUS

LEMMA RowSet ==
  ASSUME NEW S, NEW s \in Seq(S), NEW i \in DOMAIN s, NEW x \in S
  PROVE  LET u == [s EXCEPT ![i] = x]
         IN  /\ u \in Seq(S) /\ Len(u) = Len(s) /\ DOMAIN u = DOMAIN s
             /\ u[i] = x /\ \A k \in DOMAIN s : k # i => u[k] = s[k]
OBVIOUS

LEMMA TypeInit == Init => TypeOK
BY BoundAssumption DEF Init, TypeOK, Member, NoList, HubList, Task, hubVars, orderVars

\* The rows of the table of requests.
LEMMA RowType ==
  ASSUME TypeOK
  PROVE  /\ request \in Seq(RoleRequest) /\ DOMAIN request \subseteq Request
         /\ Len(request) \in Nat /\ DOMAIN request = 1..Len(request)
         /\ \A r \in DOMAIN request :
              /\ request[r] \in RoleRequest
              /\ request[r].requester \in Person /\ request[r].target \in TargetRole
              /\ request[r].status \in {"PENDING", "APPROVED", "REJECTED"}
<1>1. request \in Seq(RoleRequest) /\ Len(request) <= MaxRequests
  BY DEF TypeOK
<1>2. \A r \in DOMAIN request : request[r] \in RoleRequest
  BY <1>1
<1>3. Len(request) \in Nat /\ DOMAIN request = 1..Len(request)
  BY <1>1
<1>4. DOMAIN request \subseteq Request
  BY <1>1, <1>3, BoundAssumption DEF Request
<1> QED
  BY <1>1, <1>2, <1>3, <1>4 DEF RoleRequest

\* A request that arrives holds what its guard has read.
LEMMA Beginning ==
  ASSUME TypeOK, ListInv, NEW h \in Handler,
         \/ OrderBegin(h)
         \/ \E p \in Person, role \in TargetRole, b \in Hub :
              \/ SubmitBegin(h, p, role, b) \/ AssignBegin(h, p, role, b)
              \/ RemoveBegin(h, p, role, b)
         \/ \E r \in Request, b \in Hub : ApproveBegin(h, r, b)
         \/ \E r \in Request : RejectBegin(h, r)
         \/ \E b \in Hub : DeleteHubBegin(h, b)
  PROVE  BeginStep(h)
<1>0. /\ request \in Seq(RoleRequest) /\ changes \in Nat
      /\ \A r \in DOMAIN request : request[r].requester \in Person
      /\ cache \in HubList
  BY RowType DEF TypeOK
<1>1. ASSUME NEW p \in Person, NEW role \in TargetRole, NEW b \in Hub,
             SubmitBegin(h, p, role, b)
      PROVE  BeginStep(h)
  <2>1. PICK r \in Task : r = [op |-> "submit", person |-> p, target |-> role, hub |-> b]
    BY DEF Task
  <2>2. RoleTask(r) /\ HubTask(r) /\ ListTask(r)
    BY <1>1, <2>1 DEF SubmitBegin, Submittable, RoleTask, HubTask, ListTask
  <2> QED
    BY <1>1, <2>1, <2>2 DEF SubmitBegin, BeginStep, TablesStay
<1>2. ASSUME NEW p \in Person, NEW role \in TargetRole, NEW b \in Hub,
             AssignBegin(h, p, role, b)
      PROVE  BeginStep(h)
  <2>1. PICK r \in Task : r = [op |-> "assign", person |-> p, role |-> role, hub |-> b]
    BY DEF Task
  <2>2. RoleTask(r) /\ HubTask(r) /\ ListTask(r)
    BY <2>1 DEF RoleTask, HubTask, ListTask
  <2> QED
    BY <1>2, <2>1, <2>2 DEF AssignBegin, BeginStep, TablesStay
<1>3. ASSUME NEW p \in Person, NEW role \in TargetRole, NEW b \in Hub,
             RemoveBegin(h, p, role, b)
      PROVE  BeginStep(h)
  <2>1. PICK r \in Task : r = [op |-> "remove", person |-> p, role |-> role, hub |-> b]
    BY DEF Task
  <2>2. RoleTask(r) /\ HubTask(r) /\ ListTask(r)
    BY <1>3, <2>1 DEF RemoveBegin, Removable, RoleTask, HubTask, ListTask
  <2> QED
    BY <1>3, <2>1, <2>2 DEF RemoveBegin, BeginStep, TablesStay
<1>4. ASSUME NEW i \in Request, NEW b \in Hub, ApproveBegin(h, i, b)
      PROVE  BeginStep(h)
  <2>1. i \in DOMAIN request /\ request[i].status = "PENDING"
    BY <1>4 DEF ApproveBegin, Decidable
  <2>2. PICK p \in Person : p = request[i].requester
    BY <1>0, <2>1
  <2>3. PICK r \in Task : r = [op |-> "approve", request |-> i, person |-> p, hub |-> b]
    BY DEF Task
  <2>4. RoleTask(r) /\ HubTask(r) /\ ListTask(r)
    BY <2>1, <2>2, <2>3 DEF RoleTask, HubTask, ListTask
  <2> QED
    BY <1>4, <2>2, <2>3, <2>4 DEF ApproveBegin, BeginStep, TablesStay
<1>5. ASSUME NEW i \in Request, RejectBegin(h, i)
      PROVE  BeginStep(h)
  <2>1. i \in DOMAIN request /\ request[i].status = "PENDING"
    BY <1>5 DEF RejectBegin, Decidable
  <2>2. PICK p \in Person : p = request[i].requester
    BY <1>0, <2>1
  <2>3. PICK r \in Task : r = [op |-> "reject", request |-> i, person |-> p]
    BY DEF Task
  <2>4. RoleTask(r) /\ HubTask(r) /\ ListTask(r)
    BY <2>1, <2>2, <2>3 DEF RoleTask, HubTask, ListTask
  <2> QED
    BY <1>5, <2>2, <2>3, <2>4 DEF RejectBegin, BeginStep, TablesStay
<1>6. ASSUME NEW b \in Hub, DeleteHubBegin(h, b)
      PROVE  BeginStep(h)
  <2>1. PICK r \in Task : r = [op |-> "delete", hub |-> b]
    BY DEF Task
  <2>2. RoleTask(r) /\ HubTask(r) /\ ListTask(r)
    BY <2>1 DEF RoleTask, HubTask, ListTask
  <2> QED
    BY <1>6, <2>1, <2>2 DEF DeleteHubBegin, BeginStep, TablesStay
<1>7. CASE OrderBegin(h)
  <2>1. ASSUME cache # NoList, NEW b \in Nearest(cache.hubs),
               Begin(h, [op |-> "place", hub |-> b, at |-> cache.at])
        PROVE  BeginStep(h)
    <3>1. PICK n \in Nat, H \in SUBSET Hub : n = cache.at /\ H = cache.hubs
      BY <1>0, <2>1 DEF HubList
    <3>2. b \in Hub \cup {NoHub}
      BY <2>1, <3>1 DEF Nearest
    <3>3. PICK r \in Task : r = [op |-> "place", hub |-> b, at |-> n]
      BY <3>2 DEF Task
    <3>4. n <= changes /\ (n = changes => b \in Nearest(OpenHub))
      BY <2>1, <3>1 DEF ListInv
    <3>5. RoleTask(r) /\ HubTask(r) /\ ListTask(r)
      BY <3>3, <3>4 DEF RoleTask, HubTask, ListTask
    <3> QED
      BY <1>7, <2>1, <3>1, <3>3, <3>5 DEF OrderBegin, BeginStep, TablesStay
  <2>2. ASSUME Begin(h, [op |-> "list", hubs |-> Listed, at |-> changes])
        PROVE  BeginStep(h)
    <3>1. Listed \in SUBSET Hub /\ Listed = OpenHub
      BY DEF Listed, OpenHub
    <3>2. PICK r \in Task : r = [op |-> "list", hubs |-> Listed, at |-> changes]
      BY <1>0, <3>1 DEF Task
    <3>3. RoleTask(r) /\ HubTask(r) /\ ListTask(r)
      BY <1>0, <3>1, <3>2 DEF RoleTask, HubTask, ListTask
    <3> QED
      BY <1>7, <2>2, <3>2, <3>3 DEF OrderBegin, BeginStep, TablesStay
  <2> QED
    BY <1>7, <2>1, <2>2 DEF OrderBegin
<1> QED
  BY <1>1, <1>2, <1>3, <1>4, <1>5, <1>6, <1>7

LEMMA NextSteps ==
  ASSUME TypeOK, ListInv, [Next]_vars
  PROVE  \/ UNCHANGED vars
         \/ \E h \in Handler : BeginStep(h) \/ Proceed(h)
         \/ \E b \in Hub : CreateHub(b)
         \/ ForgetList
BY Beginning DEF Next

\* The step of a request that goes on: what it holds next is about nobody, and the others
\* are not touched.
LEMMA Going ==
  ASSUME TypeOK, NEW h \in Handler, Proceed(h)
  PROVE  /\ UNCHANGED contended
         /\ \A g \in Handler : g # h => task'[g] = task[g]
         /\ task'[h].op \in {"idle", "tell", "place"}
<1>0. task \in [Handler -> Task]
  BY DEF TypeOK
<1>1. ASSUME NEW r, Continue(h, r)
      PROVE  /\ UNCHANGED contended /\ task'[h] = r
             /\ \A g \in Handler : g # h => task'[g] = task[g]
  BY <1>0, <1>1 DEF Continue
<1>2. Idle.op = "idle"
  BY DEF Idle
<1>3. \E r : Continue(h, r) /\ r.op \in {"idle", "tell", "place"}
  <2>1. CASE \/ SubmitWrite(h) \/ Tell(h) \/ DeleteHub(h) \/ AssignWrite(h) \/ RemoveWrite(h)
             \/ OrderPlace(h) \/ BreakOff(h)
    BY <1>2, <2>1 DEF SubmitWrite, Tell, DeleteHub, AssignWrite, RemoveWrite, OrderPlace,
       BreakOff
  <2>2. ASSUME NEW verdict, NEW b, Decide(h, verdict, b)
        PROVE  \E r : Continue(h, r) /\ r.op \in {"idle", "tell", "place"}
    BY <2>2 DEF Decide
  <2>3. CASE ApproveWrite(h) \/ RejectWrite(h)
    BY <2>2, <2>3 DEF ApproveWrite, RejectWrite
  <2>4. CASE OrderList(h)
    BY <2>4 DEF OrderList
  <2> QED
    BY <2>1, <2>3, <2>4 DEF Proceed
<1> QED
  BY <1>1, <1>3

\* The row a decision leaves: another status and hub, the same person and role.
LEMMA DecideRow ==
  ASSUME TypeOK, RoleInv, NEW h \in Handler, NEW verdict \in {"APPROVED", "REJECTED"},
         NEW b \in Hub \cup {NoHub}, Decide(h, verdict, b), Op(h, "approve") \/ Op(h, "reject")
  PROVE  LET r == task[h].request
         IN  /\ r \in DOMAIN request /\ task[h].person \in Person
             /\ request[r].requester = task[h].person
             /\ request' \in Seq(RoleRequest) /\ Len(request') = Len(request)
             /\ DOMAIN request' = DOMAIN request
             /\ request'[r].requester = request[r].requester
             /\ request'[r].target = request[r].target /\ request'[r].status = verdict
             /\ \A k \in DOMAIN request : k # r => request'[k] = request[k]
             /\ task'[h].op = "tell" /\ task'[h].request = r
             /\ task'[h].person = task[h].person /\ task'[h].status = verdict
             /\ task' \in [Handler -> Task]
<1>0. task \in [Handler -> Task] /\ task[h] \in Task
  BY DEF TypeOK
<1>1. task[h].op \in {"approve", "reject"}
  BY DEF Op
<1>12. PICK r : r = task[h].request
  OBVIOUS
<1>2. PICK p \in Person : /\ r = task[h].request /\ p = task[h].person
                          /\ r \in DOMAIN request /\ request[r].requester = p
  <2>1. task[h].person \in Person
    BY <1>0, <1>1, TaskShape
  <2>2. RoleTask(task[h])
    BY DEF RoleInv
  <2> QED
    BY <1>1, <1>12, <2>1, <2>2 DEF RoleTask
<1>3. PICK old \in RoleRequest : old = request[r]
  BY <1>2, RowType
<1>4. PICK row \in RoleRequest : row = [old EXCEPT !.status = verdict, !.hub = b]
  BY DEF RoleRequest
<1>5. row.requester = old.requester /\ row.target = old.target /\ row.status = verdict
  BY <1>4 DEF RoleRequest
<1>6. request' = [request EXCEPT ![r] = row]
  BY <1>2, <1>3, <1>4 DEF Decide
<1>7. PICK t \in Task : t = [op |-> "tell", request |-> r, person |-> p, status |-> verdict]
  BY <1>2, RowType DEF Task
<1>8. t.op = "tell" /\ t.request = r /\ t.person = p /\ t.status = verdict
  BY <1>7
<1>9. task' = [task EXCEPT ![h] = t]
  BY <1>2, <1>7 DEF Decide, Continue
<1>10. task'[h] = t /\ task' \in [Handler -> Task]
  BY <1>0, <1>9
<1>11. /\ request' \in Seq(RoleRequest) /\ Len(request') = Len(request)
       /\ DOMAIN request' = DOMAIN request
       /\ request'[r] = row /\ \A k \in DOMAIN request : k # r => request'[k] = request[k]
  BY <1>2, <1>6, RowSet, RowType
<1> QED
  BY <1>2, <1>3, <1>5, <1>8, <1>10, <1>11

\* Types are kept by a request that goes on.
LEMMA ProceedType ==
  ASSUME TypeOK, RoleInv, NEW h \in Handler, Proceed(h)
  PROVE  TypeOK'
<1>0. /\ task \in [Handler -> Task] /\ task[h] \in Task /\ Idle \in Task
      /\ person \in [Person -> Member] /\ told \in [Request -> SUBSET {"APPROVED", "REJECTED"}]
      /\ hub \in [Hub -> {"absent", "active", "deleted"}] /\ changes \in Nat
      /\ left \subseteq Person /\ placed \in Seq(Placed)
      /\ \A r : Continue(h, r) /\ r \in Task => task' \in [Handler -> Task]
  BY DEF TypeOK, Task, Continue
<1>1. CASE SubmitWrite(h)
  <2>1. PICK p \in Person, role \in TargetRole, b \in Hub :
          p = task[h].person /\ role = task[h].target /\ b = task[h].hub
    BY <1>0, <1>1, TaskShape DEF SubmitWrite, Op
  <2>2. PICK row \in RoleRequest :
          row = [requester |-> p, target |-> role, hub |-> b, status |-> "PENDING"]
    BY DEF RoleRequest
  <2>3. request' = Append(request, row) /\ Len(request) < MaxRequests
    BY <1>1, <2>1, <2>2 DEF SubmitWrite
  <2>4. request' \in Seq(RoleRequest) /\ Len(request') <= MaxRequests
    BY <2>3, RowAdded, RowType, BoundAssumption
  <2> QED
    BY <1>0, <1>1, <2>4, Going DEF SubmitWrite, TypeOK, Proceed, hubVars, orderVars
<1>2. CASE ApproveWrite(h)
  <2>1. PICK b \in Hub, p \in Person : b = task[h].hub /\ p = task[h].person
    BY <1>0, <1>2, TaskShape DEF ApproveWrite, Op
  <2>2. PICK role \in TargetRole : role = request[task[h].request].target
    BY <1>2, RowType DEF ApproveWrite, Op, RoleInv, RoleTask
  <2>3. HubFor(role, b) = b
    BY DEF HubFor
  <2>4. [role |-> role, hub |-> b] \in Member
    BY DEF Member
  <2>5. person' = [person EXCEPT ![p] = [role |-> role, hub |-> b]] /\ left' \subseteq Person
        /\ Decide(h, "APPROVED", b)
    BY <1>0, <1>2, <2>1, <2>2, <2>3 DEF ApproveWrite
  <2>6. person' \in [Person -> Member]
    BY <1>0, <2>4, <2>5
  <2>7. /\ request' \in Seq(RoleRequest) /\ Len(request') = Len(request)
        /\ task' \in [Handler -> Task]
    BY <1>2, <2>5, DecideRow DEF ApproveWrite
  <2> QED
    BY <1>2, <2>5, <2>6, <2>7, Going DEF ApproveWrite, TypeOK, Proceed, hubVars, orderVars
<1>3. CASE RejectWrite(h)
  <2>1. /\ request' \in Seq(RoleRequest) /\ Len(request') = Len(request)
        /\ task' \in [Handler -> Task]
    BY <1>3, DecideRow DEF RejectWrite
  <2> QED
    BY <1>3, <2>1, Going DEF RejectWrite, TypeOK, Proceed, hubVars, orderVars
<1>4. CASE Tell(h)
  <2>1. PICK r \in Request, verdict \in {"APPROVED", "REJECTED"} :
          r = task[h].request /\ verdict = task[h].status
    BY <1>0, <1>4, TaskShape DEF Tell, Op
  <2>2. told' = [told EXCEPT ![r] = told[r] \cup {verdict}]
    BY <1>4, <2>1 DEF Tell
  <2>3. told' \in [Request -> SUBSET {"APPROVED", "REJECTED"}]
    BY <1>0, <2>2
  <2> QED
    BY <1>0, <1>4, <2>3, Going DEF Tell, TypeOK, Proceed, hubVars, orderVars
<1>5. CASE DeleteHub(h)
  <2>1. hub' \in [Hub -> {"absent", "active", "deleted"}]
    BY <1>0, <1>5 DEF DeleteHub
  <2>2. changes' \in Nat
    <3>1. changes' = changes + 1 \/ changes' = changes
      BY <1>5 DEF DeleteHub
    <3> QED
      BY <1>0, <3>1
  <2>3. task' \in [Handler -> Task] /\ UNCHANGED <<person, request, told, left, orderVars>>
    BY <1>0, <1>5 DEF DeleteHub
  <2> QED
    BY <1>5, <2>1, <2>2, <2>3, Going DEF DeleteHub, TypeOK, Proceed, orderVars
<1>6. CASE AssignWrite(h) \/ RemoveWrite(h)
  <2>1. PICK p \in Person, b \in Hub : p = task[h].person /\ b = task[h].hub
    BY <1>0, <1>6, TaskShape DEF AssignWrite, RemoveWrite, Op
  <2>2. \A c \in Hub \cup {NoHub} : [person[p] EXCEPT !.hub = c] \in Member
    BY <1>0 DEF Member
  <2>3. \E c \in Hub \cup {NoHub} :
          person' = [person EXCEPT ![p] = [person[p] EXCEPT !.hub = c]]
    BY <1>0, <1>6, <2>1 DEF AssignWrite, RemoveWrite
  <2>4. person' \in [Person -> Member]
    BY <1>0, <2>2, <2>3
  <2>5. left' \subseteq Person
    BY <1>0, <1>6, <2>1 DEF AssignWrite, RemoveWrite
  <2> QED
    BY <1>0, <1>6, <2>4, <2>5, Going
       DEF AssignWrite, RemoveWrite, TypeOK, Proceed, hubVars, orderVars
<1>7. CASE OrderList(h)
  <2>1. PICK H \in SUBSET Hub, n \in Nat : H = task[h].hubs /\ n = task[h].at
    BY <1>0, <1>7, TaskShape DEF OrderList, Op
  <2>2. cache' \in HubList
    BY <1>7, <2>1 DEF OrderList, HubList
  <2>3. PICK b \in Nearest(H) : Continue(h, [op |-> "place", hub |-> b, at |-> n])
    BY <1>7, <2>1 DEF OrderList
  <2>4. [op |-> "place", hub |-> b, at |-> n] \in Task
    <3>1. b \in Hub \cup {NoHub}
      BY <2>3 DEF Nearest
    <3> QED
      BY <3>1 DEF Task
  <2> QED
    BY <1>0, <1>7, <2>2, <2>3, <2>4, Going DEF OrderList, TypeOK, Proceed, hubVars
<1>8. CASE OrderPlace(h)
  <2>1. PICK b \in Hub \cup {NoHub}, n \in Nat : b = task[h].hub /\ n = task[h].at
    BY <1>0, <1>8, TaskShape DEF OrderPlace, Op
  <2>2. OpenHub \in SUBSET Hub
    BY DEF OpenHub
  <2>3. PICK row \in Placed :
          row = [hub |-> b, at |-> n, open |-> OpenHub, changes |-> changes]
    BY <1>0, <2>2 DEF Placed
  <2>4. placed' = Append(placed, row)
    BY <1>8, <2>1, <2>3 DEF OrderPlace
  <2>5. placed' \in Seq(Placed)
    BY <1>0, <2>4
  <2> QED
    BY <1>0, <1>8, <2>5, Going DEF OrderPlace, TypeOK, Proceed, hubVars
<1>9. CASE BreakOff(h)
  BY <1>0, <1>9, Going DEF BreakOff, TypeOK, Proceed, hubVars, orderVars
<1> QED
  BY <1>1, <1>2, <1>3, <1>4, <1>5, <1>6, <1>7, <1>8, <1>9 DEF Proceed

LEMMA TypeStep ==
  ASSUME TypeOK, RoleInv, ListInv, [Next]_vars
  PROVE  TypeOK'
<1>1. CASE UNCHANGED vars
  BY <1>1 DEF TypeOK, vars, hubVars, orderVars
<1>2. ASSUME NEW h \in Handler, BeginStep(h)
      PROVE  TypeOK'
  <2>1. PICK r \in Task : Begin(h, r) /\ TablesStay
    BY <1>2 DEF BeginStep
  <2>2. Subject(r) \subseteq {"role", "hub"} \X Person
    BY SubjectType
  <2>3. task' \in [Handler -> Task] /\ contended' \subseteq {"role", "hub"} \X Person
    BY <2>1, <2>2 DEF Begin, TypeOK
  <2> QED
    BY <2>1, <2>3 DEF TypeOK, TablesStay, hubVars, orderVars
<1>3. ASSUME NEW b \in Hub, CreateHub(b)
      PROVE  TypeOK'
  <2>1. hub' \in [Hub -> {"absent", "active", "deleted"}] /\ changes' \in Nat
    BY <1>3 DEF CreateHub, TypeOK
  <2> QED
    BY <1>3, <2>1 DEF CreateHub, TypeOK, orderVars
<1>4. CASE ForgetList
  BY <1>4 DEF ForgetList, TypeOK, hubVars, HubList
<1> QED
  BY <1>1, <1>2, <1>3, <1>4, NextSteps, ProceedType

--------------------------------------------------------------------------------
(***************************************************************************)
(* Overlaps.                                                               *)
(***************************************************************************)

\* What a step makes of the requests in flight: all stay; one arrives, and is marked where
\* it meets another; or one goes on, about nobody.
LEMMA TaskChange ==
  ASSUME TypeOK, ListInv, [Next]_vars
  PROVE  /\ contended \subseteq contended'
         /\ \/ UNCHANGED <<task, contended>>
            \/ \E h \in Handler :
                 /\ \A g \in Handler : g # h => task'[g] = task[g]
                 /\ \A g \in Handler : g # h =>
                      Subject(task'[h]) \cap Subject(task[g]) \subseteq contended'
<1>1. ASSUME NEW h \in Handler, BeginStep(h)
      PROVE  /\ contended \subseteq contended'
             /\ \A g \in Handler : g # h => task'[g] = task[g]
             /\ \A g \in Handler : g # h =>
                  Subject(task'[h]) \cap Subject(task[g]) \subseteq contended'
  <2>1. PICK r \in Task : Begin(h, r)
    BY <1>1 DEF BeginStep
  <2>2. task'[h] = r /\ \A g \in Handler : g # h => task'[g] = task[g]
    BY <2>1 DEF Begin, TypeOK
  <2> QED
    BY <2>1, <2>2 DEF Begin
<1>2. ASSUME NEW h \in Handler, Proceed(h)
      PROVE  /\ contended \subseteq contended'
             /\ \A g \in Handler : g # h => task'[g] = task[g]
             /\ \A g \in Handler : g # h =>
                  Subject(task'[h]) \cap Subject(task[g]) \subseteq contended'
  <2>1. Subject(task'[h]) = {}
    BY <1>2, Going, SubjectFacts
  <2> QED
    BY <1>2, <2>1, Going
<1> QED
  BY <1>1, <1>2, NextSteps DEF vars, CreateHub, ForgetList

LEMMA OverlapStep ==
  ASSUME TypeOK, ListInv, OverlapInv, [Next]_vars
  PROVE  OverlapInv'
<1>1. CASE UNCHANGED <<task, contended>>
  BY <1>1 DEF OverlapInv
<1>2. ASSUME NEW h \in Handler, \A g \in Handler : g # h => task'[g] = task[g],
             \A g \in Handler : g # h =>
               Subject(task'[h]) \cap Subject(task[g]) \subseteq contended',
             contended \subseteq contended'
      PROVE  OverlapInv'
  <2> SUFFICES ASSUME NEW f \in Handler, NEW g \in Handler, f # g
               PROVE  Subject(task'[f]) \cap Subject(task'[g]) \subseteq contended'
    BY DEF OverlapInv
  <2>1. CASE f # h /\ g # h
    BY <1>2, <2>1 DEF OverlapInv
  <2>2. CASE f = h \/ g = h
    BY <1>2, <2>2
  <2> QED
    BY <2>1, <2>2
<1> QED
  BY <1>1, <1>2, TaskChange

\* Two requests about the role, or about the hub, of one person: it is marked.
LEMMA Meeting ==
  ASSUME OverlapInv, NEW g \in Handler, NEW h \in Handler, g # h,
         NEW x, x \in Subject(task[g]), x \in Subject(task[h])
  PROVE  x \in contended
BY DEF OverlapInv

--------------------------------------------------------------------------------
(***************************************************************************)
(* Hubs of people, and of orders.                                          *)
(***************************************************************************)

\* What a step that goes on makes of a person: the hub of one about whom the request is.
LEMMA PersonChange ==
  ASSUME TypeOK, RoleInv, NEW h \in Handler, Proceed(h)
  PROVE  \/ UNCHANGED <<person, left>>
         \/ \E p \in Person :
              /\ task[h].op \in {"approve", "assign", "remove"} /\ p = task[h].person
              /\ \A q \in Person : q # p =>
                   person'[q] = person[q] /\ (q \in left' <=> q \in left)
              /\ \/ person'[p].hub # NoHub
                 \/ /\ task[h].op = "remove"
                    /\ p \in left' \/ person[p] # [role |-> task[h].role, hub |-> task[h].hub]
<1>0. /\ task[h] \in Task /\ person \in [Person -> Member] /\ left \subseteq Person
      /\ \A b \in Hub : b # NoHub
  BY NoHubAssumption DEF TypeOK
<1>1. CASE ApproveWrite(h)
  <2>1. PICK p \in Person, c \in Hub : task[h].op = "approve" /\ p = task[h].person
                                       /\ c = task[h].hub
    BY <1>0, <1>1, TaskShape DEF ApproveWrite, Op
  <2>2. PICK role \in TargetRole : role = request[task[h].request].target
    <3>1. RoleTask(task[h])
      BY DEF RoleInv
    <3> QED
      BY <2>1, <3>1, RowType DEF RoleTask
  <2>3. PICK row : row = [role |-> role, hub |-> c]
    OBVIOUS
  <2>4. person' = [person EXCEPT ![p] = row] /\ left' = left \ {p}
    BY <1>1, <2>1, <2>2, <2>3 DEF ApproveWrite, HubFor
  <2>5. row.hub # NoHub
    BY <1>0, <2>3
  <2> QED
    BY <1>0, <2>1, <2>4, <2>5
<1>2. CASE AssignWrite(h)
  <2>1. PICK p \in Person, c \in Hub : task[h].op = "assign" /\ p = task[h].person
                                       /\ c = task[h].hub
    BY <1>0, <1>2, TaskShape DEF AssignWrite, Op
  <2>2. PICK row : row = [person[p] EXCEPT !.hub = c]
    OBVIOUS
  <2>3. row.hub = c
    BY <1>0, <2>2 DEF Member
  <2>4. person' = [person EXCEPT ![p] = row] /\ left' = left \ {p}
    BY <1>2, <2>1, <2>2 DEF AssignWrite
  <2> QED
    BY <1>0, <2>1, <2>3, <2>4
<1>3. CASE RemoveWrite(h)
  <2>1. PICK p \in Person : task[h].op = "remove" /\ p = task[h].person
    BY <1>0, <1>3, TaskShape DEF RemoveWrite, Op
  <2>2. PICK row : row = [person[p] EXCEPT !.hub = NoHub]
    OBVIOUS
  <2>3. /\ person' = [person EXCEPT ![p] = row]
        /\ left' = IF person[p] = [role |-> task[h].role, hub |-> task[h].hub]
                   THEN left \cup {p} ELSE left
    BY <1>3, <2>1, <2>2 DEF RemoveWrite
  <2> QED
    BY <1>0, <2>1, <2>3
<1>4. CASE ~ApproveWrite(h) /\ ~AssignWrite(h) /\ ~RemoveWrite(h)
  BY <1>4 DEF Proceed, SubmitWrite, RejectWrite, Tell, DeleteHub, OrderList, OrderPlace,
     BreakOff
<1> QED
  BY <1>1, <1>2, <1>3, <1>4

LEMMA HubStep ==
  ASSUME TypeOK, OverlapInv, RoleInv, ListInv, HubInv, [Next]_vars
  PROVE  HubInv'
<1>0. person \in [Person -> Member] /\ \A g \in Handler : task[g] \in Task
  BY DEF TypeOK
<1>1. ASSUME NEW h \in Handler, BeginStep(h)
      PROVE  HubInv'
  <2>1. PICK r \in Task : Begin(h, r) /\ TablesStay /\ HubTask(r)
    BY <1>1 DEF BeginStep
  <2>2. /\ task'[h] = r /\ \A g \in Handler : g # h => task'[g] = task[g]
        /\ contended \subseteq contended' /\ UNCHANGED <<person, left>>
    BY <2>1 DEF Begin, TypeOK, TablesStay
  <2>3. \A g \in Handler : HubTask(task[g])'
    BY <2>1, <2>2 DEF HubInv, HubTask, HubFree
  <2>4. HublessWasRemoved'
    BY <2>2 DEF HubInv, HublessWasRemoved
  <2> QED
    BY <2>3, <2>4 DEF HubInv
<1>2. ASSUME NEW h \in Handler, Proceed(h)
      PROVE  HubInv'
  <2>1. /\ UNCHANGED contended
        /\ \A g \in Handler : g # h => task'[g] = task[g]
        /\ task'[h].op # "remove"
    BY <1>2, Going
  <2>2. CASE UNCHANGED <<person, left>>
    <3>1. \A g \in Handler : HubTask(task[g])'
      BY <2>1, <2>2 DEF HubInv, HubTask, HubFree
    <3> QED
      BY <2>1, <2>2, <3>1 DEF HubInv, HublessWasRemoved
  <2>3. ASSUME NEW p \in Person,
               task[h].op \in {"approve", "assign", "remove"}, p = task[h].person,
               \A q \in Person : q # p =>
                 person'[q] = person[q] /\ (q \in left' <=> q \in left),
               \/ person'[p].hub # NoHub
               \/ /\ task[h].op = "remove"
                  /\ p \in left' \/ person[p] # [role |-> task[h].role, hub |-> task[h].hub]
        PROVE  HubInv'
    <3>1. <<"hub", p>> \in Subject(task[h])
      BY <2>3, SubjectFacts
    <3>2. ASSUME NEW g \in Handler, g # h, task[g].op = "remove", HubFree(task[g].person)
          PROVE  task[g].person \in Person /\ task[g].person # p
      <4>1. <<"hub", task[g].person>> \in Subject(task[g]) /\ task[g].person \in Person
        BY <1>0, <3>2, SubjectFacts, TaskShape
      <4> QED
        BY <3>1, <3>2, <4>1, Meeting DEF HubFree
    <3>3. \A g \in Handler : HubTask(task[g])'
      BY <2>1, <2>3, <3>2 DEF HubInv, HubTask, HubFree
    <3>4. HubFree(p) => person'[p].hub # NoHub \/ p \in left'
      <4> SUFFICES ASSUME HubFree(p), task[h].op = "remove",
                          person[p] # [role |-> task[h].role, hub |-> task[h].hub]
                   PROVE  FALSE
        BY <2>3
      <4>1. person[p].role = task[h].role /\ person[p].hub = task[h].hub
        BY <2>3 DEF HubInv, HubTask
      <4> QED
        BY <1>0, <4>1 DEF Member
    <3>5. HublessWasRemoved'
      BY <2>1, <2>3, <3>4 DEF HubInv, HublessWasRemoved, HubFree
    <3> QED
      BY <3>3, <3>5 DEF HubInv
  <2> QED
    BY <1>2, <2>2, <2>3, PersonChange
<1>3. CASE UNCHANGED <<person, left, task, contended>>
  BY <1>3 DEF HubInv, HubTask, HubFree, HublessWasRemoved
<1> QED
  BY <1>1, <1>2, <1>3, NextSteps DEF vars, CreateHub, ForgetList

\* A list read since the last change stays right until there is one.
LEMMA OpenHubStep ==
  ASSUME TypeOK, [Next]_vars
  PROVE  /\ changes \in Nat
         /\ \/ changes' = changes /\ OpenHub' = OpenHub
            \/ changes' = changes + 1
<1>0. changes \in Nat /\ hub \in [Hub -> {"absent", "active", "deleted"}]
  BY DEF TypeOK
<1>1. ASSUME NEW h \in Handler, DeleteHub(h)
      PROVE  \/ changes' = changes /\ OpenHub' = OpenHub
             \/ changes' = changes + 1
  BY <1>0, <1>1 DEF DeleteHub, OpenHub
<1>2. ASSUME NEW h \in Handler, Proceed(h)
      PROVE  DeleteHub(h) \/ UNCHANGED hubVars
  BY <1>2 DEF Proceed, SubmitWrite, ApproveWrite, RejectWrite, Tell, AssignWrite,
     RemoveWrite, OrderList, OrderPlace, BreakOff
<1>3. ASSUME NEW b \in Hub, CreateHub(b)
      PROVE  changes' = changes + 1
  BY <1>3 DEF CreateHub
<1>4. CASE UNCHANGED hubVars
  <2>1. hub' = hub /\ changes' = changes
    BY <1>4 DEF hubVars
  <2>2. OpenHub' = OpenHub
    BY <2>1 DEF OpenHub
  <2> QED
    BY <1>0, <2>1, <2>2
<1>5. \/ UNCHANGED hubVars
      \/ \E h \in Handler : Proceed(h)
      \/ \E b \in Hub : CreateHub(b)
  BY DEF Next, vars, SubmitBegin, AssignBegin, RemoveBegin, ApproveBegin, RejectBegin,
     DeleteHubBegin, OrderBegin, ForgetList
<1> QED
  BY <1>0, <1>1, <1>2, <1>3, <1>4, <1>5

LEMMA ListStep ==
  ASSUME TypeOK, TypeOK', ListInv, [Next]_vars
  PROVE  ListInv'
<1>0. /\ changes \in Nat
      /\ \/ changes' = changes /\ OpenHub' = OpenHub
         \/ changes' = changes + 1
      /\ placed \in Seq(Placed) /\ cache \in HubList
      /\ \A g \in Handler : task[g] \in Task
  BY OpenHubStep DEF TypeOK
<1>1. ASSUME NEW r \in Task, ListTask(r)
      PROVE  /\ r.op = "list" => r.at <= changes' /\ (r.at = changes' => r.hubs = OpenHub')
             /\ r.op = "place" =>
                  r.at <= changes' /\ (r.at = changes' => r.hub \in Nearest(OpenHub'))
  <2>1. r.op \in {"list", "place"} => r.at \in Nat
    BY TaskShape
  <2> QED
    BY <1>0, <1>1, <2>1 DEF ListTask
<1>2. cache # NoList =>
        cache.at <= changes' /\ (cache.at = changes' => cache.hubs = OpenHub')
  <2>1. cache # NoList => cache.at \in Nat
    BY <1>0 DEF HubList
  <2> QED
    BY <1>0, <2>1 DEF ListInv
<1>3. ASSUME NEW g \in Handler, task'[g] = task[g]
      PROVE  ListTask(task[g])'
  BY <1>0, <1>1, <1>3 DEF ListInv, ListTask, Nearest
<1>4. ASSUME NEW h \in Handler, BeginStep(h)
      PROVE  ListInv'
  <2>1. PICK r \in Task : Begin(h, r) /\ TablesStay /\ ListTask(r)
    BY <1>4 DEF BeginStep
  <2>2. /\ task'[h] = r /\ \A g \in Handler : g # h => task'[g] = task[g]
        /\ UNCHANGED <<cache, placed>>
    BY <2>1 DEF Begin, TypeOK, TablesStay, orderVars
  <2>3. \A g \in Handler : ListTask(task[g])'
    BY <1>1, <1>3, <2>1, <2>2 DEF ListTask, Nearest
  <2> QED
    BY <1>2, <2>2, <2>3 DEF ListInv, OrderAtOpenHub
<1>5. CASE UNCHANGED <<task, placed>> /\ (UNCHANGED cache \/ cache' = NoList)
  BY <1>2, <1>3, <1>5 DEF ListInv, OrderAtOpenHub
<1>6. ASSUME NEW h \in Handler, Proceed(h)
      PROVE  ListInv'
  <2>1. /\ \A g \in Handler : g # h => task'[g] = task[g]
        /\ task'[h].op \in {"idle", "tell", "place"}
    BY <1>6, Going
  <2>2. CASE OrderList(h)
    <3>1. PICK H \in SUBSET Hub, n \in Nat :
            H = task[h].hubs /\ n = task[h].at /\ task[h].op = "list"
      BY <1>0, <2>2, TaskShape DEF OrderList, Op
    <3>2. n <= changes /\ (n = changes => H = OpenHub)
      BY <3>1 DEF ListInv, ListTask
    <3>3. UNCHANGED <<changes, hub>>
      BY <2>2 DEF OrderList, hubVars
    <3>4. PICK b \in Nearest(H) : task'[h] = [op |-> "place", hub |-> b, at |-> n]
      BY <2>2, <3>1 DEF OrderList, Continue, TypeOK
    <3>5. ListTask(task[h])'
      BY <3>2, <3>3, <3>4 DEF ListTask, OpenHub, Nearest
    <3>6. \A g \in Handler : ListTask(task[g])'
      BY <1>3, <2>1, <3>5
    <3>7. cache' = [hubs |-> H, at |-> n] /\ UNCHANGED placed
      BY <2>2, <3>1 DEF OrderList
    <3>8. cache'.at = n /\ cache'.hubs = H
      BY <3>7
    <3> QED
      BY <3>2, <3>3, <3>6, <3>7, <3>8 DEF ListInv, OrderAtOpenHub, OpenHub
  <2>3. CASE OrderPlace(h)
    <3>1. PICK b \in Hub \cup {NoHub}, n \in Nat :
            b = task[h].hub /\ n = task[h].at /\ task[h].op = "place"
      BY <1>0, <2>3, TaskShape DEF OrderPlace, Op
    <3>2. n = changes => b \in Nearest(OpenHub)
      BY <3>1 DEF ListInv, ListTask
    <3>3. PICK row \in Placed :
            row = [hub |-> b, at |-> n, open |-> OpenHub, changes |-> changes]
      BY <1>0 DEF Placed, OpenHub
    <3>4. placed' = Append(placed, row) /\ task'[h].op = "idle" /\ UNCHANGED cache
      BY <2>3, <3>1, <3>3 DEF OrderPlace, Continue, TypeOK, Idle
    <3>5. /\ DOMAIN placed' = DOMAIN placed \cup {Len(placed) + 1}
          /\ placed'[Len(placed) + 1] = row
          /\ \A i \in DOMAIN placed : placed'[i] = placed[i]
      BY <1>0, <3>4, RowAdded
    <3>6. row.at = row.changes =>
            IF row.open = {} THEN row.hub = NoHub ELSE row.hub \in row.open
      BY <3>2, <3>3 DEF Nearest
    <3>7. OrderAtOpenHub'
      BY <3>5, <3>6 DEF ListInv, OrderAtOpenHub
    <3>8. \A g \in Handler : ListTask(task[g])'
      BY <1>3, <2>1, <3>4 DEF ListTask
    <3> QED
      BY <1>2, <3>4, <3>7, <3>8 DEF ListInv
  <2>4. CASE ~OrderList(h) /\ ~OrderPlace(h)
    <3>1. UNCHANGED <<cache, placed>> /\ task'[h].op \in {"idle", "tell"}
      <4>1. CASE \/ SubmitWrite(h) \/ Tell(h) \/ AssignWrite(h) \/ RemoveWrite(h)
                 \/ DeleteHub(h) \/ BreakOff(h)
        BY <4>1 DEF SubmitWrite, Tell, AssignWrite, RemoveWrite, DeleteHub, BreakOff,
           Continue, orderVars, TypeOK, Idle
      <4>2. ASSUME NEW verdict, NEW b, Decide(h, verdict, b)
            PROVE  task'[h].op = "tell"
        BY <4>2 DEF Decide, Continue, TypeOK
      <4>3. CASE ApproveWrite(h) \/ RejectWrite(h)
        BY <4>2, <4>3 DEF ApproveWrite, RejectWrite, orderVars
      <4> QED
        BY <1>6, <2>4, <4>1, <4>3 DEF Proceed
    <3>2. \A g \in Handler : ListTask(task[g])'
      BY <1>3, <2>1, <3>1 DEF ListTask
    <3> QED
      BY <1>2, <3>1, <3>2 DEF ListInv, OrderAtOpenHub
  <2> QED
    BY <2>2, <2>3, <2>4
<1> QED
  BY <1>4, <1>5, <1>6, NextSteps DEF vars, CreateHub, ForgetList, orderVars

--------------------------------------------------------------------------------
(***************************************************************************)
(* The table of requests.                                                  *)
(***************************************************************************)

\* What the table says of a person is the same when its rows and the person's are.
LEMMA RowsStay ==
  ASSUME TypeOK, DOMAIN request' = DOMAIN request, NEW p,
         \A r \in DOMAIN request :
           /\ request'[r].requester = request[r].requester
           /\ request[r].requester = p =>
                request'[r].status = request[r].status /\ request'[r].target = request[r].target
  PROVE  /\ PendingOf(p)' = PendingOf(p) /\ Approved(p)' = Approved(p)
         /\ person'[p].role = person[p].role /\ RoleIsLast(p) => RoleIsLast(p)'
<1>1. PendingOf(p)' = PendingOf(p)
  BY DEF PendingOf
<1>2. Approved(p)' = Approved(p)
  BY DEF Approved
<1>3. \A r \in Approved(p) : request'[r].target = request[r].target
  BY DEF Approved
<1> QED
  BY <1>1, <1>2, <1>3 DEF RoleIsLast

\* What another request holds of the table while the row of one about it is not its own.
LEMMA OtherTasks ==
  ASSUME TypeOK, RoleInv, OverlapInv, NEW h \in Handler, NEW g \in Handler, g # h,
         task'[g] = task[g], UNCHANGED contended,
         <<"role", task[h].person>> \in Subject(task[h]),
         DOMAIN request \subseteq DOMAIN request',
         \A r \in DOMAIN request :
           /\ request'[r].requester = request[r].requester
           /\ \/ request'[r].status = request[r].status
              \/ /\ request[r].requester = task[h].person
                 /\ RoleFree(task[h].person) => request[r].status = "PENDING",
         \A r \in DOMAIN request' \ DOMAIN request :
           request'[r].requester = task[h].person
  PROVE  RoleTask(task[g])'
<1>0. task[g] \in Task /\ RoleTask(task[g])
  BY DEF TypeOK, RoleInv
<1>1. PICK t \in Task : t = task[g] /\ task'[g] = t
  BY <1>0
<1>2. RoleTask(t)
  BY <1>0, <1>1
<1>3. ASSUME t.op \in {"submit", "approve", "reject"}, RoleFree(t.person)
      PROVE  t.person # task[h].person
  <2>1. <<"role", t.person>> \in Subject(t)
    BY <1>3, SubjectFacts
  <2> QED
    BY <1>1, <1>3, <2>1, Meeting DEF RoleFree
<1>4. t.op \in {"approve", "reject", "tell"} =>
        t.request \in DOMAIN request' /\ request'[t.request].requester = t.person
  BY <1>2 DEF RoleTask
<1>5. ASSUME t.op = "submit", RoleFree(t.person)
      PROVE  PendingOf(t.person)' = {}
  <2>1. PendingOf(t.person) = {} /\ t.person # task[h].person
    BY <1>2, <1>3, <1>5 DEF RoleTask
  <2>2. ASSUME NEW r \in DOMAIN request', request'[r].requester = t.person
        PROVE  request'[r].status # "PENDING"
    <3>1. r \in DOMAIN request
      BY <2>1, <2>2
    <3> QED
      BY <2>1, <2>2, <3>1 DEF PendingOf
  <2>3. PendingOf(t.person)' = {r \in DOMAIN request' : request'[r].requester = t.person
                                                       /\ request'[r].status = "PENDING"}
    BY <1>1 DEF PendingOf
  <2> QED
    BY <2>2, <2>3
<1>6. ASSUME t.op \in {"approve", "reject"}, RoleFree(t.person)
      PROVE  request'[t.request].status = "PENDING"
  BY <1>2, <1>3, <1>6 DEF RoleTask
<1>7. ASSUME t.op = "tell", RoleFree(t.person)
      PROVE  request'[t.request].status = t.status
  <2>1. /\ t.request \in DOMAIN request /\ request[t.request].requester = t.person
        /\ request[t.request].status = t.status /\ t.status # "PENDING"
    BY <1>2, <1>7, TaskShape DEF RoleTask
  <2> QED
    BY <1>7, <2>1
<1>8. RoleFree(t.person)' <=> RoleFree(t.person)
  BY DEF RoleFree
<1>9. RoleTask(t)'
  BY <1>4, <1>5, <1>6, <1>7, <1>8 DEF RoleTask, PendingOf
<1> QED
  BY <1>1, <1>9 DEF RoleTask, RoleFree, PendingOf

\* The step in which a request is put into the table.
LEMMA SubmitRole ==
  ASSUME TypeOK, RoleInv, OverlapInv, NEW h \in Handler, SubmitWrite(h)
  PROVE  RoleInv'
<1>0. /\ task[h] \in Task /\ RoleTask(task[h]) /\ task[h].op = "submit"
      /\ UNCHANGED <<person, told, contended>>
      /\ \A g \in Handler : g # h => task'[g] = task[g]
      /\ task'[h].op = "idle"
  BY DEF TypeOK, RoleInv, SubmitWrite, Op, Continue, Idle
<1>1. PICK p \in Person, role \in TargetRole, b \in Hub :
        p = task[h].person /\ role = task[h].target /\ b = task[h].hub
  BY <1>0, TaskShape
<1>2. PICK row \in RoleRequest :
        row = [requester |-> p, target |-> role, hub |-> b, status |-> "PENDING"]
  BY DEF RoleRequest
<1>3. PICK n : n = Len(request) + 1
  OBVIOUS
<1>4. request' = Append(request, row) /\ Len(request) < MaxRequests
  BY <1>1, <1>2 DEF SubmitWrite
<1>5. /\ DOMAIN request' = DOMAIN request \cup {n} /\ n \notin DOMAIN request
      /\ request'[n] = row /\ \A r \in DOMAIN request : request'[r] = request[r]
      /\ \A r \in DOMAIN request : r \in Nat /\ r <= n
      /\ n \in Request /\ n \in Nat /\ n <= n
  BY <1>3, <1>4, RowAdded, RowType, BoundAssumption DEF Request
<1>6. row.requester = p /\ row.status = "PENDING"
  BY <1>2
<1>7. RoleFree(p) => \A r \in DOMAIN request : request[r].requester = p =>
                       request[r].status # "PENDING"
  BY <1>0, <1>1 DEF RoleTask, PendingOf
<1>8. <<"role", p>> \in Subject(task[h])
  BY <1>0, <1>1, SubjectFacts
<1>9. \A g \in Handler : RoleTask(task[g])'
  <2>1. ASSUME NEW g \in Handler, g # h
        PROVE  RoleTask(task[g])'
    BY <1>0, <1>1, <1>5, <1>6, <1>8, <2>1, OtherTasks
  <2>2. RoleTask(task[h])'
    BY <1>0 DEF RoleTask
  <2> QED
    BY <2>1, <2>2
<1>10. \A r \in Request \ DOMAIN request' : told'[r] = {}
  BY <1>0, <1>5 DEF RoleInv
<1>11. ASSUME NEW q \in Person, RoleFree(q)
       PROVE  RoleIsLast(q)'
  <2>1. RoleIsLast(q)
    BY <1>11 DEF RoleInv
  <2>2. Approved(q)' = Approved(q)
    BY <1>5, <1>6 DEF Approved
  <2>3. \A r \in Approved(q) : request'[r] = request[r]
    BY <1>5 DEF Approved
  <2> QED
    BY <1>0, <2>1, <2>2, <2>3 DEF RoleIsLast
<1>12. ASSUME NEW r \in DOMAIN request'
       PROVE  RowSound(r)'
  <2>1. CASE r = n
    <3>1. told'[r] = {}
      BY <1>0, <1>5, <2>1 DEF RoleInv
    <3> QED
      BY <1>5, <2>1, <3>1 DEF RowSound
  <2>2. CASE r # n
    <3>1. r \in DOMAIN request /\ request'[r] = request[r] /\ RowSound(r)
      BY <1>5, <2>2 DEF RoleInv
    <3>2. RoleFree(request[r].requester) /\ request[r].status = "PENDING" =>
            request[r].requester # p
      BY <1>7, <3>1
    <3> QED
      BY <1>0, <1>5, <1>6, <3>1, <3>2 DEF RowSound, RoleFree
  <2> QED
    BY <2>1, <2>2
<1>13. \A q \in Person : RoleFree(q)' => RoleIsLast(q)'
  BY <1>0, <1>11 DEF RoleFree
<1> QED
  BY <1>9, <1>10, <1>12, <1>13 DEF RoleInv

\* The steps that decide a request: it was pending and the last of its requester, and
\* stands as decided.
LEMMA DecideRole ==
  ASSUME TypeOK, RoleInv, OverlapInv, NEW h \in Handler, NEW verdict \in {"APPROVED", "REJECTED"},
         NEW b \in Hub \cup {NoHub}, Decide(h, verdict, b), Op(h, "approve") \/ Op(h, "reject"),
         \A g \in Handler : g # h => task'[g] = task[g], UNCHANGED <<told, contended>>,
         \A q \in Person : q # task[h].person => person'[q].role = person[q].role,
         verdict = "APPROVED" => person'[task[h].person].role = request[task[h].request].target,
         verdict = "REJECTED" => person'[task[h].person].role = person[task[h].person].role
  PROVE  RoleInv'
<1>1. PICK r, p : r = task[h].request /\ p = task[h].person
  OBVIOUS
<1>2. /\ r \in DOMAIN request /\ p \in Person /\ request[r].requester = p
      /\ DOMAIN request' = DOMAIN request
      /\ request'[r].requester = p
      /\ request'[r].target = request[r].target /\ request'[r].status = verdict
      /\ \A k \in DOMAIN request : k # r => request'[k] = request[k]
      /\ task'[h].op = "tell" /\ task'[h].request = r
      /\ task'[h].person = p /\ task'[h].status = verdict
  BY <1>1, DecideRow
<1>3. /\ RoleFree(p) => request[r].status = "PENDING"
      /\ <<"role", p>> \in Subject(task[h])
  BY <1>1, SubjectFacts DEF Op, RoleInv, RoleTask
<1>4. \A g \in Handler : RoleTask(task[g])'
  <2>1. ASSUME NEW g \in Handler, g # h
        PROVE  RoleTask(task[g])'
    <3>1. \A k \in DOMAIN request :
            /\ request'[k].requester = request[k].requester
            /\ \/ request'[k].status = request[k].status
               \/ /\ request[k].requester = task[h].person
                  /\ RoleFree(task[h].person) => request[k].status = "PENDING"
      BY <1>1, <1>2, <1>3
    <3> QED
      BY <1>1, <1>2, <1>3, <2>1, <3>1, OtherTasks
  <2>2. RoleTask(task[h])'
    BY <1>2 DEF RoleTask
  <2> QED
    BY <2>1, <2>2
<1>5. \A k \in Request \ DOMAIN request' : told'[k] = {}
  BY <1>2 DEF RoleInv
<1>6. ASSUME NEW q \in Person, RoleFree(q), q # p
      PROVE  RoleIsLast(q)'
  <2>1. RoleIsLast(q) /\ person'[q].role = person[q].role
    BY <1>1, <1>6 DEF RoleInv
  <2>2. \A k \in DOMAIN request :
          /\ request'[k].requester = request[k].requester
          /\ request[k].requester = q => request'[k].status = request[k].status
                                         /\ request'[k].target = request[k].target
    BY <1>2, <1>6
  <2> QED
    BY <1>2, <2>1, <2>2, RowsStay
<1>7. ASSUME RoleFree(p)
      PROVE  RoleIsLast(p)'
  <2>1. RoleIsLast(p) /\ request[r].status = "PENDING"
    BY <1>2, <1>3, <1>7 DEF RoleInv
  <2>2. CASE verdict = "APPROVED"
    <3>1. \A s \in DOMAIN request : request[s].requester = p => s <= r
      BY <1>2, <1>7, <2>1 DEF RoleInv, RowSound
    <3>2. r \in Approved(p)'
      BY <1>2, <2>2 DEF Approved
    <3>3. \A s \in Approved(p)' : s <= r
      BY <1>2, <3>1 DEF Approved
    <3>4. person'[p].role = request'[r].target
      BY <1>1, <1>2, <2>2
    <3> QED
      BY <3>2, <3>3, <3>4 DEF RoleIsLast
  <2>3. CASE verdict = "REJECTED"
    <3>1. Approved(p)' = Approved(p)
      BY <1>2, <2>1, <2>3 DEF Approved
    <3>2. \A s \in Approved(p) : request'[s] = request[s]
      BY <1>2, <2>1 DEF Approved
    <3>3. person'[p].role = person[p].role
      BY <1>1, <2>3
    <3> QED
      BY <2>1, <3>1, <3>2, <3>3 DEF RoleIsLast
  <2> QED
    BY <2>2, <2>3
<1>8. ASSUME NEW k \in DOMAIN request'
      PROVE  RowSound(k)'
  <2>1. RowSound(k) /\ k \in DOMAIN request
    BY <1>2, <1>8 DEF RoleInv
  <2>2. CASE k = r
    <3>1. told[r] \subseteq {"APPROVED", "REJECTED"}
      BY <1>2, RowType DEF TypeOK
    <3>2. RoleFree(p) => told[r] = {}
      BY <1>2, <1>3, <2>1, <2>2, <3>1 DEF RowSound
    <3> QED
      BY <1>2, <2>2, <3>2 DEF RowSound, RoleFree
  <2>3. CASE k # r
    <3>1. request'[k] = request[k] /\ told'[k] = told[k]
      BY <1>2, <2>1, <2>3
    <3>2. \A s \in DOMAIN request' :
            s \in DOMAIN request /\ request'[s].requester = request[s].requester
      BY <1>2
    <3> QED
      BY <2>1, <3>1, <3>2 DEF RowSound, RoleFree
  <2> QED
    BY <2>2, <2>3
<1>9. \A q \in Person : RoleFree(q)' => RoleIsLast(q)'
  BY <1>6, <1>7 DEF RoleFree
<1> QED
  BY <1>4, <1>5, <1>8, <1>9 DEF RoleInv

\* Steps that leave the table of requests and the roles alone.
LEMMA QuietRole ==
  ASSUME TypeOK, RoleInv, UNCHANGED <<request, told>>, contended \subseteq contended',
         \A p \in Person : person'[p].role = person[p].role,
         \A g \in Handler : RoleTask(task[g])'
  PROVE  RoleInv'
<1>1. request' = request /\ told' = told
  OBVIOUS
<1>2. \A p \in Person : RoleFree(p)' => RoleIsLast(p)'
  BY <1>1 DEF RoleInv, RoleFree, RoleIsLast, Approved
<1>3. \A r \in DOMAIN request : RowSound(r)'
  BY <1>1 DEF RoleInv, RowSound, RoleFree
<1> QED
  BY <1>1, <1>2, <1>3 DEF RoleInv

\* A request that is not touched holds what it held.
LEMMA TaskStays ==
  ASSUME RoleInv, UNCHANGED request, contended \subseteq contended',
         NEW g \in Handler, task'[g] = task[g]
  PROVE  RoleTask(task[g])'
BY DEF RoleInv, RoleTask, RoleFree, PendingOf

LEMMA RoleStep ==
  ASSUME TypeOK, OverlapInv, RoleInv, ListInv, [Next]_vars
  PROVE  RoleInv'
<1>0. /\ person \in [Person -> Member] /\ \A g \in Handler : task[g] \in Task
      /\ told \in [Request -> SUBSET {"APPROVED", "REJECTED"}]
  BY DEF TypeOK
<1>1. ASSUME NEW h \in Handler, BeginStep(h)
      PROVE  RoleInv'
  <2>1. PICK r \in Task : Begin(h, r) /\ TablesStay /\ RoleTask(r)
    BY <1>1 DEF BeginStep
  <2>2. /\ task'[h] = r /\ \A g \in Handler : g # h => task'[g] = task[g]
        /\ contended \subseteq contended' /\ UNCHANGED <<person, request, told>>
    BY <2>1 DEF Begin, TypeOK, TablesStay
  <2>3. RoleTask(task[h])'
    BY <2>1, <2>2 DEF RoleTask, RoleFree, PendingOf
  <2>4. \A g \in Handler : RoleTask(task[g])'
    BY <2>2, <2>3, TaskStays
  <2> QED
    BY <2>2, <2>4, QuietRole
<1>2. ASSUME NEW h \in Handler, Proceed(h)
      PROVE  RoleInv'
  <2>0. /\ UNCHANGED contended
        /\ \A g \in Handler : g # h => task'[g] = task[g]
        /\ task'[h].op \in {"idle", "tell", "place"}
        /\ task'[h].op # "tell" => RoleTask(task[h])'
    BY <1>2, Going DEF RoleTask
  <2>1. CASE SubmitWrite(h)
    BY <2>1, SubmitRole
  <2>2. CASE ApproveWrite(h)
    <3>1. PICK p \in Person, c \in Hub : p = task[h].person /\ c = task[h].hub
      BY <1>0, <2>2, TaskShape DEF ApproveWrite, Op
    <3>2. PICK role : role = request[task[h].request].target
      OBVIOUS
    <3>3. PICK b \in Hub \cup {NoHub} : b = HubFor(role, c)
      BY DEF HubFor
    <3>4. PICK row : row = [role |-> role, hub |-> b]
      OBVIOUS
    <3>5. /\ person' = [person EXCEPT ![p] = row] /\ Decide(h, "APPROVED", b)
          /\ UNCHANGED told /\ Op(h, "approve")
      BY <2>2, <3>1, <3>2, <3>3, <3>4 DEF ApproveWrite
    <3>6. row.role = role
      BY <3>4
    <3>7. person'[p].role = role /\ \A q \in Person : q # p => person'[q].role = person[q].role
      BY <1>0, <3>5, <3>6
    <3> QED
      BY <2>0, <3>1, <3>2, <3>5, <3>7, DecideRole
  <2>3. CASE RejectWrite(h)
    <3>1. Decide(h, "REJECTED", NoHub) /\ UNCHANGED <<told, person>> /\ Op(h, "reject")
      BY <2>3 DEF RejectWrite
    <3> QED
      BY <2>0, <3>1, DecideRole
  <2>4. CASE Tell(h)
    <3>1. PICK r \in Request, verdict \in {"APPROVED", "REJECTED"} :
            r = task[h].request /\ verdict = task[h].status
      BY <1>0, <2>4, TaskShape DEF Tell, Op
    <3>2. /\ r \in DOMAIN request
          /\ RoleFree(request[r].requester) => request[r].status = verdict
      BY <2>4, <3>1 DEF Tell, Op, RoleInv, RoleTask
    <3>3. told' = [told EXCEPT ![r] = told[r] \cup {verdict}] /\ UNCHANGED <<person, request>>
      BY <2>4, <3>1 DEF Tell
    <3>4. task'[h].op = "idle"
      BY <2>4 DEF Tell, Continue, Idle, TypeOK
    <3>5. \A g \in Handler : RoleTask(task[g])'
      BY <2>0, <3>3, <3>4, TaskStays
    <3>6. \A k \in Request : k # r => told'[k] = told[k]
      BY <1>0, <3>3
    <3>7. told'[r] = told[r] \cup {verdict}
      BY <1>0, <3>3
    <3>8. \A k \in Request \ DOMAIN request' : told'[k] = {}
      BY <3>2, <3>3, <3>6 DEF RoleInv
    <3>9. \A p \in Person : RoleFree(p)' => RoleIsLast(p)'
      BY <2>0, <3>3 DEF RoleInv, RoleFree, RoleIsLast, Approved
    <3>10. ASSUME NEW k \in DOMAIN request
           PROVE  RowSound(k)'
      <4>1. RowSound(k) /\ k \in Request
        BY RowType DEF RoleInv
      <4>2. RoleFree(request[k].requester) => told'[k] \subseteq {request[k].status}
        BY <3>2, <3>6, <3>7, <4>1 DEF RowSound
      <4> QED
        BY <2>0, <3>3, <4>1, <4>2 DEF RowSound, RoleFree
    <3> QED
      BY <3>3, <3>5, <3>8, <3>9, <3>10 DEF RoleInv
  <2>5. CASE AssignWrite(h) \/ RemoveWrite(h)
    <3>1. PICK p \in Person : p = task[h].person
      BY <1>0, <2>5, TaskShape DEF AssignWrite, RemoveWrite, Op
    <3>2. \E c : person' = [person EXCEPT ![p] = [person[p] EXCEPT !.hub = c]]
      BY <2>5, <3>1 DEF AssignWrite, RemoveWrite
    <3>3. \A q \in Person : person'[q].role = person[q].role
      BY <1>0, <3>2 DEF Member
    <3>4. task'[h].op = "idle" /\ UNCHANGED <<request, told>>
      BY <2>5 DEF AssignWrite, RemoveWrite, Continue, Idle, TypeOK
    <3>5. \A g \in Handler : RoleTask(task[g])'
      BY <2>0, <3>4, TaskStays
    <3> QED
      BY <2>0, <3>3, <3>4, <3>5, QuietRole
  <2>6. CASE DeleteHub(h) \/ OrderList(h) \/ OrderPlace(h) \/ BreakOff(h)
    <3>1. task'[h].op # "tell" /\ UNCHANGED <<person, request, told>>
      <4>1. CASE DeleteHub(h) \/ OrderPlace(h) \/ BreakOff(h)
        BY <4>1 DEF DeleteHub, OrderPlace, BreakOff, Continue, Idle, TypeOK
      <4>2. CASE OrderList(h)
        <5>1. PICK b : Continue(h, [op |-> "place", hub |-> b, at |-> task[h].at])
          BY <4>2 DEF OrderList
        <5>2. task'[h] = [op |-> "place", hub |-> b, at |-> task[h].at]
          BY <5>1 DEF Continue, TypeOK
        <5> QED
          BY <4>2, <5>2 DEF OrderList
      <4> QED
        BY <2>6, <4>1, <4>2
    <3>2. \A g \in Handler : RoleTask(task[g])'
      BY <2>0, <3>1, TaskStays
    <3> QED
      BY <2>0, <3>1, <3>2, QuietRole
  <2> QED
    BY <1>2, <2>1, <2>2, <2>3, <2>4, <2>5, <2>6 DEF Proceed
<1>3. CASE UNCHANGED <<person, request, told, task, contended>>
  <2>1. \A g \in Handler : RoleTask(task[g])'
    BY <1>3, TaskStays
  <2> QED
    BY <1>3, <2>1, QuietRole
<1> QED
  BY <1>1, <1>2, <1>3, NextSteps DEF vars, CreateHub, ForgetList

--------------------------------------------------------------------------------
(***************************************************************************)
(* Theorems.                                                               *)
(***************************************************************************)

LEMMA IndInit == Init => IInv
<1> SUFFICES ASSUME Init PROVE IInv
  OBVIOUS
<1>1. \A h \in Handler : task[h] = Idle /\ task[h].op = "idle"
  BY DEF Init, Idle
<1>2. OverlapInv
  BY <1>1, SubjectFacts DEF OverlapInv
<1>3. RoleInv
  <2>1. request = <<>> /\ DOMAIN request = {} /\ told = [r \in Request |-> {}]
    BY DEF Init
  <2>2. \A p \in Person : person[p].role = "CUSTOMER"
    BY DEF Init
  <2> QED
    BY <1>1, <2>1, <2>2 DEF RoleInv, RoleTask, RoleIsLast, Approved
<1>4. HubInv
  <2>1. \A p \in Person : person[p].role = "CUSTOMER"
    BY DEF Init
  <2> QED
    BY <1>1, <2>1 DEF HubInv, HubTask, HublessWasRemoved
<1>5. ListInv
  BY <1>1 DEF Init, ListInv, ListTask, OrderAtOpenHub
<1> QED
  BY <1>2, <1>3, <1>4, <1>5, TypeInit DEF IInv

\* Types, overlaps and what requests hold of people, tables and lists, in every state.
THEOREM Invariant == Spec => []IInv
<1>1. IInv /\ [Next]_vars => IInv'
  BY TypeStep, OverlapStep, RoleStep, HubStep, ListStep DEF IInv
<1> QED
  BY <1>1, IndInit, PTL DEF Spec

\* Every variable keeps its type, for any people, hubs and requests in flight.
THEOREM TypeCorrect == Spec => []TypeOK
<1>1. IInv => TypeOK
  BY DEF IInv
<1> QED
  BY <1>1, Invariant, PTL

\* Without overlapping requests about it, a role is the target of the last approval, at most
\* one request is pending, and no decision was told but the one that stands.
THEOREM RoleWasApprovedSafe == Spec => []RoleWasApproved
<1>1. IInv => RoleWasApproved
  <2> SUFFICES ASSUME IInv, NEW p \in Person, RoleFree(p)
               PROVE  /\ person[p].role =
                           IF Approved(p) = {} THEN "CUSTOMER"
                           ELSE request[CHOOSE r \in Approved(p) :
                                          \A s \in Approved(p) : s <= r].target
                      /\ Cardinality(PendingOf(p)) <= 1
                      /\ \A r \in DOMAIN request :
                           request[r].requester = p => told[r] \subseteq {request[r].status}
    BY DEF RoleWasApproved, RoleFree
  <2>1. TypeOK /\ RoleIsLast(p) /\ \A r \in DOMAIN request : RowSound(r)
    BY DEF IInv, RoleInv
  <2>2. DOMAIN request \subseteq Int
    BY <2>1, RowType
  <2>3. person[p].role = IF Approved(p) = {} THEN "CUSTOMER"
                         ELSE request[CHOOSE r \in Approved(p) :
                                        \A s \in Approved(p) : s <= r].target
    <3>1. CASE Approved(p) = {}
      BY <2>1, <3>1 DEF RoleIsLast
    <3>2. ASSUME NEW r \in Approved(p), \A s \in Approved(p) : s <= r,
                 person[p].role = request[r].target
          PROVE  person[p].role = request[CHOOSE k \in Approved(p) :
                                            \A s \in Approved(p) : s <= k].target
      <4>1. PICK c : c = CHOOSE k \in Approved(p) : \A s \in Approved(p) : s <= k
        OBVIOUS
      <4>2. c \in Approved(p) /\ \A s \in Approved(p) : s <= c
        BY <3>2, <4>1
      <4>3. c = r
        BY <2>2, <3>2, <4>2 DEF Approved
      <4> QED
        BY <3>2, <4>1, <4>3
    <3> QED
      BY <2>1, <3>1, <3>2 DEF RoleIsLast
  <2>4. Cardinality(PendingOf(p)) <= 1
    <3>1. CASE PendingOf(p) = {}
      BY <3>1, FS_EmptySet
    <3>2. ASSUME NEW r \in PendingOf(p)
          PROVE  Cardinality(PendingOf(p)) <= 1
      <4>1. \A s \in PendingOf(p) : s = r
        BY <2>1, <2>2, <3>2 DEF PendingOf, RowSound
      <4>2. PendingOf(p) = {r}
        BY <3>2, <4>1
      <4>3. Cardinality({r}) = 1
        BY FS_Singleton
      <4> QED
        BY <4>2, <4>3
    <3> QED
      BY <3>1, <3>2
  <2> QED
    BY <2>1, <2>3, <2>4 DEF RowSound
<1> QED
  BY <1>1, Invariant, PTL

\* Without overlapping requests about it, only who was taken out of the hub that was named
\* works for none.
THEOREM HublessWasRemovedSafe == Spec => []HublessWasRemoved
<1>1. IInv => HublessWasRemoved
  BY DEF IInv, HubInv
<1> QED
  BY <1>1, Invariant, PTL

\* An order is given to an open hub, unless hubs changed after its list was read.
THEOREM OrderAtOpenHubSafe == Spec => []OrderAtOpenHub
<1>1. IInv => OrderAtOpenHub
  BY DEF IInv, ListInv
<1> QED
  BY <1>1, Invariant, PTL

--------------------------------------------------------------------------------
(***************************************************************************)
(* What people have on their screens, with the constants and variables of  *)
(* Screens; nothing of it is shared with the above.                        *)
(*                                                                         *)
(* The rooms of trips first: for any sockets, accounts and trips, and any  *)
(* time to live of the cached answers.                                     *)
(***************************************************************************)
\* The types, with what an entry of the cache and the answer to a query are.
RoomsTyped ==
  /\ Rooms!TypeOK
  /\ answers \in [Rooms!Viewer \X Trip -> [expiresAt : Nat, hasAccess : BOOLEAN]]
  /\ DOMAIN await = Socket
  /\ \A c \in Socket : await[c].op = "join" => await[c].granted \in BOOLEAN

\* What was said of the access of v to t is so, or was not long before a given time.
Recent(said, v, t, time) ==
  (said <=> Rooms!Access(v, t)) \/ flip[<<v, t>>] + TTL >= time

\* The cache holds nothing of today that was not read within the time to live.
EntriesRecent ==
  \A v \in Rooms!Viewer, t \in Trip :
    answers[<<v, t>>].expiresAt > now =>
      Recent(answers[<<v, t>>].hasAccess, v, t, answers[<<v, t>>].expiresAt)

\* What a join has found is no older than the join.
JoinRecent(c) ==
  /\ await[c] # Rooms!Idle => await[c].began <= now
  /\ await[c].op = "join" =>
       Recent(await[c].granted, Account[c], await[c].trip, await[c].began + TTL)

\* Who is in a room was let in.
MemberEntitled(c, t) ==
  /\ joined[<<c, t>>] <= now
  /\ \/ Rooms!Staff(Account[c])
     \/ Rooms!Access(Account[c], t)
     \/ flip[<<Account[c], t>>] + TTL >= joined[<<c, t>>]

RoomsInv ==
  /\ RoomsTyped
  /\ \A x \in Rooms!Viewer \X Trip : flip[x] <= now /\ answers[x].expiresAt <= now + TTL
  /\ EntriesRecent
  /\ \A c \in Socket : JoinRecent(c)
  /\ \A t \in Trip : \A c \in room[t] : MemberEntitled(c, t)
  /\ Rooms!RoomsSound

LEMMA RoomsSilent ==
  ASSUME Rooms!Silent
  PROVE  Rooms!RoomsSound'
BY DEF Rooms!Silent, Rooms!RoomsSound, Rooms!AnswersFresh, Rooms!HeardEntitled

\* What numbers there are.
LEMMA RoomsNumbers ==
  ASSUME RoomsTyped, Rooms!ParametersOK
  PROVE  /\ now \in Nat /\ TTL \in Nat /\ MaxTime \in Nat
         /\ \A v \in Rooms!Viewer, t \in Trip :
              /\ flip[<<v, t>>] \in Nat /\ answers[<<v, t>>].expiresAt \in Nat
              /\ answers[<<v, t>>].hasAccess \in BOOLEAN
         /\ \A c \in Socket, t \in Trip : joined[<<c, t>>] \in Nat
         /\ \A c \in Socket : Account[c] \in Rooms!Viewer
         /\ \A c \in Socket : await[c] # Rooms!Idle =>
              await[c].trip \in Trip /\ await[c].began \in Nat
<1>1. MaxTime \in Nat /\ TTL \in Nat
  BY DEF Rooms!ParametersOK
<1>2. /\ now \in Rooms!Time /\ flip \in [Rooms!Viewer \X Trip -> Rooms!Time]
      /\ joined \in [Socket \X Trip -> Rooms!Time \cup {Rooms!Never}]
      /\ answers \in [Rooms!Viewer \X Trip -> [expiresAt : Nat, hasAccess : BOOLEAN]]
      /\ \A c \in Socket : await[c] # Rooms!Idle =>
           await[c].trip \in Trip /\ await[c].began \in Rooms!Time
  BY DEF RoomsTyped, Rooms!TypeOK
<1>3. Rooms!Time \subseteq Nat /\ Rooms!Never \in Nat
  BY <1>1 DEF Rooms!Time, Rooms!Never
<1>4. ASSUME NEW v \in Rooms!Viewer, NEW t \in Trip
      PROVE  /\ flip[<<v, t>>] \in Nat /\ answers[<<v, t>>].expiresAt \in Nat
             /\ answers[<<v, t>>].hasAccess \in BOOLEAN
  <2>1. flip[<<v, t>>] \in Nat
    BY <1>2, <1>3
  <2>2. answers[<<v, t>>] \in [expiresAt : Nat, hasAccess : BOOLEAN]
    BY <1>2
  <2> QED
    BY <2>1, <2>2
<1>5. \A c \in Socket, t \in Trip : joined[<<c, t>>] \in Nat
  BY <1>2, <1>3
<1>6. \A c \in Socket : Account[c] \in Rooms!Viewer
  BY DEF Rooms!Viewer
<1> QED
  BY <1>1, <1>2, <1>3, <1>4, <1>5, <1>6


\* What does not change is as recent as it was.
LEMMA RecentKept ==
  ASSUME UNCHANGED <<tripRow, flip>>, NEW said, NEW v, NEW t, NEW time
  PROVE  Recent(said, v, t, time)' <=> Recent(said, v, t, time)
BY DEF Recent, Rooms!Access

LEMMA JoinKept ==
  ASSUME UNCHANGED <<tripRow, flip>>, NEW c \in Socket, await'[c] = await[c],
         now \in Nat, now' \in Nat, now <= now',
         await[c] # Rooms!Idle => await[c].began \in Nat, JoinRecent(c)
  PROVE  JoinRecent(c)'
<1>1. PICK r : r = await[c]
  OBVIOUS
<1>2. (r # Rooms!Idle)' <=> r # Rooms!Idle
  BY DEF Rooms!Idle
<1>3. r # Rooms!Idle => r.began <= now'
  BY <1>1 DEF JoinRecent
<1>4. r.op = "join" => Recent(r.granted, Account[c], r.trip, r.began + TTL)'
  BY <1>1, RecentKept DEF JoinRecent
<1> QED
  BY <1>1, <1>2, <1>3, <1>4 DEF JoinRecent, Recent, Rooms!Access

LEMMA MemberKept ==
  ASSUME UNCHANGED <<tripRow, flip>>, NEW c \in Socket, NEW t \in Trip,
         joined'[<<c, t>>] = joined[<<c, t>>], joined[<<c, t>>] \in Nat,
         now \in Nat, now' \in Nat, now <= now', MemberEntitled(c, t)
  PROVE  MemberEntitled(c, t)'
<1>1. Rooms!Access(Account[c], t)' <=> Rooms!Access(Account[c], t)
  BY DEF Rooms!Access
<1>2. flip'[<<Account[c], t>>] = flip[<<Account[c], t>>]
  OBVIOUS
<1> QED
  BY <1>1, <1>2 DEF MemberEntitled, Rooms!Staff

\* A step that changes no trip: what it leaves is as recent as it was.
LEMMA RoomsKept ==
  ASSUME RoomsInv, RoomsTyped', Rooms!ParametersOK, UNCHANGED <<tripRow, flip>>,
         now <= now',
         \A v \in Rooms!Viewer, t \in Trip :
           \/ answers'[<<v, t>>] = answers[<<v, t>>]
           \/ /\ answers'[<<v, t>>].expiresAt <= now' + TTL
              /\ \/ answers'[<<v, t>>].expiresAt <= now'
                 \/ Recent(answers'[<<v, t>>].hasAccess, v, t, answers'[<<v, t>>].expiresAt),
         \A c \in Socket : await'[c] = await[c] \/ JoinRecent(c)',
         \A t \in Trip : \A c \in room'[t] :
           \/ c \in room[t] /\ joined'[<<c, t>>] = joined[<<c, t>>]
           \/ MemberEntitled(c, t)',
         Rooms!RoomsSound'
  PROVE  RoomsInv'
<1>a. now \in Nat /\ now' \in Nat /\ TTL \in Nat
  BY RoomsNumbers DEF RoomsInv, RoomsTyped, Rooms!TypeOK, Rooms!Time
<1>1. ASSUME NEW v \in Rooms!Viewer, NEW t \in Trip
      PROVE  /\ flip'[<<v, t>>] <= now' /\ answers'[<<v, t>>].expiresAt <= now' + TTL
             /\ (answers[<<v, t>>].expiresAt > now =>
                   Recent(answers[<<v, t>>].hasAccess, v, t, answers[<<v, t>>].expiresAt))'
  <2>1. PICK e : e = answers[<<v, t>>]
    OBVIOUS
  <2>2. PICK d : d = answers'[<<v, t>>]
    OBVIOUS
  <2>3. flip[<<v, t>>] \in Nat /\ e.expiresAt \in Nat /\ flip'[<<v, t>>] = flip[<<v, t>>]
    BY <2>1, RoomsNumbers DEF RoomsInv
  <2>4. d.expiresAt \in Nat
    BY <2>2 DEF RoomsTyped
  <2>5. flip[<<v, t>>] <= now /\ e.expiresAt <= now + TTL
    BY <2>1 DEF RoomsInv
  <2>6. e.expiresAt > now => Recent(e.hasAccess, v, t, e.expiresAt)
    BY <2>1 DEF RoomsInv, EntriesRecent
  <2>7. \/ d = e
        \/ /\ d.expiresAt <= now' + TTL
           /\ d.expiresAt <= now' \/ Recent(d.hasAccess, v, t, d.expiresAt)
    BY <2>1, <2>2
  <2>8. d.expiresAt <= now' + TTL
    BY <1>a, <2>3, <2>4, <2>5, <2>7
  <2>9. d.expiresAt > now' => Recent(d.hasAccess, v, t, d.expiresAt)
    BY <1>a, <2>3, <2>4, <2>6, <2>7
  <2>10. Recent(d.hasAccess, v, t, d.expiresAt)' <=> Recent(d.hasAccess, v, t, d.expiresAt)
    BY RecentKept
  <2>11. flip'[<<v, t>>] <= now'
    BY <1>a, <2>3, <2>5
  <2> QED
    BY <2>2, <2>8, <2>9, <2>10, <2>11 DEF Recent
<1>2. ASSUME NEW c \in Socket
      PROVE  JoinRecent(c)'
  <2>1. JoinRecent(c)
    BY DEF RoomsInv
  <2>2. await[c] # Rooms!Idle => await[c].began \in Nat
    BY RoomsNumbers DEF RoomsInv
  <2> QED
    BY <1>a, <2>1, <2>2, JoinKept
<1>3. ASSUME NEW t \in Trip, NEW c \in room'[t]
      PROVE  MemberEntitled(c, t)'
  <2>1. CASE c \in room[t] /\ joined'[<<c, t>>] = joined[<<c, t>>]
    <3>1. MemberEntitled(c, t) /\ c \in Socket /\ joined[<<c, t>>] \in Nat
      BY <2>1, RoomsNumbers DEF RoomsInv, RoomsTyped, Rooms!TypeOK
    <3> QED
      BY <1>a, <2>1, <3>1, MemberKept
  <2> QED
    BY <2>1
<1>4. \A x \in Rooms!Viewer \X Trip : flip'[x] <= now' /\ answers'[x].expiresAt <= now' + TTL
  BY <1>1
<1>5. EntriesRecent'
  BY <1>1 DEF EntriesRecent
<1> QED
  BY <1>2, <1>3, <1>4, <1>5 DEF RoomsInv

\* A change of a trip: whose access it changes may have been told otherwise just now.
LEMMA RoomsChange ==
  ASSUME RoomsInv, RoomsTyped', Rooms!ParametersOK, NEW t \in Trip,
         NEW S \in SUBSET Rooms!Customer, Rooms!ChangeTrip(t, S)
  PROVE  RoomsInv'
<1>a. now \in Nat /\ now' = now /\ TTL \in Nat
  BY RoomsNumbers DEF RoomsInv, Rooms!ChangeTrip
<1>b. UNCHANGED <<answers, await, room, joined>> /\ Rooms!RoomsSound'
  BY RoomsSilent DEF Rooms!ChangeTrip
<1>1. ASSUME NEW v \in Rooms!Viewer, NEW u \in Trip
      PROVE  /\ flip[<<v, u>>] \in Nat /\ flip[<<v, u>>] <= now /\ answers[<<v, u>>].expiresAt <= now + TTL
             /\ answers[<<v, u>>].expiresAt \in Nat
             /\ \/ flip'[<<v, u>>] = now
                \/ flip'[<<v, u>>] = flip[<<v, u>>] /\ (Rooms!Access(v, u)' <=> Rooms!Access(v, u))
  <2>1. <<v, u>> \in Rooms!Viewer \X Trip /\ <<v, u>>[1] = v /\ <<v, u>>[2] = u
    OBVIOUS
  <2>2. /\ flip[<<v, u>>] \in Nat /\ flip[<<v, u>>] <= now /\ answers[<<v, u>>].expiresAt <= now + TTL
        /\ answers[<<v, u>>].expiresAt \in Nat
    BY <2>1, RoomsNumbers DEF RoomsInv
  <2>3. flip'[<<v, u>>] = IF u = t /\ Rooms!Access(v, t) # Rooms!Access(v, t)'
                      THEN now ELSE flip[<<v, u>>]
    BY <2>1 DEF Rooms!ChangeTrip
  <2>4. u # t => (Rooms!Access(v, u)' <=> Rooms!Access(v, u))
    BY DEF Rooms!ChangeTrip, Rooms!Access, RoomsInv, RoomsTyped, Rooms!TypeOK
  <2>5. CASE u = t
    BY <2>2, <2>3, <2>5
  <2>6. CASE u # t
    BY <2>2, <2>3, <2>4, <2>6
  <2> QED
    BY <2>5, <2>6
<1>2. ASSUME NEW v \in Rooms!Viewer, NEW u \in Trip, NEW said, NEW time \in Nat,
             time <= now + TTL, Recent(said, v, u, time)
      PROVE  (said <=> Rooms!Access(v, u)') \/ flip'[<<v, u>>] + TTL >= time
  <2>1. CASE flip'[<<v, u>>] = now
    BY <1>a, <1>2, <2>1
  <2>2. CASE flip'[<<v, u>>] = flip[<<v, u>>] /\ (Rooms!Access(v, u)' <=> Rooms!Access(v, u))
    BY <1>2, <2>2 DEF Recent
  <2> QED
    BY <1>1, <2>1, <2>2
<1>3. EntriesRecent'
  <2> SUFFICES ASSUME NEW v \in Rooms!Viewer, NEW u \in Trip, answers[<<v, u>>].expiresAt > now
               PROVE  \/ answers[<<v, u>>].hasAccess <=> Rooms!Access(v, u)'
                      \/ flip'[<<v, u>>] + TTL >= answers[<<v, u>>].expiresAt
    BY <1>a, <1>b DEF EntriesRecent, Recent
  <2>1. Recent(answers[<<v, u>>].hasAccess, v, u, answers[<<v, u>>].expiresAt)
    BY DEF RoomsInv, EntriesRecent
  <2> QED
    BY <1>1, <1>2, <2>1
<1>4. ASSUME NEW c \in Socket
      PROVE  JoinRecent(c)'
  <2>1. JoinRecent(c) /\ Account[c] \in Rooms!Viewer
    BY RoomsNumbers DEF RoomsInv
  <2>2. CASE await[c].op = "join"
    <3>1. await[c].trip \in Trip /\ await[c].began \in Nat /\ await[c] # Rooms!Idle
      BY <2>2, RoomsNumbers DEF RoomsInv, Rooms!Idle
    <3>2. await[c].began <= now /\ await[c].began + TTL \in Nat
          /\ await[c].began + TTL <= now + TTL
      BY <1>a, <2>1, <3>1 DEF JoinRecent
    <3>3. Recent(await[c].granted, Account[c], await[c].trip, await[c].began + TTL)
      BY <2>1, <2>2 DEF JoinRecent
    <3>4. PICK u \in Trip, time \in Nat :
            u = await[c].trip /\ time = await[c].began + TTL
      BY <3>1, <3>2
    <3>a. PICK said : said = await[c].granted
      OBVIOUS
    <3>5. (said <=> Rooms!Access(Account[c], u)') \/ flip'[<<Account[c], u>>] + TTL >= time
      BY <1>2, <2>1, <3>2, <3>3, <3>4, <3>a
    <3>6. await'[c] = await[c] /\ await[c].began <= now'
      BY <1>a, <1>b, <3>2
    <3> QED
      BY <1>a, <3>4, <3>a, <3>5, <3>6 DEF JoinRecent, Recent
  <2>3. CASE await[c].op # "join"
    BY <1>a, <1>b, <2>1, <2>3 DEF JoinRecent
  <2> QED
    BY <2>2, <2>3
<1>5. ASSUME NEW u \in Trip, NEW c \in room[u]
      PROVE  MemberEntitled(c, u)'
  <2>1. MemberEntitled(c, u) /\ c \in Socket /\ joined[<<c, u>>] \in Nat
        /\ Account[c] \in Rooms!Viewer
    BY RoomsNumbers DEF RoomsInv, RoomsTyped, Rooms!TypeOK
  <2>2. CASE Rooms!Staff(Account[c])
    BY <1>a, <1>b, <2>1, <2>2 DEF MemberEntitled, Rooms!Staff
  <2>3. CASE ~Rooms!Staff(Account[c])
    <3>1. joined[<<c, u>>] <= now /\ Recent(TRUE, Account[c], u, joined[<<c, u>>])
      BY <2>1, <2>3 DEF MemberEntitled, Recent
    <3>2. joined[<<c, u>>] <= now + TTL
      BY <1>a, <2>1, <3>1
    <3>3. \/ TRUE <=> Rooms!Access(Account[c], u)'
          \/ flip'[<<Account[c], u>>] + TTL >= joined[<<c, u>>]
      BY <1>2, <2>1, <3>1, <3>2
    <3> QED
      BY <1>a, <1>b, <3>1, <3>3 DEF MemberEntitled, Recent, Rooms!Access
  <2> QED
    BY <2>2, <2>3
<1>6. \A x \in Rooms!Viewer \X Trip : flip'[x] <= now' /\ answers'[x].expiresAt <= now' + TTL
  BY <1>1, <1>a, <1>b
<1> QED
  BY <1>b, <1>3, <1>4, <1>5, <1>6 DEF RoomsInv

\* The types are kept.
LEMMA RoomsTypedStep ==
  ASSUME RoomsTyped, Rooms!ParametersOK, [Rooms!Next]_Rooms!vars
  PROVE  RoomsTyped'
<1>a. /\ now \in Nat /\ TTL \in Nat /\ MaxTime \in Nat
      /\ \A c \in Socket : Account[c] \in Rooms!Viewer
      /\ \A c \in Socket : await[c] # Rooms!Idle =>
           await[c].trip \in Trip /\ await[c].began \in Nat
  BY RoomsNumbers
<1>b. /\ now \in Rooms!Time
      /\ tripRow \in [Trip -> [exists : BOOLEAN, buyers : SUBSET Rooms!Customer]]
      /\ socket \in [Socket -> {"CLOSED", "CONNECTING", "VERIFIED"}]
      /\ room \in [Trip -> SUBSET Socket]
      /\ flip \in [Rooms!Viewer \X Trip -> Rooms!Time]
      /\ joined \in [Socket \X Trip -> Rooms!Time \cup {Rooms!Never}]
      /\ answers \in [Rooms!Viewer \X Trip -> [expiresAt : Nat, hasAccess : BOOLEAN]]
      /\ DOMAIN await = Socket
      /\ \A c \in Socket :
           \/ await[c] = Rooms!Idle
           \/ /\ await[c].op \in {"query", "join", "locate", "publish"}
              /\ await[c].trip \in Trip /\ await[c].began \in Rooms!Time
              /\ await[c].op = "join" => await[c].granted \in BOOLEAN
  BY DEF RoomsTyped, Rooms!TypeOK
<1>0. ASSUME now' \in Rooms!Time,
             tripRow' \in [Trip -> [exists : BOOLEAN, buyers : SUBSET Rooms!Customer]],
             socket' \in [Socket -> {"CLOSED", "CONNECTING", "VERIFIED"}],
             room' \in [Trip -> SUBSET Socket],
             flip' \in [Rooms!Viewer \X Trip -> Rooms!Time],
             joined' \in [Socket \X Trip -> Rooms!Time \cup {Rooms!Never}],
             answers' \in [Rooms!Viewer \X Trip -> [expiresAt : Nat, hasAccess : BOOLEAN]],
             heard' \subseteq Socket \X Trip, DOMAIN await' = Socket,
             \A c \in Socket :
               \/ await'[c] = await[c]
               \/ await'[c] = Rooms!Idle
               \/ /\ await'[c].op \in {"query", "join", "locate", "publish"}
                  /\ await'[c].trip \in Trip /\ await'[c].began \in Rooms!Time
                  /\ await'[c].op = "join" => await'[c].granted \in BOOLEAN
      PROVE  RoomsTyped'
  BY <1>b, <1>0 DEF RoomsTyped, Rooms!TypeOK, Rooms!Idle, Rooms!Time, Rooms!Never, Rooms!Viewer,
     Rooms!Customer
<1>1. CASE UNCHANGED Rooms!vars
  <2>1. heard' \subseteq Socket \X Trip
    BY <1>1 DEF Rooms!vars, RoomsTyped, Rooms!TypeOK
  <2> QED
    BY <1>0, <1>1, <1>b, <2>1 DEF Rooms!vars
<1>2. CASE Rooms!Tick
  <2>1. now' \in Rooms!Time
    BY <1>a, <1>2 DEF Rooms!Tick, Rooms!Time
  <2>2. answers' \in [Rooms!Viewer \X Trip -> [expiresAt : Nat, hasAccess : BOOLEAN]]
    BY <1>b, <1>2 DEF Rooms!Tick, Rooms!NoEntry
  <2> QED
    BY <1>0, <1>2, <1>b, <2>1, <2>2 DEF Rooms!Tick, Rooms!Silent
<1>3. CASE Rooms!Restart
  <2>1. /\ socket' \in [Socket -> {"CLOSED", "CONNECTING", "VERIFIED"}]
        /\ answers' \in [Rooms!Viewer \X Trip -> [expiresAt : Nat, hasAccess : BOOLEAN]]
        /\ room' \in [Trip -> SUBSET Socket]
        /\ joined' \in [Socket \X Trip -> Rooms!Time \cup {Rooms!Never}]
        /\ await' = [c \in Socket |-> Rooms!Idle]
    BY <1>3 DEF Rooms!Restart, Rooms!NoEntry
  <2> QED
    BY <1>0, <1>3, <1>b, <2>1 DEF Rooms!Restart, Rooms!Silent
<1>4. ASSUME NEW t \in Trip, NEW S \in SUBSET Rooms!Customer, Rooms!ChangeTrip(t, S)
      PROVE  RoomsTyped'
  <2>1. tripRow' \in [Trip -> [exists : BOOLEAN, buyers : SUBSET Rooms!Customer]]
    BY <1>b, <1>4 DEF Rooms!ChangeTrip
  <2>2. flip' \in [Rooms!Viewer \X Trip -> Rooms!Time]
    BY <1>b, <1>4 DEF Rooms!ChangeTrip
  <2> QED
    BY <1>0, <1>4, <1>b, <2>1, <2>2 DEF Rooms!ChangeTrip, Rooms!Silent
<1>5. ASSUME NEW c \in Socket, Rooms!Connect(c) \/ Rooms!Verify(c)
      PROVE  RoomsTyped'
  BY <1>0, <1>5, <1>b DEF Rooms!Connect, Rooms!Verify, Rooms!Silent
<1>6. ASSUME NEW c \in Socket, Rooms!Close(c)
      PROVE  RoomsTyped'
  <2>1. /\ socket' \in [Socket -> {"CLOSED", "CONNECTING", "VERIFIED"}]
        /\ room' \in [Trip -> SUBSET Socket]
        /\ joined' \in [Socket \X Trip -> Rooms!Time \cup {Rooms!Never}]
    BY <1>6, <1>b DEF Rooms!Close
  <2> QED
    BY <1>0, <1>6, <1>b, <2>1 DEF Rooms!Close, Rooms!Silent
<1>7. ASSUME UNCHANGED <<now, tripRow, socket, answers, room, flip, joined>>,
             heard' \subseteq Socket \X Trip,
             NEW c \in Socket, NEW r, Rooms!Set(c, r),
             \/ r = Rooms!Idle
             \/ /\ r.op \in {"query", "join", "locate", "publish"}
                /\ r.trip \in Trip /\ r.began \in Rooms!Time
                /\ r.op = "join" => r.granted \in BOOLEAN
      PROVE  RoomsTyped'
  BY <1>0, <1>7, <1>b DEF Rooms!Set
<1>8. ASSUME NEW c \in Socket, NEW t \in Trip, Rooms!JoinBegin(c, t) \/ Rooms!LocateBegin(c, t)
      PROVE  RoomsTyped'
  <2>1. PICK o \in {"query", "locate"} : Rooms!Set(c, [op |-> o, trip |-> t, began |-> now])
    BY <1>8 DEF Rooms!JoinBegin, Rooms!LocateBegin
  <2> DEFINE r == [op |-> o, trip |-> t, began |-> now]
  <2>2. /\ r.op \in {"query", "join", "locate", "publish"} /\ r.op # "join"
        /\ r.trip \in Trip /\ r.began \in Rooms!Time
    BY <1>b
  <2>3. UNCHANGED <<now, tripRow, socket, answers, room, flip, joined>> /\ heard' = {}
    BY <1>8 DEF Rooms!JoinBegin, Rooms!LocateBegin, Rooms!Silent
  <2> HIDE DEF r
  <2> QED
    BY <1>7, <2>1, <2>2, <2>3 DEF r
<1>9. ASSUME NEW c \in Socket, Rooms!JoinQuery(c)
      PROVE  RoomsTyped'
  <2> DEFINE r == [op |-> "join", trip |-> await[c].trip, began |-> await[c].began,
                   granted |-> Rooms!Access(Account[c], await[c].trip)]
  <2>1. await[c] # Rooms!Idle
    BY <1>9 DEF Rooms!JoinQuery, Rooms!Op, Rooms!Idle
  <2>2. r.op = "join" /\ r.trip \in Trip /\ r.began \in Rooms!Time
    BY <1>b, <2>1
  <2>3. r.granted \in BOOLEAN
    BY <1>b, <2>1 DEF Rooms!Access
  <2>4. /\ UNCHANGED <<now, tripRow, socket, answers, room, flip, joined>> /\ heard' = {}
        /\ Rooms!Set(c, r)
    BY <1>9 DEF Rooms!JoinQuery, Rooms!Silent
  <2> HIDE DEF r
  <2> QED
    BY <1>7, <2>2, <2>3, <2>4
<1>10. ASSUME NEW c \in Socket, Rooms!LocateQuery(c) \/ Rooms!Publish(c)
       PROVE  RoomsTyped'
  <2>1. await[c] # Rooms!Idle
    BY <1>10 DEF Rooms!LocateQuery, Rooms!Publish, Rooms!Op, Rooms!Idle
  <2>2. PICK r : /\ Rooms!Set(c, r)
                 /\ \/ r = Rooms!Idle
                    \/ r = [op |-> "publish", trip |-> await[c].trip, began |-> await[c].began]
    BY <1>10 DEF Rooms!LocateQuery, Rooms!Publish
  <2>3. \/ r = Rooms!Idle
        \/ r.op = "publish" /\ r.trip \in Trip /\ r.began \in Rooms!Time
    BY <1>b, <2>1, <2>2
  <2>4. /\ UNCHANGED <<now, tripRow, socket, answers, room, flip, joined>>
        /\ heard' \subseteq Socket \X Trip
    BY <1>b, <1>10, <2>1 DEF Rooms!LocateQuery, Rooms!Publish, Rooms!Silent, Rooms!Audience
  <2> QED
    BY <1>7, <2>2, <2>3, <2>4
<1>11. ASSUME NEW c \in Socket, NEW t \in Trip, Rooms!Leave(c, t)
       PROVE  RoomsTyped'
  <2>1. /\ room' \in [Trip -> SUBSET Socket]
        /\ joined' \in [Socket \X Trip -> Rooms!Time \cup {Rooms!Never}]
    BY <1>11, <1>b DEF Rooms!Leave
  <2> QED
    BY <1>0, <1>11, <1>b, <2>1 DEF Rooms!Leave, Rooms!Silent
<1>12. ASSUME NEW c \in Socket, NEW t \in Trip, NEW granted, NEW began \in Rooms!Time,
              Rooms!Admit(c, t, granted, began), UNCHANGED <<now, tripRow, socket, flip>>,
              answers' \in [Rooms!Viewer \X Trip -> [expiresAt : Nat, hasAccess : BOOLEAN]]
       PROVE  RoomsTyped'
  <2>1. \/ UNCHANGED <<room, joined>>
        \/ /\ room' = [room EXCEPT ![t] = @ \cup {c}]
           /\ joined' = [joined EXCEPT ![<<c, t>>] = began]
    BY <1>12 DEF Rooms!Admit
  <2>2. room' \in [Trip -> SUBSET Socket]
    BY <1>b, <2>1
  <2>a. joined' \in [Socket \X Trip -> Rooms!Time \cup {Rooms!Never}]
    <3> DEFINE V == Rooms!Time \cup {Rooms!Never}
    <3>1. joined \in [Socket \X Trip -> V] /\ began \in V
      BY <1>b
    <3> HIDE DEF V
    <3>2. joined' \in [Socket \X Trip -> V]
      BY <2>1, <3>1
    <3> QED
      BY <3>2 DEF V
  <2>3. /\ heard' = {} /\ UNCHANGED <<now, socket, flip>> /\ tripRow' = tripRow
        /\ await' = [await EXCEPT ![c] = Rooms!Idle]
    BY <1>12 DEF Rooms!Admit, Rooms!Set
  <2> QED
    BY <1>0, <1>12, <1>b, <2>2, <2>a, <2>3
<1>13. ASSUME NEW c \in Socket, NEW t \in Trip, Rooms!JoinKnown(c, t)
       PROVE  RoomsTyped'
  <2>1. PICK granted : Rooms!Admit(c, t, granted, now)
    BY <1>13 DEF Rooms!JoinKnown
  <2>2. UNCHANGED <<now, tripRow, socket, flip, answers>>
    BY <1>13 DEF Rooms!JoinKnown
  <2> QED
    BY <1>12, <1>b, <2>1, <2>2
<1>14. ASSUME NEW c \in Socket, Rooms!JoinAnswer(c)
       PROVE  RoomsTyped'
  <2>1. /\ await[c] # Rooms!Idle /\ await[c].trip \in Trip /\ await[c].granted \in BOOLEAN
        /\ await[c].began \in Rooms!Time
    BY <1>14, <1>b DEF Rooms!JoinAnswer, Rooms!Op, Rooms!Idle
  <2>2. /\ Rooms!Admit(c, await[c].trip, await[c].granted, await[c].began)
        /\ UNCHANGED <<now, tripRow, socket, flip>>
        /\ answers' = [answers EXCEPT ![<<Account[c], await[c].trip>>] =
                         [expiresAt |-> await[c].began + TTL, hasAccess |-> await[c].granted]]
    BY <1>14 DEF Rooms!JoinAnswer, Rooms!Key, Rooms!Expiry
  <2>3. await[c].began + TTL \in Nat
    BY <1>a, <2>1
  <2>4. answers' \in [Rooms!Viewer \X Trip -> [expiresAt : Nat, hasAccess : BOOLEAN]]
    BY <1>a, <1>b, <2>1, <2>2, <2>3
  <2> QED
    BY <1>12, <2>1, <2>2, <2>4
<1> QED
  BY <1>1, <1>2, <1>3, <1>4, <1>5, <1>6, <1>8, <1>9, <1>10, <1>11, <1>13, <1>14 DEF Rooms!Next

\* Who joins a room is let in on what is recent.
LEMMA RoomsAdmit ==
  ASSUME RoomsInv, RoomsTyped', Rooms!ParametersOK, NEW c \in Socket, NEW t \in Trip,
         NEW granted \in BOOLEAN, NEW began \in Nat, began <= now,
         Rooms!Admit(c, t, granted, began), UNCHANGED <<now, tripRow, flip>>,
         (Rooms!Staff(Account[c]) /\ granted) \/ Recent(granted, Account[c], t, began)
  PROVE  /\ Rooms!RoomsSound'
         /\ \A d \in Socket : await'[d] = await[d] \/ JoinRecent(d)'
         /\ \A u \in Trip : \A d \in room'[u] :
              \/ d \in room[u] /\ joined'[<<d, u>>] = joined[<<d, u>>]
              \/ MemberEntitled(d, u)'
<1>1. /\ answer' = [account |-> Account[c], trip |-> t, granted |-> granted, began |-> began]
      /\ heard' = {} /\ await' = [await EXCEPT ![c] = Rooms!Idle]
      /\ \/ UNCHANGED <<room, joined>>
         \/ /\ granted
            /\ room' = [room EXCEPT ![t] = @ \cup {c}]
            /\ joined' = [joined EXCEPT ![<<c, t>>] = began]
  BY DEF Rooms!Admit, Rooms!Set
<1>2. Rooms!AnswersFresh'
  <2>2. Rooms!Access(Account[c], t) \in BOOLEAN
    BY DEF Rooms!Access, RoomsInv, RoomsTyped, Rooms!TypeOK
  <2>3. answer'.account = Account[c] /\ answer'.trip = t /\ answer'.granted = granted
        /\ answer'.began = began
    BY <1>1
  <2>4. \/ Rooms!Staff(Account[c])
        \/ granted = Rooms!Access(Account[c], t)
        \/ flip[<<Account[c], t>>] + TTL >= began
    BY <2>2 DEF Recent
  <2> QED
    BY <2>3, <2>4 DEF Rooms!AnswersFresh, Rooms!Staff, Rooms!Access
<1>3. Rooms!RoomsSound'
  BY <1>1, <1>2 DEF Rooms!RoomsSound, Rooms!HeardEntitled
<1>4. ASSUME NEW d \in Socket PROVE await'[d] = await[d] \/ JoinRecent(d)'
  <2>1. await'[d] = await[d] \/ await'[d] = Rooms!Idle
    BY <1>1 DEF RoomsInv, RoomsTyped
  <2> QED
    BY <2>1 DEF JoinRecent, Rooms!Idle
<1>5. MemberEntitled(c, t)' \/ UNCHANGED <<room, joined>>
  <2> SUFFICES ASSUME granted, joined' = [joined EXCEPT ![<<c, t>>] = began]
               PROVE  MemberEntitled(c, t)'
    BY <1>1
  <2>1. joined'[<<c, t>>] = began
    BY DEF RoomsInv, RoomsTyped, Rooms!TypeOK
  <2>2. \/ Rooms!Staff(Account[c])
        \/ Rooms!Access(Account[c], t)
        \/ flip[<<Account[c], t>>] + TTL >= began
    BY DEF Recent
  <2>3. Rooms!Access(Account[c], t)' <=> Rooms!Access(Account[c], t)
    BY DEF Rooms!Access
  <2> QED
    BY <2>1, <2>2, <2>3 DEF MemberEntitled, Rooms!Staff
<1>6. ASSUME NEW u \in Trip, NEW d \in room'[u]
      PROVE  \/ d \in room[u] /\ joined'[<<d, u>>] = joined[<<d, u>>]
             \/ MemberEntitled(d, u)'
  <2>1. room \in [Trip -> SUBSET Socket] /\ joined \in [Socket \X Trip -> Rooms!Time \cup {Rooms!Never}]
    BY DEF RoomsInv, RoomsTyped, Rooms!TypeOK
  <2>2. CASE UNCHANGED <<room, joined>>
    BY <2>2
  <2>3. CASE /\ room' = [room EXCEPT ![t] = @ \cup {c}]
             /\ joined' = [joined EXCEPT ![<<c, t>>] = began]
             /\ MemberEntitled(c, t)'
    <3>1. CASE d = c /\ u = t
      BY <2>3, <3>1
    <3>2. CASE ~(d = c /\ u = t)
      <4>1. d \in room[u] /\ d \in Socket
        BY <2>1, <2>3, <3>2
      <4> QED
        BY <2>1, <2>3, <3>2, <4>1
    <3> QED
      BY <3>1, <3>2
  <2> QED
    BY <1>1, <1>5, <2>2, <2>3
<1> QED
  BY <1>3, <1>4, <1>6

\* Every step keeps what is said of rooms.
LEMMA RoomsStep ==
  ASSUME RoomsInv, Rooms!ParametersOK, [Rooms!Next]_Rooms!vars
  PROVE  RoomsInv'
<1>a. /\ now \in Nat /\ TTL \in Nat
      /\ \A c \in Socket : Account[c] \in Rooms!Viewer
      /\ \A v \in Rooms!Viewer, t \in Trip :
           answers[<<v, t>>].expiresAt \in Nat /\ answers[<<v, t>>].hasAccess \in BOOLEAN
      /\ \A c \in Socket : await[c] # Rooms!Idle =>
           await[c].trip \in Trip /\ await[c].began \in Nat
  BY RoomsNumbers DEF RoomsInv
<1>b. /\ RoomsTyped' /\ DOMAIN await = Socket
      /\ answers \in [Rooms!Viewer \X Trip -> [expiresAt : Nat, hasAccess : BOOLEAN]]
      /\ room \in [Trip -> SUBSET Socket]
      /\ joined \in [Socket \X Trip -> Rooms!Time \cup {Rooms!Never}]
  BY RoomsTypedStep DEF RoomsInv, RoomsTyped, Rooms!TypeOK
<1>1. CASE UNCHANGED Rooms!vars
  <2>1. UNCHANGED <<now, tripRow, answers, room, await, flip, joined, answer, heard>>
    BY <1>1 DEF Rooms!vars
  <2>2. Rooms!RoomsSound'
    BY <2>1 DEF RoomsInv, Rooms!RoomsSound, Rooms!AnswersFresh, Rooms!HeardEntitled,
       Rooms!Access, Rooms!Staff, Rooms!Idle
  <2> QED
    BY <1>a, <1>b, <2>1, <2>2, RoomsKept
<1>2. CASE Rooms!Tick
  <2>1. /\ UNCHANGED <<tripRow, room, await, flip, joined>> /\ now' = now + 1
        /\ Rooms!RoomsSound'
    BY <1>2, RoomsSilent DEF Rooms!Tick
  <2>2. ASSUME NEW v \in Rooms!Viewer, NEW t \in Trip
        PROVE  answers'[<<v, t>>] = answers[<<v, t>>]
               \/ answers'[<<v, t>>].expiresAt = 0
    BY <1>2 DEF Rooms!Tick, Rooms!NoEntry
  <2>3. now <= now' /\ now' \in Nat
    BY <1>a, <2>1
  <2> QED
    BY <1>a, <1>b, <2>1, <2>2, <2>3, RoomsKept
<1>3. CASE Rooms!Restart
  <2>1. /\ UNCHANGED <<now, tripRow, flip>> /\ Rooms!RoomsSound'
        /\ await' = [c \in Socket |-> Rooms!Idle]
        /\ room' = [t \in Trip |-> {}]
        /\ answers' = [x \in Rooms!Viewer \X Trip |-> Rooms!NoEntry]
    BY <1>3, RoomsSilent DEF Rooms!Restart
  <2>2. \A v \in Rooms!Viewer, t \in Trip : answers'[<<v, t>>].expiresAt = 0
    BY <2>1 DEF Rooms!NoEntry
  <2>3. \A c \in Socket : JoinRecent(c)'
    BY <2>1 DEF JoinRecent, Rooms!Idle
  <2> QED
    BY <1>a, <1>b, <2>1, <2>2, <2>3, RoomsKept
<1>4. ASSUME NEW t \in Trip, NEW S \in SUBSET Rooms!Customer, Rooms!ChangeTrip(t, S)
      PROVE  RoomsInv'
  BY <1>4, <1>b, RoomsChange
<1>5. ASSUME UNCHANGED <<now, tripRow, flip, answers>>, Rooms!RoomsSound',
             \A c \in Socket : await'[c] = await[c] \/ JoinRecent(c)',
             \A t \in Trip : \A c \in room'[t] :
               c \in room[t] /\ joined'[<<c, t>>] = joined[<<c, t>>]
      PROVE  RoomsInv'
  BY <1>5, <1>a, <1>b, RoomsKept
<1>6. ASSUME NEW c \in Socket, Rooms!Connect(c) \/ Rooms!Verify(c)
      PROVE  RoomsInv'
  <2>1. Rooms!RoomsSound'
    BY <1>6, RoomsSilent DEF Rooms!Connect, Rooms!Verify
  <2> QED
    BY <1>5, <1>6, <2>1 DEF Rooms!Connect, Rooms!Verify
<1>7. ASSUME NEW c \in Socket, Rooms!Close(c)
      PROVE  RoomsInv'
  <2>1. Rooms!RoomsSound' /\ UNCHANGED <<now, tripRow, flip, answers, await>>
    BY <1>7, RoomsSilent DEF Rooms!Close
  <2>2. ASSUME NEW t \in Trip, NEW d \in room'[t]
        PROVE  d \in room[t] /\ joined'[<<d, t>>] = joined[<<d, t>>]
    <3>1. d \in room[t] /\ d # c /\ d \in Socket
      BY <1>7, <1>b DEF Rooms!Close
    <3>2. <<d, t>> \in Socket \X Trip /\ <<d, t>>[1] = d
      BY <3>1
    <3> QED
      BY <1>7, <3>1, <3>2 DEF Rooms!Close
  <2> QED
    BY <1>5, <2>1, <2>2
<1>8. ASSUME NEW c \in Socket, NEW t \in Trip, Rooms!Leave(c, t)
      PROVE  RoomsInv'
  <2>1. Rooms!RoomsSound' /\ UNCHANGED <<now, tripRow, flip, answers, await>>
    BY <1>8, RoomsSilent DEF Rooms!Leave
  <2>2. ASSUME NEW u \in Trip, NEW d \in room'[u]
        PROVE  d \in room[u] /\ joined'[<<d, u>>] = joined[<<d, u>>]
    <3>1. d \in room[u] /\ d \in Socket /\ ~(d = c /\ u = t)
      BY <1>8, <1>b DEF Rooms!Leave
    <3>2. <<d, u>> # <<c, t>>
      BY <3>1
    <3> QED
      BY <1>8, <1>b, <3>1, <3>2 DEF Rooms!Leave
  <2> QED
    BY <1>5, <2>1, <2>2
<1>9. ASSUME NEW c \in Socket, UNCHANGED <<now, tripRow, flip, answers, room, joined>>,
             Rooms!RoomsSound', NEW r, Rooms!Set(c, r),
             r # Rooms!Idle => r.began <= now,
             r.op = "join" => Recent(r.granted, Account[c], r.trip, r.began + TTL)
      PROVE  RoomsInv'
  <2>1. ASSUME NEW d \in Socket PROVE await'[d] = await[d] \/ JoinRecent(d)'
    <3>1. CASE d # c
      BY <1>9, <1>b, <3>1 DEF Rooms!Set
    <3>2. CASE d = c
      <4>1. await'[c] = r
        BY <1>9, <1>b DEF Rooms!Set
      <4>2. (r # Rooms!Idle => r.began <= now')
            /\ (r.op = "join" => Recent(r.granted, Account[c], r.trip, r.began + TTL)')
        BY <1>9, RecentKept
      <4> QED
        BY <3>2, <4>1, <4>2 DEF JoinRecent, Recent, Rooms!Access, Rooms!Idle
    <3> QED
      BY <3>1, <3>2
  <2> QED
    BY <1>5, <1>9, <2>1
<1>10. ASSUME NEW c \in Socket, NEW t \in Trip, Rooms!JoinBegin(c, t) \/ Rooms!LocateBegin(c, t)
       PROVE  RoomsInv'
  <2>1. PICK o \in {"query", "locate"} : Rooms!Set(c, [op |-> o, trip |-> t, began |-> now])
    BY <1>10 DEF Rooms!JoinBegin, Rooms!LocateBegin
  <2> DEFINE r == [op |-> o, trip |-> t, began |-> now]
  <2>2. r.began <= now /\ r.op # "join"
    BY <1>a
  <2>3. UNCHANGED <<now, tripRow, flip, answers, room, joined>> /\ Rooms!RoomsSound'
    BY <1>10, RoomsSilent DEF Rooms!JoinBegin, Rooms!LocateBegin
  <2> HIDE DEF r
  <2> QED
    BY <1>9, <2>1, <2>2, <2>3 DEF r
<1>11. ASSUME NEW c \in Socket, Rooms!JoinQuery(c)
       PROVE  RoomsInv'
  <2> DEFINE r == [op |-> "join", trip |-> await[c].trip, began |-> await[c].began,
                   granted |-> Rooms!Access(Account[c], await[c].trip)]
  <2>1. await[c] # Rooms!Idle /\ JoinRecent(c)
    BY <1>11 DEF Rooms!JoinQuery, Rooms!Op, Rooms!Idle, RoomsInv
  <2>2. r.began <= now
    BY <2>1 DEF JoinRecent
  <2>3. Recent(r.granted, Account[c], r.trip, r.began + TTL)
    BY DEF Recent
  <2>4. UNCHANGED <<now, tripRow, flip, answers, room, joined>> /\ Rooms!RoomsSound'
    BY <1>11, RoomsSilent DEF Rooms!JoinQuery
  <2>5. Rooms!Set(c, r)
    BY <1>11 DEF Rooms!JoinQuery
  <2> HIDE DEF r
  <2> QED
    BY <1>9, <2>2, <2>3, <2>4, <2>5
<1>12. ASSUME NEW c \in Socket, Rooms!LocateQuery(c)
       PROVE  RoomsInv'
  <2>1. await[c] # Rooms!Idle /\ JoinRecent(c)
    BY <1>12 DEF Rooms!LocateQuery, Rooms!Op, Rooms!Idle, RoomsInv
  <2>2. PICK r : /\ Rooms!Set(c, r)
                 /\ \/ r = Rooms!Idle
                    \/ r = [op |-> "publish", trip |-> await[c].trip, began |-> await[c].began]
    BY <1>12 DEF Rooms!LocateQuery
  <2>3. (r # Rooms!Idle => r.began <= now) /\ r.op # "join"
    BY <2>1, <2>2 DEF JoinRecent, Rooms!Idle
  <2>4. UNCHANGED <<now, tripRow, flip, answers, room, joined>> /\ Rooms!RoomsSound'
    BY <1>12, RoomsSilent DEF Rooms!LocateQuery
  <2> QED
    BY <1>9, <2>2, <2>3, <2>4
<1>13. ASSUME NEW c \in Socket, Rooms!Publish(c)
       PROVE  RoomsInv'
  <2>1. await[c] # Rooms!Idle /\ await[c].trip \in Trip
    BY <1>13, <1>a DEF Rooms!Publish, Rooms!Op, Rooms!Idle
  <2>2. UNCHANGED <<now, tripRow, flip, answers, room, joined>> /\ answer' = Rooms!Idle
    BY <1>13 DEF Rooms!Publish
  <2>3. ASSUME NEW x \in heard'
        PROVE  \/ Rooms!Staff(Account[x[1]]) \/ Rooms!Access(Account[x[1]], x[2])
               \/ flip[<<Account[x[1]], x[2]>>] + TTL >= joined[x]
    <3>1. PICK d \in room[await[c].trip] : x = <<d, await[c].trip>>
      BY <1>13 DEF Rooms!Publish, Rooms!Audience
    <3>2. MemberEntitled(d, await[c].trip)
      BY <2>1, <3>1 DEF RoomsInv
    <3> QED
      BY <3>1, <3>2 DEF MemberEntitled
  <2>4. Rooms!RoomsSound'
    BY <2>2, <2>3 DEF Rooms!RoomsSound, Rooms!AnswersFresh, Rooms!HeardEntitled, Rooms!Staff,
       Rooms!Access, Rooms!Idle
  <2>5. Rooms!Set(c, Rooms!Idle) /\ Rooms!Idle.op # "join"
    BY <1>13 DEF Rooms!Publish, Rooms!Idle
  <2> QED
    BY <1>9, <2>2, <2>4, <2>5
<1>14. ASSUME NEW c \in Socket, NEW t \in Trip, Rooms!JoinKnown(c, t)
       PROVE  RoomsInv'
  <2>1. UNCHANGED <<now, tripRow, flip, answers>>
    BY <1>14 DEF Rooms!JoinKnown
  <2>2. PICK granted \in BOOLEAN :
          /\ Rooms!Admit(c, t, granted, now)
          /\ \/ Rooms!Staff(Account[c]) /\ granted
             \/ /\ answers[<<Account[c], t>>].expiresAt > now
                /\ granted = answers[<<Account[c], t>>].hasAccess
    BY <1>14, <1>a DEF Rooms!JoinKnown, Rooms!Key
  <2>3. (Rooms!Staff(Account[c]) /\ granted) \/ Recent(granted, Account[c], t, now)
    <3>1. CASE Rooms!Staff(Account[c]) /\ granted
      BY <3>1
    <3>2. CASE /\ answers[<<Account[c], t>>].expiresAt > now
               /\ granted = answers[<<Account[c], t>>].hasAccess
      <4>1. PICK e \in Nat : e = answers[<<Account[c], t>>].expiresAt
        BY <1>a
      <4>2. e > now /\ Recent(granted, Account[c], t, e)
        BY <1>a, <3>2, <4>1 DEF RoomsInv, EntriesRecent
      <4>3. flip[<<Account[c], t>>] \in Nat
        BY <1>a, RoomsNumbers DEF RoomsInv
      <4> QED
        BY <1>a, <4>2, <4>3 DEF Recent
    <3> QED
      BY <2>2, <3>1, <3>2
  <2> HIDE DEF RoomsInv
  <2>4. now <= now
    BY <1>a
  <2>5. /\ Rooms!RoomsSound'
        /\ \A d \in Socket : await'[d] = await[d] \/ JoinRecent(d)'
        /\ \A u \in Trip : \A d \in room'[u] :
             \/ d \in room[u] /\ joined'[<<d, u>>] = joined[<<d, u>>]
             \/ MemberEntitled(d, u)'
    BY <1>a, <1>b, <2>1, <2>2, <2>3, <2>4, RoomsAdmit
  <2> QED
    BY <1>a, <1>b, <2>1, <2>5, RoomsKept
<1>15. ASSUME NEW c \in Socket, Rooms!JoinAnswer(c)
       PROVE  RoomsInv'
  <2>1. /\ await[c] # Rooms!Idle /\ await[c].op = "join" /\ await[c].granted \in BOOLEAN
        /\ JoinRecent(c)
    BY <1>15 DEF Rooms!JoinAnswer, Rooms!Op, Rooms!Idle, RoomsInv, RoomsTyped
  <2>2. PICK t \in Trip, began \in Nat, granted \in BOOLEAN :
          t = await[c].trip /\ began = await[c].began /\ granted = await[c].granted
    BY <1>a, <2>1
  <2>3. /\ Rooms!Admit(c, t, granted, began) /\ UNCHANGED <<now, tripRow, flip>>
        /\ answers' = [answers EXCEPT ![<<Account[c], t>>] =
                         [expiresAt |-> began + TTL, hasAccess |-> granted]]
    BY <1>15, <2>2 DEF Rooms!JoinAnswer, Rooms!Key, Rooms!Expiry
  <2>4. began <= now /\ Recent(granted, Account[c], t, began + TTL)
    BY <2>1, <2>2 DEF JoinRecent
  <2>5. flip[<<Account[c], t>>] \in Nat
    BY <1>a, RoomsNumbers DEF RoomsInv
  <2>6. Recent(granted, Account[c], t, began)
    BY <1>a, <2>4, <2>5 DEF Recent
  <2>7. /\ Rooms!RoomsSound'
        /\ \A d \in Socket : await'[d] = await[d] \/ JoinRecent(d)'
        /\ \A u \in Trip : \A d \in room'[u] :
             \/ d \in room[u] /\ joined'[<<d, u>>] = joined[<<d, u>>]
             \/ MemberEntitled(d, u)'
    BY <1>b, <2>3, <2>4, <2>6, RoomsAdmit
  <2>8. ASSUME NEW v \in Rooms!Viewer, NEW u \in Trip
        PROVE  \/ answers'[<<v, u>>] = answers[<<v, u>>]
               \/ /\ answers'[<<v, u>>].expiresAt <= now' + TTL
                  /\ Recent(answers'[<<v, u>>].hasAccess, v, u, answers'[<<v, u>>].expiresAt)
    <3>1. CASE v = Account[c] /\ u = t
      <4>1. answers'[<<v, u>>] = [expiresAt |-> began + TTL, hasAccess |-> granted]
        BY <1>b, <2>3, <3>1
      <4>2. began + TTL <= now' + TTL
        BY <1>a, <2>3, <2>4
      <4> QED
        BY <2>4, <3>1, <4>1, <4>2
    <3>2. CASE ~(v = Account[c] /\ u = t)
      <4>1. <<v, u>> # <<Account[c], t>>
        BY <3>2
      <4> QED
        BY <1>b, <2>3, <4>1
    <3> QED
      BY <3>1, <3>2
  <2>9. now <= now'
    BY <1>a, <2>3
  <2> QED
    BY <1>b, <2>3, <2>7, <2>8, <2>9, RoomsKept
<1> QED
  BY <1>1, <1>2, <1>3, <1>4, <1>6, <1>7, <1>8, <1>10, <1>11, <1>12, <1>13, <1>14, <1>15
     DEF Rooms!Next

LEMMA RoomsInit == Rooms!ParametersOK /\ Rooms!Init => RoomsInv
<1> SUFFICES ASSUME Rooms!ParametersOK, Rooms!Init PROVE RoomsInv
  OBVIOUS
<1>a. 0 \in Rooms!Time /\ TTL \in Nat
  BY DEF Rooms!Time, Rooms!ParametersOK
<1> USE DEF Rooms!Init, Rooms!Idle, Rooms!NoEntry
<1>1. RoomsTyped
  BY <1>a DEF RoomsTyped, Rooms!TypeOK
<1>2. \A x \in Rooms!Viewer \X Trip : flip[x] <= now /\ answers[x].expiresAt <= now + TTL
  BY <1>a
<1>3. EntriesRecent
  BY DEF EntriesRecent
<1>4. \A c \in Socket : JoinRecent(c)
  BY DEF JoinRecent
<1>5. Rooms!RoomsSound
  BY DEF Rooms!RoomsSound, Rooms!AnswersFresh, Rooms!HeardEntitled
<1> QED
  BY <1>1, <1>2, <1>3, <1>4, <1>5 DEF RoomsInv

\* A join is answered by what was true no longer than the time to live before it began, and
\* who hears a position had, when he joined or that long before, access to the trip: with
\* any number of sockets that join, leave, close and reconnect while trips change.
THEOREM RoomsSoundSafe ==
  ASSUME Rooms!ParametersOK
  PROVE  Rooms!Spec => []RoomsSound
<1>1. Rooms!Init => RoomsInv
  BY RoomsInit
<1>2. RoomsInv /\ [Rooms!Next]_Rooms!vars => RoomsInv'
  BY RoomsStep
<1>3. RoomsInv => RoomsSound
  BY DEF RoomsInv, RoomsSound
<1> QED
  BY <1>1, <1>2, <1>3, PTL DEF Rooms!Spec

--------------------------------------------------------------------------------
(***************************************************************************)
(* What users are told about orders, for any of them and any requests.     *)
(***************************************************************************)
\* The types, with the two queries of a page and of a timeline.
UpdatesTyped ==
  /\ Updates!TypeOK
  /\ DOMAIN update = Writer
  /\ events \in [Cargo -> Seq(Updates!Event)]
  /\ inbox \in [User -> Seq([notice : Updates!Notice, read : BOOLEAN])]
  /\ page \in {Updates!Idle} \cup
       [user : User, unread : BOOLEAN, rows : {<<>>} \cup {<<S>> : S \in SUBSET Nat},
        total : {<<>>} \cup {<<k>> : k \in Nat}]
  /\ timeline \in {Updates!Idle} \cup
       [order : Cargo, status : Updates!OrderStatus, put : SUBSET Updates!OrderStatus,
        events : {<<>>} \cup {<<S>> : S \in SUBSET Updates!Event}]

\* Only requests about orders that were created are in flight.
KnownOrder(r) ==
  /\ r.op \in {"count", "write", "cancel"} => status[r.order] # Updates!Unset
  /\ r.op = "count" => r.event.type = "EXCEPTION"

\* The failed attempts of o that were counted and are not recorded yet.
Failing(o) ==
  {h \in Writer : /\ Updates!Op(h, "write")
                   /\ update[h].event.type = "EXCEPTION" /\ update[h].order = o}

\* There is one at most, and room for it.
AttemptsRoom(o) ==
  o \notin overlapped =>
    /\ Updates!Failures(o) <= MaxAttempts
    /\ Failing(o) # {} => Updates!Failures(o) < MaxAttempts
    /\ \A g, h \in Failing(o) : g = h

\* A status that only an event could have set has one.
Backed(s, put, evs) ==
  \/ s \in {Updates!Unset, "PENDING", "ASSIGNED", "IN_TRANSIT"} \cup put
  \/ [type |-> "STATUS_CHANGE", status |-> s] \in evs

TimelineInv ==
  /\ \A o \in Cargo : Backed(status[o], Updates!Range(puts[o]), Updates!Range(events[o]))
  /\ timeline # Updates!Idle =>
       /\ Backed(timeline.status, timeline.put, Updates!Range(events[timeline.order]))
       /\ timeline.events # <<>> =>
            Backed(timeline.status, timeline.put, timeline.events[1])

\* What a page has is what the inbox has, unless that changed.
PageInv ==
  page # Updates!Idle /\ page.user \notin changedInbox =>
    LET S == Updates!Matching(page.user, page.unread)
    IN /\ page.rows # <<>> => page.rows[1] = Updates!Newest(S)
       /\ page.total # <<>> => page.total[1] = Cardinality(S)

UpdatesInv ==
  /\ UpdatesTyped
  /\ IsFiniteSet({h \in Writer : update[h] # Updates!Idle})
  /\ \A h \in Writer : KnownOrder(update[h])
  /\ \A o \in Cargo : AttemptsRoom(o)
  /\ Updates!NoticesAccounted
  /\ TimelineInv
  /\ PageInv

--------------------------------------------------------------------------------
\* The size of a set is that of the library.
LEMMA SizeSame == \A S : Updates!Cardinality(S) = Cardinality(S)
BY DEF Updates!Cardinality, Cardinality

\* What an event and a notice are.
LEMMA EventFacts ==
  /\ \A s \in Updates!OrderStatus : [type |-> "STATUS_CHANGE", status |-> s] \in Updates!Event
  /\ \A e \in Updates!Event :
       e.type = "STATUS_CHANGE" =>
         /\ e.status \in Updates!OrderStatus
         /\ e = [type |-> "STATUS_CHANGE", status |-> e.status]
BY DEF Updates!Event, Updates!OrderStatus, Updates!Unset

LEMMA NoticeFacts ==
  /\ \A o \in Cargo, s \in {"PENDING"} \cup Updates!NotifiableStatuses :
       [about |-> o, kind |-> s] \in Updates!Notice
  /\ \A r \in Review : [about |-> r, kind |-> "REVIEW"] \in Updates!Notice
  /\ \A n \in Updates!Notice :
       \/ /\ n.about \in Cargo /\ n.kind \in {"PENDING"} \cup Updates!NotifiableStatuses
          /\ n = [about |-> n.about, kind |-> n.kind]
       \/ n.about \in Review /\ n.kind = "REVIEW" /\ n = [about |-> n.about, kind |-> "REVIEW"]
BY DEF Updates!Notice


LEMMA UpdateShape ==
  ASSUME UpdatesTyped, NEW h \in Writer
  PROVE  /\ Updates!TaskOK(update[h])
         /\ update[h].op \in {"count", "write", "cancel"} => update[h].order \in Cargo
         /\ update[h].op \in {"count", "write"} => update[h].event \in Updates!Event
         /\ update[h].op = "emit" => update[h].notice \in Updates!Notice
         /\ update[h].op = "mark" => update[h].user \in User /\ update[h].row \in Nat
<1>1. Updates!TaskOK(update[h])
  BY DEF UpdatesTyped, Updates!TypeOK
<1> QED
  BY <1>1 DEF Updates!TaskOK, Updates!Idle

\* A step moves one request, if any, to something of its type.
LEMMA UpdateMoves ==
  ASSUME UpdatesTyped, Updates!ParametersOK, Updates!Next
  PROVE  \/ UNCHANGED update
         \/ \E h \in Writer : \E r :
              Updates!TaskOK(r) /\ update' = [update EXCEPT ![h] = r]
<1> USE DEF Updates!Begin, Updates!Continue, Updates!Finish
<1>i. Updates!TaskOK(Updates!Idle)
  BY DEF Updates!TaskOK
<1>e. \A o \in Cargo, s \in Updates!OrderStatus :
        /\ Updates!TaskOK(Updates!Emit(o, "PENDING"))
        /\ Updates!TaskOK(Updates!Announce(o, s))
        /\ s \in Updates!NotifiableStatuses => Updates!TaskOK(Updates!Emit(o, s))
  <2>1. \A n \in Updates!Notice : Updates!TaskOK([op |-> "emit", notice |-> n])
    BY DEF Updates!TaskOK
  <2>2. \A o \in Cargo, s \in {"PENDING"} \cup Updates!NotifiableStatuses :
          Updates!TaskOK(Updates!Emit(o, s))
    BY <2>1, NoticeFacts DEF Updates!Emit
  <2> QED
    BY <1>i, <2>2 DEF Updates!Announce
<1>1. ASSUME NEW h \in Writer, Updates!CancelWrite(h)
      PROVE  \E r : Updates!TaskOK(r) /\ update' = [update EXCEPT ![h] = r]
  <2>1. /\ update[h].order \in Cargo
        /\ "CANCELLED" \in Updates!OrderStatus \cap Updates!NotifiableStatuses
    BY <1>1, UpdateShape DEF Updates!CancelWrite, Updates!Op, Updates!OrderStatus,
       Updates!NotifiableStatuses
  <2>2. Updates!TaskOK(Updates!Emit(update[h].order, "CANCELLED"))
    BY <1>e, <2>1
  <2> QED
    BY <1>1, <2>2 DEF Updates!CancelWrite
<1>2. ASSUME NEW h \in Writer, Updates!TrackCount(h)
      PROVE  \E r : Updates!TaskOK(r) /\ update' = [update EXCEPT ![h] = r]
  <2>1. PICK t : t = update[h]
    OBVIOUS
  <2>2. t.op = "count" /\ Updates!TaskOK(t)
    BY <1>2, <2>1, UpdateShape DEF Updates!TrackCount, Updates!Op
  <2>3. Updates!TaskOK([t EXCEPT !.op = "write"])
    BY <2>2 DEF Updates!TaskOK, Updates!Idle
  <2>4. \/ update' = [update EXCEPT ![h] = [t EXCEPT !.op = "write"]]
        \/ update' = [update EXCEPT ![h] = Updates!Idle]
    BY <1>2, <2>1 DEF Updates!TrackCount
  <2> QED
    BY <1>i, <2>3, <2>4
<1>3. ASSUME NEW h \in Writer, Updates!TrackWrite(h)
      PROVE  \E r : Updates!TaskOK(r) /\ update' = [update EXCEPT ![h] = r]
  <2>1. PICK t : t = update[h]
    OBVIOUS
  <2>2. t.order \in Cargo /\ t.event \in Updates!Event
    BY <1>3, <2>1, UpdateShape DEF Updates!TrackWrite, Updates!Op
  <2>3. Updates!Announced(t.event) =>
          Updates!TaskOK(Updates!Emit(t.order, t.event.status))
    BY <1>e, <2>2, EventFacts DEF Updates!Announced
  <2>4. \/ update' = [update EXCEPT ![h] = Updates!Idle]
        \/ /\ Updates!Announced(t.event)
           /\ update' = [update EXCEPT ![h] = Updates!Emit(t.order, t.event.status)]
    BY <1>3, <2>1 DEF Updates!TrackWrite
  <2> QED
    BY <1>i, <2>3, <2>4
<1>4. ASSUME NEW h \in Writer,
             Updates!Notify(h) \/ Updates!MarkWrite(h) \/ Updates!BreakOff(h)
      PROVE  \E r : Updates!TaskOK(r) /\ update' = [update EXCEPT ![h] = r]
  BY <1>i, <1>4 DEF Updates!Notify, Updates!MarkWrite, Updates!BreakOff
<1>5. ASSUME NEW h \in Writer, NEW o \in Cargo, Updates!Create(h, o)
      PROVE  \E r : Updates!TaskOK(r) /\ update' = [update EXCEPT ![h] = r]
  BY <1>e, <1>5 DEF Updates!Create, Updates!OrderStatus
<1>6. ASSUME NEW h \in Writer, NEW o \in Cargo, Updates!CancelBegin(h, o)
      PROVE  \E r : Updates!TaskOK(r) /\ update' = [update EXCEPT ![h] = r]
  <2>1. Updates!TaskOK([op |-> "cancel", order |-> o])
    BY DEF Updates!TaskOK
  <2> QED
    BY <1>6, <2>1 DEF Updates!CancelBegin
<1>7. ASSUME NEW h \in Writer, NEW o \in Cargo, NEW s \in PutStatuses, Updates!Put(h, o, s)
      PROVE  \E r : Updates!TaskOK(r) /\ update' = [update EXCEPT ![h] = r]
  BY <1>e, <1>7 DEF Updates!Put, Updates!ParametersOK
<1>8. ASSUME NEW h \in Writer, NEW o \in Cargo, NEW e \in Updates!Event,
             Updates!TrackBegin(h, o, e)
      PROVE  \E r : Updates!TaskOK(r) /\ update' = [update EXCEPT ![h] = r]
  <2>1. \A p \in {"count", "write"} :
          Updates!TaskOK([op |-> p, order |-> o, event |-> e])
    BY DEF Updates!TaskOK
  <2>2. PICK p \in {"count", "write"} :
          update' = [update EXCEPT ![h] = [op |-> p, order |-> o, event |-> e]]
    BY <1>8 DEF Updates!TrackBegin
  <2> QED
    BY <2>1, <2>2
<1>9. ASSUME NEW h \in Writer, NEW r \in Review, Updates!TellReview(h, r)
      PROVE  \E x : Updates!TaskOK(x) /\ update' = [update EXCEPT ![h] = x]
  <2>1. Updates!TaskOK([op |-> "emit", notice |-> [about |-> r, kind |-> "REVIEW"]])
    BY NoticeFacts DEF Updates!TaskOK
  <2> QED
    BY <1>9, <2>1 DEF Updates!TellReview
<1>10. ASSUME NEW h \in Writer, NEW u \in User, NEW i \in DOMAIN inbox[u],
              Updates!MarkBegin(h, u, i)
       PROVE  \E r : Updates!TaskOK(r) /\ update' = [update EXCEPT ![h] = r]
  <2>1. i \in Nat
    BY <1>10 DEF UpdatesTyped, Updates!TypeOK
  <2>2. Updates!TaskOK([op |-> "mark", user |-> u, row |-> i])
    BY <2>1 DEF Updates!TaskOK
  <2> QED
    BY <1>10, <2>2 DEF Updates!MarkBegin
<1>11. CASE \/ \E o \in Cargo : Updates!Move(o) \/ Updates!TimelineBegin(o)
            \/ \E u \in User :
                 Updates!MarkAll(u) \/ \E unread \in BOOLEAN : Updates!PageBegin(u, unread)
            \/ Updates!PageRead \/ Updates!PageClose
            \/ Updates!TimelineRead \/ Updates!TimelineClose
  BY <1>11 DEF Updates!Move, Updates!TimelineBegin, Updates!MarkAll, Updates!PageBegin,
     Updates!PageRead, Updates!PageClose, Updates!TimelineRead, Updates!TimelineClose
<1> HIDE DEF Updates!Begin, Updates!Continue, Updates!Finish
<1> QED
  BY <1>1, <1>2, <1>3, <1>4, <1>5, <1>6, <1>7, <1>8, <1>9, <1>10, <1>11 DEF Updates!Next

\* What a step adds to the events of orders, with the status it writes.
Recorded(o, e, s) ==
  /\ o \in Cargo /\ e \in Updates!Event /\ s \in Updates!OrderStatus \cup {Updates!Unset}
  /\ Updates!Record(o, e, s)

LEMMA UpdatesRecord ==
  ASSUME UpdatesTyped, Updates!ParametersOK, Updates!Next
  PROVE  \/ UNCHANGED events
         \/ \E h \in Writer :
              /\ Updates!CancelWrite(h)
              /\ Recorded(update[h].order,
                          [type |-> "STATUS_CHANGE", status |-> "CANCELLED"], "CANCELLED")
         \/ \E h \in Writer :
              /\ Updates!TrackWrite(h)
              /\ LET o == update[h].order
                     e == update[h].event
                 IN Recorded(o, e, IF e.type = "STATUS_CHANGE" THEN e.status ELSE status[o])
<1>1. ASSUME NEW h \in Writer, Updates!CancelWrite(h)
      PROVE  Recorded(update[h].order,
                      [type |-> "STATUS_CHANGE", status |-> "CANCELLED"], "CANCELLED")
  <2>1. update[h].order \in Cargo /\ "CANCELLED" \in Updates!OrderStatus
    BY <1>1, UpdateShape DEF Updates!CancelWrite, Updates!Op, Updates!OrderStatus
  <2> QED
    BY <1>1, <2>1, EventFacts DEF Updates!CancelWrite, Recorded
<1>2. ASSUME NEW h \in Writer, Updates!TrackWrite(h)
      PROVE  LET o == update[h].order
                 e == update[h].event
             IN Recorded(o, e, IF e.type = "STATUS_CHANGE" THEN e.status ELSE status[o])
  <2>1. update[h].order \in Cargo /\ update[h].event \in Updates!Event
    BY <1>2, UpdateShape DEF Updates!TrackWrite, Updates!Op
  <2>2. status[update[h].order] \in Updates!OrderStatus \cup {Updates!Unset}
    BY <2>1 DEF UpdatesTyped, Updates!TypeOK
  <2> QED
    BY <1>2, <2>1, <2>2, EventFacts DEF Updates!TrackWrite, Recorded
<1>3. \/ UNCHANGED events
      \/ \E h \in Writer : Updates!CancelWrite(h) \/ Updates!TrackWrite(h)
  BY DEF Updates!Next, Updates!TrackCount, Updates!Notify, Updates!MarkWrite, Updates!BreakOff,
     Updates!Create, Updates!CancelBegin, Updates!Put, Updates!TrackBegin, Updates!TellReview,
     Updates!MarkBegin, Updates!Move, Updates!TimelineBegin, Updates!MarkAll,
     Updates!PageBegin, Updates!PageRead, Updates!PageClose, Updates!TimelineRead,
     Updates!TimelineClose
<1> QED
  BY <1>1, <1>2, <1>3

\* What a step does to the inboxes.
LEMMA UpdatesInbox ==
  ASSUME Updates!Next
  PROVE  \/ UNCHANGED inbox
         \/ \E h \in Writer : Updates!Notify(h) \/ Updates!MarkWrite(h)
         \/ \E u \in User : Updates!MarkAll(u)
BY DEF Updates!Next, Updates!CancelWrite, Updates!TrackCount, Updates!TrackWrite, Updates!BreakOff,
   Updates!Create, Updates!CancelBegin, Updates!Put, Updates!TrackBegin, Updates!TellReview,
   Updates!MarkBegin, Updates!Move, Updates!TimelineBegin, Updates!PageBegin, Updates!PageRead,
   Updates!PageClose, Updates!TimelineRead, Updates!TimelineClose

\* What a step does to the status of an order, and to the history of PUT.
LEMMA UpdatesStatus ==
  ASSUME Updates!Next
  PROVE  \/ UNCHANGED <<status, puts>>
         \/ \E h \in Writer : Updates!CancelWrite(h) \/ Updates!TrackWrite(h)
         \/ \E h \in Writer, o \in Cargo :
              Updates!Create(h, o) \/ \E s \in PutStatuses : Updates!Put(h, o, s)
         \/ \E o \in Cargo : Updates!Move(o)
BY DEF Updates!Next, Updates!TrackCount, Updates!Notify, Updates!MarkWrite, Updates!BreakOff,
   Updates!CancelBegin, Updates!TrackBegin, Updates!TellReview,
   Updates!MarkBegin, Updates!TimelineBegin, Updates!MarkAll,
   Updates!PageBegin, Updates!PageRead, Updates!PageClose, Updates!TimelineRead,
   Updates!TimelineClose
LEMMA UpdatesPage ==
  ASSUME Updates!Next
  PROVE  \/ UNCHANGED page
         \/ \E u \in User, unread \in BOOLEAN : Updates!PageBegin(u, unread)
         \/ Updates!PageRead \/ Updates!PageClose
BY DEF Updates!Next, Updates!CancelWrite, Updates!TrackCount, Updates!TrackWrite,
   Updates!Notify, Updates!MarkWrite, Updates!BreakOff, Updates!Create,
   Updates!CancelBegin, Updates!Put, Updates!TrackBegin, Updates!TellReview,
   Updates!MarkBegin, Updates!Move, Updates!TimelineBegin, Updates!MarkAll,
   Updates!TimelineRead, Updates!TimelineClose, Updates!Record, Updates!Marked

LEMMA UpdatesTimeline ==
  ASSUME Updates!Next
  PROVE  \/ UNCHANGED timeline
         \/ \E o \in Cargo : Updates!TimelineBegin(o)
         \/ Updates!TimelineRead \/ Updates!TimelineClose
BY DEF Updates!Next, Updates!CancelWrite, Updates!TrackCount, Updates!TrackWrite,
   Updates!Notify, Updates!MarkWrite, Updates!BreakOff, Updates!Create,
   Updates!CancelBegin, Updates!Put, Updates!TrackBegin, Updates!TellReview,
   Updates!MarkBegin, Updates!Move, Updates!MarkAll, Updates!PageBegin, Updates!PageRead,
   Updates!PageClose, Updates!Record, Updates!Marked

\* What a step adds to the histories.
LEMMA UpdatesHistory ==
  ASSUME Updates!Next
  PROVE  \/ UNCHANGED <<reviewed, lost>>
         \/ \E h \in Writer : Updates!BreakOff(h) \/ \E r \in Review : Updates!TellReview(h, r)
BY DEF Updates!Next, Updates!CancelWrite, Updates!TrackCount, Updates!TrackWrite,
   Updates!Notify, Updates!MarkWrite, Updates!Create, Updates!CancelBegin, Updates!Put,
   Updates!TrackBegin, Updates!MarkBegin, Updates!Move, Updates!TimelineBegin,
   Updates!MarkAll, Updates!PageBegin, Updates!PageRead, Updates!PageClose,
   Updates!TimelineRead, Updates!TimelineClose, Updates!Record, Updates!Marked

LEMMA UpdatesChanged ==
  ASSUME Updates!Next
  PROVE  \/ UNCHANGED changedInbox
         \/ \E h \in Writer : Updates!Notify(h) \/ Updates!MarkWrite(h)
         \/ \E u \in User : Updates!MarkAll(u)
         \/ \E u \in User, unread \in BOOLEAN : Updates!PageBegin(u, unread)
         \/ Updates!PageClose
BY DEF Updates!Next, Updates!CancelWrite, Updates!TrackCount, Updates!TrackWrite,
   Updates!BreakOff, Updates!Create, Updates!CancelBegin, Updates!Put, Updates!TrackBegin,
   Updates!TellReview, Updates!MarkBegin, Updates!Move, Updates!TimelineBegin,
   Updates!PageRead, Updates!TimelineRead, Updates!TimelineClose, Updates!Record,
   Updates!Marked

LEMMA UpdatesOverlapped ==
  ASSUME Updates!Next
  PROVE  UNCHANGED overlapped \/ \E h \in Writer : Updates!TrackCount(h)
BY DEF Updates!Next, Updates!CancelWrite, Updates!TrackWrite, Updates!Notify,
   Updates!MarkWrite, Updates!BreakOff, Updates!Create, Updates!CancelBegin, Updates!Put,
   Updates!TrackBegin, Updates!TellReview, Updates!MarkBegin, Updates!Move,
   Updates!TimelineBegin, Updates!MarkAll, Updates!PageBegin, Updates!PageRead,
   Updates!PageClose, Updates!TimelineRead, Updates!TimelineClose, Updates!Record,
   Updates!Marked

\* What a sequence is made of.
LEMMA SeqFacts ==
  ASSUME NEW R, NEW s \in Seq(R)
  PROVE  /\ Len(s) \in Nat /\ DOMAIN s = 1..Len(s)
         /\ DOMAIN s \in SUBSET Nat /\ IsFiniteSet(DOMAIN s)
         /\ \A i \in DOMAIN s : s[i] \in R
<1>1. Len(s) \in Nat /\ DOMAIN s = 1..Len(s) /\ \A i \in DOMAIN s : s[i] \in R
  OBVIOUS
<1>2. 1 \in Int /\ Len(s) \in Int /\ 1..Len(s) \subseteq Nat
  BY <1>1
<1>3. IsFiniteSet(1..Len(s))
  BY <1>2, FS_Interval
<1> QED
  BY <1>1, <1>2, <1>3

\* The rows of an inbox are numbers, and finitely many.
LEMMA InboxRows ==
  ASSUME UpdatesTyped, NEW u \in User
  PROVE  /\ Len(inbox[u]) \in Nat /\ DOMAIN inbox[u] = 1..Len(inbox[u])
         /\ DOMAIN inbox[u] \in SUBSET Nat /\ IsFiniteSet(DOMAIN inbox[u])
         /\ \A i \in DOMAIN inbox[u] :
              inbox[u][i] \in [notice : Updates!Notice, read : BOOLEAN]
<1>1. inbox[u] \in Seq([notice : Updates!Notice, read : BOOLEAN])
  BY DEF UpdatesTyped
<1> QED
  BY <1>1, SeqFacts

LEMMA RangeType ==
  ASSUME NEW S, NEW s \in Seq(S)
  PROVE  Updates!Range(s) \subseteq S
BY DEF Updates!Range

LEMMA NoticeTo ==
  ASSUME NEW n \in Updates!Notice, Updates!ParametersOK
  PROVE  Updates!To(n) \subseteq User
BY NoticeFacts DEF Updates!To, Updates!ParametersOK

LEMMA UpdatesTypedStep ==
  ASSUME UpdatesTyped, Updates!ParametersOK, Updates!Next
  PROVE  UpdatesTyped'
<1>t. Updates!TypeOK
  BY DEF UpdatesTyped
<1>1. status' \in [Cargo -> Updates!OrderStatus \cup {Updates!Unset}]
  <2>0. status \in [Cargo -> Updates!OrderStatus \cup {Updates!Unset}]
    BY <1>t DEF Updates!TypeOK
  <2> SUFFICES ASSUME NEW o, NEW s \in Updates!OrderStatus \cup {Updates!Unset},
                      status' = status \/ status' = [status EXCEPT ![o] = s]
               PROVE  status' \in [Cargo -> Updates!OrderStatus \cup {Updates!Unset}]
    <3>1. CASE UNCHANGED status
      BY <3>1
    <3>2. CASE \E o \in Cargo : Updates!Move(o)
      BY <3>2 DEF Updates!Move, Updates!OrderStatus
    <3>3. CASE \E h \in Writer, o \in Cargo : Updates!Create(h, o)
      BY <3>3 DEF Updates!Create, Updates!OrderStatus
    <3>4. CASE \E h \in Writer, o \in Cargo, s \in PutStatuses : Updates!Put(h, o, s)
      BY <3>4 DEF Updates!Put, Updates!ParametersOK
    <3>5. CASE \E o, e, s : Recorded(o, e, s)
      BY <3>5 DEF Recorded, Updates!Record
    <3>6. (\E h \in Writer : Updates!CancelWrite(h) \/ Updates!TrackWrite(h)) =>
            \/ UNCHANGED status \/ \E o, e, s : Recorded(o, e, s)
      <4>1. ASSUME NEW h \in Writer, Updates!CancelWrite(h)
            PROVE  \E o, e, s : Recorded(o, e, s)
        <5>1. update[h].order \in Cargo /\ "CANCELLED" \in Updates!OrderStatus
          BY <4>1, UpdateShape DEF Updates!CancelWrite, Updates!Op, Updates!OrderStatus
        <5> QED
          BY <4>1, <5>1, EventFacts DEF Updates!CancelWrite, Recorded
      <4>2. ASSUME NEW h \in Writer, Updates!TrackWrite(h)
            PROVE  \E o, e, s : Recorded(o, e, s)
        <5>1. update[h].order \in Cargo /\ update[h].event \in Updates!Event
          BY <4>2, UpdateShape DEF Updates!TrackWrite, Updates!Op
        <5>2. status[update[h].order] \in Updates!OrderStatus \cup {Updates!Unset}
          BY <2>0, <5>1
        <5> QED
          BY <4>2, <5>1, <5>2, EventFacts DEF Updates!TrackWrite, Recorded
      <4> QED
        BY <4>1, <4>2
    <3> QED
      BY <3>1, <3>2, <3>3, <3>4, <3>5, <3>6, UpdatesStatus
  <2> QED
    BY <2>0
<1>2. events' \in [Cargo -> Seq(Updates!Event)]
  <2>1. events \in [Cargo -> Seq(Updates!Event)]
    BY DEF UpdatesTyped
  <2>2. ASSUME NEW o, NEW e, NEW s, Recorded(o, e, s)
        PROVE  events' \in [Cargo -> Seq(Updates!Event)]
    <3>1. Append(events[o], e) \in Seq(Updates!Event)
      BY <2>1, <2>2 DEF Recorded
    <3> QED
      BY <2>1, <2>2, <3>1 DEF Recorded, Updates!Record
  <2> QED
    BY <2>1, <2>2, UpdatesRecord
<1>3. inbox' \in [User -> Seq([notice : Updates!Notice, read : BOOLEAN])]
  <2> DEFINE Row == [notice : Updates!Notice, read : BOOLEAN]
  <2>0. inbox \in [User -> Seq(Row)]
    BY DEF UpdatesTyped
  <2>1. ASSUME NEW h \in Writer, Updates!Notify(h)
        PROVE  inbox' \in [User -> Seq(Row)]
    <3>1. PICK n \in Updates!Notice : n = update[h].notice
      BY <2>1, UpdateShape DEF Updates!Notify, Updates!Op
    <3>2. [notice |-> n, read |-> FALSE] \in Row
      OBVIOUS
    <3> HIDE DEF Row
    <3>3. \A u \in User : Append(inbox[u], [notice |-> n, read |-> FALSE]) \in Seq(Row)
      BY <2>0, <3>2
    <3> QED
      BY <2>0, <2>1, <3>1, <3>3 DEF Updates!Notify
  <2>2. ASSUME NEW u \in User, NEW S, Updates!Marked(u, S)
        PROVE  inbox' \in [User -> Seq(Row)]
    <3>1. \A r \in Row : [r EXCEPT !.read = TRUE] \in Row
      OBVIOUS
    <3> HIDE DEF Row
    <3> DEFINE mark == [i \in DOMAIN inbox[u] |->
          IF i \in S THEN [inbox[u][i] EXCEPT !.read = TRUE] ELSE inbox[u][i]]
    <3>2. \A i \in DOMAIN inbox[u] : inbox[u][i] \in Row
      BY <2>0
    <3>3. DOMAIN inbox[u] = 1..Len(inbox[u]) /\ Len(inbox[u]) \in Nat
      BY <2>0
    <3>4. mark \in [1..Len(inbox[u]) -> Row]
      BY <3>1, <3>2, <3>3
    <3>5. mark \in Seq(Row)
      BY <3>3, <3>4
    <3>6. inbox' = [inbox EXCEPT ![u] = mark]
      BY <2>2 DEF Updates!Marked
    <3> HIDE DEF mark
    <3> QED
      BY <2>0, <3>5, <3>6
  <2>3. ASSUME NEW h \in Writer, Updates!MarkWrite(h)
        PROVE  inbox' \in [User -> Seq(Row)]
    <3>1. update[h].user \in User
      BY <2>3, UpdateShape DEF Updates!MarkWrite, Updates!Op
    <3> QED
      BY <2>2, <2>3, <3>1 DEF Updates!MarkWrite
  <2> QED
    BY <2>0, <2>1, <2>2, <2>3, UpdatesInbox DEF Updates!MarkAll
<1>4. page' \in {Updates!Idle} \cup
       [user : User, unread : BOOLEAN, rows : {<<>>} \cup {<<S>> : S \in SUBSET Nat},
        total : {<<>>} \cup {<<k>> : k \in Nat}]
  <2> DEFINE Page ==
        [user : User, unread : BOOLEAN, rows : {<<>>} \cup {<<S>> : S \in SUBSET Nat},
         total : {<<>>} \cup {<<k>> : k \in Nat}]
  <2>0. page \in {Updates!Idle} \cup Page
    BY DEF UpdatesTyped
  <2>1. \/ UNCHANGED page
        \/ \E u \in User, unread \in BOOLEAN : Updates!PageBegin(u, unread)
        \/ Updates!PageRead \/ Updates!PageClose
    BY UpdatesPage
  <2>2. ASSUME NEW u \in User, NEW unread \in BOOLEAN, Updates!PageBegin(u, unread)
        PROVE  page' \in Page
    BY <2>2 DEF Updates!PageBegin
  <2>3. ASSUME Updates!PageRead
        PROVE  page' \in Page
    <3>1. page \in Page
      BY <2>0, <2>3 DEF Updates!PageRead
    <3>2. DOMAIN inbox[page.user] \in SUBSET Nat /\ IsFiniteSet(DOMAIN inbox[page.user])
      BY <3>1, InboxRows
    <3> DEFINE M == Updates!Matching(page.user, page.unread)
    <3>3. M \subseteq DOMAIN inbox[page.user] /\ Updates!Newest(M) \subseteq M
      BY DEF Updates!Matching, Updates!Newest
    <3>4. Updates!Newest(M) \in SUBSET Nat /\ Updates!Counted(page.user, page.unread) \in Nat
      <4>1. IsFiniteSet(M)
        BY <3>2, <3>3, FS_Subset
      <4>2. Cardinality(M) \in Nat
        BY <4>1, FS_CardinalityType
      <4>3. Updates!Counted(page.user, page.unread) = Cardinality(M)
        BY SizeSame DEF Updates!Counted
      <4> HIDE DEF M
      <4> QED
        BY <3>2, <3>3, <4>2, <4>3
    <3>5. \/ page' = [page EXCEPT !.rows = <<Updates!Newest(M)>>]
          \/ page' = [page EXCEPT !.total = <<Updates!Counted(page.user, page.unread)>>]
      BY <2>3 DEF Updates!PageRead
    <3> HIDE DEF M
    <3> QED
      BY <3>1, <3>4, <3>5
  <2> HIDE DEF Page
  <2>4. Updates!PageClose => page' = Updates!Idle
    BY DEF Updates!PageClose
  <2>5. page' \in {Updates!Idle} \cup Page
    BY <2>0, <2>1, <2>2, <2>3, <2>4
  <2> QED
    BY <2>5 DEF Page
<1>7. puts' \in [Cargo -> Seq(Updates!OrderStatus)]
  <2>0. puts \in [Cargo -> Seq(Updates!OrderStatus)]
    BY <1>t DEF Updates!TypeOK
  <2>1. \/ UNCHANGED puts
        \/ \E h \in Writer, o \in Cargo, s \in PutStatuses : Updates!Put(h, o, s)
    BY UpdatesStatus DEF Updates!CancelWrite, Updates!TrackWrite, Updates!Create, Updates!Move
  <2>2. ASSUME NEW h \in Writer, NEW o \in Cargo, NEW s \in PutStatuses, Updates!Put(h, o, s)
        PROVE  puts' \in [Cargo -> Seq(Updates!OrderStatus)]
    <3>1. s \in Updates!OrderStatus
      BY DEF Updates!ParametersOK
    <3>2. Append(puts[o], s) \in Seq(Updates!OrderStatus)
      BY <2>0, <3>1
    <3> QED
      BY <2>0, <2>2, <3>2 DEF Updates!Put
  <2> QED
    BY <2>0, <2>1, <2>2
<1>5. timeline' \in {Updates!Idle} \cup
       [order : Cargo, status : Updates!OrderStatus, put : SUBSET Updates!OrderStatus,
        events : {<<>>} \cup {<<S>> : S \in SUBSET Updates!Event}]
  <2> DEFINE Line ==
        [order : Cargo, status : Updates!OrderStatus, put : SUBSET Updates!OrderStatus,
         events : {<<>>} \cup {<<S>> : S \in SUBSET Updates!Event}]
  <2>0. timeline \in {Updates!Idle} \cup Line
    BY DEF UpdatesTyped
  <2>1. \/ UNCHANGED timeline
        \/ \E o \in Cargo : Updates!TimelineBegin(o)
        \/ Updates!TimelineRead \/ Updates!TimelineClose
    BY UpdatesTimeline
  <2>2. ASSUME NEW o \in Cargo, Updates!TimelineBegin(o)
        PROVE  timeline' \in Line
    <3>1. status[o] \in Updates!OrderStatus
      BY <1>t, <2>2 DEF Updates!TypeOK, Updates!TimelineBegin
    <3>2. Updates!Range(puts[o]) \subseteq Updates!OrderStatus
      BY <1>t, RangeType DEF Updates!TypeOK
    <3> QED
      BY <2>2, <3>1, <3>2 DEF Updates!TimelineBegin
  <2>3. ASSUME Updates!TimelineRead
        PROVE  timeline' \in Line
    <3>1. timeline \in Line
      BY <2>0, <2>3 DEF Updates!TimelineRead
    <3>2. Updates!Found(timeline.order) \subseteq Updates!Event
      BY <3>1, RangeType DEF UpdatesTyped, Updates!Found
    <3>3. timeline' = [timeline EXCEPT !.events = <<Updates!Found(timeline.order)>>]
      BY <2>3 DEF Updates!TimelineRead
    <3> QED
      BY <3>1, <3>2, <3>3
  <2> HIDE DEF Line
  <2>4. Updates!TimelineClose => timeline' = Updates!Idle
    BY DEF Updates!TimelineClose
  <2>5. timeline' \in {Updates!Idle} \cup Line
    BY <2>0, <2>1, <2>2, <2>3, <2>4
  <2> QED
    BY <2>5 DEF Line
<1>6. DOMAIN update' = Writer /\ \A h \in Writer : Updates!TaskOK(update'[h])
  <2>1. DOMAIN update = Writer /\ \A h \in Writer : Updates!TaskOK(update[h])
    BY <1>t DEF UpdatesTyped, Updates!TypeOK
  <2> QED
    BY <2>1, UpdateMoves
<1>8. reviewed' \subseteq Review /\ lost' \subseteq Updates!Notice
  <2>1. reviewed \subseteq Review /\ lost \subseteq Updates!Notice
    BY <1>t DEF Updates!TypeOK
  <2>2. \/ UNCHANGED <<reviewed, lost>>
        \/ \E h \in Writer : Updates!BreakOff(h) \/ \E r \in Review : Updates!TellReview(h, r)
    BY UpdatesHistory
  <2>3. ASSUME NEW h \in Writer, Updates!BreakOff(h)
        PROVE  reviewed' = reviewed /\ lost' \subseteq Updates!Notice
    BY <2>1, <2>3, UpdateShape DEF Updates!BreakOff, Updates!Op
  <2> QED
    BY <2>1, <2>2, <2>3 DEF Updates!TellReview
<1>9. changedInbox' \subseteq User
  <2>1. changedInbox \subseteq User
    BY <1>t DEF Updates!TypeOK
  <2>2. \/ UNCHANGED changedInbox \/ changedInbox' = {}
        \/ \E h \in Writer : Updates!Notify(h) \/ Updates!MarkWrite(h)
        \/ \E u \in User : Updates!MarkAll(u)
    BY UpdatesInbox, UpdatesPage, UpdatesChanged DEF Updates!PageBegin, Updates!PageRead,
       Updates!PageClose
  <2>3. ASSUME NEW h \in Writer, Updates!Notify(h)
        PROVE  changedInbox' \subseteq User
    <3>1. update[h].notice \in Updates!Notice
      BY <2>3, UpdateShape DEF Updates!Notify, Updates!Op
    <3>2. Updates!To(update[h].notice) \subseteq User
      BY <3>1, NoticeTo
    <3> QED
      BY <2>1, <2>3, <3>2 DEF Updates!Notify
  <2>4. ASSUME NEW h \in Writer, Updates!MarkWrite(h)
        PROVE  changedInbox' \subseteq User
    BY <2>1, <2>4, UpdateShape DEF Updates!MarkWrite, Updates!Marked, Updates!Op
  <2> QED
    BY <2>1, <2>2, <2>3, <2>4 DEF Updates!MarkAll, Updates!Marked
<1>11. overlapped' \subseteq Cargo
  <2>1. overlapped \subseteq Cargo
    BY <1>t DEF Updates!TypeOK
  <2>2. UNCHANGED overlapped \/ \E h \in Writer : Updates!TrackCount(h)
    BY UpdatesOverlapped
  <2>3. ASSUME NEW h \in Writer, Updates!TrackCount(h)
        PROVE  overlapped' \subseteq Cargo
    <3>1. \A g \in Writer : Updates!Op(g, "write") => update[g].order \in Cargo
      BY UpdateShape DEF Updates!Op
    <3> QED
      BY <2>1, <2>3, <3>1 DEF Updates!TrackCount
  <2> QED
    BY <2>1, <2>2, <2>3
<1>10. Updates!TypeOK'
  <2>1. /\ \A o \in Cargo : events'[o] \in Seq(Updates!Event)
        /\ \A u \in User : inbox'[u] \in Seq([notice : Updates!Notice, read : BOOLEAN])
    BY <1>2, <1>3
  <2>2. \/ page' = Updates!Idle
        \/ /\ page'.user \in User
           /\ page'.rows = <<>> \/ page'.rows[1] \in SUBSET Nat
           /\ page'.total = <<>> \/ page'.total[1] \in Nat
    <3>1. PICK p : p = page'
      OBVIOUS
    <3>2. CASE p = Updates!Idle
      BY <3>1, <3>2
    <3>3. CASE p \in [user : User, unread : BOOLEAN,
                      rows : {<<>>} \cup {<<S>> : S \in SUBSET Nat},
                      total : {<<>>} \cup {<<k>> : k \in Nat}]
      <4>1. p.user \in User
        BY <3>3
      <4>2. p.rows \in {<<>>} \cup {<<S>> : S \in SUBSET Nat}
        BY <3>3
      <4>3. p.total \in {<<>>} \cup {<<k>> : k \in Nat}
        BY <3>3
      <4>4. p.rows = <<>> \/ p.rows[1] \in SUBSET Nat
        <5>1. CASE p.rows = <<>>
          BY <5>1
        <5>2. ASSUME NEW S \in SUBSET Nat, p.rows = <<S>>
              PROVE  p.rows[1] \in SUBSET Nat
          BY <5>2
        <5> QED
          BY <4>2, <5>1, <5>2
      <4>5. p.total = <<>> \/ p.total[1] \in Nat
        BY <4>3
      <4> QED
        BY <3>1, <4>1, <4>4, <4>5
    <3> QED
      BY <1>4, <3>1, <3>2, <3>3
  <2>3. \/ timeline' = Updates!Idle
        \/ timeline'.order \in Cargo /\ timeline'.status \in Updates!OrderStatus
    BY <1>5
  <2> QED
    BY <1>1, <2>1, <2>2, <2>3, <1>6, <1>7, <1>8, <1>9, <1>11
       DEF Updates!TypeOK, Updates!TaskOK
<1> QED
  BY <1>2, <1>3, <1>4, <1>5, <1>6, <1>10 DEF UpdatesTyped

--------------------------------------------------------------------------------
(***************************************************************************)
(* How often something is in a sequence.                                   *)
(***************************************************************************)
Count(s, M) == Cardinality({i \in DOMAIN s : s[i] \in M})

LEMMA CountType ==
  ASSUME NEW R, NEW s \in Seq(R), NEW M
  PROVE  Count(s, M) \in Nat
<1>1. IsFiniteSet({i \in DOMAIN s : s[i] \in M})
  BY SeqFacts, FS_Subset
<1> QED
  BY <1>1, FS_CardinalityType DEF Count

LEMMA CountAppend ==
  ASSUME NEW R, NEW s \in Seq(R), NEW e \in R, NEW M
  PROVE  Count(Append(s, e), M) = Count(s, M) + IF e \in M THEN 1 ELSE 0
<1> DEFINE A == {i \in DOMAIN s : s[i] \in M}
           B == {i \in DOMAIN Append(s, e) : Append(s, e)[i] \in M}
           k == Len(s) + 1
<1>1. k \in Nat /\ k \notin DOMAIN s
  BY SeqFacts
<1>2. /\ DOMAIN Append(s, e) = DOMAIN s \cup {k}
      /\ Append(s, e)[k] = e /\ \A i \in DOMAIN s : Append(s, e)[i] = s[i]
  BY SeqFacts
<1>3. B = IF e \in M THEN A \cup {k} ELSE A
  BY <1>1, <1>2
<1>4. IsFiniteSet(A) /\ k \notin A
  BY <1>1, SeqFacts, FS_Subset
<1> HIDE DEF A, B, k
<1>5. Cardinality(A) \in Nat /\ Cardinality(A \cup {k}) = Cardinality(A) + 1
  BY <1>4, FS_AddElement, FS_CardinalityType
<1>6. Cardinality(B) = Cardinality(A) + IF e \in M THEN 1 ELSE 0
  BY <1>3, <1>5
<1> QED
  BY <1>6 DEF Count, A, B

\* What the model counts, in these terms.
Attempts == {e \in Updates!Event : e.type = "EXCEPTION"}
Change(s) == [type |-> "STATUS_CHANGE", status |-> s]
RowsOf(n) == {r \in [notice : Updates!Notice, read : BOOLEAN] : r.notice = n}

LEMMA FailuresCount ==
  ASSUME UpdatesTyped, NEW o \in Cargo
  PROVE  Updates!Failures(o) = Count(events[o], Attempts)
<1>1. \A i \in DOMAIN events[o] : events[o][i] \in Updates!Event
  <2>1. events[o] \in Seq(Updates!Event)
    BY DEF UpdatesTyped
  <2> QED
    BY <2>1, SeqFacts
<1>2. {i \in DOMAIN events[o] : events[o][i].type = "EXCEPTION"}
        = {i \in DOMAIN events[o] : events[o][i] \in Attempts}
  BY <1>1 DEF Attempts
<1> QED
  BY <1>2, SizeSame DEF Updates!Failures, Count

LEMMA SentCount ==
  ASSUME UpdatesTyped, NEW n, NEW u \in User
  PROVE  Updates!Sent(n, u) = Count(inbox[u], RowsOf(n))
<1>1. \A i \in DOMAIN inbox[u] : inbox[u][i] \in [notice : Updates!Notice, read : BOOLEAN]
  BY InboxRows
<1>2. {i \in DOMAIN inbox[u] : inbox[u][i].notice = n}
        = {i \in DOMAIN inbox[u] : inbox[u][i] \in RowsOf(n)}
  BY <1>1 DEF RowsOf
<1> QED
  BY <1>2, SizeSame DEF Updates!Sent, Count

DueOf(n) ==
  IF n.about \in Review THEN IF n.about \in reviewed THEN 1 ELSE 0
  ELSE IF n.kind = "PENDING" THEN IF status[n.about] = Updates!Unset THEN 0 ELSE 1
  ELSE Count(puts[n.about], {n.kind}) + Count(events[n.about], {Change(n.kind)})

LEMMA DueCount ==
  ASSUME NEW n
  PROVE  Updates!Due(n) = DueOf(n) /\ Updates!Due(n)' = DueOf(n)'
<1>1. \A f, s : {i \in DOMAIN f : f[i] = s} = {i \in DOMAIN f : f[i] \in {s}}
  OBVIOUS
<1> QED
  BY <1>1, SizeSame DEF Updates!Due, DueOf, Count, Change

\* All of it numbers.
LEMMA UpdatesNumbers ==
  ASSUME UpdatesTyped, Updates!ParametersOK
  PROVE  /\ \A o \in Cargo : Updates!Failures(o) \in Nat
         /\ \A n \in Updates!Notice : Updates!Due(n) \in Nat
         /\ \A n : \A u \in User : Updates!Sent(n, u) \in Nat
<1>0. /\ \A o \in Cargo : events[o] \in Seq(Updates!Event)
      /\ \A o \in Cargo : puts[o] \in Seq(Updates!OrderStatus)
      /\ \A u \in User : inbox[u] \in Seq([notice : Updates!Notice, read : BOOLEAN])
  BY DEF UpdatesTyped, Updates!TypeOK
<1>1. \A o \in Cargo : Updates!Failures(o) \in Nat
  BY <1>0, FailuresCount, CountType
<1>2. \A n : \A u \in User : Updates!Sent(n, u) \in Nat
  BY <1>0, SentCount, CountType
<1>3. ASSUME NEW n \in Updates!Notice PROVE Updates!Due(n) \in Nat
  <2>1. CASE n.about \in Review
    BY <2>1 DEF Updates!Due
  <2>2. CASE n.about \notin Review
    <3>1. n.about \in Cargo
      BY <2>2, NoticeFacts
    <3>2. /\ Count(puts[n.about], {n.kind}) \in Nat
          /\ Count(events[n.about], {Change(n.kind)}) \in Nat
      BY <1>0, <3>1, CountType
    <3> HIDE DEF Updates!Due
    <3>3. Updates!Due(n) \in {0, 1} \/ 
          Updates!Due(n) = Count(puts[n.about], {n.kind}) + Count(events[n.about], {Change(n.kind)})
      BY <2>2, DueCount DEF DueOf
    <3> QED
      BY <3>2, <3>3
  <2> QED
    BY <2>1, <2>2
<1> QED
  BY <1>1, <1>2, <1>3

\* One request that moves changes how many emit a notice by one at most.
Emits(r, n) == r.op = "emit" /\ r.notice = n

LEMMA EmittingMove ==
  ASSUME DOMAIN update = Writer, IsFiniteSet({h \in Writer : update[h] # Updates!Idle}),
         NEW h \in Writer, NEW r, update' = [update EXCEPT ![h] = r], NEW n
  PROVE  /\ Updates!Emitting(n) \in Nat
         /\ (Emits(update[h], n) <=> Emits(r, n)) => Updates!Emitting(n)' = Updates!Emitting(n)
         /\ Emits(r, n) /\ ~Emits(update[h], n) =>
              Updates!Emitting(n)' = Updates!Emitting(n) + 1
         /\ Emits(update[h], n) /\ ~Emits(r, n) =>
              Updates!Emitting(n)' = Updates!Emitting(n) - 1
<1> DEFINE A == {g \in Writer : Emits(update[g], n)}
           B == {g \in Writer : Emits(update'[g], n)}
<1>1. A \subseteq {g \in Writer : update[g] # Updates!Idle}
  BY DEF Emits, Updates!Idle
<1>2. \A g \in Writer : update'[g] = IF g = h THEN r ELSE update[g]
  OBVIOUS
<1>3. IsFiniteSet(A)
  BY <1>1, FS_Subset
<1>4. Updates!Emitting(n) = Cardinality(A) /\ Updates!Emitting(n)' = Cardinality(B)
  BY SizeSame DEF Updates!Emitting, Updates!Op, Emits
<1>5. /\ h \in A <=> Emits(update[h], n)
      /\ B = IF Emits(r, n) THEN A \cup {h} ELSE A \ {h}
  BY <1>2
<1> HIDE DEF A, B
<1>6. /\ Cardinality(A) \in Nat
      /\ h \notin A => Cardinality(A \cup {h}) = Cardinality(A) + 1 /\ A \ {h} = A
      /\ h \in A => Cardinality(A \ {h}) = Cardinality(A) - 1 /\ A \cup {h} = A
  BY <1>3, FS_AddElement, FS_RemoveElement, FS_CardinalityType
<1> QED
  BY <1>4, <1>5, <1>6

--------------------------------------------------------------------------------
(***************************************************************************)
(* Notices: what is due of them, sent, and being sent.                     *)
(***************************************************************************)

LEMMA BusyStep ==
  ASSUME UpdatesTyped, Updates!ParametersOK, Updates!Next,
         IsFiniteSet({h \in Writer : update[h] # Updates!Idle})
  PROVE  IsFiniteSet({h \in Writer : update[h] # Updates!Idle})'
<1> DEFINE Busy == {h \in Writer : update[h] # Updates!Idle}
<1>1. \/ UNCHANGED update
      \/ \E h \in Writer : \E r : update' = [update EXCEPT ![h] = r]
  BY UpdateMoves
<1>2. ASSUME NEW h \in Writer, NEW r, update' = [update EXCEPT ![h] = r]
      PROVE  IsFiniteSet(Busy')
  <2>1. Busy' \subseteq Busy \cup {h}
    BY <1>2 DEF UpdatesTyped, Updates!Idle
  <2> HIDE DEF Busy
  <2>2. IsFiniteSet(Busy \cup {h})
    BY FS_AddElement DEF Busy
  <2> QED
    BY <2>1, <2>2, FS_Subset
<1>3. UNCHANGED update => Busy' = Busy
  BY DEF Updates!Idle
<1> QED
  BY <1>1, <1>2, <1>3

\* What is due of a notice, and what of it was sent and is being sent.
Accounted(n, u) ==
  IF u \notin Updates!To(n) THEN Updates!Sent(n, u) = 0
  ELSE /\ Updates!Sent(n, u) + Updates!Emitting(n) <= Updates!Due(n)
       /\ n \notin lost => Updates!Sent(n, u) + Updates!Emitting(n) = Updates!Due(n)

LEMMA NoticesAre ==
  Updates!NoticesAccounted <=> \A n \in Updates!Notice, u \in User : Accounted(n, u)
BY DEF Updates!NoticesAccounted, Accounted

LEMMA AccountedKept ==
  ASSUME NEW n, NEW u, Accounted(n, u), lost \subseteq lost',
         Updates!Sent(n, u)' = Updates!Sent(n, u),
         Updates!Emitting(n)' = Updates!Emitting(n), Updates!Due(n)' = Updates!Due(n)
  PROVE  Accounted(n, u)'
<1> DEFINE s == Updates!Sent(n, u)
           e == Updates!Emitting(n)
           d == Updates!Due(n)
           T == Updates!To(n)
<1>1. T' = T
  BY DEF Updates!To
<1>2. s' = s /\ e' = e /\ d' = d
  OBVIOUS
<1>3. Accounted(n, u) <=> IF u \notin T THEN s = 0
                          ELSE s + e <= d /\ (n \notin lost => s + e = d)
  BY DEF Accounted
<1>4. Accounted(n, u)' <=> IF u \notin T' THEN s' = 0
                           ELSE s' + e' <= d' /\ (n \notin lost' => s' + e' = d')
  BY DEF Accounted
<1> HIDE DEF s, e, d, T
<1> QED
  BY <1>1, <1>2, <1>3, <1>4

\* The marks of a row leave what it is about.
SameNotices ==
  \A n : \A u \in User : Updates!Sent(n, u)' = Updates!Sent(n, u)

SameDue == \A n \in Updates!Notice : Updates!Due(n)' = Updates!Due(n)

\* A step after which nothing else is due, emitted or sent.
LEMMA NoticesQuiet ==
  ASSUME UpdatesInv, UNCHANGED lost, SameNotices, SameDue,
         \/ UNCHANGED update
         \/ \E h \in Writer : \E r :
              /\ update' = [update EXCEPT ![h] = r]
              /\ update[h].op # "emit" /\ r.op # "emit"
  PROVE  Updates!NoticesAccounted'
<1>1. \A n : Updates!Emitting(n)' = Updates!Emitting(n)
  <2>1. CASE UNCHANGED update
    BY <2>1 DEF Updates!Emitting, Updates!Op
  <2>2. ASSUME NEW h \in Writer, NEW r, update' = [update EXCEPT ![h] = r],
               update[h].op # "emit", r.op # "emit", NEW n
        PROVE  Updates!Emitting(n)' = Updates!Emitting(n)
    <3>1. Emits(update[h], n) <=> Emits(r, n)
      BY <2>2 DEF Emits
    <3>2. DOMAIN update = Writer /\ IsFiniteSet({g \in Writer : update[g] # Updates!Idle})
      BY DEF UpdatesInv, UpdatesTyped
    <3> QED
      BY <2>2, <3>1, <3>2, EmittingMove
  <2> QED
    BY <2>1, <2>2
<1>2. \A n \in Updates!Notice, u \in User : Accounted(n, u)'
  BY <1>1, NoticesAre, AccountedKept DEF UpdatesInv, SameNotices, SameDue
<1>3. Updates!NoticesAccounted' <=> \A n \in Updates!Notice, u \in User : Accounted(n, u)'
  BY DEF Updates!NoticesAccounted, Accounted, Updates!Notice
<1> QED
  BY <1>2, <1>3

\* A step that makes a notice due and goes on to emit it.
LEMMA NoticesEmit ==
  ASSUME UpdatesInv, Updates!ParametersOK, UNCHANGED <<inbox, lost>>, NEW m \in Updates!Notice,
         Updates!Due(m)' = Updates!Due(m) + 1,
         \A n \in Updates!Notice : n # m => Updates!Due(n)' = Updates!Due(n),
         NEW h \in Writer, update' = [update EXCEPT ![h] = [op |-> "emit", notice |-> m]],
         update[h].op # "emit"
  PROVE  Updates!NoticesAccounted'
<1>1. SUFFICES ASSUME NEW n \in Updates!Notice, NEW u \in User PROVE Accounted(n, u)'
  BY DEF Updates!NoticesAccounted, Accounted, Updates!Notice
<1>2. Accounted(n, u)
  BY NoticesAre DEF UpdatesInv
<1>3. Updates!Sent(n, u)' = Updates!Sent(n, u)
  BY DEF Updates!Sent
<1>4. CASE n # m
  <2>1. ~Emits(update[h], n) /\ ~Emits([op |-> "emit", notice |-> m], n)
    BY <1>4 DEF Emits
  <2>2. Updates!Emitting(n)' = Updates!Emitting(n)
    BY <2>1, EmittingMove DEF UpdatesInv, UpdatesTyped
  <2> QED
    BY <1>2, <1>3, <1>4, <2>2, AccountedKept
<1>5. CASE n = m
  <2>1. ~Emits(update[h], n) /\ Emits([op |-> "emit", notice |-> m], n)
    BY <1>5 DEF Emits
  <2> DEFINE s == Updates!Sent(n, u)
             e == Updates!Emitting(n)
             d == Updates!Due(n)
  <2>2. e' = e + 1 /\ e \in Nat
    BY <2>1, EmittingMove DEF UpdatesInv, UpdatesTyped
  <2>3. s \in Nat /\ d \in Nat
    BY UpdatesNumbers DEF UpdatesInv
  <2>4. d' = d + 1 /\ s' = s
    BY <1>3, <1>5
  <2>5. Updates!To(n)' = Updates!To(n)
    BY DEF Updates!To
  <2>6. Accounted(n, u) <=> IF u \notin Updates!To(n) THEN s = 0
                            ELSE s + e <= d /\ (n \notin lost => s + e = d)
    BY DEF Accounted
  <2>7. Accounted(n, u)' <=> IF u \notin Updates!To(n)' THEN s' = 0
                             ELSE s' + e' <= d' /\ (n \notin lost' => s' + e' = d')
    BY DEF Accounted
  <2> HIDE DEF s, e, d
  <2> QED
    BY <1>2, <2>2, <2>3, <2>4, <2>5, <2>6, <2>7
<1> QED
  BY <1>4, <1>5

\* What nothing was done about is due as before.
LEMMA DueSame ==
  ASSUME NEW n \in Updates!Notice, n.about \in Review => reviewed' = reviewed,
         n.about \notin Review =>
           /\ puts'[n.about] = puts[n.about] /\ events'[n.about] = events[n.about]
           /\ status'[n.about] = Updates!Unset <=> status[n.about] = Updates!Unset
  PROVE  Updates!Due(n)' = Updates!Due(n)
BY DueCount DEF DueOf, Updates!Unset, Change

LEMMA DueRecorded ==
  ASSUME UpdatesTyped, Updates!ParametersOK, UNCHANGED <<puts, reviewed>>,
         NEW o, NEW e, NEW s, Recorded(o, e, s), status[o] # Updates!Unset, s # Updates!Unset,
         NEW n \in Updates!Notice
  PROVE  Updates!Due(n)' =
           Updates!Due(n) + IF n.about = o /\ n.kind # "PENDING" /\ e = Change(n.kind)
                            THEN 1 ELSE 0
<1>0. /\ status \in [Cargo -> Updates!OrderStatus \cup {Updates!Unset}] /\ o \in Cargo
      /\ events \in [Cargo -> Seq(Updates!Event)] /\ e \in Updates!Event
      /\ status' = [status EXCEPT ![o] = s] /\ events' = [events EXCEPT ![o] = Append(@, e)]
  BY DEF UpdatesTyped, Updates!TypeOK, Recorded, Updates!Record
<1>1. Updates!Due(n) \in Nat
  BY UpdatesNumbers
<1>2. CASE n.about # o
  <2>1. n.about \notin Review => n.about \in Cargo
    BY NoticeFacts
  <2>2. Updates!Due(n)' = Updates!Due(n)
    BY <1>0, <1>2, <2>1, DueSame
  <2> QED
    BY <1>1, <1>2, <2>2
<1>3. CASE n.about = o
  <2>1. n.about \notin Review /\ n.about \in Cargo
    BY <1>0, <1>3 DEF Updates!ParametersOK
  <2>2. CASE n.kind = "PENDING"
    <3>1. Updates!Due(n) = 1 /\ Updates!Due(n)' = 1
      BY <1>0, <1>3, <2>1, <2>2, DueCount DEF DueOf, Updates!Unset
    <3> QED
      BY <2>2, <3>1
  <2>3. CASE n.kind # "PENDING"
    <3>1. Count(Append(events[o], e), {Change(n.kind)})
            = Count(events[o], {Change(n.kind)}) + IF e = Change(n.kind) THEN 1 ELSE 0
      BY <1>0, CountAppend
    <3>2. /\ Count(puts[o], {n.kind}) \in Nat
          /\ Count(events[o], {Change(n.kind)}) \in Nat
      BY <1>0, CountType DEF UpdatesTyped, Updates!TypeOK
    <3>3. Updates!Due(n) = Count(puts[o], {n.kind}) + Count(events[o], {Change(n.kind)})
      BY <1>3, <2>1, <2>3, DueCount DEF DueOf
    <3>4. Updates!Due(n)' =
            Count(puts[o], {n.kind}) + Count(Append(events[o], e), {Change(n.kind)})
      <4>1. events'[o] = Append(events[o], e) /\ puts'[o] = puts[o]
        BY <1>0
      <4>2. DueOf(n)' = Count(puts'[o], {n.kind}) + Count(events'[o], {Change(n.kind)})
        BY <1>3, <2>1, <2>3 DEF DueOf, Count, Change
      <4> QED
        BY <4>1, <4>2, DueCount
    <3> QED
      BY <1>3, <2>3, <3>1, <3>2, <3>3, <3>4
  <2> QED
    BY <2>2, <2>3
<1> QED
  BY <1>2, <1>3

LEMMA DuePut ==
  ASSUME UpdatesTyped, Updates!ParametersOK, UNCHANGED <<events, reviewed>>,
         NEW o \in Cargo, NEW s \in Updates!OrderStatus, status[o] # Updates!Unset,
         status' = [status EXCEPT ![o] = s], puts' = [puts EXCEPT ![o] = Append(@, s)],
         NEW n \in Updates!Notice
  PROVE  Updates!Due(n)' =
           Updates!Due(n) + IF n.about = o /\ n.kind # "PENDING" /\ n.kind = s
                            THEN 1 ELSE 0
<1>0. /\ status \in [Cargo -> Updates!OrderStatus \cup {Updates!Unset}]
      /\ puts \in [Cargo -> Seq(Updates!OrderStatus)] /\ s # Updates!Unset
  BY DEF UpdatesTyped, Updates!TypeOK, Updates!OrderStatus, Updates!Unset
<1>1. Updates!Due(n) \in Nat
  BY UpdatesNumbers
<1>2. CASE n.about # o
  <2>1. n.about \notin Review => n.about \in Cargo
    BY NoticeFacts
  <2>2. Updates!Due(n)' = Updates!Due(n)
    BY <1>0, <1>2, <2>1, DueSame
  <2> QED
    BY <1>1, <1>2, <2>2
<1>3. CASE n.about = o
  <2>1. n.about \notin Review /\ n.about \in Cargo
    BY <1>0, <1>3 DEF Updates!ParametersOK
  <2>2. CASE n.kind = "PENDING"
    <3>1. Updates!Due(n) = 1 /\ Updates!Due(n)' = 1
      BY <1>0, <1>3, <2>1, <2>2, DueCount DEF DueOf, Updates!Unset
    <3> QED
      BY <2>2, <3>1
  <2>3. CASE n.kind # "PENDING"
    <3>1. Count(Append(puts[o], s), {n.kind})
            = Count(puts[o], {n.kind}) + IF s \in {n.kind} THEN 1 ELSE 0
      BY <1>0, CountAppend
    <3>2. /\ Count(puts[o], {n.kind}) \in Nat
          /\ Count(events[o], {Change(n.kind)}) \in Nat
      BY <1>0, CountType DEF UpdatesTyped, Updates!TypeOK
    <3>3. Updates!Due(n) = Count(puts[o], {n.kind}) + Count(events[o], {Change(n.kind)})
      BY <1>3, <2>1, <2>3, DueCount DEF DueOf
    <3>4. Updates!Due(n)' =
            Count(Append(puts[o], s), {n.kind}) + Count(events[o], {Change(n.kind)})
      <4>1. puts'[o] = Append(puts[o], s) /\ events'[o] = events[o]
        BY <1>0
      <4>2. DueOf(n)' = Count(puts'[o], {n.kind}) + Count(events'[o], {Change(n.kind)})
        BY <1>3, <2>1, <2>3 DEF DueOf, Count, Change
      <4> QED
        BY <4>1, <4>2, DueCount
    <3> QED
      BY <1>3, <2>3, <3>1, <3>2, <3>3, <3>4
  <2> QED
    BY <2>2, <2>3
<1> QED
  BY <1>2, <1>3

\* What is committed and emitted: the order itself, a status, or a review.
LEMMA AnnounceNew ==
  ASSUME UpdatesInv, Updates!ParametersOK, UNCHANGED <<inbox, lost>>, NEW h \in Writer,
         NEW o \in Cargo, NEW s, update[h].op # "emit",
         \A n \in Updates!Notice :
           Updates!Due(n)' =
             Updates!Due(n) + IF n.about = o /\ n.kind # "PENDING" /\ n.kind = s
                              THEN 1 ELSE 0,
         update' = [update EXCEPT ![h] = Updates!Announce(o, s)]
  PROVE  Updates!NoticesAccounted'
<1>0. \A n \in Updates!Notice : Updates!Due(n) \in Nat
  BY UpdatesNumbers DEF UpdatesInv
<1>1. CASE s \in Updates!NotifiableStatuses
  <2> DEFINE m == [about |-> o, kind |-> s]
  <2>1. m \in Updates!Notice /\ s # "PENDING"
    BY <1>1, NoticeFacts DEF Updates!NotifiableStatuses
  <2>2. \A n \in Updates!Notice : n.about = o /\ n.kind = s => n = m
    BY <1>1, NoticeFacts DEF Updates!NotifiableStatuses
  <2>3. m.about = o /\ m.kind = s
    OBVIOUS
  <2>4. update' = [update EXCEPT ![h] = [op |-> "emit", notice |-> m]]
    BY <1>1 DEF Updates!Announce, Updates!Emit
  <2> HIDE DEF m
  <2>5. Updates!Due(m)' = Updates!Due(m) + 1
    BY <2>1, <2>3
  <2>6. \A n \in Updates!Notice : n # m => Updates!Due(n)' = Updates!Due(n)
    BY <1>0, <2>2
  <2> QED
    BY <2>1, <2>4, <2>5, <2>6, NoticesEmit
<1>2. CASE s \notin Updates!NotifiableStatuses
  <2>1. \A n \in Updates!Notice :
          n.about = o => n.kind \in {"PENDING"} \cup Updates!NotifiableStatuses
    BY NoticeFacts DEF Updates!ParametersOK
  <2>2. SameDue
    BY <1>0, <1>2, <2>1 DEF SameDue
  <2>3. SameNotices
    BY DEF SameNotices, Updates!Sent
  <2>4. update' = [update EXCEPT ![h] = Updates!Idle] /\ Updates!Idle.op # "emit"
    BY <1>2 DEF Updates!Announce, Updates!Idle
  <2> QED
    BY <2>2, <2>3, <2>4, NoticesQuiet
<1> QED
  BY <1>1, <1>2

\* The statuses of an order, its events and what was announced stay: a step that only moves
\* a request, or answers a query.
LEMMA QuietDue ==
  ASSUME UNCHANGED <<reviewed, status, events, puts>>
  PROVE  SameDue
BY DueCount DEF SameDue, DueOf, Updates!Unset, Change, Count

LEMMA MarkedNotices ==
  ASSUME UpdatesTyped, NEW v \in User, NEW S, Updates!Marked(v, S)
  PROVE  SameNotices
<1> SUFFICES ASSUME NEW n, NEW u \in User PROVE Updates!Sent(n, u)' = Updates!Sent(n, u)
  BY DEF SameNotices
<1>0. inbox \in [User -> Seq([notice : Updates!Notice, read : BOOLEAN])]
  BY DEF UpdatesTyped
<1> DEFINE mark == [i \in DOMAIN inbox[v] |->
             IF i \in S THEN [inbox[v][i] EXCEPT !.read = TRUE] ELSE inbox[v][i]]
<1>1. inbox' = [inbox EXCEPT ![v] = mark]
  BY DEF Updates!Marked
<1>2. \A i \in DOMAIN inbox[v] : mark[i].notice = inbox[v][i].notice
  BY InboxRows
<1>3. DOMAIN mark = DOMAIN inbox[v]
  OBVIOUS
<1> HIDE DEF mark
<1>4. inbox'[u] = IF u = v THEN mark ELSE inbox[u]
  BY <1>0, <1>1
<1>5. {i \in DOMAIN inbox'[u] : inbox'[u][i].notice = n}
        = {i \in DOMAIN inbox[u] : inbox[u][i].notice = n}
  BY <1>2, <1>3, <1>4
<1> QED
  BY <1>5, SizeSame DEF Updates!Sent

LEMMA NotifyNotices ==
  ASSUME UpdatesInv, Updates!ParametersOK, NEW h \in Writer, Updates!Notify(h)
  PROVE  Updates!NoticesAccounted'
<1>0. /\ DOMAIN update = Writer
      /\ inbox \in [User -> Seq([notice : Updates!Notice, read : BOOLEAN])]
  BY DEF UpdatesInv, UpdatesTyped
<1>1. PICK m \in Updates!Notice : m = update[h].notice
  BY UpdateShape DEF Updates!Notify, Updates!Op, UpdatesInv
<1>2. SUFFICES ASSUME NEW n \in Updates!Notice, NEW u \in User PROVE Accounted(n, u)'
  BY DEF Updates!NoticesAccounted, Accounted, Updates!Notice
<1>3. Accounted(n, u)
  BY NoticesAre DEF UpdatesInv
<1>4. Updates!Due(n)' = Updates!Due(n)
  BY QuietDue DEF SameDue, Updates!Notify
<1>5. update' = [update EXCEPT ![h] = Updates!Idle] /\ Emits(update[h], m)
  BY <1>1 DEF Updates!Notify, Updates!Op, Updates!Finish, Updates!Continue, Emits
<1>6. ~Emits(Updates!Idle, n) /\ (Emits(update[h], n) <=> n = m)
  BY <1>1, <1>5 DEF Emits, Updates!Idle
<1>7. /\ Updates!Emitting(n) \in Nat
      /\ Updates!Emitting(n)' = IF n = m THEN Updates!Emitting(n) - 1 ELSE Updates!Emitting(n)
  BY <1>0, <1>5, <1>6, EmittingMove DEF UpdatesInv
<1>8. Updates!Sent(n, u)' =
        Updates!Sent(n, u) + IF n = m /\ u \in Updates!To(m) THEN 1 ELSE 0
  <2> DEFINE row == [notice |-> m, read |-> FALSE]
             Row == [notice : Updates!Notice, read : BOOLEAN]
  <2>1. inbox'[u] = IF u \in Updates!To(m) THEN Append(inbox[u], row) ELSE inbox[u]
    BY <1>0, <1>1 DEF Updates!Notify, Updates!Delivered
  <2>2. row \in Row /\ (row \in RowsOf(n) <=> n = m)
    BY DEF RowsOf
  <2>3. inbox[u] \in Seq(Row)
    BY <1>0
  <2> HIDE DEF row, Row
  <2>4. Count(Append(inbox[u], row), RowsOf(n))
          = Count(inbox[u], RowsOf(n)) + IF n = m THEN 1 ELSE 0
    BY <2>2, <2>3, CountAppend
  <2>5. Updates!Sent(n, u) = Count(inbox[u], RowsOf(n)) /\ Count(inbox[u], RowsOf(n)) \in Nat
    BY <2>3, SentCount, CountType DEF UpdatesInv
  <2>6. Updates!Sent(n, u)' = Count(inbox'[u], RowsOf(n))
    <3>1. Append(inbox[u], row) \in Seq(Row)
      BY <2>2, <2>3
    <3>2. \A i \in DOMAIN inbox'[u] : inbox'[u][i] \in Row
      BY <2>1, <2>3, <3>1, SeqFacts
    <3>3. {i \in DOMAIN inbox'[u] : inbox'[u][i].notice = n}
            = {i \in DOMAIN inbox'[u] : inbox'[u][i] \in RowsOf(n)}
      BY <3>2 DEF RowsOf, Row
    <3> QED
      BY <3>3, SizeSame DEF Updates!Sent, Count
  <2> QED
    BY <2>1, <2>4, <2>5, <2>6
<1> DEFINE s == Updates!Sent(n, u)
           e == Updates!Emitting(n)
           d == Updates!Due(n)
<1>9. s \in Nat /\ d \in Nat
  BY UpdatesNumbers DEF UpdatesInv
<1>10. Updates!To(n)' = Updates!To(n) /\ lost' = lost
  BY DEF Updates!To, Updates!Notify
<1>11. Accounted(n, u) <=> IF u \notin Updates!To(n) THEN s = 0
                           ELSE s + e <= d /\ (n \notin lost => s + e = d)
  BY DEF Accounted
<1>12. Accounted(n, u)' <=> IF u \notin Updates!To(n)' THEN s' = 0
                            ELSE s' + e' <= d' /\ (n \notin lost' => s' + e' = d')
  BY DEF Accounted
<1> HIDE DEF s, e, d
<1>13. /\ e \in Nat /\ d' = d
       /\ e' = IF n = m THEN e - 1 ELSE e
       /\ s' = s + IF n = m /\ u \in Updates!To(m) THEN 1 ELSE 0
  BY <1>4, <1>7, <1>8 DEF s, e, d
<1> QED
  BY <1>3, <1>9, <1>10, <1>11, <1>12, <1>13

LEMMA BreakOffNotices ==
  ASSUME UpdatesInv, Updates!ParametersOK, NEW h \in Writer, Updates!BreakOff(h)
  PROVE  Updates!NoticesAccounted'
<1>1. update' = [update EXCEPT ![h] = Updates!Idle] /\ Updates!Idle.op # "emit"
  BY DEF Updates!BreakOff, Updates!Finish, Updates!Continue, Updates!Idle
<1>2. SameDue /\ SameNotices
  BY QuietDue DEF Updates!BreakOff, SameNotices, Updates!Sent
<1>3. CASE update[h].op # "emit"
  <2>1. UNCHANGED lost
    BY <1>3 DEF Updates!BreakOff, Updates!Op
  <2> QED
    BY <1>1, <1>2, <1>3, <2>1, NoticesQuiet
<1>4. CASE update[h].op = "emit"
  <2>1. PICK m \in Updates!Notice : m = update[h].notice
    BY <1>4, UpdateShape DEF UpdatesInv
  <2>2. lost' = lost \cup {m}
    BY <1>4, <2>1 DEF Updates!BreakOff, Updates!Op
  <2> SUFFICES ASSUME NEW n \in Updates!Notice, NEW u \in User PROVE Accounted(n, u)'
    BY DEF Updates!NoticesAccounted, Accounted, Updates!Notice
  <2>3. Accounted(n, u)
    BY NoticesAre DEF UpdatesInv
  <2>4. ~Emits(Updates!Idle, n) /\ (Emits(update[h], n) <=> n = m)
    BY <1>1, <1>4, <2>1 DEF Emits
  <2>5. /\ Updates!Emitting(n) \in Nat
        /\ Updates!Emitting(n)' = IF n = m THEN Updates!Emitting(n) - 1 ELSE Updates!Emitting(n)
    BY <1>1, <2>4, EmittingMove DEF UpdatesInv, UpdatesTyped
  <2> DEFINE s == Updates!Sent(n, u)
             e == Updates!Emitting(n)
             d == Updates!Due(n)
  <2>6. s \in Nat /\ d \in Nat
    BY UpdatesNumbers DEF UpdatesInv
  <2>7. Updates!To(n)' = Updates!To(n)
    BY DEF Updates!To
  <2>8. Accounted(n, u) <=> IF u \notin Updates!To(n) THEN s = 0
                            ELSE s + e <= d /\ (n \notin lost => s + e = d)
    BY DEF Accounted
  <2>9. Accounted(n, u)' <=> IF u \notin Updates!To(n)' THEN s' = 0
                             ELSE s' + e' <= d' /\ (n \notin lost' => s' + e' = d')
    BY DEF Accounted
  <2>10. s' = s /\ d' = d
    BY <1>2 DEF SameDue, SameNotices
  <2> HIDE DEF s, e, d
  <2>11. e \in Nat /\ e' = IF n = m THEN e - 1 ELSE e
    BY <2>5 DEF e
  <2> QED
    BY <2>2, <2>3, <2>6, <2>7, <2>8, <2>9, <2>10, <2>11
<1> QED
  BY <1>3, <1>4

--------------------------------------------------------------------------------
(***************************************************************************)
(* Requests about orders, and the failed attempts they record.             *)
(***************************************************************************)

\* An order that was created stays created.
LEMMA StatusKept ==
  ASSUME UpdatesInv, Updates!ParametersOK, Updates!Next, NEW o \in Cargo,
         status[o] # Updates!Unset
  PROVE  status'[o] # Updates!Unset
<1>0. /\ status \in [Cargo -> Updates!OrderStatus \cup {Updates!Unset}]
      /\ Updates!Unset \notin Updates!OrderStatus
  BY DEF UpdatesInv, UpdatesTyped, Updates!TypeOK, Updates!OrderStatus, Updates!Unset
<1>1. CASE UNCHANGED status
  BY <1>1 DEF Updates!Unset
<1>2. ASSUME NEW p, NEW s \in Updates!OrderStatus \cup {status[p]},
             status' = [status EXCEPT ![p] = s]
      PROVE  status'[o] # Updates!Unset
  BY <1>0, <1>2
<1>3. ASSUME NEW h \in Writer, Updates!CancelWrite(h)
      PROVE  status'[o] # Updates!Unset
  BY <1>2, <1>3 DEF Updates!CancelWrite, Updates!Record, Updates!OrderStatus
<1>4. ASSUME NEW h \in Writer, Updates!TrackWrite(h)
      PROVE  status'[o] # Updates!Unset
  <2>1. PICK e \in Updates!Event : e = update[h].event
    BY <1>4, UpdateShape DEF UpdatesInv, Updates!TrackWrite, Updates!Op
  <2> DEFINE s == IF e.type = "STATUS_CHANGE" THEN e.status ELSE status[update[h].order]
  <2>2. s \in Updates!OrderStatus \cup {status[update[h].order]}
    BY EventFacts
  <2>3. status' = [status EXCEPT ![update[h].order] = s]
    BY <1>4, <2>1 DEF Updates!TrackWrite, Updates!Record
  <2> HIDE DEF s
  <2> QED
    BY <1>2, <2>2, <2>3
<1>5. ASSUME NEW h \in Writer, NEW p \in Cargo, Updates!Create(h, p)
      PROVE  status'[o] # Updates!Unset
  BY <1>2, <1>5 DEF Updates!Create, Updates!OrderStatus
<1>6. ASSUME NEW h \in Writer, NEW p \in Cargo, NEW s \in PutStatuses, Updates!Put(h, p, s)
      PROVE  status'[o] # Updates!Unset
  BY <1>2, <1>6 DEF Updates!Put, Updates!ParametersOK
<1>7. ASSUME NEW p \in Cargo, Updates!Move(p)
      PROVE  status'[o] # Updates!Unset
  BY <1>2, <1>7 DEF Updates!Move, Updates!OrderStatus
<1> QED
  BY <1>1, <1>3, <1>4, <1>5, <1>6, <1>7, UpdatesStatus

\* What a request may hold next: of orders that were created, and no failed attempt that
\* was not counted.
Known(h, r) ==
  /\ KnownOrder(r)
  /\ r.op = "write" /\ r.event.type = "EXCEPTION" => Updates!TrackCount(h)

LEMMA KnownMoves ==
  ASSUME UpdatesInv, Updates!Next
  PROVE  \/ UNCHANGED update
         \/ \E h \in Writer : \E r : Known(h, r) /\ update' = [update EXCEPT ![h] = r]
<1> USE DEF Updates!Begin, Updates!Continue, Updates!Finish
<1>0. ASSUME NEW h, NEW r, r.op \in {"idle", "emit", "mark"} PROVE Known(h, r)
  BY <1>0 DEF Known, KnownOrder
<1>1. ASSUME NEW h \in Writer, NEW r, r.op \in {"idle", "emit", "mark"},
             update' = [update EXCEPT ![h] = r]
      PROVE  \E g \in Writer : \E x : Known(g, x) /\ update' = [update EXCEPT ![g] = x]
  <2>1. Known(h, r)
    BY <1>0, <1>1
  <2> QED
    BY <1>1, <2>1
<1>2. /\ Updates!Idle.op \in {"idle", "emit", "mark"}
      /\ \A o, s : /\ Updates!Emit(o, s).op \in {"idle", "emit", "mark"}
                   /\ Updates!Announce(o, s).op \in {"idle", "emit", "mark"}
  BY DEF Updates!Idle, Updates!Emit, Updates!Announce
<1>3. ASSUME NEW h \in Writer,
             \/ Updates!CancelWrite(h) \/ Updates!TrackWrite(h) \/ Updates!Notify(h)
             \/ Updates!MarkWrite(h) \/ Updates!BreakOff(h)
      PROVE  \E g \in Writer : \E x : Known(g, x) /\ update' = [update EXCEPT ![g] = x]
  BY <1>1, <1>2, <1>3 DEF Updates!CancelWrite, Updates!TrackWrite, Updates!Notify,
     Updates!MarkWrite, Updates!BreakOff
<1>4. ASSUME NEW h \in Writer, NEW o \in Cargo,
             Updates!Create(h, o) \/ \E s \in PutStatuses : Updates!Put(h, o, s)
      PROVE  \E g \in Writer : \E x : Known(g, x) /\ update' = [update EXCEPT ![g] = x]
  BY <1>1, <1>2, <1>4 DEF Updates!Create, Updates!Put
<1>5. ASSUME NEW h \in Writer, NEW r \in Review, Updates!TellReview(h, r)
      PROVE  \E g \in Writer : \E x : Known(g, x) /\ update' = [update EXCEPT ![g] = x]
  <2>1. PICK x : x = [op |-> "emit", notice |-> [about |-> r, kind |-> "REVIEW"]]
    OBVIOUS
  <2>2. update' = [update EXCEPT ![h] = x] /\ x.op = "emit"
    BY <1>5, <2>1 DEF Updates!TellReview
  <2>3. Known(h, x)
    BY <1>0, <2>2
  <2> QED
    BY <2>2, <2>3
<1>6. ASSUME NEW h \in Writer, NEW u \in User, NEW i \in DOMAIN inbox[u],
             Updates!MarkBegin(h, u, i)
      PROVE  \E g \in Writer : \E x : Known(g, x) /\ update' = [update EXCEPT ![g] = x]
  <2>1. PICK x : x = [op |-> "mark", user |-> u, row |-> i]
    OBVIOUS
  <2>2. update' = [update EXCEPT ![h] = x] /\ x.op = "mark"
    BY <1>6, <2>1 DEF Updates!MarkBegin
  <2>3. Known(h, x)
    BY <1>0, <2>2
  <2> QED
    BY <2>2, <2>3
<1>7. ASSUME NEW h \in Writer, NEW o \in Cargo, Updates!CancelBegin(h, o)
      PROVE  \E g \in Writer : \E x : Known(g, x) /\ update' = [update EXCEPT ![g] = x]
  <2>1. Known(h, [op |-> "cancel", order |-> o])
    BY <1>7 DEF Known, KnownOrder, Updates!CancelBegin, Updates!CancellableStatuses, Updates!Unset
  <2> QED
    BY <1>7, <2>1 DEF Updates!CancelBegin
<1>8. ASSUME NEW h \in Writer, NEW o \in Cargo, NEW e \in Updates!Event,
             Updates!TrackBegin(h, o, e)
      PROVE  \E g \in Writer : \E x : Known(g, x) /\ update' = [update EXCEPT ![g] = x]
  <2> DEFINE r == [op |-> IF e.type = "EXCEPTION" THEN "count" ELSE "write",
                   order |-> o, event |-> e]
  <2>1. Known(h, r)
    BY <1>8 DEF Known, KnownOrder, Updates!TrackBegin
  <2>2. update' = [update EXCEPT ![h] = r]
    BY <1>8 DEF Updates!TrackBegin
  <2> HIDE DEF r
  <2> QED
    BY <2>1, <2>2
<1>9. ASSUME NEW h \in Writer, Updates!TrackCount(h)
      PROVE  \E g \in Writer : \E x : Known(g, x) /\ update' = [update EXCEPT ![g] = x]
  <2>1. PICK t : t = update[h]
    OBVIOUS
  <2>2. t.op = "count" /\ KnownOrder(t) /\ Updates!TaskOK(t)
    BY <1>9, <2>1, UpdateShape DEF Updates!TrackCount, Updates!Op, UpdatesInv
  <2>3. Known(h, [t EXCEPT !.op = "write"])
    BY <1>9, <2>2 DEF Known, KnownOrder, Updates!TaskOK, Updates!Idle
  <2>4. \/ update' = [update EXCEPT ![h] = [t EXCEPT !.op = "write"]]
        \/ update' = [update EXCEPT ![h] = Updates!Idle]
    BY <1>9, <2>1 DEF Updates!TrackCount
  <2> QED
    BY <1>1, <1>2, <2>3, <2>4
<1>10. CASE \/ \E o \in Cargo : Updates!Move(o) \/ Updates!TimelineBegin(o)
            \/ \E u \in User :
                 Updates!MarkAll(u) \/ \E unread \in BOOLEAN : Updates!PageBegin(u, unread)
            \/ Updates!PageRead \/ Updates!PageClose
            \/ Updates!TimelineRead \/ Updates!TimelineClose
  BY <1>10 DEF Updates!Move, Updates!TimelineBegin, Updates!MarkAll, Updates!PageBegin,
     Updates!PageRead, Updates!PageClose, Updates!TimelineRead, Updates!TimelineClose
<1> HIDE DEF Updates!Begin, Updates!Continue, Updates!Finish
<1> QED
  BY <1>3, <1>4, <1>5, <1>6, <1>7, <1>8, <1>9, <1>10 DEF Updates!Next

LEMMA KnownStep ==
  ASSUME UpdatesInv, Updates!ParametersOK, Updates!Next
  PROVE  \A h \in Writer : KnownOrder(update[h])'
<1> SUFFICES ASSUME NEW h \in Writer PROVE KnownOrder(update[h])'
  OBVIOUS
<1>1. PICK r : r = update'[h]
  OBVIOUS
<1>2. KnownOrder(r)
  BY <1>1, KnownMoves DEF Known, UpdatesInv, UpdatesTyped
<1>3. Updates!TaskOK(r)
  BY <1>1, UpdatesTypedStep DEF UpdatesInv, UpdatesTyped, Updates!TypeOK, Updates!TaskOK,
     Updates!Idle
<1>4. r.op \in {"count", "write", "cancel"} => r.order \in Cargo
  BY <1>3 DEF Updates!TaskOK, Updates!Idle
<1>5. r.op \in {"count", "write", "cancel"} => status'[r.order] # Updates!Unset
  BY <1>2, <1>4, StatusKept DEF KnownOrder
<1> QED
  BY <1>1, <1>2, <1>5 DEF KnownOrder, Updates!Unset

LEMMA NoticesStep ==
  ASSUME UpdatesInv, Updates!ParametersOK, Updates!Next
  PROVE  Updates!NoticesAccounted'
<1> USE DEF Updates!Begin, Updates!Continue, Updates!Finish
<1>0. /\ UpdatesTyped /\ DOMAIN update = Writer
      /\ status \in [Cargo -> Updates!OrderStatus \cup {Updates!Unset}]
      /\ Updates!Unset \notin Updates!OrderStatus
  BY DEF UpdatesInv, UpdatesTyped, Updates!TypeOK, Updates!OrderStatus, Updates!Unset
<1>n. \A n \in Updates!Notice : Updates!Due(n) \in Nat
  BY <1>0, UpdatesNumbers
<1>1. ASSUME NEW h \in Writer, NEW o \in Cargo, Updates!Create(h, o)
      PROVE  Updates!NoticesAccounted'
  <2> DEFINE m == [about |-> o, kind |-> "PENDING"]
  <2>1. m \in Updates!Notice
    BY NoticeFacts
  <2>2. update' = [update EXCEPT ![h] = [op |-> "emit", notice |-> m]]
    BY <1>1 DEF Updates!Create, Updates!Emit
  <2>3. update[h].op # "emit"
    BY <1>1 DEF Updates!Create, Updates!Idle
  <2>4. Updates!Due(m) = 0 /\ Updates!Due(m)' = 1
    <3>1. m.about \notin Review /\ m.kind = "PENDING"
      BY DEF Updates!ParametersOK
    <3>2. status[o] = Updates!Unset /\ status'[o] # Updates!Unset
      BY <1>0, <1>1 DEF Updates!Create, Updates!OrderStatus
    <3>3. status'[o] # Updates!Unset'
      BY <3>2 DEF Updates!Unset
    <3> QED
      BY <3>1, <3>2, <3>3, DueCount DEF DueOf
  <2>5. ASSUME NEW n \in Updates!Notice, n # m
        PROVE  Updates!Due(n)' = Updates!Due(n)
    <3>1. CASE n.about # o
      BY <1>0, <1>1, <3>1, DueSame, NoticeFacts DEF Updates!Create
    <3>2. CASE n.about = o
      <4>1. n.kind # "PENDING" /\ n.about \notin Review
        BY <2>5, <3>2, NoticeFacts DEF Updates!ParametersOK
      <4>2. UNCHANGED <<events, puts, reviewed>>
        BY <1>1 DEF Updates!Create
      <4> QED
        BY <4>1, <4>2, DueCount DEF DueOf, Change, Count
    <3> QED
      BY <3>1, <3>2
  <2>6. UNCHANGED <<inbox, lost>>
    BY <1>1 DEF Updates!Create
  <2> HIDE DEF m
  <2>7. Updates!Due(m)' = Updates!Due(m) + 1
    BY <2>4
  <2> QED
    BY <2>1, <2>2, <2>3, <2>5, <2>6, <2>7, NoticesEmit
<1>2. ASSUME NEW h \in Writer, NEW o \in Cargo, NEW s \in PutStatuses, Updates!Put(h, o, s)
      PROVE  Updates!NoticesAccounted'
  <2>1. s \in Updates!OrderStatus
    BY DEF Updates!ParametersOK
  <2>2. update[h].op # "emit" /\ update' = [update EXCEPT ![h] = Updates!Announce(o, s)]
    BY <1>2 DEF Updates!Put, Updates!Idle
  <2>3. /\ UNCHANGED <<events, reviewed, inbox, lost>>
        /\ status[o] # Updates!Unset
        /\ status' = [status EXCEPT ![o] = s]
        /\ puts' = [puts EXCEPT ![o] = Append(@, s)]
    BY <1>2 DEF Updates!Put
  <2>4. \A n \in Updates!Notice :
          Updates!Due(n)' =
            Updates!Due(n) + IF n.about = o /\ n.kind # "PENDING" /\ n.kind = s
                             THEN 1 ELSE 0
    BY <1>0, <2>1, <2>3, DuePut
  <2> QED
    BY <2>2, <2>3, <2>4, AnnounceNew
<1>3. ASSUME NEW h \in Writer, Updates!CancelWrite(h)
      PROVE  Updates!NoticesAccounted'
  <2>1. PICK o \in Cargo : o = update[h].order /\ status[o] # Updates!Unset
    BY <1>3, UpdateShape DEF UpdatesInv, KnownOrder, Updates!CancelWrite, Updates!Op
  <2>2. Recorded(o, Change("CANCELLED"), "CANCELLED") /\ "CANCELLED" # Updates!Unset
    BY <1>3, <2>1, EventFacts DEF Updates!CancelWrite, Recorded, Change, Updates!OrderStatus,
       Updates!Unset
  <2>3. UNCHANGED <<puts, reviewed, inbox, lost>>
    BY <1>3 DEF Updates!CancelWrite
  <2>4. update[h].op # "emit" /\ update' = [update EXCEPT ![h] = Updates!Announce(o, "CANCELLED")]
    BY <1>3, <2>1 DEF Updates!CancelWrite, Updates!Op, Updates!Announce,
       Updates!NotifiableStatuses
  <2>5. \A n \in Updates!Notice : (Change("CANCELLED") = Change(n.kind) <=> n.kind = "CANCELLED")
    BY DEF Change
  <2>6. \A n \in Updates!Notice :
          Updates!Due(n)' =
            Updates!Due(n) + IF n.about = o /\ n.kind # "PENDING" /\ n.kind = "CANCELLED"
                             THEN 1 ELSE 0
    BY <1>0, <2>1, <2>2, <2>3, <2>5, DueRecorded
  <2> QED
    BY <2>3, <2>4, <2>6, AnnounceNew
<1>4. ASSUME NEW h \in Writer, Updates!TrackWrite(h)
      PROVE  Updates!NoticesAccounted'
  <2>1. PICK o \in Cargo, e \in Updates!Event :
          o = update[h].order /\ e = update[h].event /\ status[o] # Updates!Unset
    BY <1>4, UpdateShape DEF UpdatesInv, KnownOrder, Updates!TrackWrite, Updates!Op
  <2> DEFINE s == IF e.type = "STATUS_CHANGE" THEN e.status ELSE status[o]
  <2>2. s \in Updates!OrderStatus
    BY <1>0, <2>1, EventFacts
  <2>3. Recorded(o, e, s) /\ s # Updates!Unset
    BY <1>0, <1>4, <2>1, <2>2 DEF Updates!TrackWrite, Recorded
  <2>4. UNCHANGED <<puts, reviewed, inbox, lost>>
    BY <1>4 DEF Updates!TrackWrite
  <2>5. update[h].op # "emit"
    BY <1>4 DEF Updates!TrackWrite, Updates!Op
  <2> HIDE DEF s
  <2>6. \A n \in Updates!Notice :
          Updates!Due(n)' =
            Updates!Due(n) + IF n.about = o /\ n.kind # "PENDING" /\ e = Change(n.kind)
                             THEN 1 ELSE 0
    BY <1>0, <2>1, <2>3, <2>4, DueRecorded
  <2>7. CASE e.type = "STATUS_CHANGE"
    <3>1. update' = [update EXCEPT ![h] = Updates!Announce(o, e.status)]
      BY <1>4, <2>1, <2>7 DEF Updates!TrackWrite, Updates!Announced, Updates!Announce
    <3>2. \A n \in Updates!Notice : e = Change(n.kind) <=> n.kind = e.status
      BY <2>7, EventFacts DEF Change
    <3>3. \A n \in Updates!Notice :
            Updates!Due(n)' =
              Updates!Due(n) + IF n.about = o /\ n.kind # "PENDING" /\ n.kind = e.status
                               THEN 1 ELSE 0
      BY <2>6, <3>2
    <3> QED
      BY <2>4, <2>5, <3>1, <3>3, AnnounceNew
  <2>8. CASE e.type # "STATUS_CHANGE"
    <3>1. update' = [update EXCEPT ![h] = Updates!Idle] /\ Updates!Idle.op # "emit"
      BY <1>4, <2>1, <2>8 DEF Updates!TrackWrite, Updates!Announced, Updates!Idle
    <3>2. \A n \in Updates!Notice : e # Change(n.kind)
      BY <2>8 DEF Change
    <3>3. SameDue
      BY <1>n, <2>6, <3>2 DEF SameDue
    <3>4. SameNotices
      BY <2>4 DEF SameNotices, Updates!Sent
    <3> QED
      BY <2>4, <2>5, <3>1, <3>3, <3>4, NoticesQuiet
  <2> QED
    BY <2>7, <2>8
<1>5. ASSUME NEW h \in Writer, NEW r \in Review, Updates!TellReview(h, r)
      PROVE  Updates!NoticesAccounted'
  <2>1. PICK m \in Updates!Notice : m = [about |-> r, kind |-> "REVIEW"]
    BY NoticeFacts
  <2>2. /\ update' = [update EXCEPT ![h] = [op |-> "emit", notice |-> m]]
        /\ update[h].op # "emit"
    BY <1>5, <2>1 DEF Updates!TellReview, Updates!Idle
  <2>3. Updates!Due(m) = 0 /\ Updates!Due(m)' = 1
    <3>1. m.about = r /\ m.about \in Review
      BY <2>1
    <3>2. m.about \notin reviewed /\ m.about \in reviewed'
      BY <1>5, <3>1 DEF Updates!TellReview
    <3> QED
      BY <3>1, <3>2, DueCount DEF DueOf
  <2>4. ASSUME NEW n \in Updates!Notice, n # m
        PROVE  Updates!Due(n)' = Updates!Due(n)
    <3>1. n.about # r
      BY <2>1, <2>4, NoticeFacts DEF Updates!ParametersOK
    <3>2. UNCHANGED <<status, events, puts>> /\ reviewed' = reviewed \cup {r}
      BY <1>5 DEF Updates!TellReview
    <3> QED
      BY <3>1, <3>2, DueCount DEF DueOf, Change, Count, Updates!Unset
  <2>5. UNCHANGED <<inbox, lost>>
    BY <1>5 DEF Updates!TellReview
  <2>6. Updates!Due(m)' = Updates!Due(m) + 1
    BY <2>3
  <2> QED
    BY <2>1, <2>2, <2>4, <2>5, <2>6, NoticesEmit
<1>6. ASSUME UNCHANGED <<reviewed, status, events, puts, lost, inbox>>,
             \/ UNCHANGED update
             \/ \E h \in Writer : \E r :
                  /\ update' = [update EXCEPT ![h] = r]
                  /\ update[h].op # "emit" /\ r.op # "emit"
      PROVE  Updates!NoticesAccounted'
  <2>1. SameDue /\ SameNotices
    BY <1>6, QuietDue DEF SameNotices, Updates!Sent
  <2> QED
    BY <1>6, <2>1, NoticesQuiet
<1>7. ASSUME NEW h \in Writer, NEW o \in Cargo, Updates!CancelBegin(h, o)
      PROVE  Updates!NoticesAccounted'
  <2>1. PICK r : r = [op |-> "cancel", order |-> o]
    OBVIOUS
  <2>2. update' = [update EXCEPT ![h] = r] /\ update[h].op # "emit" /\ r.op # "emit"
    BY <1>7, <2>1 DEF Updates!CancelBegin, Updates!Idle
  <2> QED
    BY <1>6, <1>7, <2>2 DEF Updates!CancelBegin
<1>8. ASSUME NEW h \in Writer, NEW o \in Cargo, NEW e \in Updates!Event,
             Updates!TrackBegin(h, o, e)
      PROVE  Updates!NoticesAccounted'
  <2>1. PICK r : r = [op |-> IF e.type = "EXCEPTION" THEN "count" ELSE "write",
                      order |-> o, event |-> e]
    OBVIOUS
  <2>2. update' = [update EXCEPT ![h] = r] /\ update[h].op # "emit" /\ r.op # "emit"
    BY <1>8, <2>1 DEF Updates!TrackBegin, Updates!Idle
  <2> QED
    BY <1>6, <1>8, <2>2 DEF Updates!TrackBegin
<1>9. ASSUME NEW h \in Writer, NEW u \in User, NEW i \in DOMAIN inbox[u],
             Updates!MarkBegin(h, u, i)
      PROVE  Updates!NoticesAccounted'
  <2>1. PICK r : r = [op |-> "mark", user |-> u, row |-> i]
    OBVIOUS
  <2>2. update' = [update EXCEPT ![h] = r] /\ update[h].op # "emit" /\ r.op # "emit"
    BY <1>9, <2>1 DEF Updates!MarkBegin, Updates!Idle
  <2> QED
    BY <1>6, <1>9, <2>2 DEF Updates!MarkBegin
<1>10. ASSUME NEW h \in Writer, Updates!TrackCount(h)
       PROVE  Updates!NoticesAccounted'
  <2>1. PICK t : t = update[h]
    OBVIOUS
  <2>2. t.op = "count" /\ Updates!TaskOK(t)
    BY <1>0, <1>10, <2>1, UpdateShape DEF Updates!TrackCount, Updates!Op
  <2>3. [t EXCEPT !.op = "write"].op # "emit" /\ Updates!Idle.op # "emit"
    BY <2>2 DEF Updates!TaskOK, Updates!Idle
  <2>4. \/ update' = [update EXCEPT ![h] = [t EXCEPT !.op = "write"]]
        \/ update' = [update EXCEPT ![h] = Updates!Idle]
    BY <1>10, <2>1 DEF Updates!TrackCount
  <2>5. PICK r : update' = [update EXCEPT ![h] = r] /\ r.op # "emit"
    BY <2>3, <2>4
  <2> QED
    BY <1>6, <1>10, <2>1, <2>2, <2>5 DEF Updates!TrackCount
<1>11. ASSUME NEW h \in Writer, Updates!MarkWrite(h)
       PROVE  Updates!NoticesAccounted'
  <2>1. update[h].user \in User
    BY <1>0, <1>11, UpdateShape DEF Updates!MarkWrite, Updates!Op
  <2>2. SameNotices
    BY <1>0, <1>11, <2>1, MarkedNotices DEF Updates!MarkWrite
  <2>3. SameDue
    BY <1>11, QuietDue DEF Updates!MarkWrite
  <2>4. /\ update' = [update EXCEPT ![h] = Updates!Idle]
        /\ update[h].op # "emit" /\ Updates!Idle.op # "emit"
    BY <1>11 DEF Updates!MarkWrite, Updates!Op, Updates!Idle
  <2> QED
    BY <1>11, <2>2, <2>3, <2>4, NoticesQuiet DEF Updates!MarkWrite
<1>12. ASSUME NEW u \in User, Updates!MarkAll(u)
       PROVE  Updates!NoticesAccounted'
  <2>1. SameNotices /\ SameDue
    BY <1>0, <1>12, MarkedNotices, QuietDue DEF Updates!MarkAll
  <2> QED
    BY <1>12, <2>1, NoticesQuiet DEF Updates!MarkAll
<1>13. ASSUME NEW o \in Cargo, Updates!Move(o)
       PROVE  Updates!NoticesAccounted'
  <2>1. status[o] # Updates!Unset
    BY <1>13 DEF Updates!Move, Updates!DispatchableStatuses, Updates!StartableStatuses,
       Updates!Unset
  <2>2. \A p \in Cargo : status'[p] = Updates!Unset <=> status[p] = Updates!Unset
    BY <1>0, <1>13, <2>1 DEF Updates!Move, Updates!Unset
  <2>3. SameDue
    BY <1>13, <2>2, DueSame, NoticeFacts DEF SameDue, Updates!Move
  <2>4. SameNotices
    BY <1>13 DEF SameNotices, Updates!Sent, Updates!Move
  <2> QED
    BY <1>13, <2>3, <2>4, NoticesQuiet DEF Updates!Move
<1>14. CASE \/ \E o \in Cargo : Updates!TimelineBegin(o)
            \/ \E u \in User, unread \in BOOLEAN : Updates!PageBegin(u, unread)
            \/ Updates!PageRead \/ Updates!PageClose
            \/ Updates!TimelineRead \/ Updates!TimelineClose
  <2>1. UNCHANGED <<reviewed, status, events, puts, lost, inbox, update>>
    BY <1>14 DEF Updates!TimelineBegin, Updates!PageBegin,
       Updates!PageRead, Updates!PageClose, Updates!TimelineRead, Updates!TimelineClose
  <2> QED
    BY <1>6, <2>1
<1> HIDE DEF Updates!Begin, Updates!Continue, Updates!Finish
<1> QED
  BY <1>1, <1>2, <1>3, <1>4, <1>5, <1>7, <1>8, <1>9, <1>10, <1>11, <1>12, <1>13, <1>14,
     NotifyNotices, BreakOffNotices DEF Updates!Next

\* A step leaves room for the failed attempts of an order, or makes it overlapped.
LEMMA FailingMove ==
  ASSUME UpdatesInv, Updates!Next, NEW o \in Cargo, NEW g \in Failing(o)'
  PROVE  \/ g \in Failing(o)
         \/ /\ Updates!TrackCount(g) /\ update[g].order = o
            /\ Updates!Allowed(Updates!Failures(o))
<1>0. g \in Writer /\ DOMAIN update = Writer
  BY DEF Failing, UpdatesInv, UpdatesTyped
<1>1. PICK t, r : t = update[g] /\ r = update'[g]
  OBVIOUS
<1>2. r.op = "write" /\ r.event.type = "EXCEPTION" /\ r.order = o
  BY <1>1 DEF Failing, Updates!Op
<1>3. CASE r = t
  BY <1>0, <1>1, <1>2, <1>3 DEF Failing, Updates!Op
<1>4. CASE r # t
  <2>0. PICK h \in Writer : \E x : Known(h, x) /\ update' = [update EXCEPT ![h] = x]
    BY <1>1, <1>4, KnownMoves
  <2>1. PICK x : Known(h, x) /\ update' = [update EXCEPT ![h] = x]
    BY <2>0
  <2>2. h = g /\ x = r
    BY <1>0, <1>1, <1>4, <2>1
  <2>3. Updates!TrackCount(g)
    BY <1>2, <2>1, <2>2 DEF Known
  <2>4. \/ Updates!Allowed(Updates!Failures(t.order)) /\ r = [t EXCEPT !.op = "write"]
        \/ r = Updates!Idle
    BY <1>0, <1>1, <2>3 DEF Updates!TrackCount, Updates!Continue
  <2>5. r # Updates!Idle
    BY <1>2 DEF Updates!Idle
  <2>6. t.order = r.order
    <3>1. [t EXCEPT !.op = "write"].order = t.order
      OBVIOUS
    <3> QED
      BY <2>4, <2>5, <3>1
  <2> QED
    BY <1>1, <1>2, <2>3, <2>4, <2>5, <2>6
<1> QED
  BY <1>3, <1>4

LEMMA AttemptsStep ==
  ASSUME UpdatesInv, Updates!ParametersOK, Updates!Next, NEW o \in Cargo
  PROVE  AttemptsRoom(o)'
<1>0. /\ UpdatesTyped /\ UpdatesTyped' /\ AttemptsRoom(o) /\ MaxAttempts \in Nat
      /\ DOMAIN update = Writer
      /\ events \in [Cargo -> Seq(Updates!Event)]
  BY UpdatesTypedStep DEF UpdatesInv, UpdatesTyped, Updates!ParametersOK
<1>f. Updates!Failures(o) \in Nat
  BY <1>0, UpdatesNumbers
<1>k. overlapped \subseteq overlapped'
  BY UpdatesOverlapped DEF Updates!TrackCount
<1> SUFFICES ASSUME o \notin overlapped'
             PROVE  /\ Updates!Failures(o)' <= MaxAttempts
                    /\ Failing(o)' # {} => Updates!Failures(o)' < MaxAttempts
                    /\ \A g, h \in Failing(o)' : g = h
  BY DEF AttemptsRoom
<1>1. /\ Updates!Failures(o) <= MaxAttempts
      /\ Failing(o) # {} => Updates!Failures(o) < MaxAttempts
      /\ \A g, h \in Failing(o) : g = h
  BY <1>0, <1>k DEF AttemptsRoom
<1>2. CASE UNCHANGED events
  <2>1. Updates!Failures(o)' = Updates!Failures(o)
    BY <1>2 DEF Updates!Failures
  <2>2. CASE Failing(o)' \subseteq Failing(o)
    BY <1>1, <2>1, <2>2
  <2>3. CASE ~(Failing(o)' \subseteq Failing(o))
    <3>1. PICK h \in Writer : /\ Updates!TrackCount(h) /\ update[h].order = o
                               /\ Updates!Allowed(Updates!Failures(o))
      BY <2>3, FailingMove DEF Failing
    <3>2. Updates!Failures(o) < MaxAttempts
      BY <3>1 DEF Updates!Allowed
    <3>3. Failing(o) = {}
      <4>1. h \notin Failing(o)
        BY <3>1 DEF Failing, Updates!TrackCount, Updates!Op
      <4>2. \A f \in Failing(o) : o \in overlapped'
        BY <3>1, <4>1 DEF Failing, Updates!TrackCount
      <4> QED
        BY <4>2
    <3>4. \A g \in Writer : g # h => update'[g] = update[g]
      BY <1>0, <3>1 DEF Updates!TrackCount, Updates!Continue
    <3>5. Failing(o)' \subseteq {h}
      <4>1. \A g \in Failing(o)' : g # h => g \in Failing(o)
        BY <3>4 DEF Failing, Updates!Op
      <4> QED
        BY <3>3, <4>1
    <3> QED
      BY <1>f, <1>1, <2>1, <3>2, <3>5
  <2> QED
    BY <2>2, <2>3
<1>3. ASSUME NEW h \in Writer, NEW p, NEW e, NEW s, Recorded(p, e, s), p = update[h].order,
             ~Updates!TrackCount(h), \A g \in Writer \ {h} : update'[g] = update[g],
             h \notin Failing(p)',
             e.type = "EXCEPTION" => h \in Failing(p)
      PROVE  /\ Updates!Failures(o)' <= MaxAttempts
             /\ Failing(o)' # {} => Updates!Failures(o)' < MaxAttempts
             /\ \A g, f \in Failing(o)' : g = f
  <2>1. /\ events' = [events EXCEPT ![p] = Append(@, e)] /\ p \in Cargo /\ e \in Updates!Event
    BY <1>3 DEF Recorded, Updates!Record
  <2>2. Failing(o)' \subseteq Failing(o) /\ (p = o => Failing(o)' \subseteq Failing(o) \ {h})
    <3>1. ASSUME NEW g \in Failing(o)'
          PROVE  g \in Failing(o) /\ (p = o => g # h)
      <4>1. CASE g # h
        BY <1>3, <3>1, <4>1 DEF Failing, Updates!Op
      <4>2. CASE g = h
        BY <1>3, <3>1, <4>2, FailingMove
      <4> QED
        BY <4>1, <4>2
    <3> QED
      BY <3>1
  <2>3. CASE p # o
    <3>1. events'[o] = events[o]
      BY <1>0, <2>1, <2>3
    <3>2. Updates!Failures(o)' = Updates!Failures(o)
      BY <3>1 DEF Updates!Failures
    <3> QED
      BY <1>1, <2>2, <3>2
  <2>4. CASE p = o
    <3>1. events'[o] = Append(events[o], e) /\ events[o] \in Seq(Updates!Event)
      BY <1>0, <2>1, <2>4
    <3>2. Count(Append(events[o], e), Attempts)
            = Count(events[o], Attempts) + IF e \in Attempts THEN 1 ELSE 0
      BY <2>1, <3>1, CountAppend
    <3>3. Updates!Failures(o)' = Count(events'[o], Attempts)
      <4>1. \A i \in DOMAIN events'[o] : events'[o][i] \in Updates!Event
        <5>1. events'[o] \in Seq(Updates!Event)
          BY <1>0 DEF UpdatesTyped, Updates!Event
        <5> QED
          BY <5>1, SeqFacts
      <4>2. {i \in DOMAIN events'[o] : events'[o][i].type = "EXCEPTION"}
              = {i \in DOMAIN events'[o] : events'[o][i] \in Attempts}
        BY <4>1 DEF Attempts
      <4> QED
        BY <4>2, SizeSame DEF Updates!Failures, Count
    <3>4. Updates!Failures(o)' = Updates!Failures(o) + IF e.type = "EXCEPTION" THEN 1 ELSE 0
      <4>1. e \in Attempts <=> e.type = "EXCEPTION"
        BY <2>1 DEF Attempts
      <4> QED
        BY <1>0, <3>1, <3>2, <3>3, <4>1, FailuresCount
    <3>5. CASE e.type = "EXCEPTION"
      <4>1. Updates!Failures(o) < MaxAttempts /\ Failing(o)' = {}
        BY <1>1, <1>3, <2>2, <2>4, <3>5
      <4> QED
        BY <1>0, <1>f, <3>4, <3>5, <4>1
    <3>6. CASE e.type # "EXCEPTION"
      <4>1. Updates!Failures(o)' = Updates!Failures(o)
        BY <1>f, <3>4, <3>6
      <4> QED
        BY <1>1, <2>2, <4>1
    <3> QED
      BY <3>5, <3>6
  <2> QED
    BY <2>3, <2>4
<1>4. ASSUME NEW h \in Writer, Updates!CancelWrite(h),
             Recorded(update[h].order, [type |-> "STATUS_CHANGE", status |-> "CANCELLED"],
                      "CANCELLED")
      PROVE  /\ Updates!Failures(o)' <= MaxAttempts
             /\ Failing(o)' # {} => Updates!Failures(o)' < MaxAttempts
             /\ \A g, f \in Failing(o)' : g = f
  <2>1. ~Updates!TrackCount(h)
    BY <1>4 DEF Updates!CancelWrite, Updates!TrackCount, Updates!Op
  <2>2. /\ \A g \in Writer \ {h} : update'[g] = update[g]
        /\ update'[h].op # "write"
    BY <1>0, <1>4 DEF Updates!CancelWrite, Updates!Continue, Updates!Emit
  <2>3. \A p : h \notin Failing(p)'
    BY <2>2 DEF Failing, Updates!Op
  <2> QED
    <3>1. PICK p, e, s : /\ p = update[h].order /\ s = "CANCELLED"
                         /\ e = [type |-> "STATUS_CHANGE", status |-> "CANCELLED"]
      OBVIOUS
    <3>2. Recorded(p, e, s) /\ e.type # "EXCEPTION"
      BY <1>4, <3>1
    <3>3. h \notin Failing(p)'
      BY <2>3
    <3> QED
      BY <1>3, <2>1, <2>2, <3>1, <3>2, <3>3
<1>5. ASSUME NEW h \in Writer, Updates!TrackWrite(h), NEW s,
             Recorded(update[h].order, update[h].event, s)
      PROVE  /\ Updates!Failures(o)' <= MaxAttempts
             /\ Failing(o)' # {} => Updates!Failures(o)' < MaxAttempts
             /\ \A g, f \in Failing(o)' : g = f
  <2>1. ~Updates!TrackCount(h)
    BY <1>5 DEF Updates!TrackWrite, Updates!TrackCount, Updates!Op
  <2>2. /\ \A g \in Writer \ {h} : update'[g] = update[g]
        /\ update'[h].op # "write"
    BY <1>0, <1>5 DEF Updates!TrackWrite, Updates!Continue, Updates!Emit, Updates!Idle
  <2>3. \A p : h \notin Failing(p)'
    BY <2>2 DEF Failing, Updates!Op
  <2>4. update[h].event.type = "EXCEPTION" => h \in Failing(update[h].order)
    BY <1>5 DEF Failing, Updates!TrackWrite
  <2> QED
    <3>1. PICK p, e : p = update[h].order /\ e = update[h].event
      OBVIOUS
    <3>2. Recorded(p, e, s) /\ (e.type = "EXCEPTION" => h \in Failing(p))
      BY <1>5, <2>4, <3>1
    <3>3. h \notin Failing(p)'
      BY <2>3
    <3> QED
      BY <1>3, <2>1, <2>2, <3>1, <3>2, <3>3
<1> QED
  BY <1>0, <1>2, <1>4, <1>5, UpdatesRecord

--------------------------------------------------------------------------------
(***************************************************************************)
(* Timelines.                                                              *)
(***************************************************************************)

LEMMA RangeAppend ==
  ASSUME NEW R, NEW s \in Seq(R), NEW e \in R
  PROVE  Updates!Range(Append(s, e)) = Updates!Range(s) \cup {e}
<1>1. Len(s) \in Nat /\ Len(s) + 1 \notin DOMAIN s
  BY SeqFacts
<1>2. /\ DOMAIN Append(s, e) = DOMAIN s \cup {Len(s) + 1}
      /\ Append(s, e)[Len(s) + 1] = e /\ \A i \in DOMAIN s : Append(s, e)[i] = s[i]
  BY SeqFacts
<1> QED
  BY <1>1, <1>2 DEF Updates!Range

LEMMA EventsGrow ==
  ASSUME UpdatesTyped, Updates!ParametersOK, Updates!Next, NEW o \in Cargo
  PROVE  Updates!Range(events[o]) \subseteq Updates!Range(events'[o])
<1>0. events \in [Cargo -> Seq(Updates!Event)]
  BY DEF UpdatesTyped
<1>1. ASSUME NEW p, NEW e, NEW s, Recorded(p, e, s)
      PROVE  Updates!Range(events[o]) \subseteq Updates!Range(events'[o])
  <2>1. events'[o] = IF o = p THEN Append(events[o], e) ELSE events[o]
    BY <1>0, <1>1 DEF Recorded, Updates!Record
  <2>2. Updates!Range(Append(events[o], e)) = Updates!Range(events[o]) \cup {e}
    BY <1>0, <1>1, RangeAppend DEF Recorded
  <2> QED
    BY <2>1, <2>2
<1> QED
  BY <1>1, UpdatesRecord

LEMMA StatusBacked ==
  ASSUME UpdatesInv, Updates!ParametersOK, Updates!Next, NEW o \in Cargo
  PROVE  Backed(status'[o], Updates!Range(puts'[o]), Updates!Range(events'[o]))
<1>0. /\ UpdatesTyped
      /\ status \in [Cargo -> Updates!OrderStatus \cup {Updates!Unset}]
      /\ events \in [Cargo -> Seq(Updates!Event)]
      /\ puts \in [Cargo -> Seq(Updates!OrderStatus)]
      /\ Backed(status[o], Updates!Range(puts[o]), Updates!Range(events[o]))
  BY DEF UpdatesInv, UpdatesTyped, Updates!TypeOK, TimelineInv
<1>1. Updates!Range(events[o]) \subseteq Updates!Range(events'[o])
  BY <1>0, EventsGrow
<1>2. CASE status'[o] = status[o] /\ puts'[o] = puts[o]
  BY <1>0, <1>1, <1>2 DEF Backed
<1>3. CASE status'[o] \in {"PENDING", "ASSIGNED", "IN_TRANSIT"}
  BY <1>3 DEF Backed
<1>4. CASE UNCHANGED <<status, puts>>
  BY <1>2, <1>4
<1>5. ASSUME NEW p, NEW e, NEW s, Recorded(p, e, s), UNCHANGED puts,
             s = status[p] \/ e = [type |-> "STATUS_CHANGE", status |-> s]
      PROVE  Backed(status'[o], Updates!Range(puts'[o]), Updates!Range(events'[o]))
  <2>1. CASE o # p \/ s = status[p]
    <3>1. status'[o] = status[o]
      BY <1>0, <1>5, <2>1 DEF Recorded, Updates!Record
    <3> QED
      BY <1>2, <1>5, <3>1
  <2>2. CASE o = p /\ e = [type |-> "STATUS_CHANGE", status |-> s]
    <3>1. status'[o] = s /\ events'[o] = Append(events[o], e) /\ e \in Updates!Event
      BY <1>0, <1>5, <2>2 DEF Recorded, Updates!Record
    <3>2. e \in Updates!Range(events'[o])
      BY <1>0, <3>1, RangeAppend
    <3> QED
      BY <2>2, <3>1, <3>2 DEF Backed
  <2> QED
    BY <1>5, <2>1, <2>2
<1>6. ASSUME NEW h \in Writer, Updates!CancelWrite(h)
      PROVE  Backed(status'[o], Updates!Range(puts'[o]), Updates!Range(events'[o]))
  <2>1. update[h].order \in Cargo
    BY <1>0, <1>6, UpdateShape DEF Updates!CancelWrite, Updates!Op
  <2>2. PICK p, e, s : /\ p = update[h].order /\ s = "CANCELLED"
                       /\ e = [type |-> "STATUS_CHANGE", status |-> s]
    OBVIOUS
  <2>3. Recorded(p, e, s)
    BY <1>6, <2>1, <2>2, EventFacts DEF Updates!CancelWrite, Recorded, Updates!OrderStatus
  <2> QED
    BY <1>5, <1>6, <2>2, <2>3 DEF Updates!CancelWrite
<1>7. ASSUME NEW h \in Writer, Updates!TrackWrite(h)
      PROVE  Backed(status'[o], Updates!Range(puts'[o]), Updates!Range(events'[o]))
  <2>1. PICK p \in Cargo, e \in Updates!Event : p = update[h].order /\ e = update[h].event
    BY <1>0, <1>7, UpdateShape DEF Updates!TrackWrite, Updates!Op
  <2>2. PICK s : s = IF e.type = "STATUS_CHANGE" THEN e.status ELSE status[p]
    OBVIOUS
  <2>3. Recorded(p, e, s)
    BY <1>0, <1>7, <2>1, <2>2, EventFacts DEF Updates!TrackWrite, Recorded
  <2>4. s = status[p] \/ e = [type |-> "STATUS_CHANGE", status |-> s]
    BY <2>2, EventFacts
  <2> QED
    BY <1>5, <1>7, <2>3, <2>4 DEF Updates!TrackWrite
<1>8. ASSUME NEW h \in Writer, NEW p \in Cargo, Updates!Create(h, p)
      PROVE  Backed(status'[o], Updates!Range(puts'[o]), Updates!Range(events'[o]))
  <2>1. UNCHANGED puts /\ (status'[o] = status[o] \/ status'[o] = "PENDING")
    BY <1>0, <1>8 DEF Updates!Create
  <2> QED
    BY <1>2, <1>3, <2>1
<1>9. ASSUME NEW p \in Cargo, Updates!Move(p)
      PROVE  Backed(status'[o], Updates!Range(puts'[o]), Updates!Range(events'[o]))
  <2>1. /\ UNCHANGED puts
        /\ status'[o] = status[o] \/ status'[o] \in {"PENDING", "ASSIGNED", "IN_TRANSIT"}
    BY <1>0, <1>9 DEF Updates!Move
  <2> QED
    BY <1>2, <1>3, <2>1
<1>10. ASSUME NEW h \in Writer, NEW p \in Cargo, NEW s \in PutStatuses, Updates!Put(h, p, s)
       PROVE  Backed(status'[o], Updates!Range(puts'[o]), Updates!Range(events'[o]))
  <2>1. CASE o # p
    <3>1. status'[o] = status[o] /\ puts'[o] = puts[o]
      BY <1>0, <1>10, <2>1 DEF Updates!Put
    <3> QED
      BY <1>2, <3>1
  <2>2. CASE o = p
    <3>1. status'[o] = s /\ puts'[o] = Append(puts[o], s)
      BY <1>0, <1>10, <2>2 DEF Updates!Put
    <3>2. s \in Updates!OrderStatus
      BY DEF Updates!ParametersOK
    <3>3. s \in Updates!Range(puts'[o])
      BY <1>0, <3>1, <3>2, RangeAppend
    <3> QED
      BY <3>1, <3>3 DEF Backed
  <2> QED
    BY <2>1, <2>2
<1> QED
  BY <1>4, <1>6, <1>7, <1>8, <1>9, <1>10, UpdatesStatus

LEMMA TimelineStep ==
  ASSUME UpdatesInv, Updates!ParametersOK, Updates!Next
  PROVE  TimelineInv'
<1>0. /\ UpdatesTyped /\ TimelineInv
      /\ timeline \in {Updates!Idle} \cup
           [order : Cargo, status : Updates!OrderStatus, put : SUBSET Updates!OrderStatus,
            events : {<<>>} \cup {<<S>> : S \in SUBSET Updates!Event}]
  BY DEF UpdatesInv, UpdatesTyped
<1> DEFINE Line(t) ==
      t # Updates!Idle =>
        /\ Backed(t.status, t.put, Updates!Range(events'[t.order]))
        /\ t.events # <<>> => Backed(t.status, t.put, t.events[1])
<1>1. SUFFICES Line(timeline')
  <2>1. \A o \in Cargo : Backed(status'[o], Updates!Range(puts'[o]), Updates!Range(events'[o]))
    BY StatusBacked
  <2> QED
    BY <2>1 DEF TimelineInv, Backed, Updates!Idle, Updates!Unset, Updates!Range
<1>2. timeline # Updates!Idle =>
        /\ timeline.order \in Cargo
        /\ Backed(timeline.status, timeline.put, Updates!Range(events'[timeline.order]))
  <2> SUFFICES ASSUME timeline # Updates!Idle
               PROVE  /\ timeline.order \in Cargo
                      /\ Backed(timeline.status, timeline.put,
                                Updates!Range(events'[timeline.order]))
    OBVIOUS
  <2>1. timeline.order \in Cargo
    BY <1>0
  <2>2. Updates!Range(events[timeline.order]) \subseteq Updates!Range(events'[timeline.order])
    BY <1>0, <2>1, EventsGrow
  <2> QED
    BY <1>0, <2>1, <2>2 DEF TimelineInv, Backed
<1>3. CASE UNCHANGED timeline
  BY <1>0, <1>2, <1>3 DEF TimelineInv
<1>4. ASSUME NEW o \in Cargo, Updates!TimelineBegin(o)
      PROVE  Line(timeline')
  <2>1. PICK t : t = [order |-> o, status |-> status[o], put |-> Updates!Range(puts[o]),
                      events |-> <<>>]
    OBVIOUS
  <2>2. timeline' = t /\ UNCHANGED events
    BY <1>4, <2>1 DEF Updates!TimelineBegin
  <2>3. t.order = o /\ t.status = status[o] /\ t.put = Updates!Range(puts[o]) /\ t.events = <<>>
    BY <2>1
  <2>4. Backed(status[o], Updates!Range(puts[o]), Updates!Range(events[o]))
    BY <1>0 DEF TimelineInv
  <2> QED
    BY <2>2, <2>3, <2>4
<1>5. ASSUME Updates!TimelineRead
      PROVE  Line(timeline')
  <2>1. PICK t, u : t = timeline /\ u = timeline'
    OBVIOUS
  <2>2. t \in [order : Cargo, status : Updates!OrderStatus, put : SUBSET Updates!OrderStatus,
               events : {<<>>} \cup {<<S>> : S \in SUBSET Updates!Event}]
    BY <1>0, <1>5, <2>1 DEF Updates!TimelineRead
  <2>3. u = [t EXCEPT !.events = <<Updates!Range(events[t.order])>>] /\ UNCHANGED events
    BY <1>5, <2>1 DEF Updates!TimelineRead, Updates!Found
  <2>4. /\ u.order = t.order /\ u.status = t.status /\ u.put = t.put
        /\ u.events = <<Updates!Range(events[t.order])>>
    BY <2>2, <2>3
  <2>5. u.events[1] = Updates!Range(events[t.order])
    BY <2>4
  <2>6. Backed(t.status, t.put, Updates!Range(events[t.order]))
    BY <1>0, <1>5, <2>1 DEF TimelineInv, Updates!TimelineRead
  <2> QED
    BY <2>1, <2>3, <2>4, <2>5, <2>6
<1>6. ASSUME Updates!TimelineClose
      PROVE  Line(timeline')
  BY <1>6 DEF Updates!TimelineClose
<1> QED
  BY <1>3, <1>4, <1>5, <1>6, UpdatesTimeline

--------------------------------------------------------------------------------
(***************************************************************************)
(* Pages of an inbox.                                                      *)
(***************************************************************************)

\* A page has as many rows as there are, or as many as fit.
LEMMA NewestSize ==
  ASSUME Updates!ParametersOK, NEW S \in SUBSET Nat, IsFiniteSet(S)
  PROVE  Cardinality(Updates!Newest(S)) =
           IF Cardinality(S) <= PageSize THEN Cardinality(S) ELSE PageSize
<1> DEFINE Q == {T \in SUBSET S : Cardinality(Updates!Newest(T)) =
                   IF Cardinality(T) <= PageSize THEN Cardinality(T) ELSE PageSize}
<1>0. PageSize \in Nat
  BY DEF Updates!ParametersOK
<1>1. ASSUME NEW T \in SUBSET S, \A x \in T : T \ {x} \in Q
      PROVE  T \in Q
  <2>1. IsFiniteSet(T) /\ Cardinality(T) \in Nat /\ T \in SUBSET Nat
    BY FS_Subset, FS_CardinalityType
  <2>2. CASE T = {}
    <3>1. Updates!Newest(T) = {}
      BY <2>2 DEF Updates!Newest
    <3>2. Cardinality(T) = 0
      BY <2>2, FS_EmptySet
    <3> QED
      BY <1>0, <2>2, <3>1, <3>2
  <2>3. CASE T # {}
    <3>1. T \in SUBSET Int
      BY <2>1
    <3>2. PICK x \in T : \A y \in T : x <= y
      BY <2>1, <2>3, <3>1, MinFacts
    <3> DEFINE U == T \ {x}
               N == Updates!Newest(U)
    <3>3. U \in Q
      BY <1>1, <3>2
    <3>4. Cardinality(U) = Cardinality(T) - 1 /\ IsFiniteSet(U)
      BY <2>1, <3>2, FS_RemoveElement
    <3>5. \A i \in U : {j \in T : j >= i} = {j \in U : j >= i}
      BY <2>1, <3>2
    <3>6. {j \in T : j >= x} = T
      BY <2>1, <3>2
    <3>7. Updates!Newest(T) = N \cup IF Cardinality(T) <= PageSize THEN {x} ELSE {}
      <4>1. \A i \in T : i \in Updates!Newest(T) <=> Cardinality({j \in T : j >= i}) <= PageSize
        BY SizeSame DEF Updates!Newest
      <4>2. \A i \in U : i \in N <=> Cardinality({j \in U : j >= i}) <= PageSize
        BY SizeSame DEF Updates!Newest
      <4>3. Updates!Newest(T) \subseteq T /\ N \subseteq U /\ T = U \cup {x} /\ x \notin U
        BY <3>2 DEF Updates!Newest
      <4> HIDE DEF U, N
      <4>4. \A i \in U : i \in Updates!Newest(T) <=> i \in N
        BY <3>5, <4>1, <4>2, <4>3
      <4>5. x \in Updates!Newest(T) <=> Cardinality(T) <= PageSize
        BY <3>2, <3>6, <4>1
      <4> QED
        BY <4>3, <4>4, <4>5
    <3>8. IsFiniteSet(N) /\ x \notin N
      <4>1. N \subseteq U
        BY DEF Updates!Newest
      <4> QED
        BY <3>4, <4>1, FS_Subset
    <3>9. Cardinality(N) = IF Cardinality(U) <= PageSize THEN Cardinality(U) ELSE PageSize
      BY <3>3
    <3> HIDE DEF U, N
    <3>10. Cardinality(N \cup {x}) = Cardinality(N) + 1 /\ Cardinality(N) \in Nat
      BY <3>8, FS_AddElement, FS_CardinalityType
    <3>11. Cardinality(Updates!Newest(T)) =
             IF Cardinality(T) <= PageSize THEN Cardinality(T) ELSE PageSize
      <4>1. CASE Cardinality(T) <= PageSize
        <5>1. Updates!Newest(T) = N \cup {x}
          BY <3>7, <4>1
        <5> QED
          BY <1>0, <2>1, <3>4, <3>9, <3>10, <4>1, <5>1
      <4>2. CASE ~(Cardinality(T) <= PageSize)
        <5>1. Updates!Newest(T) = N
          BY <3>7, <4>2
        <5> QED
          BY <1>0, <2>1, <3>4, <3>9, <4>2, <5>1
      <4> QED
        BY <4>1, <4>2
    <3> QED
      BY <3>11
  <2> QED
    BY <2>2, <2>3
<1> HIDE DEF Q
<1>2. S \in Q
  BY <1>1, SetInduction
<1> QED
  BY <1>2 DEF Q

LEMMA MatchingFinite ==
  ASSUME UpdatesTyped, NEW u \in User, NEW unread
  PROVE  LET S == Updates!Matching(u, unread)
         IN S \in SUBSET Nat /\ IsFiniteSet(S) /\ Cardinality(S) \in Nat
<1>1. Updates!Matching(u, unread) \subseteq DOMAIN inbox[u]
  BY DEF Updates!Matching
<1>2. IsFiniteSet(Updates!Matching(u, unread))
  BY <1>1, InboxRows, FS_Subset
<1> QED
  BY <1>1, <1>2, InboxRows, FS_CardinalityType

LEMMA PageSound ==
  ASSUME UpdatesTyped, Updates!ParametersOK, PageInv
  PROVE  Updates!PageCoherent
<1> SUFFICES ASSUME page # Updates!Idle, page.rows # <<>>, page.total # <<>>,
                    page.user \notin changedInbox
             PROVE  /\ Cardinality(page.rows[1]) <= page.total[1]
                    /\ Cardinality(page.rows[1]) < page.total[1] =>
                         Cardinality(page.rows[1]) = PageSize
  BY SizeSame DEF Updates!PageCoherent
<1>1. page.user \in User
  BY DEF UpdatesTyped
<1> DEFINE S == Updates!Matching(page.user, page.unread)
<1>2. S \in SUBSET Nat /\ IsFiniteSet(S) /\ Cardinality(S) \in Nat
  BY <1>1, MatchingFinite
<1>3. page.rows[1] = Updates!Newest(S) /\ page.total[1] = Cardinality(S)
  BY DEF PageInv
<1> HIDE DEF S
<1>4. Cardinality(Updates!Newest(S)) =
        IF Cardinality(S) <= PageSize THEN Cardinality(S) ELSE PageSize
  BY <1>2, NewestSize
<1>5. PageSize \in Nat
  BY DEF Updates!ParametersOK
<1> QED
  BY <1>2, <1>3, <1>4, <1>5

LEMMA PageStep ==
  ASSUME UpdatesInv, Updates!ParametersOK, Updates!Next
  PROVE  PageInv'
<1>0. /\ UpdatesTyped /\ PageInv /\ DOMAIN update = Writer
      /\ inbox \in [User -> Seq([notice : Updates!Notice, read : BOOLEAN])]
      /\ page # Updates!Idle =>
           page \in [user : User, unread : BOOLEAN, rows : {<<>>} \cup {<<S>> : S \in SUBSET Nat},
                     total : {<<>>} \cup {<<k>> : k \in Nat}]
  BY DEF UpdatesInv, UpdatesTyped
<1>1. ASSUME UNCHANGED page,
             page # Updates!Idle /\ page.user \notin changedInbox' =>
               page.user \notin changedInbox /\ inbox'[page.user] = inbox[page.user]
      PROVE  PageInv'
  BY <1>0, <1>1 DEF PageInv, Updates!Matching, Updates!Newest, Updates!Idle
<1>2. CASE UNCHANGED <<page, inbox, changedInbox>>
  BY <1>1, <1>2
<1>3. ASSUME NEW h \in Writer, Updates!Notify(h)
      PROVE  PageInv'
  <2>1. page # Updates!Idle => changedInbox' = changedInbox \cup Updates!To(update[h].notice)
    BY <1>3 DEF Updates!Notify
  <2>2. \A u \in User : u \notin Updates!To(update[h].notice) => inbox'[u] = inbox[u]
    BY <1>3 DEF Updates!Notify, Updates!Delivered
  <2>3. page # Updates!Idle => page.user \in User
    BY <1>0
  <2>4. UNCHANGED page
    BY <1>3 DEF Updates!Notify
  <2> QED
    BY <1>1, <2>1, <2>2, <2>3, <2>4
<1>4. ASSUME NEW u \in User, NEW S, Updates!Marked(u, S), UNCHANGED page
      PROVE  PageInv'
  <2>1. page # Updates!Idle => changedInbox' = changedInbox \cup {u}
    BY <1>4 DEF Updates!Marked
  <2>2. \A v \in User : v # u => inbox'[v] = inbox[v]
    BY <1>0, <1>4 DEF Updates!Marked
  <2>3. page # Updates!Idle => page.user \in User
    BY <1>0
  <2> QED
    BY <1>1, <1>4, <2>1, <2>2, <2>3
<1>5. ASSUME NEW h \in Writer, Updates!MarkWrite(h)
      PROVE  PageInv'
  <2>1. update[h].user \in User
    BY <1>0, <1>5, UpdateShape DEF Updates!MarkWrite, Updates!Op
  <2> QED
    BY <1>4, <1>5, <2>1 DEF Updates!MarkWrite
<1>6. ASSUME NEW u \in User, Updates!MarkAll(u)
      PROVE  PageInv'
  BY <1>4, <1>6 DEF Updates!MarkAll
<1>7. ASSUME NEW u \in User, NEW unread \in BOOLEAN, Updates!PageBegin(u, unread)
      PROVE  PageInv'
  <2>1. page'.rows = <<>> /\ page'.total = <<>>
    BY <1>7 DEF Updates!PageBegin
  <2> QED
    BY <2>1 DEF PageInv
<1>8. ASSUME Updates!PageRead
      PROVE  PageInv'
  <2>1. PICK p, q : p = page /\ q = page'
    OBVIOUS
  <2>2. p \in [user : User, unread : BOOLEAN, rows : {<<>>} \cup {<<S>> : S \in SUBSET Nat},
               total : {<<>>} \cup {<<k>> : k \in Nat}]
    BY <1>0, <1>8, <2>1 DEF Updates!PageRead
  <2> DEFINE S == Updates!Matching(p.user, p.unread)
  <2>3. UNCHANGED <<inbox, changedInbox>>
    BY <1>8 DEF Updates!PageRead
  <2>4. \/ q = [p EXCEPT !.rows = <<Updates!Newest(S)>>]
        \/ q = [p EXCEPT !.total = <<Cardinality(S)>>]
    BY <1>8, <2>1, SizeSame DEF Updates!PageRead, Updates!Counted
  <2>5. p.user \notin changedInbox =>
          /\ p.rows # <<>> => p.rows[1] = Updates!Newest(S)
          /\ p.total # <<>> => p.total[1] = Cardinality(S)
    BY <1>0, <1>8, <2>1 DEF PageInv, Updates!PageRead
  <2>6. S' = S
    BY <2>3 DEF Updates!Matching
  <2> HIDE DEF S
  <2>7. /\ q.user = p.user /\ q.unread = p.unread
        /\ \/ q.rows = <<Updates!Newest(S)>> /\ q.total = p.total
           \/ q.rows = p.rows /\ q.total = <<Cardinality(S)>>
    BY <2>2, <2>4
  <2>8. p.user \notin changedInbox =>
          /\ q.rows # <<>> => q.rows[1] = Updates!Newest(S)
          /\ q.total # <<>> => q.total[1] = Cardinality(S)
    BY <2>5, <2>7
  <2>9. Updates!Matching(q.user, q.unread)' = S
    BY <2>6, <2>7 DEF S
  <2> QED
    BY <2>1, <2>3, <2>7, <2>8, <2>9 DEF PageInv, Updates!Newest
<1>9. ASSUME Updates!PageClose
      PROVE  PageInv'
  BY <1>9 DEF Updates!PageClose, PageInv, Updates!Idle
<1>10. \/ UNCHANGED <<page, inbox, changedInbox>>
       \/ \E h \in Writer : Updates!Notify(h) \/ Updates!MarkWrite(h)
       \/ \E u \in User : Updates!MarkAll(u)
       \/ \E u \in User, unread \in BOOLEAN : Updates!PageBegin(u, unread)
       \/ Updates!PageRead \/ Updates!PageClose
  BY UpdatesPage, UpdatesChanged, UpdatesInbox
<1> QED
  BY <1>2, <1>3, <1>5, <1>6, <1>7, <1>8, <1>9, <1>10

--------------------------------------------------------------------------------
LEMMA UpdatesStep ==
  ASSUME UpdatesInv, Updates!ParametersOK, [Updates!Next]_Updates!vars
  PROVE  UpdatesInv'
<1>1. CASE Updates!Next
  <2>1. UpdatesTyped' /\ Updates!NoticesAccounted' /\ TimelineInv' /\ PageInv'
    BY <1>1, UpdatesTypedStep, NoticesStep, TimelineStep, PageStep DEF UpdatesInv
  <2>2. IsFiniteSet({h \in Writer : update[h] # Updates!Idle})'
    BY <1>1, BusyStep DEF UpdatesInv
  <2>3. (\A h \in Writer : KnownOrder(update[h]))'
    BY <1>1, KnownStep
  <2>4. (\A o \in Cargo : AttemptsRoom(o))'
    BY <1>1, AttemptsStep
  <2> QED
    BY <2>1, <2>2, <2>3, <2>4 DEF UpdatesInv
<1>2. CASE UNCHANGED Updates!vars
  <2> USE <1>2 DEF Updates!vars
  <2>1. UpdatesTyped'
    BY DEF UpdatesInv, UpdatesTyped, Updates!TypeOK, Updates!TaskOK, Updates!Event,
       Updates!Notice, Updates!Idle, Updates!Unset
  <2>2. Updates!NoticesAccounted'
    <3>1. UNCHANGED lost /\ UNCHANGED update
      OBVIOUS
    <3>2. SameNotices
      BY DEF SameNotices, Updates!Sent
    <3>3. SameDue
      BY QuietDue
    <3> QED
      BY <3>1, <3>2, <3>3, NoticesQuiet
  <2>3. TimelineInv'
    BY DEF UpdatesInv, TimelineInv, Backed, Updates!Range, Updates!Idle, Updates!Unset
  <2>4. PageInv'
    BY DEF UpdatesInv, PageInv, Updates!Matching, Updates!Newest, Updates!Idle
  <2>5. IsFiniteSet({h \in Writer : update[h] # Updates!Idle})'
    BY DEF UpdatesInv, Updates!Idle
  <2>6. (\A h \in Writer : KnownOrder(update[h]))'
    BY DEF UpdatesInv, KnownOrder, Updates!Unset
  <2>7. (\A o \in Cargo : AttemptsRoom(o))'
    BY DEF UpdatesInv, AttemptsRoom, Failing, Updates!Failures, Updates!Op
  <2> QED
    BY <2>1, <2>2, <2>3, <2>4, <2>5, <2>6, <2>7 DEF UpdatesInv
<1> QED
  BY <1>1, <1>2

LEMMA UpdatesInit ==
  ASSUME Updates!Init, Updates!ParametersOK
  PROVE  UpdatesInv
<1> USE DEF Updates!Init
<1>1. UpdatesTyped
  <2>1. /\ events \in [Cargo -> Seq(Updates!Event)]
        /\ inbox \in [User -> Seq([notice : Updates!Notice, read : BOOLEAN])]
        /\ puts \in [Cargo -> Seq(Updates!OrderStatus)]
    OBVIOUS
  <2> QED
    BY <2>1 DEF UpdatesTyped, Updates!TypeOK, Updates!TaskOK
<1>2. {h \in Writer : update[h] # Updates!Idle} = {}
  OBVIOUS
<1>3. \A h \in Writer : KnownOrder(update[h])
  BY DEF KnownOrder, Updates!Idle
<1>4. ASSUME NEW o \in Cargo PROVE AttemptsRoom(o)
  <2>1. {i \in DOMAIN events[o] : events[o][i].type = "EXCEPTION"} = {}
    OBVIOUS
  <2>2. Updates!Failures(o) = 0
    BY <2>1, SizeSame, FS_EmptySet DEF Updates!Failures
  <2>3. Failing(o) = {}
    BY DEF Failing, Updates!Op, Updates!Idle
  <2> QED
    BY <2>2, <2>3 DEF AttemptsRoom, Updates!ParametersOK
<1>5. Updates!NoticesAccounted
  <2> SUFFICES ASSUME NEW n \in Updates!Notice, NEW u \in User PROVE Accounted(n, u)
    BY NoticesAre
  <2>0. Cardinality({}) = 0
    BY FS_EmptySet
  <2>1. Updates!Sent(n, u) = 0
    <3>1. {i \in DOMAIN inbox[u] : inbox[u][i].notice = n} = {}
      OBVIOUS
    <3> QED
      BY <2>0, <3>1, SizeSame DEF Updates!Sent
  <2>2. Updates!Emitting(n) = 0
    <3>1. {h \in Writer : Updates!Op(h, "emit") /\ update[h].notice = n} = {}
      BY DEF Updates!Op, Updates!Idle
    <3> QED
      BY <2>0, <3>1, SizeSame DEF Updates!Emitting
  <2>3. Updates!Due(n) = 0
    <3>1. CASE n.about \in Review
      BY <3>1 DEF Updates!Due
    <3>2. CASE n.about \notin Review
      <4>1. n.about \in Cargo
        BY <3>2, NoticeFacts
      <4>2. \A M : Count(puts[n.about], M) = 0 /\ Count(events[n.about], M) = 0
        <5>1. \A M : /\ {i \in DOMAIN puts[n.about] : puts[n.about][i] \in M} = {}
                     /\ {i \in DOMAIN events[n.about] : events[n.about][i] \in M} = {}
          BY <4>1
        <5> QED
          BY <2>0, <5>1 DEF Count
      <4>3. status[n.about] = Updates!Unset
        BY <4>1
      <4> HIDE DEF Updates!Init
      <4>4. DueOf(n) = 0
        BY <3>2, <4>2, <4>3 DEF DueOf
      <4>5. Updates!Due(n) = DueOf(n)
        BY DueCount
      <4> QED
        BY <4>4, <4>5
    <3> QED
      BY <3>1, <3>2
  <2> QED
    BY <2>1, <2>2, <2>3 DEF Accounted
<1>6. TimelineInv
  BY DEF TimelineInv, Backed
<1>7. PageInv
  BY DEF PageInv
<1> QED
  BY <1>1, <1>2, <1>3, <1>4, <1>5, <1>6, <1>7, FS_EmptySet DEF UpdatesInv

\* Every commit is announced once to all its recipients, or to none where its request broke
\* off, and no order gets more failed attempts than are allowed unless they overlap: with
\* any number of orders, users and requests.
THEOREM UpdatesAccountedSafe ==
  ASSUME Updates!ParametersOK
  PROVE  Updates!Spec => []UpdatesAccounted
<1>1. UpdatesInv => UpdatesAccounted
  BY DEF UpdatesAccounted, UpdatesInv, AttemptsRoom, Updates!UpdatesAccounted, Updates!AttemptsLimited
<1>2. Updates!Init => UpdatesInv
  BY UpdatesInit
<1>3. UpdatesInv /\ [Updates!Next]_Updates!vars => UpdatesInv'
  BY UpdatesStep
<1> QED
  BY <1>1, <1>2, <1>3, PTL DEF Updates!Spec

\* A timeline has the event of the status it shows, and a page of an inbox is as long as
\* its count says, whatever is written between the two queries of each.
THEOREM AnswersCoherentSafe ==
  ASSUME Updates!ParametersOK
  PROVE  Updates!Spec => []AnswersCoherent
<1>1. UpdatesInv => AnswersCoherent
  <2> SUFFICES ASSUME UpdatesInv PROVE Updates!TimelineCoherent /\ Updates!PageCoherent
    BY DEF AnswersCoherent, Updates!AnswersCoherent
  <2>1. Updates!PageCoherent
    BY PageSound DEF UpdatesInv
  <2>2. Updates!TimelineCoherent
    <3> SUFFICES ASSUME timeline # Updates!Idle, timeline.events # <<>>
                 PROVE  \/ timeline.status \in {"PENDING", "ASSIGNED", "IN_TRANSIT"}
                             \cup timeline.put
                        \/ [type |-> "STATUS_CHANGE", status |-> timeline.status]
                             \in timeline.events[1]
      BY DEF Updates!TimelineCoherent
    <3>1. timeline.status \in Updates!OrderStatus
      BY DEF UpdatesInv, UpdatesTyped
    <3>2. timeline.status # Updates!Unset
      BY <3>1 DEF Updates!OrderStatus, Updates!Unset
    <3> QED
      BY <3>2 DEF UpdatesInv, TimelineInv, Backed
  <2> QED
    BY <2>1, <2>2
<1>2. Updates!Init => UpdatesInv
  BY UpdatesInit
<1>3. UpdatesInv /\ [Updates!Next]_Updates!vars => UpdatesInv'
  BY UpdatesStep
<1> QED
  BY <1>1, <1>2, <1>3, PTL DEF Updates!Spec

--------------------------------------------------------------------------------
(***************************************************************************)
(* The planning of a hub's trips: for any orders, vehicles, drivers and    *)
(* requests in flight.  An approval that shares nothing with another finds *)
(* its vehicle and driver as it checked them and its orders as it read     *)
(* them last (Ready), which keeps an order on the stops of one trip        *)
(* (OrderPlaced); and a board holds what was so when it was read, but for  *)
(* what changed since (BoardCurrent).                                      *)
(***************************************************************************)
\* What is planned fits its vehicle.
PlanFits(s) == Planning!Within(Planning!Total(s.orders), Capacity[s.vehicle])

\* The answers to queries put at once: each lists what it is about.
ReadsTyped(reads, Q) ==
  /\ reads = [q \in DOMAIN reads |-> reads[q]] /\ DOMAIN reads \subseteq Q
  /\ "vehicles" \in DOMAIN reads => reads["vehicles"] \subseteq Planning!Vehicle
  /\ "orders" \in DOMAIN reads => reads["orders"] \subseteq Planning!Order
  /\ "drivers" \in DOMAIN reads => reads["drivers"] \subseteq HubDriver

\* What is on a desk: a preview, or an approval of something that fits.
DeskTyped(r) ==
  \/ r = Planning!Idle
  \/ /\ r.op = "preview" /\ r = [op |-> "preview", read |-> r.read]
     /\ ReadsTyped(r.read, Planning!Query)
  \/ /\ r.op \in {"check", "requery"} /\ r = [op |-> r.op, plan |-> r.plan]
     /\ r.plan \in Planning!Suggestion /\ PlanFits(r.plan)
  \/ /\ r.op = "write" /\ r = [op |-> "write", plan |-> r.plan, valid |-> r.valid]
     /\ r.plan \in Planning!Suggestion /\ PlanFits(r.plan)
     /\ r.valid \in (SUBSET r.plan.orders) \ {{}}

PlanTyped ==
  /\ Planning!TypeOK
  /\ DOMAIN desk = Clerk /\ \A h \in Clerk : DeskTyped(desk[h])
  /\ \A s \in screen.suggestions : PlanFits(s)
  /\ \A t \in Planning!ActiveTrips : PlanFits(hubTrip[t])

\* What two approvals in flight share is noted.
SharingNoted ==
  \A g, h \in Clerk :
    g # h => Planning!Subject(desk[g]) \cap Planning!Subject(desk[h]) \subseteq shared

\* The row of an order fits the trips that have stops for it.
OrderPlaced(o) ==
  LET t == hubOrder[o].trip
  IN /\ hubOrder[o].status = "WAITING" => t = NoTrip
     /\ hubOrder[o].status = "ASSIGNED" => t # NoTrip /\ hubTrip[t].status = "PENDING"
     /\ t # NoTrip => t \in Planning!ActiveTrips /\ o \in hubTrip[t].orders
     /\ o \notin shared =>
          \A u \in Planning!ActiveTrips : o \in hubTrip[u].orders => u = t

\* An approval that shares nothing finds vehicle and driver as it checked them, and the
\* orders as it read them again.
Ready(r) ==
  /\ r.op \in {"requery", "write"} =>
       \A x \in {r.plan.vehicle, r.plan.driver} \ shared : Planning!ActiveTripsOf(x) = {}
  /\ r.op = "write" => r.valid \ shared \subseteq Planning!Waiting

\* The planned trips with stops for an order, as the board lists them.
PlannedRows(o) ==
  {hubTrip[t] :
     t \in {u \in HubTrip : hubTrip[u].status = "PENDING" /\ o \in hubTrip[u].orders}}

\* What was read for a board is so still, but for what changed since.
BoardCurrent ==
  /\ "orders" \in DOMAIN board =>
       \A o \in Planning!Order \ changedHub : o \in board["orders"] <=> o \in Planning!Waiting
  /\ \A x \in (Planning!Vehicle \cup HubDriver) \ changedHub :
       /\ "vehicles" \in DOMAIN board =>
            (x \in board["vehicles"] <=> x \in Planning!Free(Planning!Vehicle))
       /\ "drivers" \in DOMAIN board =>
            (x \in board["drivers"] <=> x \in Planning!Free(HubDriver))
  /\ "trips" \in DOMAIN board =>
       \A o \in Planning!Order \ changedHub :
         {row \in board["trips"] : o \in row.orders} = PlannedRows(o)

PlanInv ==
  /\ PlanTyped
  /\ SharingNoted
  /\ \A o \in Planning!Order : OrderPlaced(o)
  /\ \A h \in Clerk : Ready(desk[h])
  /\ BoardCurrent
  /\ Planning!PreviewSound
  /\ Planning!ApprovalSound

--------------------------------------------------------------------------------
(***************************************************************************)
(* What is packed.                                                         *)
(***************************************************************************)

PlanWeight == [o \in Planning!Order |-> Size[o].weight]
PlanVolume == [o \in Planning!Order |-> Size[o].volume]

LEMMA PlanFinite ==
  /\ \A S : Planning!Cardinality(S) = Cardinality(S)
  /\ \A S : Planning!IsFiniteSet(S) <=> IsFiniteSet(S)
BY DEF Planning!Cardinality, Cardinality, Planning!IsFiniteSet, IsFiniteSet

\* The parameters, in the words of this module.
LEMMA PlanParameters ==
  ASSUME Planning!ParametersOK
  PROVE  /\ Orders \in Seq(Planning!Order) /\ Vehicles \in Seq(Planning!Vehicle)
         /\ \A i, j \in DOMAIN Orders : Orders[i] = Orders[j] => i = j
         /\ \A i, j \in DOMAIN Vehicles : Vehicles[i] = Vehicles[j] => i = j
         /\ \A o \in Planning!Order :
              /\ Size[o].weight \in Nat /\ Size[o].volume \in Nat
              /\ PlanWeight[o] = Size[o].weight /\ PlanVolume[o] = Size[o].volume
         /\ \A v \in Planning!Vehicle :
              Capacity[v].weight \in Nat /\ Capacity[v].volume \in Nat
         /\ \A o \in Planning!Order : \E i \in 1..Len(Orders) : o = Orders[i]
         /\ IsFiniteSet(Planning!Order) /\ IsFiniteSet(HubDriver)
         /\ NoTrip \notin HubTrip
<1>1. /\ Orders \in Seq(Planning!Order) /\ Vehicles \in Seq(Planning!Vehicle)
      /\ NoTrip \notin HubTrip
  BY DEF Planning!ParametersOK
<1>2. IsFiniteSet(HubDriver)
  BY PlanFinite DEF Planning!ParametersOK
<1>3. \A i, j \in DOMAIN Orders : Orders[i] = Orders[j] => i = j
  BY DEF Planning!ParametersOK, Planning!IsInjective
<1>4. \A i, j \in DOMAIN Vehicles : Vehicles[i] = Vehicles[j] => i = j
  BY DEF Planning!ParametersOK, Planning!IsInjective
<1>5. \A o \in Planning!Order :
        /\ Size[o].weight \in Nat /\ Size[o].volume \in Nat
        /\ PlanWeight[o] = Size[o].weight /\ PlanVolume[o] = Size[o].volume
  BY DEF Planning!ParametersOK, Planning!Amount, PlanWeight, PlanVolume
<1>6. \A v \in Planning!Vehicle : Capacity[v].weight \in Nat /\ Capacity[v].volume \in Nat
  BY DEF Planning!ParametersOK, Planning!Amount
<1>7. \A o \in Planning!Order : \E i \in 1..Len(Orders) : o = Orders[i]
  <2>1. \A o \in Planning!Order : \E i \in DOMAIN Orders : o = Orders[i]
    BY DEF Planning!Order, Planning!Range
  <2>2. DOMAIN Orders = 1..Len(Orders)
    BY <1>1
  <2> QED
    BY <2>1, <2>2
<1>8. IsFiniteSet(Planning!Order)
  BY <1>1, <1>7 DEF IsFiniteSet
<1> QED
  BY <1>1, <1>2, <1>3, <1>4, <1>5, <1>6, <1>7, <1>8

\* A total is a pair of sums.
LEMMA PlanTotal ==
  ASSUME Planning!ParametersOK, NEW S \in SUBSET Planning!Order
  PROVE  /\ Planning!Total(S).weight = SumOf(PlanWeight, S)
         /\ Planning!Total(S).volume = SumOf(PlanVolume, S)
<1>1. Planning!Total(S).weight = FieldSum(Size, "weight", S)
  BY DEF Planning!Total, FieldSum, Planning!MapThenSumSet, MapThenSumSet,
         Planning!MapThenFoldSet, MapThenFoldSet
<1>2. Planning!Total(S).volume = FieldSum(Size, "volume", S)
  BY DEF Planning!Total, FieldSum, Planning!MapThenSumSet, MapThenSumSet,
         Planning!MapThenFoldSet, MapThenFoldSet
<1>3. /\ FieldSum(Size, "weight", S) = SumOf([o \in Planning!Order |-> Size[o]["weight"]], S)
      /\ FieldSum(Size, "volume", S) = SumOf([o \in Planning!Order |-> Size[o]["volume"]], S)
  BY SumField
<1> QED
  BY <1>1, <1>2, <1>3 DEF PlanWeight, PlanVolume

\* One order more on a load makes it no lighter, and by its size heavier if it is new.
LEMMA PlanAdded ==
  ASSUME Planning!ParametersOK, NEW S \in SUBSET Planning!Order
  PROVE  /\ Planning!Total(S).weight \in Nat /\ Planning!Total(S).volume \in Nat
         /\ \A o \in Planning!Order \ S :
              /\ Planning!Total(S \cup {o}).weight = Planning!Total(S).weight + Size[o].weight
              /\ Planning!Total(S \cup {o}).volume = Planning!Total(S).volume + Size[o].volume
         /\ \A T \in SUBSET S : /\ Planning!Total(T).weight <= Planning!Total(S).weight
                                /\ Planning!Total(T).volume <= Planning!Total(S).volume
<1>1. /\ IsFiniteSet(S)
      /\ \A o \in Planning!Order : /\ PlanWeight[o] \in Nat /\ PlanVolume[o] \in Nat
                                   /\ PlanWeight[o] = Size[o].weight
                                   /\ PlanVolume[o] = Size[o].volume
  BY PlanParameters, FS_Subset
<1>2. /\ Planning!Total(S).weight = SumOf(PlanWeight, S)
      /\ Planning!Total(S).volume = SumOf(PlanVolume, S)
  BY PlanTotal
<1>3. /\ SumOf(PlanWeight, S) \in Int /\ SumOf(PlanWeight, S) >= 0
      /\ SumOf(PlanVolume, S) \in Int /\ SumOf(PlanVolume, S) >= 0
  BY <1>1, SumType
<1>4. ASSUME NEW o \in Planning!Order \ S
      PROVE  /\ Planning!Total(S \cup {o}).weight = Planning!Total(S).weight + Size[o].weight
             /\ Planning!Total(S \cup {o}).volume = Planning!Total(S).volume + Size[o].volume
  <2>1. S \cup {o} \in SUBSET Planning!Order
    OBVIOUS
  <2>2. /\ Planning!Total(S \cup {o}).weight = SumOf(PlanWeight, S \cup {o})
        /\ Planning!Total(S \cup {o}).volume = SumOf(PlanVolume, S \cup {o})
    BY <2>1, PlanTotal
  <2>3. /\ SumOf(PlanWeight, S \cup {o}) = PlanWeight[o] + SumOf(PlanWeight, S)
        /\ SumOf(PlanVolume, S \cup {o}) = PlanVolume[o] + SumOf(PlanVolume, S)
    BY <1>1, SumAdd
  <2> QED
    BY <1>1, <1>2, <1>3, <2>2, <2>3
<1>5. ASSUME NEW T \in SUBSET S
      PROVE  /\ Planning!Total(T).weight <= Planning!Total(S).weight
             /\ Planning!Total(T).volume <= Planning!Total(S).volume
  <2>1. /\ Planning!Total(T).weight = SumOf(PlanWeight, T)
        /\ Planning!Total(T).volume = SumOf(PlanVolume, T)
    BY PlanTotal
  <2>2. /\ SumOf(PlanWeight, T) <= SumOf(PlanWeight, S)
        /\ SumOf(PlanVolume, T) <= SumOf(PlanVolume, S)
    BY <1>1, SumSubset
  <2> QED
    BY <1>2, <2>1, <2>2
<1> QED
  BY <1>2, <1>3, <1>4, <1>5

\* The vehicle before it is packed, and after it was offered one more order.
EmptyLoad(v) == [orders |-> {}, room |-> Capacity[v]]
OfferedLoad(rest, load, o) == IF o \in rest THEN Planning!Put(load, o) ELSE load

\* The loads of the vehicle after the first i of n orders.
LoadsTo(v, rest, n, g) ==
  g = [i \in 0..n |-> IF i = 0 THEN EmptyLoad(v) ELSE OfferedLoad(rest, g[i - 1], Orders[i])]

LEMMA LoadsStep ==
  ASSUME NEW v, NEW rest, NEW n \in Nat, NEW g, LoadsTo(v, rest, n, g)
  PROVE  /\ g[0] = EmptyLoad(v)
         /\ \A i \in 1..n : g[i] = OfferedLoad(rest, g[i - 1], Orders[i])
<1>1. 0 \in 0..n /\ \A i \in 1..n : i \in 0..n /\ i # 0
  OBVIOUS
<1> QED
  BY <1>1 DEF LoadsTo

\* The packing goes through the orders one by one, so it is defined.
LEMMA LoadsExist ==
  ASSUME NEW v, NEW rest, NEW n \in Nat
  PROVE  \E g : LoadsTo(v, rest, n, g)
<1> DEFINE Q == {k \in Nat : \E g : LoadsTo(v, rest, k, g)}
<1>1. 0 \in Q
  <2> DEFINE g == [i \in 0..0 |-> EmptyLoad(v)]
  <2>1. LoadsTo(v, rest, 0, g)
    BY DEF LoadsTo
  <2> HIDE DEF g
  <2> QED
    BY <2>1
<1>2. ASSUME NEW k \in Nat, k \in Q PROVE k + 1 \in Q
  <2>1. PICK g : LoadsTo(v, rest, k, g)
    BY <1>2
  <2> DEFINE h == [i \in 0..(k + 1) |-> IF i <= k THEN g[i]
                                        ELSE OfferedLoad(rest, g[k], Orders[i])]
  <2>2. g[0] = EmptyLoad(v) /\ \A i \in 1..k : g[i] = OfferedLoad(rest, g[i - 1], Orders[i])
    BY <2>1, LoadsStep
  <2>3. h[0] = EmptyLoad(v)
    BY <2>2
  <2>4. \A i \in 1..(k + 1) : h[i] = OfferedLoad(rest, h[i - 1], Orders[i])
    <3> SUFFICES ASSUME NEW i \in 1..(k + 1)
                 PROVE  h[i] = OfferedLoad(rest, h[i - 1], Orders[i])
      OBVIOUS
    <3>1. CASE i = k + 1
      <4>1. h[i] = OfferedLoad(rest, g[k], Orders[i]) /\ h[k] = g[k] /\ i - 1 = k
        BY <3>1
      <4> QED
        BY <4>1
    <3>2. CASE i <= k
      <4>1. i \in 1..k /\ i - 1 \in 0..k
        BY <3>2
      <4>2. h[i] = g[i] /\ h[i - 1] = g[i - 1]
        BY <4>1
      <4> QED
        BY <2>2, <4>1, <4>2
    <3> QED
      BY <3>1, <3>2
  <2>5. \A i \in 0..(k + 1) : i # 0 => i \in 1..(k + 1)
    OBVIOUS
  <2>6. h = [i \in 0..(k + 1) |-> h[i]]
    OBVIOUS
  <2> HIDE DEF h
  <2>7. LoadsTo(v, rest, k + 1, h)
    BY <2>3, <2>4, <2>5, <2>6 DEF LoadsTo
  <2> QED
    BY <2>7
<1> HIDE DEF Q
<1>3. n \in Q
  BY <1>1, <1>2, NatSetInduction
<1> QED
  BY <1>3 DEF Q

\* A load is within what the vehicle carries, and tells what room is left.
Loaded(v, rest, load) ==
  /\ load.orders \in SUBSET rest
  /\ load.room.weight \in Nat /\ load.room.volume \in Nat
  /\ Planning!Total(load.orders).weight + load.room.weight = Capacity[v].weight
  /\ Planning!Total(load.orders).volume + load.room.volume = Capacity[v].volume

\* The order does not fit beside the load.
Unfit(v, S, o) == ~Planning!Within(Planning!Total(S \cup {o}), Capacity[v])

LEMMA EmptyLoaded ==
  ASSUME Planning!ParametersOK, NEW v \in Planning!Vehicle, NEW rest \in SUBSET Planning!Order
  PROVE  Loaded(v, rest, EmptyLoad(v))
<1>1. {} \in SUBSET Planning!Order
  OBVIOUS
<1>2. Planning!Total({}).weight = 0 /\ Planning!Total({}).volume = 0
  BY <1>1, PlanTotal, SumEmpty
<1>3. Capacity[v].weight \in Nat /\ Capacity[v].volume \in Nat
  BY PlanParameters
<1> QED
  BY <1>2, <1>3 DEF Loaded, EmptyLoad

\* An order that is offered is put on, or does not fit.
LEMMA OfferedLoaded ==
  ASSUME Planning!ParametersOK, NEW v \in Planning!Vehicle, NEW rest \in SUBSET Planning!Order,
         NEW load, Loaded(v, rest, load), NEW o \in Planning!Order, o \notin load.orders
  PROVE  LET next == OfferedLoad(rest, load, o)
         IN /\ Loaded(v, rest, next)
            /\ next.orders = load.orders \/ next.orders = load.orders \cup {o}
            /\ o \in rest \ next.orders => Unfit(v, next.orders, o)
<1>0. /\ load.orders \in SUBSET Planning!Order
      /\ Size[o].weight \in Nat /\ Size[o].volume \in Nat
      /\ Capacity[v].weight \in Nat /\ Capacity[v].volume \in Nat
  BY PlanParameters DEF Loaded
<1> DEFINE T == Planning!Total(load.orders)
           U == Planning!Total(load.orders \cup {o})
<1>1. /\ T.weight \in Nat /\ T.volume \in Nat
      /\ U.weight = T.weight + Size[o].weight /\ U.volume = T.volume + Size[o].volume
  BY <1>0, PlanAdded
<1>2. /\ load.room.weight \in Nat /\ load.room.volume \in Nat
      /\ T.weight + load.room.weight = Capacity[v].weight
      /\ T.volume + load.room.volume = Capacity[v].volume
  BY DEF Loaded
<1> HIDE DEF T, U
<1>3. CASE o \notin rest
  BY <1>3 DEF OfferedLoad
<1>4. CASE o \in rest /\ Planning!Within(Size[o], load.room)
  <2>1. PICK next : next = Planning!Put(load, o)
    OBVIOUS
  <2>2. /\ next.orders = load.orders \cup {o}
        /\ next.room.weight = load.room.weight - Size[o].weight
        /\ next.room.volume = load.room.volume - Size[o].volume
    BY <1>4, <2>1 DEF Planning!Put, Planning!Minus
  <2>3. Size[o].weight <= load.room.weight /\ Size[o].volume <= load.room.volume
    BY <1>4 DEF Planning!Within
  <2>4. /\ next.room.weight \in Nat /\ next.room.volume \in Nat
        /\ U.weight + next.room.weight = Capacity[v].weight
        /\ U.volume + next.room.volume = Capacity[v].volume
    BY <1>0, <1>1, <1>2, <2>2, <2>3
  <2>5. next.orders \in SUBSET rest /\ o \in next.orders
    BY <1>4, <2>2 DEF Loaded
  <2>6. Loaded(v, rest, next)
    BY <2>2, <2>4, <2>5 DEF Loaded, U
  <2> QED
    BY <1>4, <2>1, <2>2, <2>5, <2>6 DEF OfferedLoad
<1>5. CASE o \in rest /\ ~Planning!Within(Size[o], load.room)
  <2>1. OfferedLoad(rest, load, o) = load
    BY <1>5 DEF OfferedLoad, Planning!Put
  <2>2. ~(U.weight <= Capacity[v].weight /\ U.volume <= Capacity[v].volume)
    BY <1>0, <1>1, <1>2, <1>5 DEF Planning!Within
  <2>3. Unfit(v, load.orders, o)
    BY <2>2 DEF Unfit, U, Planning!Within
  <2> QED
    BY <2>1, <2>3
<1> QED
  BY <1>3, <1>4, <1>5

\* What does not fit beside a load does not fit beside more.
LEMMA UnfitMore ==
  ASSUME Planning!ParametersOK, NEW v \in Planning!Vehicle, NEW T \in SUBSET Planning!Order,
         NEW S \in SUBSET T, NEW o \in Planning!Order, Unfit(v, S, o)
  PROVE  Unfit(v, T, o)
<1>1. T \cup {o} \in SUBSET Planning!Order /\ S \cup {o} \in SUBSET (T \cup {o})
  OBVIOUS
<1> DEFINE A == Planning!Total(S \cup {o})
           B == Planning!Total(T \cup {o})
<1>2. A.weight <= B.weight /\ A.volume <= B.volume
  BY <1>1, PlanAdded
<1>3. /\ A.weight \in Nat /\ A.volume \in Nat /\ B.weight \in Nat /\ B.volume \in Nat
      /\ Capacity[v].weight \in Nat /\ Capacity[v].volume \in Nat
  BY <1>1, PlanAdded, PlanParameters
<1> HIDE DEF A, B
<1>4. ~(A.weight <= Capacity[v].weight /\ A.volume <= Capacity[v].volume)
  BY DEF Unfit, A, Planning!Within
<1> QED
  BY <1>2, <1>3, <1>4 DEF Unfit, B, Planning!Within

\* The load after the first k orders: none but these, and no other of them would fit.
LoadedTo(v, rest, load, k) ==
  /\ Loaded(v, rest, load)
  /\ \A o \in load.orders : \E j \in 1..k : o = Orders[j]
  /\ \A j \in 1..k : Orders[j] \in rest \ load.orders => Unfit(v, load.orders, Orders[j])

LEMMA LoadedStep ==
  ASSUME Planning!ParametersOK, NEW v \in Planning!Vehicle, NEW rest \in SUBSET Planning!Order,
         NEW load, NEW k \in Nat, k + 1 <= Len(Orders), LoadedTo(v, rest, load, k)
  PROVE  LoadedTo(v, rest, OfferedLoad(rest, load, Orders[k + 1]), k + 1)
<1>1. /\ Orders \in Seq(Planning!Order) /\ Len(Orders) \in Nat
      /\ DOMAIN Orders = 1..Len(Orders)
      /\ \A i, j \in DOMAIN Orders : Orders[i] = Orders[j] => i = j
  BY PlanParameters
<1>2. k + 1 \in 1..Len(Orders) /\ \A j \in 1..k : j \in 1..Len(Orders) /\ j # k + 1
  BY <1>1
<1>3. PICK o \in Planning!Order : o = Orders[k + 1]
  BY <1>1, <1>2
<1>4. \A j \in 1..k : Orders[j] # o /\ Orders[j] \in Planning!Order
  BY <1>1, <1>2, <1>3
<1>5. Loaded(v, rest, load) /\ o \notin load.orders
  BY <1>4 DEF LoadedTo
<1>6. PICK next : next = OfferedLoad(rest, load, o)
  OBVIOUS
<1>7. /\ Loaded(v, rest, next)
      /\ next.orders = load.orders \/ next.orders = load.orders \cup {o}
      /\ o \in rest \ next.orders => Unfit(v, next.orders, o)
  BY <1>5, <1>6, OfferedLoaded
<1>8. \A j \in 1..(k + 1) : j \in 1..k \/ j = k + 1
  OBVIOUS
<1>9. \A x \in next.orders : \E j \in 1..(k + 1) : x = Orders[j]
  <2>1. ASSUME NEW x \in load.orders PROVE \E j \in 1..(k + 1) : x = Orders[j]
    <3>1. PICK j \in 1..k : x = Orders[j]
      BY DEF LoadedTo
    <3>2. j \in 1..(k + 1)
      OBVIOUS
    <3> QED
      BY <3>1, <3>2
  <2>2. k + 1 \in 1..(k + 1)
    OBVIOUS
  <2> QED
    BY <1>3, <1>7, <2>1, <2>2
<1>10. ASSUME NEW j \in 1..(k + 1), Orders[j] \in rest \ next.orders
       PROVE  Unfit(v, next.orders, Orders[j])
  <2>1. CASE j = k + 1
    BY <1>3, <1>7, <1>10, <2>1
  <2>2. CASE j \in 1..k
    <3>1. Orders[j] \in rest \ load.orders /\ Orders[j] \in Planning!Order
      BY <1>4, <1>7, <1>10, <2>2
    <3>2. Unfit(v, load.orders, Orders[j])
      BY <2>2, <3>1 DEF LoadedTo
    <3>3. next.orders \in SUBSET Planning!Order /\ load.orders \in SUBSET next.orders
      BY <1>7 DEF Loaded
    <3> QED
      BY <3>1, <3>2, <3>3, UnfitMore
  <2> QED
    BY <1>8, <2>1, <2>2
<1> QED
  BY <1>3, <1>6, <1>7, <1>9, <1>10 DEF LoadedTo

\* First fit: what is packed fits, and what is left over would not fit beside it.
LEMMA PackedFits ==
  ASSUME Planning!ParametersOK, NEW v \in Planning!Vehicle, NEW rest \in SUBSET Planning!Order
  PROVE  LET packed == Planning!Packed(v, rest)
         IN /\ packed \in SUBSET rest
            /\ Planning!Within(Planning!Total(packed), Capacity[v])
            /\ \A o \in rest \ packed : Unfit(v, packed, o)
<1> DEFINE n == Len(Orders)
           g == CHOOSE k : LoadsTo(v, rest, n, k)
<1>1. Planning!Packed(v, rest) = g[n].orders
  BY DEF Planning!Packed, LoadsTo, EmptyLoad, OfferedLoad
<1>0. Orders \in Seq(Planning!Order) /\ n \in Nat
  BY PlanParameters
<1> HIDE DEF n
<1>2. n \in Nat /\ LoadsTo(v, rest, n, g)
  BY <1>0, LoadsExist
<1> HIDE DEF g
<1>3. g[0] = EmptyLoad(v) /\ \A i \in 1..n : g[i] = OfferedLoad(rest, g[i - 1], Orders[i])
  BY <1>2, LoadsStep
<1> DEFINE Q == {k \in Nat : k <= n => LoadedTo(v, rest, g[k], k)}
<1>4. 0 \in Q
  <2>1. Loaded(v, rest, g[0]) /\ g[0].orders = {}
    BY <1>3, EmptyLoaded DEF EmptyLoad
  <2> QED
    BY <2>1 DEF LoadedTo
<1>5. ASSUME NEW k \in Nat, k \in Q PROVE k + 1 \in Q
  <2> SUFFICES ASSUME k + 1 <= n PROVE LoadedTo(v, rest, g[k + 1], k + 1)
    OBVIOUS
  <2>1. LoadedTo(v, rest, g[k], k) /\ k + 1 \in 1..n /\ (k + 1) - 1 = k
    BY <1>2, <1>5
  <2>2. g[k + 1] = OfferedLoad(rest, g[k], Orders[k + 1])
    BY <1>3, <2>1
  <2> QED
    BY <2>1, <2>2, LoadedStep DEF n
<1> HIDE DEF Q
<1>6. n \in Q
  BY <1>2, <1>4, <1>5, NatSetInduction
<1>7. LoadedTo(v, rest, g[n], n)
  BY <1>2, <1>6 DEF Q
<1>8. PICK packed : packed = g[n].orders
  OBVIOUS
<1>9. packed \in SUBSET rest /\ packed \in SUBSET Planning!Order
  BY <1>7, <1>8 DEF LoadedTo, Loaded
<1>10. Planning!Within(Planning!Total(packed), Capacity[v])
  <2>1. /\ Planning!Total(packed).weight \in Nat /\ Planning!Total(packed).volume \in Nat
    BY <1>9, PlanAdded
  <2>2. Capacity[v].weight \in Nat /\ Capacity[v].volume \in Nat
    BY PlanParameters
  <2> QED
    BY <1>7, <1>8, <2>1, <2>2 DEF LoadedTo, Loaded, Planning!Within
<1>11. ASSUME NEW o \in rest \ packed PROVE Unfit(v, packed, o)
  <2>1. PICK j \in 1..n : o = Orders[j]
    BY PlanParameters DEF n
  <2> QED
    BY <1>7, <1>8, <2>1 DEF LoadedTo
<1> QED
  BY <1>1, <1>8, <1>9, <1>10, <1>11

\* The plan before the first vehicle, and after one more vehicle was looked at.
EmptyPlan(orders, drivers) == [suggestions |-> {}, left |-> orders, drivers |-> drivers]
NextPlan(vehicles, plan, v) == IF v \in vehicles THEN Planning!Suggest(plan, v) ELSE plan

\* The plans after the first i of n vehicles.
PlansTo(vehicles, orders, drivers, n, g) ==
  g = [i \in 0..n |-> IF i = 0 THEN EmptyPlan(orders, drivers)
                      ELSE NextPlan(vehicles, g[i - 1], Vehicles[i])]

LEMMA PlansStep ==
  ASSUME NEW vehicles, NEW orders, NEW drivers, NEW n \in Nat, NEW g,
         PlansTo(vehicles, orders, drivers, n, g)
  PROVE  /\ g[0] = EmptyPlan(orders, drivers)
         /\ \A i \in 1..n : g[i] = NextPlan(vehicles, g[i - 1], Vehicles[i])
<1>1. 0 \in 0..n /\ \A i \in 1..n : i \in 0..n /\ i # 0
  OBVIOUS
<1> QED
  BY <1>1 DEF PlansTo

LEMMA PlansExist ==
  ASSUME NEW vehicles, NEW orders, NEW drivers, NEW n \in Nat
  PROVE  \E g : PlansTo(vehicles, orders, drivers, n, g)
<1> DEFINE Q == {k \in Nat : \E g : PlansTo(vehicles, orders, drivers, k, g)}
<1>1. 0 \in Q
  <2> DEFINE g == [i \in 0..0 |-> EmptyPlan(orders, drivers)]
  <2>1. PlansTo(vehicles, orders, drivers, 0, g)
    BY DEF PlansTo
  <2> HIDE DEF g
  <2> QED
    BY <2>1
<1>2. ASSUME NEW k \in Nat, k \in Q PROVE k + 1 \in Q
  <2>1. PICK g : PlansTo(vehicles, orders, drivers, k, g)
    BY <1>2
  <2> DEFINE h == [i \in 0..(k + 1) |-> IF i <= k THEN g[i]
                                        ELSE NextPlan(vehicles, g[k], Vehicles[i])]
  <2>2. /\ g[0] = EmptyPlan(orders, drivers)
        /\ \A i \in 1..k : g[i] = NextPlan(vehicles, g[i - 1], Vehicles[i])
    BY <2>1, PlansStep
  <2>3. h[0] = EmptyPlan(orders, drivers)
    BY <2>2
  <2>4. \A i \in 1..(k + 1) : h[i] = NextPlan(vehicles, h[i - 1], Vehicles[i])
    <3> SUFFICES ASSUME NEW i \in 1..(k + 1)
                 PROVE  h[i] = NextPlan(vehicles, h[i - 1], Vehicles[i])
      OBVIOUS
    <3>1. CASE i = k + 1
      <4>1. h[i] = NextPlan(vehicles, g[k], Vehicles[i]) /\ h[k] = g[k] /\ i - 1 = k
        BY <3>1
      <4> QED
        BY <4>1
    <3>2. CASE i <= k
      <4>1. i \in 1..k /\ i - 1 \in 0..k
        BY <3>2
      <4>2. h[i] = g[i] /\ h[i - 1] = g[i - 1]
        BY <4>1
      <4> QED
        BY <2>2, <4>1, <4>2
    <3> QED
      BY <3>1, <3>2
  <2>5. \A i \in 0..(k + 1) : i # 0 => i \in 1..(k + 1)
    OBVIOUS
  <2>6. h = [i \in 0..(k + 1) |-> h[i]]
    OBVIOUS
  <2> HIDE DEF h
  <2>7. PlansTo(vehicles, orders, drivers, k + 1, h)
    BY <2>3, <2>4, <2>5, <2>6 DEF PlansTo
  <2> QED
    BY <2>7
<1> HIDE DEF Q
<1>3. n \in Q
  BY <1>1, <1>2, NatSetInduction
<1> QED
  BY <1>3 DEF Q

\* Two suggestions share nothing.
Apart(s, r) ==
  s.vehicle # r.vehicle /\ s.driver # r.driver /\ s.orders \cap r.orders = {}

\* A suggestion fits, and takes what is not left; nothing left would fit beside its load.
SuggestionSound(s, rest, drivers) ==
  /\ s \in Planning!Suggestion
  /\ s.orders \cap rest = {}
  /\ \A j \in DOMAIN drivers : drivers[j] # s.driver
  /\ Planning!Within(Planning!Total(s.orders), Capacity[s.vehicle])
  /\ \A o \in rest : Unfit(s.vehicle, s.orders, o)

\* The plan after the first k vehicles.
PlanSound(orders, plan, k) ==
  /\ plan.left \in SUBSET orders
  /\ plan.drivers \in Seq(HubDriver)
  /\ \A i, j \in DOMAIN plan.drivers : plan.drivers[i] = plan.drivers[j] => i = j
  /\ \A s \in plan.suggestions : /\ SuggestionSound(s, plan.left, plan.drivers)
                                 /\ \E j \in 1..k : s.vehicle = Vehicles[j]
  /\ \A s, r \in plan.suggestions : s # r => Apart(s, r)

\* What is left of drivers when the first of them is taken.
LEMMA DriversLeft ==
  ASSUME NEW R, NEW drivers \in Seq(R), drivers # <<>>,
         \A i, j \in DOMAIN drivers : drivers[i] = drivers[j] => i = j
  PROVE  /\ Head(drivers) = drivers[1] /\ 1 \in DOMAIN drivers /\ Head(drivers) \in R
         /\ Tail(drivers) \in Seq(R)
         /\ \A j \in DOMAIN Tail(drivers) : /\ j + 1 \in DOMAIN drivers /\ j + 1 # 1
                                            /\ Tail(drivers)[j] = drivers[j + 1]
         /\ \A i, j \in DOMAIN Tail(drivers) : Tail(drivers)[i] = Tail(drivers)[j] => i = j
<1>1. /\ Len(drivers) \in Nat /\ DOMAIN drivers = 1..Len(drivers) /\ Len(drivers) >= 1
      /\ Head(drivers) = drivers[1]
  OBVIOUS
<1>2. /\ Tail(drivers) \in Seq(R) /\ DOMAIN Tail(drivers) = 1..(Len(drivers) - 1)
      /\ \A j \in 1..(Len(drivers) - 1) : Tail(drivers)[j] = drivers[j + 1]
  BY <1>1
<1>3. ASSUME NEW j \in 1..(Len(drivers) - 1)
      PROVE  j + 1 \in DOMAIN drivers /\ j + 1 # 1
  BY <1>1
<1>4. ASSUME NEW i \in DOMAIN Tail(drivers), NEW j \in DOMAIN Tail(drivers),
             Tail(drivers)[i] = Tail(drivers)[j]
      PROVE  i = j
  <2>1. i + 1 \in DOMAIN drivers /\ j + 1 \in DOMAIN drivers
        /\ drivers[i + 1] = drivers[j + 1]
    BY <1>2, <1>3, <1>4
  <2>2. i + 1 = j + 1
    BY <2>1
  <2> QED
    BY <1>1, <1>2, <2>2
<1> QED
  BY <1>1, <1>2, <1>3, <1>4

\* What holds of a suggestion holds beside fewer orders and drivers that are left.
LEMMA SuggestionLess ==
  ASSUME NEW s, NEW rest, NEW drivers, SuggestionSound(s, rest, drivers),
         NEW less \in SUBSET rest, NEW fewer,
         \A j \in DOMAIN fewer : \E i \in DOMAIN drivers : fewer[j] = drivers[i]
  PROVE  SuggestionSound(s, less, fewer)
<1>1. \A j \in DOMAIN fewer : fewer[j] # s.driver
  BY DEF SuggestionSound
<1> QED
  BY <1>1 DEF SuggestionSound

\* A vehicle that takes something.
LEMMA PlanGrows ==
  ASSUME Planning!ParametersOK, NEW orders \in SUBSET Planning!Order, NEW plan,
         NEW k \in Nat, k + 1 <= Len(Vehicles), PlanSound(orders, plan, k),
         NEW next, NEW packed, NEW n,
         packed = Planning!Packed(Vehicles[k + 1], plan.left), packed # {},
         plan.drivers # <<>>,
         n = [vehicle |-> Vehicles[k + 1], driver |-> Head(plan.drivers), orders |-> packed],
         next = [suggestions |-> plan.suggestions \cup {n}, left |-> plan.left \ packed,
                 drivers |-> Tail(plan.drivers)]
  PROVE  PlanSound(orders, next, k + 1)
<1>1. /\ Vehicles \in Seq(Planning!Vehicle) /\ Len(Vehicles) \in Nat
      /\ DOMAIN Vehicles = 1..Len(Vehicles)
      /\ \A i, j \in DOMAIN Vehicles : Vehicles[i] = Vehicles[j] => i = j
  BY PlanParameters
<1>2. PICK v \in Planning!Vehicle : v = Vehicles[k + 1]
  BY <1>1
<1>3. \A j \in 1..k : Vehicles[j] # v
  BY <1>1, <1>2
<1>4. /\ packed \in SUBSET plan.left
      /\ Planning!Within(Planning!Total(packed), Capacity[v])
      /\ \A o \in plan.left \ packed : Unfit(v, packed, o)
  BY <1>2, PackedFits DEF PlanSound
<1>5. plan.left \in SUBSET Planning!Order /\ plan.drivers \in Seq(HubDriver)
  BY DEF PlanSound
<1> DEFINE tail == Tail(plan.drivers)
<1>6. /\ Head(plan.drivers) = plan.drivers[1] /\ 1 \in DOMAIN plan.drivers
      /\ Head(plan.drivers) \in HubDriver /\ tail \in Seq(HubDriver)
      /\ \A j \in DOMAIN tail : /\ j + 1 \in DOMAIN plan.drivers /\ j + 1 # 1
                                /\ tail[j] = plan.drivers[j + 1]
      /\ \A i, j \in DOMAIN tail : tail[i] = tail[j] => i = j
  BY <1>5, DriversLeft DEF PlanSound
<1>7. n.vehicle = v /\ n.driver = plan.drivers[1] /\ n.orders = packed
  BY <1>2, <1>6
<1>8. n \in Planning!Suggestion
  BY <1>2, <1>4, <1>5, <1>6 DEF Planning!Suggestion
<1>9. /\ next.suggestions = plan.suggestions \cup {n} /\ next.left = plan.left \ packed
      /\ next.drivers = tail
  OBVIOUS
<1> HIDE DEF tail
<1>10. \A j \in DOMAIN tail : tail[j] # n.driver
  BY <1>6, <1>7 DEF PlanSound
<1>11. SuggestionSound(n, next.left, next.drivers)
  BY <1>4, <1>7, <1>8, <1>9, <1>10 DEF SuggestionSound
<1>12. \A j \in 1..k : j \in 1..(k + 1)
  OBVIOUS
<1>13. ASSUME NEW s \in plan.suggestions
       PROVE  /\ SuggestionSound(s, next.left, next.drivers)
              /\ \E j \in 1..(k + 1) : s.vehicle = Vehicles[j]
              /\ Apart(s, n) /\ Apart(n, s)
  <2>1. SuggestionSound(s, plan.left, plan.drivers) /\ \E j \in 1..k : s.vehicle = Vehicles[j]
    BY DEF PlanSound
  <2>2. \A j \in DOMAIN tail : \E i \in DOMAIN plan.drivers : tail[j] = plan.drivers[i]
    BY <1>6, Zenon
  <2>3. plan.left \ packed \in SUBSET plan.left
    OBVIOUS
  <2>4. SuggestionSound(s, plan.left \ packed, tail)
    BY <2>1, <2>2, <2>3, SuggestionLess
  <2>5. SuggestionSound(s, next.left, next.drivers)
    BY <1>9, <2>4
  <2>6. s.vehicle # n.vehicle
    BY <1>3, <1>7, <2>1
  <2>7. s.driver # n.driver
    BY <1>6, <1>7, <2>1 DEF SuggestionSound
  <2>8. s.orders \cap n.orders = {}
    BY <1>4, <1>7, <2>1 DEF SuggestionSound
  <2> QED
    BY <1>12, <2>1, <2>5, <2>6, <2>7, <2>8 DEF Apart
<1>14. \E j \in 1..(k + 1) : n.vehicle = Vehicles[j]
  <2>1. k + 1 \in 1..(k + 1)
    OBVIOUS
  <2> QED
    BY <1>2, <1>7, <2>1
<1>15. \A s, r \in next.suggestions : s # r => Apart(s, r)
  BY <1>9, <1>13 DEF PlanSound
<1>16. \A s \in next.suggestions : /\ SuggestionSound(s, next.left, next.drivers)
                                   /\ \E j \in 1..(k + 1) : s.vehicle = Vehicles[j]
  BY <1>9, <1>11, <1>13, <1>14
<1>17. next.left \in SUBSET orders
  BY <1>9 DEF PlanSound
<1> QED
  BY <1>6, <1>9, <1>15, <1>16, <1>17 DEF PlanSound

LEMMA PlanSoundStep ==
  ASSUME Planning!ParametersOK, NEW vehicles, NEW orders \in SUBSET Planning!Order, NEW plan,
         NEW k \in Nat, k + 1 <= Len(Vehicles), PlanSound(orders, plan, k)
  PROVE  PlanSound(orders, NextPlan(vehicles, plan, Vehicles[k + 1]), k + 1)
<1>1. PICK packed : packed = Planning!Packed(Vehicles[k + 1], plan.left)
  OBVIOUS
<1>2. CASE Vehicles[k + 1] \notin vehicles \/ plan.drivers = <<>> \/ packed = {}
  <2>1. NextPlan(vehicles, plan, Vehicles[k + 1]) = plan
    BY <1>1, <1>2 DEF NextPlan, Planning!Suggest
  <2>2. \A j \in 1..k : j \in 1..(k + 1)
    OBVIOUS
  <2>3. PlanSound(orders, plan, k + 1)
    BY <2>2 DEF PlanSound
  <2> QED
    BY <2>1, <2>3
<1>3. CASE ~(Vehicles[k + 1] \notin vehicles \/ plan.drivers = <<>> \/ packed = {})
  <2>1. PICK n : n = [vehicle |-> Vehicles[k + 1], driver |-> Head(plan.drivers),
                      orders |-> packed]
    OBVIOUS
  <2>2. NextPlan(vehicles, plan, Vehicles[k + 1])
          = [suggestions |-> plan.suggestions \cup {n}, left |-> plan.left \ packed,
             drivers |-> Tail(plan.drivers)]
    BY <1>1, <1>3, <2>1 DEF NextPlan, Planning!Suggest
  <2> QED
    BY <1>1, <1>3, <2>1, <2>2, PlanGrows
<1> QED
  BY <1>2, <1>3

\* What a preview suggests, whatever it read and in whatever order the drivers come.
LEMMA PlanIsSound ==
  ASSUME Planning!ParametersOK, NEW vehicles, NEW orders \in SUBSET Planning!Order,
         NEW drivers \in Seq(HubDriver),
         \A i, j \in DOMAIN drivers : drivers[i] = drivers[j] => i = j
  PROVE  PlanSound(orders, Planning!Plan(vehicles, orders, drivers), Len(Vehicles))
<1> DEFINE n == Len(Vehicles)
           g == CHOOSE k : PlansTo(vehicles, orders, drivers, n, k)
<1>0. Vehicles \in Seq(Planning!Vehicle) /\ n \in Nat
  BY PlanParameters
<1>1. Planning!Plan(vehicles, orders, drivers) = g[n]
  BY DEF Planning!Plan, PlansTo, EmptyPlan, NextPlan
<1> HIDE DEF n
<1>2. PlansTo(vehicles, orders, drivers, n, g)
  BY <1>0, PlansExist
<1> HIDE DEF g
<1>3. /\ g[0] = EmptyPlan(orders, drivers)
      /\ \A i \in 1..n : g[i] = NextPlan(vehicles, g[i - 1], Vehicles[i])
  BY <1>0, <1>2, PlansStep
<1> DEFINE Q == {k \in Nat : k <= n => PlanSound(orders, g[k], k)}
<1>4. 0 \in Q
  <2>1. g[0].suggestions = {} /\ g[0].left = orders /\ g[0].drivers = drivers
    BY <1>3 DEF EmptyPlan
  <2> QED
    BY <2>1 DEF PlanSound
<1>5. ASSUME NEW k \in Nat, k \in Q PROVE k + 1 \in Q
  <2> SUFFICES ASSUME k + 1 <= n PROVE PlanSound(orders, g[k + 1], k + 1)
    OBVIOUS
  <2>1. PlanSound(orders, g[k], k) /\ k + 1 \in 1..n /\ (k + 1) - 1 = k
    BY <1>0, <1>5
  <2>2. g[k + 1] = NextPlan(vehicles, g[k], Vehicles[k + 1])
    BY <1>3, <2>1
  <2> QED
    BY <2>1, <2>2, PlanSoundStep DEF n
<1> HIDE DEF Q
<1>6. n \in Q
  BY <1>0, <1>4, <1>5, NatSetInduction
<1>7. PlanSound(orders, g[n], n)
  BY <1>0, <1>6 DEF Q
<1> QED
  BY <1>1, <1>7 DEF n

--------------------------------------------------------------------------------
(***************************************************************************)
(* What a step of the planning keeps.                                      *)
(***************************************************************************)

LEMMA SuggestionShape ==
  ASSUME NEW s \in Planning!Suggestion
  PROVE  /\ s.vehicle \in Planning!Vehicle /\ s.driver \in HubDriver
         /\ s.orders \in SUBSET Planning!Order /\ s.orders # {}
BY DEF Planning!Suggestion

\* An approval holds a suggestion that fits, and its subject is what that names.
LEMMA DeskShape ==
  ASSUME NEW r, DeskTyped(r)
  PROVE  /\ r.op \in {"idle", "preview", "check", "requery", "write"}
         /\ r.op \notin {"check", "requery", "write"} => Planning!Subject(r) = {}
         /\ r.op \in {"check", "requery", "write"} =>
              /\ r.plan \in Planning!Suggestion /\ PlanFits(r.plan)
              /\ Planning!Subject(r) = {r.plan.vehicle, r.plan.driver} \cup r.plan.orders
         /\ r.op = "write" => r.valid \in (SUBSET r.plan.orders) \ {{}}
         /\ Planning!TaskOK(r)
<1>1. CASE r = Planning!Idle
  <2>1. r.op = "idle"
    BY <1>1 DEF Planning!Idle
  <2> QED
    BY <1>1, <2>1 DEF Planning!Subject, Planning!TaskOK
<1>2. CASE r.op = "preview" /\ ReadsTyped(r.read, Planning!Query)
  <2>1. Planning!ReadsOf(r.read, Planning!Query)
    BY <1>2 DEF ReadsTyped, Planning!ReadsOf, Planning!Query
  <2> QED
    BY <1>2, <2>1 DEF Planning!Subject, Planning!TaskOK
<1>3. CASE r.op \in {"check", "requery"} /\ r.plan \in Planning!Suggestion /\ PlanFits(r.plan)
  BY <1>3 DEF Planning!Subject, Planning!TaskOK
<1>4. CASE /\ r.op = "write" /\ r.plan \in Planning!Suggestion /\ PlanFits(r.plan)
           /\ r.valid \in (SUBSET r.plan.orders) \ {{}}
  <2>1. r.valid \in (SUBSET Planning!Order) \ {{}}
    BY <1>4, SuggestionShape
  <2> QED
    BY <1>4, <2>1 DEF Planning!Subject, Planning!TaskOK
<1> QED
  BY <1>1, <1>2, <1>3, <1>4 DEF DeskTyped

\* The rows of trips.
LEMMA TripShape ==
  ASSUME PlanTyped, NEW t \in HubTrip
  PROVE  /\ DOMAIN hubTrip = HubTrip
         /\ t \in Planning!ActiveTrips <=> hubTrip[t].status \in {"PENDING", "IN_PROGRESS"}
         /\ t \notin Planning!ActiveTrips <=> hubTrip[t] = Planning!NoRow
         /\ t \in Planning!ActiveTrips =>
              /\ hubTrip[t] \in [status : {"PENDING", "IN_PROGRESS"},
                                 vehicle : Planning!Vehicle, driver : HubDriver,
                                 orders : (SUBSET Planning!Order) \ {{}}]
              /\ PlanFits(hubTrip[t])
<1>1. hubTrip \in [HubTrip -> Planning!TripRow]
  BY DEF PlanTyped, Planning!TypeOK
<1>2. hubTrip[t] = Planning!NoRow \/ hubTrip[t] \in
        [status : {"PENDING", "IN_PROGRESS"}, vehicle : Planning!Vehicle, driver : HubDriver,
         orders : (SUBSET Planning!Order) \ {{}}]
  BY <1>1 DEF Planning!TripRow
<1>3. Planning!NoRow.status = "NONE"
  BY DEF Planning!NoRow
<1>4. t \in Planning!ActiveTrips <=> hubTrip[t] # Planning!NoRow
  BY DEF Planning!ActiveTrips
<1>5. t \in Planning!ActiveTrips => PlanFits(hubTrip[t])
  BY DEF PlanTyped
<1> QED
  BY <1>1, <1>2, <1>3, <1>4, <1>5

\* One desk changes to r.
DeskBecomes(h, r) ==
  /\ desk' = [desk EXCEPT ![h] = r]
  /\ DeskTyped(r)

LEMMA DeskStep ==
  ASSUME PlanTyped, NEW h \in Clerk, NEW r, DeskBecomes(h, r)
  PROVE  /\ desk'[h] = r /\ \A g \in Clerk : g # h => desk'[g] = desk[g]
         /\ DOMAIN desk' = Clerk /\ \A g \in Clerk : DeskTyped(desk'[g])
         /\ \A g \in Clerk : Planning!TaskOK(desk'[g])
<1>1. DOMAIN desk = Clerk /\ \A g \in Clerk : DeskTyped(desk[g])
  BY DEF PlanTyped
<1>2. desk'[h] = r /\ (\A g \in Clerk : g # h => desk'[g] = desk[g]) /\ DOMAIN desk' = Clerk
  BY <1>1 DEF DeskBecomes
<1>3. \A g \in Clerk : DeskTyped(desk'[g])
  BY <1>1, <1>2 DEF DeskBecomes
<1>4. \A g \in Clerk : Planning!TaskOK(desk'[g])
  BY <1>3, DeskShape
<1> QED
  BY <1>2, <1>3, <1>4

\* Who takes up nothing new shares nothing new.
LEMMA SharingStep ==
  ASSUME PlanInv, NEW h \in Clerk, NEW r, DeskBecomes(h, r),
         Planning!Subject(r) \subseteq Planning!Subject(desk[h]), shared \subseteq shared'
  PROVE  SharingNoted'
<1>1. desk'[h] = r /\ \A g \in Clerk : g # h => desk'[g] = desk[g]
  BY DeskStep DEF PlanInv
<1>2. \A g \in Clerk : Planning!Subject(desk'[g]) \subseteq Planning!Subject(desk[g])
  BY <1>1
<1> QED
  BY <1>2 DEF PlanInv, SharingNoted, Planning!Subject

\* Steps of a request that only put something else on a desk.
LEMMA QuietStep ==
  ASSUME PlanInv, NEW h \in Clerk, NEW r, DeskBecomes(h, r),
         Planning!Subject(r) \subseteq Planning!Subject(desk[h]), Ready(r),
         UNCHANGED <<hubOrder, hubTrip, screen, board, changedHub, shared>>
  PROVE  PlanInv'
<1>1. /\ desk'[h] = r /\ \A g \in Clerk : g # h => desk'[g] = desk[g]
      /\ DOMAIN desk' = Clerk /\ \A g \in Clerk : DeskTyped(desk'[g])
      /\ \A g \in Clerk : Planning!TaskOK(desk'[g])
  BY DeskStep DEF PlanInv
<1>2. Planning!TypeOK'
  BY <1>1 DEF PlanInv, PlanTyped, Planning!TypeOK
<1>3. PlanTyped'
  BY <1>1, <1>2 DEF PlanInv, PlanTyped, Planning!ActiveTrips
<1>4. SharingNoted'
  BY SharingStep
<1>5. \A o \in Planning!Order : OrderPlaced(o)'
  BY DEF PlanInv, OrderPlaced, Planning!ActiveTrips
<1>6. \A g \in Clerk : Ready(desk[g])'
  <2>1. \A g \in Clerk : Ready(desk'[g])
    BY <1>1 DEF PlanInv
  <2> QED
    BY <2>1 DEF Ready, Planning!ActiveTripsOf, Planning!ActiveTrips, Planning!Waiting
<1>7. BoardCurrent'
  BY DEF PlanInv, BoardCurrent, PlannedRows, Planning!Waiting, Planning!Free,
         Planning!ActiveTripsOf, Planning!ActiveTrips
<1>8. Planning!PreviewSound' /\ Planning!ApprovalSound'
  BY DEF PlanInv, Planning!PreviewSound, Planning!ApprovalSound, Planning!ActiveTrips
<1> QED
  BY <1>3, <1>4, <1>5, <1>6, <1>7, <1>8 DEF PlanInv

\* What the queries answer, and one more answer.
LEMMA ReadTyped ==
  ASSUME PlanTyped, NEW q \in Planning!BoardQuery, NEW Q, q \in Q, NEW reads,
         DOMAIN reads \subseteq Q, NEW next, next = Planning!Read(reads, q)
  PROVE  /\ DOMAIN next = DOMAIN reads \cup {q} /\ DOMAIN next \subseteq Q
         /\ next[q] = Planning!Answer(q)
         /\ \A p \in DOMAIN reads : p # q => next[p] = reads[p]
         /\ Planning!Answer("vehicles") = Planning!Free(Planning!Vehicle)
         /\ Planning!Answer("orders") = Planning!Waiting
         /\ Planning!Answer("drivers") = Planning!Free(HubDriver)
         /\ Planning!Answer("trips") =
              {hubTrip[t] : t \in {u \in HubTrip : hubTrip[u].status = "PENDING"}}
         /\ Planning!Answer(q) \subseteq Planning!Order \cup Planning!Vehicle \cup HubDriver
                                           \cup Planning!TripRow
<1>1. /\ Planning!Answer("vehicles") = Planning!Free(Planning!Vehicle)
      /\ Planning!Answer("orders") = Planning!Waiting
      /\ Planning!Answer("drivers") = Planning!Free(HubDriver)
      /\ Planning!Answer("trips") =
           {hubTrip[t] : t \in {u \in HubTrip : hubTrip[u].status = "PENDING"}}
  BY DEF Planning!Answer
<1>2. /\ Planning!Free(Planning!Vehicle) \subseteq Planning!Vehicle
      /\ Planning!Waiting \subseteq Planning!Order
      /\ Planning!Free(HubDriver) \subseteq HubDriver
  BY DEF Planning!Free, Planning!Waiting
<1>3. {hubTrip[t] : t \in {u \in HubTrip : hubTrip[u].status = "PENDING"}}
        \subseteq Planning!TripRow
  BY DEF PlanTyped, Planning!TypeOK
<1>4. q \in {"vehicles", "orders", "drivers", "trips"}
  BY DEF Planning!BoardQuery, Planning!Query
<1>5. Planning!Answer(q) \subseteq Planning!Order \cup Planning!Vehicle \cup HubDriver
                                     \cup Planning!TripRow
  <2>1. CASE q = "vehicles"
    BY <1>1, <1>2, <2>1
  <2>2. CASE q = "orders"
    BY <1>1, <1>2, <2>2
  <2>3. CASE q = "drivers"
    BY <1>1, <1>2, <2>3
  <2>4. CASE q = "trips"
    BY <1>1, <1>3, <2>4
  <2> QED
    BY <1>4, <2>1, <2>2, <2>3, <2>4
<1>6. /\ DOMAIN next = DOMAIN reads \cup {q} /\ DOMAIN next \subseteq Q
      /\ next[q] = Planning!Answer(q) /\ \A p \in DOMAIN reads : p # q => next[p] = reads[p]
  BY DEF Planning!Read
<1> QED
  BY <1>1, <1>5, <1>6

LEMMA PreviewBeginKeeps ==
  ASSUME PlanInv, NEW h \in Clerk, Planning!PreviewBegin(h)
  PROVE  PlanInv'
<1> DEFINE r == [op |-> "preview", read |-> Planning!NoReads]
<1>1. desk' = [desk EXCEPT ![h] = r] /\ UNCHANGED shared
  BY DEF Planning!PreviewBegin, Planning!Continue, Planning!Hold
<1>2. ReadsTyped(Planning!NoReads, Planning!Query)
  BY DEF ReadsTyped, Planning!NoReads
<1>3. DeskBecomes(h, r)
  BY <1>1, <1>2 DEF DeskBecomes, DeskTyped
<1>4. Planning!Subject(r) = {} /\ Ready(r)
  BY DEF Planning!Subject, Ready
<1>5. UNCHANGED <<hubOrder, hubTrip, screen, board, changedHub, shared>>
  BY <1>1 DEF Planning!PreviewBegin
<1> HIDE DEF r
<1> QED
  BY <1>3, <1>4, <1>5, QuietStep

LEMMA PreviewReadKeeps ==
  ASSUME PlanInv, NEW h \in Clerk, Planning!PreviewRead(h)
  PROVE  PlanInv'
<1>1. PICK reads : reads = desk[h].read
  OBVIOUS
<1>2. desk[h] = [op |-> "preview", read |-> reads] /\ ReadsTyped(reads, Planning!Query)
  BY <1>1 DEF Planning!PreviewRead, Planning!Op, PlanInv, PlanTyped, DeskTyped, Planning!Idle
<1>3. PICK q \in Planning!Query \ DOMAIN reads :
        desk' = [desk EXCEPT ![h] = [desk[h] EXCEPT !.read = Planning!Read(reads, q)]]
        /\ UNCHANGED shared
  BY <1>1 DEF Planning!PreviewRead, Planning!Continue, Planning!Hold
<1>4. PICK next : next = Planning!Read(reads, q)
  OBVIOUS
<1>5. /\ next = [p \in DOMAIN next |-> next[p]]
      /\ DOMAIN next = DOMAIN reads \cup {q} /\ DOMAIN next \subseteq Planning!Query
      /\ next[q] = Planning!Answer(q) /\ \A p \in DOMAIN reads : p # q => next[p] = reads[p]
      /\ Planning!Answer("vehicles") = Planning!Free(Planning!Vehicle)
      /\ Planning!Answer("orders") = Planning!Waiting
      /\ Planning!Answer("drivers") = Planning!Free(HubDriver)
  <2>1. PlanTyped /\ q \in Planning!BoardQuery /\ q \in Planning!Query
    BY <1>3 DEF PlanInv, Planning!BoardQuery
  <2>2. DOMAIN reads \subseteq Planning!Query
    BY <1>2 DEF ReadsTyped
  <2>3. next = [p \in DOMAIN next |-> next[p]]
    BY <1>4 DEF Planning!Read
  <2> QED
    BY <1>4, <2>1, <2>2, <2>3, ReadTyped
<1>6. ReadsTyped(next, Planning!Query)
  <2>1. "vehicles" \in DOMAIN next => next["vehicles"] \subseteq Planning!Vehicle
    BY <1>2, <1>5 DEF ReadsTyped, Planning!Free
  <2>2. "orders" \in DOMAIN next => next["orders"] \subseteq Planning!Order
    BY <1>2, <1>5 DEF ReadsTyped, Planning!Waiting
  <2>3. "drivers" \in DOMAIN next => next["drivers"] \subseteq HubDriver
    BY <1>2, <1>5 DEF ReadsTyped, Planning!Free
  <2> QED
    BY <1>5, <2>1, <2>2, <2>3 DEF ReadsTyped
<1>7. PICK r : r = [op |-> "preview", read |-> next]
  OBVIOUS
<1>8. r.op = "preview" /\ r.read = next /\ desk' = [desk EXCEPT ![h] = r]
  <2>1. PICK d : d = desk[h]
    OBVIOUS
  <2>2. d = [op |-> "preview", read |-> reads]
    BY <1>2, <2>1
  <2>3. [d EXCEPT !.read = next] = r
    BY <1>7, <2>2
  <2>4. desk' = [desk EXCEPT ![h] = [d EXCEPT !.read = next]]
    BY <1>3, <1>4, <2>1
  <2>5. desk' = [desk EXCEPT ![h] = r]
    BY <2>3, <2>4, Zenon
  <2>6. r.op = "preview" /\ r.read = next
    BY <1>7
  <2> QED
    BY <2>5, <2>6
<1>9. DeskBecomes(h, r)
  BY <1>6, <1>7, <1>8 DEF DeskBecomes, DeskTyped
<1>10. Planning!Subject(r) = {} /\ Ready(r)
  BY <1>8 DEF Planning!Subject, Ready
<1>11. UNCHANGED <<hubOrder, hubTrip, screen, board, changedHub, shared>>
  BY <1>3 DEF Planning!PreviewRead
<1> QED
  BY <1>9, <1>10, <1>11, QuietStep

LEMMA BreakOffKeeps ==
  ASSUME PlanInv, NEW h \in Clerk, Planning!BreakOff(h)
  PROVE  PlanInv'
<1>1. DeskBecomes(h, Planning!Idle)
  BY DEF Planning!BreakOff, Planning!Continue, Planning!Hold, DeskBecomes, DeskTyped
<1>2. Planning!Subject(Planning!Idle) = {} /\ Ready(Planning!Idle)
  BY DEF Planning!Subject, Ready, Planning!Idle
<1>3. UNCHANGED <<hubOrder, hubTrip, screen, board, changedHub, shared>>
  BY DEF Planning!BreakOff, Planning!Continue
<1> QED
  BY <1>1, <1>2, <1>3, QuietStep

LEMMA ApproveCheckKeeps ==
  ASSUME PlanInv, NEW h \in Clerk, Planning!ApproveCheck(h)
  PROVE  PlanInv'
<1>1. PICK s : s = desk[h].plan
  OBVIOUS
<1>2. /\ desk[h] = [op |-> "check", plan |-> s]
      /\ s \in Planning!Suggestion /\ PlanFits(s)
  BY <1>1 DEF Planning!ApproveCheck, Planning!Op, PlanInv, PlanTyped, DeskTyped, Planning!Idle
<1>3. PICK r : r = [op |-> "requery", plan |-> s]
  OBVIOUS
<1>4. desk' = [desk EXCEPT ![h] = r] /\ r.op = "requery" /\ r.plan = s
  <2>1. PICK d : d = desk[h]
    OBVIOUS
  <2>2. d = [op |-> "check", plan |-> s]
    BY <1>2, <2>1
  <2>3. [d EXCEPT !.op = "requery"] = r
    BY <1>3, <2>2
  <2>4. desk' = [desk EXCEPT ![h] = [d EXCEPT !.op = "requery"]]
    BY <2>1 DEF Planning!ApproveCheck, Planning!Continue, Planning!Hold
  <2>5. desk' = [desk EXCEPT ![h] = r]
    BY <2>3, <2>4, Zenon
  <2>6. r.op = "requery" /\ r.plan = s
    BY <1>3
  <2> QED
    BY <2>5, <2>6
<1>5. DeskBecomes(h, r)
  BY <1>2, <1>3, <1>4 DEF DeskBecomes, DeskTyped
<1>6. desk[h].op = "check" /\ desk[h].plan = s
  BY <1>2
<1>7. Planning!Subject(r) = Planning!Subject(desk[h])
  BY <1>4, <1>6 DEF Planning!Subject
<1>8. \A x \in {s.vehicle, s.driver} : Planning!ActiveTripsOf(x) = {}
  BY <1>1 DEF Planning!ApproveCheck, Planning!Available, Planning!Free
<1>9. Ready(r)
  BY <1>4, <1>8 DEF Ready
<1>10. UNCHANGED <<hubOrder, hubTrip, screen, board, changedHub, shared>>
  BY DEF Planning!ApproveCheck, Planning!Continue
<1> QED
  BY <1>5, <1>7, <1>9, <1>10, QuietStep

LEMMA ApproveRequeryKeeps ==
  ASSUME PlanInv, NEW h \in Clerk, Planning!ApproveRequery(h)
  PROVE  PlanInv'
<1>1. PICK s : s = desk[h].plan
  OBVIOUS
<1>2. /\ desk[h] = [op |-> "requery", plan |-> s]
      /\ s \in Planning!Suggestion /\ PlanFits(s)
  BY <1>1 DEF Planning!ApproveRequery, Planning!Op, PlanInv, PlanTyped, DeskTyped, Planning!Idle
<1>3. PICK valid : valid = s.orders \cap Planning!Waiting
  OBVIOUS
<1>4. PICK r : r = [op |-> "write", plan |-> s, valid |-> valid]
  OBVIOUS
<1>5. /\ desk' = [desk EXCEPT ![h] = r] /\ valid # {}
      /\ r.op = "write" /\ r.plan = s /\ r.valid = valid
  BY <1>1, <1>3, <1>4 DEF Planning!ApproveRequery, Planning!Continue, Planning!Hold
<1>6. DeskBecomes(h, r)
  <2>1. r.valid \in (SUBSET r.plan.orders) \ {{}}
    BY <1>3, <1>5
  <2> QED
    BY <1>2, <1>4, <1>5, <2>1 DEF DeskBecomes, DeskTyped
<1>7. desk[h].op = "requery" /\ desk[h].plan = s
  BY <1>2
<1>8. Planning!Subject(r) = Planning!Subject(desk[h])
  BY <1>5, <1>7 DEF Planning!Subject
<1>9. Ready(r)
  <2>1. Ready(desk[h])
    BY DEF PlanInv
  <2> QED
    BY <1>3, <1>5, <1>7, <2>1 DEF Ready
<1>10. UNCHANGED <<hubOrder, hubTrip, screen, board, changedHub, shared>>
  BY DEF Planning!ApproveRequery, Planning!Continue
<1> QED
  BY <1>6, <1>8, <1>9, <1>10, QuietStep

\* The drivers a preview found, in some order, none twice.
LEMMA DriversInOrder ==
  ASSUME Planning!ParametersOK, NEW S \in SUBSET HubDriver,
         NEW drivers \in Planning!SetToSeqs(S)
  PROVE  /\ drivers \in Seq(HubDriver)
         /\ \A i, j \in DOMAIN drivers : drivers[i] = drivers[j] => i = j
<1>1. PICK n \in Nat : n = Planning!Cardinality(S)
  <2>1. IsFiniteSet(S)
    BY PlanParameters, FS_Subset
  <2> QED
    BY <2>1, PlanFinite, FS_CardinalityType
<1>2. /\ drivers \in [1..n -> S]
      /\ \A i, j \in 1..n : i # j => drivers[i] # drivers[j]
  BY <1>1 DEF Planning!SetToSeqs
<1>3. drivers \in [1..n -> HubDriver] /\ DOMAIN drivers = 1..n
  BY <1>2
<1> QED
  BY <1>2, <1>3

LEMMA PreviewAnswerKeeps ==
  ASSUME Planning!ParametersOK, PlanInv, NEW h \in Clerk, Planning!PreviewAnswer(h)
  PROVE  PlanInv'
<1>1. PICK reads : reads = desk[h].read
  OBVIOUS
<1>2. ReadsTyped(reads, Planning!Query) /\ DOMAIN reads = Planning!Query
  BY <1>1 DEF Planning!PreviewAnswer, Planning!Op, PlanInv, PlanTyped, DeskTyped, Planning!Idle
<1>3. /\ reads["orders"] \in SUBSET Planning!Order
      /\ reads["drivers"] \in SUBSET HubDriver
  BY <1>2 DEF ReadsTyped, Planning!Query
<1>3a. PICK drivers \in Planning!SetToSeqs(reads["drivers"]) :
         LET plan == Planning!Plan(reads["vehicles"], reads["orders"], drivers)
         IN screen' = [suggestions |-> plan.suggestions, unassigned |-> plan.left,
                       drivers |-> Planning!Range(plan.drivers)]
  BY <1>1 DEF Planning!PreviewAnswer
<1>4. PICK plan : /\ plan = Planning!Plan(reads["vehicles"], reads["orders"], drivers)
                  /\ screen' = [suggestions |-> plan.suggestions, unassigned |-> plan.left,
                                drivers |-> Planning!Range(plan.drivers)]
  BY <1>3a
<1>5. PlanSound(reads["orders"], plan, Len(Vehicles))
  BY <1>3, <1>4, DriversInOrder, PlanIsSound
<1>6. /\ screen'.suggestions = plan.suggestions /\ screen'.unassigned = plan.left
      /\ screen'.drivers = Planning!Range(plan.drivers)
  BY <1>4
<1>7. /\ Planning!Range(plan.drivers) \subseteq HubDriver
      /\ \A d \in Planning!Range(plan.drivers) : \E j \in DOMAIN plan.drivers : d = plan.drivers[j]
  BY <1>5 DEF PlanSound, Planning!Range
<1>8. \A s \in plan.suggestions : /\ SuggestionSound(s, plan.left, plan.drivers)
                                  /\ s \in Planning!Suggestion /\ PlanFits(s)
  BY <1>5 DEF PlanSound, SuggestionSound, PlanFits
<1>9. DeskBecomes(h, Planning!Idle) /\ UNCHANGED shared
  BY DEF Planning!PreviewAnswer, Planning!Continue, Planning!Hold, DeskBecomes, DeskTyped
<1>10. UNCHANGED <<hubOrder, hubTrip, board, changedHub, shared>>
  BY <1>9 DEF Planning!PreviewAnswer
<1>11. /\ desk'[h] = Planning!Idle /\ \A g \in Clerk : g # h => desk'[g] = desk[g]
       /\ DOMAIN desk' = Clerk /\ \A g \in Clerk : DeskTyped(desk'[g])
       /\ \A g \in Clerk : Planning!TaskOK(desk'[g])
  BY <1>9, DeskStep DEF PlanInv
<1>12. screen' \in Planning!Preview
  <2>1. plan.suggestions \in SUBSET Planning!Suggestion
    BY <1>8
  <2>2. plan.left \in SUBSET Planning!Order
    BY <1>3, <1>5 DEF PlanSound
  <2>3. Planning!Range(plan.drivers) \in SUBSET HubDriver
    BY <1>7
  <2> QED
    BY <1>4, <2>1, <2>2, <2>3 DEF Planning!Preview
<1>13. Planning!TypeOK'
  BY <1>10, <1>11, <1>12 DEF PlanInv, PlanTyped, Planning!TypeOK
<1>14. PlanTyped'
  <2>1. \A s \in screen'.suggestions : PlanFits(s)
    BY <1>6, <1>8
  <2>2. \A t \in Planning!ActiveTrips' : PlanFits(hubTrip'[t])
    BY <1>10 DEF PlanInv, PlanTyped, Planning!ActiveTrips
  <2> QED
    BY <1>11, <1>13, <2>1, <2>2 DEF PlanTyped
<1>15. SharingNoted'
  <2>1. Planning!Subject(Planning!Idle) = {}
    BY DEF Planning!Subject, Planning!Idle
  <2> QED
    BY <1>9, <2>1, SharingStep
<1>16. \A o \in Planning!Order : OrderPlaced(o)'
  BY <1>10 DEF PlanInv, OrderPlaced, Planning!ActiveTrips
<1>17. \A g \in Clerk : Ready(desk[g])'
  <2>1. \A g \in Clerk : Ready(desk'[g])
    BY <1>11 DEF PlanInv, Ready, Planning!Idle
  <2> QED
    BY <1>10, <2>1 DEF Ready, Planning!ActiveTripsOf, Planning!ActiveTrips, Planning!Waiting
<1>18. BoardCurrent'
  BY <1>10 DEF PlanInv, BoardCurrent, PlannedRows, Planning!Waiting, Planning!Free,
         Planning!ActiveTripsOf, Planning!ActiveTrips
<1>19. Planning!PreviewSound'
  <2>1. \A s, r \in screen'.suggestions : s # r => Apart(s, r)
    BY <1>5, <1>6 DEF PlanSound
  <2>2. ASSUME NEW s \in screen'.suggestions
        PROVE  /\ s.orders \cap screen'.unassigned = {}
               /\ s.driver \notin screen'.drivers
               /\ Planning!Within(Planning!Total(s.orders), Capacity[s.vehicle])
               /\ \A o \in screen'.unassigned :
                    ~Planning!Within(Planning!Total(s.orders \cup {o}), Capacity[s.vehicle])
    <3>1. SuggestionSound(s, plan.left, plan.drivers)
      BY <1>6, <1>8
    <3>2. s.driver \notin screen'.drivers
      BY <1>6, <1>7, <3>1 DEF SuggestionSound
    <3> QED
      BY <1>6, <3>1, <3>2 DEF SuggestionSound, Unfit
  <2> QED
    BY <2>1, <2>2 DEF Planning!PreviewSound, Apart
<1>20. Planning!ApprovalSound'
  BY <1>10 DEF PlanInv, Planning!ApprovalSound, Planning!ActiveTrips
<1> QED
  BY <1>14, <1>15, <1>16, <1>17, <1>18, <1>19, <1>20 DEF PlanInv

LEMMA ApproveBeginKeeps ==
  ASSUME PlanInv, NEW h \in Clerk, NEW s \in screen.suggestions, Planning!ApproveBegin(h, s)
  PROVE  PlanInv'
<1>1. PICK r : r = [op |-> "check", plan |-> s]
  OBVIOUS
<1>2. r.op = "check" /\ r.plan = s
  BY <1>1
<1>3. s \in Planning!Suggestion /\ PlanFits(s)
  BY DEF PlanInv, PlanTyped, Planning!TypeOK, Planning!Preview
<1>4. /\ DeskBecomes(h, r)
      /\ shared' = shared \cup (Planning!Subject(r) \cap UNION {Planning!Subject(desk[g]) : g \in Clerk})
      /\ UNCHANGED <<hubOrder, hubTrip, screen, board, changedHub>>
  BY <1>1, <1>2, <1>3 DEF Planning!ApproveBegin, Planning!Hold, DeskBecomes, DeskTyped
<1>5. /\ desk'[h] = r /\ \A g \in Clerk : g # h => desk'[g] = desk[g]
      /\ DOMAIN desk' = Clerk /\ \A g \in Clerk : DeskTyped(desk'[g])
      /\ \A g \in Clerk : Planning!TaskOK(desk'[g])
  BY <1>4, DeskStep DEF PlanInv
<1>6. Planning!Subject(r) \subseteq Planning!Order \cup Planning!Vehicle \cup HubDriver
  BY <1>2, <1>3, SuggestionShape DEF Planning!Subject
<1>7. Planning!TypeOK'
  <2>1. shared' \subseteq Planning!Order \cup Planning!Vehicle \cup HubDriver
    BY <1>4, <1>6 DEF PlanInv, PlanTyped, Planning!TypeOK
  <2> QED
    BY <1>4, <1>5, <2>1 DEF PlanInv, PlanTyped, Planning!TypeOK
<1>8. PlanTyped'
  BY <1>4, <1>5, <1>7 DEF PlanInv, PlanTyped, Planning!ActiveTrips
<1>9. shared \subseteq shared'
  BY <1>4
<1>10. SharingNoted'
  <2> SUFFICES ASSUME NEW f \in Clerk, NEW g \in Clerk, f # g
               PROVE  Planning!Subject(desk'[f]) \cap Planning!Subject(desk'[g]) \subseteq shared'
    BY DEF SharingNoted, Planning!Subject
  <2>1. CASE f = h
    BY <1>4, <1>5, <2>1
  <2>2. CASE g = h
    BY <1>4, <1>5, <2>2
  <2>3. CASE f # h /\ g # h
    BY <1>5, <1>9, <2>3 DEF PlanInv, SharingNoted
  <2> QED
    BY <2>1, <2>2, <2>3
<1>11. \A o \in Planning!Order : OrderPlaced(o)'
  BY <1>4, <1>9 DEF PlanInv, OrderPlaced, Planning!ActiveTrips
<1>12. \A g \in Clerk : Ready(desk[g])'
  <2> SUFFICES ASSUME NEW g \in Clerk PROVE Ready(desk[g])'
    OBVIOUS
  <2>1. Ready(desk'[g])
    BY <1>2, <1>5 DEF PlanInv, Ready
  <2> QED
    BY <1>4, <1>9, <2>1 DEF Ready, Planning!ActiveTripsOf, Planning!ActiveTrips, Planning!Waiting
<1>13. BoardCurrent'
  BY <1>4 DEF PlanInv, BoardCurrent, PlannedRows, Planning!Waiting, Planning!Free,
         Planning!ActiveTripsOf, Planning!ActiveTrips
<1>14. Planning!PreviewSound'
  BY <1>4 DEF PlanInv, Planning!PreviewSound
<1>15. Planning!ApprovalSound'
  BY <1>4, <1>9 DEF PlanInv, Planning!ApprovalSound, Planning!ActiveTrips
<1> QED
  BY <1>8, <1>10, <1>11, <1>12, <1>13, <1>14, <1>15 DEF PlanInv

--------------------------------------------------------------------------------
(***************************************************************************)
(* What moves an order or a trip.                                          *)
(***************************************************************************)

\* What was read for a board lists, of what is not in S, what it listed before.
LEMMA BoardKept ==
  ASSUME BoardCurrent, NEW S, UNCHANGED board, Planning!Change(S),
         \A o \in Planning!Order \ S : (o \in Planning!Waiting)' <=> o \in Planning!Waiting,
         \A x \in (Planning!Vehicle \cup HubDriver) \ S :
           (Planning!ActiveTripsOf(x) = {})' <=> Planning!ActiveTripsOf(x) = {},
         \A o \in Planning!Order \ S : PlannedRows(o)' = PlannedRows(o)
  PROVE  BoardCurrent'
<1>1. CASE board = Planning!NoReads
  <2>1. DOMAIN board' = {}
    BY <1>1 DEF Planning!NoReads
  <2> QED
    BY <2>1 DEF BoardCurrent
<1>2. CASE board # Planning!NoReads
  <2>1. changedHub' = changedHub \cup S
    BY <1>2 DEF Planning!Change
  <2>2. "orders" \in DOMAIN board' =>
          \A o \in Planning!Order \ changedHub' :
            o \in board'["orders"] <=> o \in Planning!Waiting'
    BY <2>1 DEF BoardCurrent
  <2>3. ASSUME NEW x \in (Planning!Vehicle \cup HubDriver) \ changedHub'
        PROVE  /\ "vehicles" \in DOMAIN board' =>
                    (x \in board'["vehicles"] <=> x \in Planning!Free(Planning!Vehicle)')
               /\ "drivers" \in DOMAIN board' =>
                    (x \in board'["drivers"] <=> x \in Planning!Free(HubDriver)')
    <3>1. x \in (Planning!Vehicle \cup HubDriver) \ changedHub /\ x \notin S
      BY <2>1
    <3>2. Planning!ActiveTripsOf(x)' = {} <=> Planning!ActiveTripsOf(x) = {}
      BY <3>1
    <3>3. /\ x \in Planning!Free(Planning!Vehicle) <=>
               x \in Planning!Vehicle /\ Planning!ActiveTripsOf(x) = {}
          /\ x \in Planning!Free(HubDriver) <=> x \in HubDriver /\ Planning!ActiveTripsOf(x) = {}
      BY DEF Planning!Free
    <3>4. /\ x \in Planning!Free(Planning!Vehicle)' <=>
               x \in Planning!Vehicle /\ Planning!ActiveTripsOf(x)' = {}
          /\ x \in Planning!Free(HubDriver)' <=> x \in HubDriver /\ Planning!ActiveTripsOf(x)' = {}
      BY DEF Planning!Free
    <3> QED
      BY <3>1, <3>2, <3>3, <3>4 DEF BoardCurrent
  <2>4. "trips" \in DOMAIN board' =>
          \A o \in Planning!Order \ changedHub' :
            {row \in board'["trips"] : o \in row.orders} = PlannedRows(o)'
    BY <2>1 DEF BoardCurrent
  <2> QED
    BY <2>2, <2>3, <2>4 DEF BoardCurrent
<1> QED
  BY <1>1, <1>2

\* The row of trip t becomes n; S has what the row names before and after.
TripBecomes(t, n, S) ==
  /\ hubTrip' = [hubTrip EXCEPT ![t] = n]
  /\ hubTrip[t] # Planning!NoRow =>
       {hubTrip[t].vehicle, hubTrip[t].driver} \cup hubTrip[t].orders \subseteq S
  /\ \/ n = Planning!NoRow
     \/ /\ n \in [status : {"PENDING", "IN_PROGRESS"}, vehicle : Planning!Vehicle,
                  driver : HubDriver, orders : (SUBSET Planning!Order) \ {{}}]
        /\ PlanFits(n)
        /\ {n.vehicle, n.driver} \cup n.orders \subseteq S

LEMMA TripStep ==
  ASSUME PlanTyped, NEW t \in HubTrip, NEW n, NEW S, TripBecomes(t, n, S)
  PROVE  /\ hubTrip'[t] = n
         /\ \A u \in HubTrip : u # t => hubTrip'[u] = hubTrip[u]
                                        /\ (u \in Planning!ActiveTrips' <=> u \in Planning!ActiveTrips)
         /\ t \in Planning!ActiveTrips' <=> n # Planning!NoRow
         /\ hubTrip' \in [HubTrip -> Planning!TripRow]
         /\ \A u \in Planning!ActiveTrips' : u \in HubTrip /\ PlanFits(hubTrip'[u])
         /\ \A x : x \notin S => (Planning!ActiveTripsOf(x)' = Planning!ActiveTripsOf(x))
         /\ \A o : o \notin S => PlannedRows(o)' = PlannedRows(o)
<1>1. hubTrip \in [HubTrip -> Planning!TripRow]
  BY DEF PlanTyped, Planning!TypeOK
<1>2. n \in Planning!TripRow
  BY DEF TripBecomes, Planning!TripRow
<1>3. /\ hubTrip'[t] = n /\ \A u \in HubTrip : u # t => hubTrip'[u] = hubTrip[u]
      /\ hubTrip' \in [HubTrip -> Planning!TripRow]
  BY <1>1, <1>2 DEF TripBecomes
<1>4. /\ \A u : u \in Planning!ActiveTrips' <=> u \in HubTrip /\ hubTrip'[u] # Planning!NoRow
      /\ \A u : u \in Planning!ActiveTrips <=> u \in HubTrip /\ hubTrip[u] # Planning!NoRow
  BY DEF Planning!ActiveTrips
<1>5. \A u \in Planning!ActiveTrips' : u \in HubTrip /\ PlanFits(hubTrip'[u])
  BY <1>3, <1>4 DEF TripBecomes, PlanTyped
<1>6. ASSUME NEW x, x \notin S
      PROVE  Planning!ActiveTripsOf(x)' = Planning!ActiveTripsOf(x)
  <2>1. \A u : u \in Planning!ActiveTripsOf(x) <=>
                 u \in Planning!ActiveTrips /\ x \in {hubTrip[u].vehicle, hubTrip[u].driver}
    BY DEF Planning!ActiveTripsOf
  <2>2. \A u : u \in Planning!ActiveTripsOf(x)' <=>
                 u \in Planning!ActiveTrips' /\ x \in {hubTrip'[u].vehicle, hubTrip'[u].driver}
    BY DEF Planning!ActiveTripsOf
  <2>3. t \notin Planning!ActiveTripsOf(x)
    BY <1>4, <1>6, <2>1 DEF TripBecomes
  <2>4. t \notin Planning!ActiveTripsOf(x)'
    BY <1>3, <1>4, <1>6, <2>2 DEF TripBecomes
  <2>5. \A u : u # t => (u \in Planning!ActiveTripsOf(x)' <=> u \in Planning!ActiveTripsOf(x))
    BY <1>3, <1>4, <2>1, <2>2
  <2> QED
    BY <2>3, <2>4, <2>5
<1>7. ASSUME NEW o, o \notin S
      PROVE  PlannedRows(o)' = PlannedRows(o)
  <2>1. Planning!NoRow.status # "PENDING"
    BY DEF Planning!NoRow
  <2>2. ~(hubTrip[t].status = "PENDING" /\ o \in hubTrip[t].orders)
    BY <1>7, <2>1 DEF TripBecomes
  <2>3. ~(hubTrip'[t].status = "PENDING" /\ o \in hubTrip'[t].orders)
    BY <1>3, <1>7, <2>1 DEF TripBecomes
  <2>4. {u \in HubTrip : hubTrip'[u].status = "PENDING" /\ o \in hubTrip'[u].orders}
          = {u \in HubTrip : hubTrip[u].status = "PENDING" /\ o \in hubTrip[u].orders}
    BY <1>3, <2>2, <2>3
  <2>5. \A u \in {v \in HubTrip : hubTrip[v].status = "PENDING" /\ o \in hubTrip[v].orders} :
          hubTrip'[u] = hubTrip[u]
    BY <1>3, <2>2
  <2> QED
    BY <2>4, <2>5 DEF PlannedRows
<1> QED
  BY <1>3, <1>4, <1>5, <1>6, <1>7

\* Who is on no desk afterwards but was ready before still is.
LEMMA OrderShape ==
  ASSUME PlanInv, NEW o \in Planning!Order
  PROVE  /\ OrderPlaced(o)
         /\ hubOrder[o].status \in {"WAITING", "ASSIGNED", "GONE"}
         /\ hubOrder[o].trip \in HubTrip \cup {NoTrip}
         /\ o \in Planning!Waiting <=> hubOrder[o].status = "WAITING"
<1>1. hubOrder \in [Planning!Order -> [status : {"WAITING", "ASSIGNED", "GONE"},
                                       trip : HubTrip \cup {NoTrip}]]
  BY DEF PlanInv, PlanTyped, Planning!TypeOK
<1>2. OrderPlaced(o)
  BY DEF PlanInv
<1>3. o \in Planning!Waiting <=> hubOrder[o].status = "WAITING"
  BY <1>2 DEF OrderPlaced, Planning!Waiting
<1> QED
  BY <1>1, <1>2, <1>3

\* A trip is started, or its row makes room, and the rows of its orders follow.
LEMMA MoveTripKeeps ==
  ASSUME Planning!ParametersOK, PlanInv, NEW t \in HubTrip,
         NEW from \in {"PENDING", "IN_PROGRESS"}, NEW next, NEW rows,
         Planning!MoveTrip(t, from, next, rows),
         \/ next = Planning!NoRow
         \/ next = [hubTrip[t] EXCEPT !.status = "IN_PROGRESS"],
         \A o \in Planning!Order :
           /\ rows[o] \in [status : {"WAITING", "GONE"}, trip : HubTrip \cup {NoTrip}]
           /\ rows[o].status = "WAITING" => next = Planning!NoRow
           /\ rows[o].trip = IF next = Planning!NoRow THEN NoTrip ELSE t
  PROVE  PlanInv'
<1> DEFINE S == {hubTrip[t].vehicle, hubTrip[t].driver} \cup hubTrip[t].orders
<1>0. NoTrip \notin HubTrip
  BY PlanParameters
<1>1. /\ hubTrip[t].status = from /\ hubTrip' = [hubTrip EXCEPT ![t] = next]
      /\ hubOrder' = [o \in Planning!Order |-> IF hubOrder[o].trip = t THEN rows[o] ELSE hubOrder[o]]
      /\ Planning!Change(S) /\ UNCHANGED <<screen, board, desk, shared>>
  BY DEF Planning!MoveTrip
<1>2. /\ hubTrip[t] \in [status : {"PENDING", "IN_PROGRESS"}, vehicle : Planning!Vehicle,
                         driver : HubDriver, orders : (SUBSET Planning!Order) \ {{}}]
      /\ PlanFits(hubTrip[t]) /\ t \in Planning!ActiveTrips /\ hubTrip[t] # Planning!NoRow
  BY <1>1, TripShape DEF PlanInv
<1>3. \/ next = Planning!NoRow
      \/ /\ next \in [status : {"PENDING", "IN_PROGRESS"}, vehicle : Planning!Vehicle,
                      driver : HubDriver, orders : (SUBSET Planning!Order) \ {{}}]
         /\ next # Planning!NoRow
         /\ next.vehicle = hubTrip[t].vehicle /\ next.driver = hubTrip[t].driver
         /\ next.orders = hubTrip[t].orders /\ PlanFits(next)
  <2>1. PICK row : row = hubTrip[t]
    OBVIOUS
  <2>2. row \in [status : {"PENDING", "IN_PROGRESS"}, vehicle : Planning!Vehicle,
                 driver : HubDriver, orders : (SUBSET Planning!Order) \ {{}}]
    BY <1>2, <2>1
  <2>3. CASE next = [row EXCEPT !.status = "IN_PROGRESS"]
    <3>1. /\ next \in [status : {"PENDING", "IN_PROGRESS"}, vehicle : Planning!Vehicle,
                       driver : HubDriver, orders : (SUBSET Planning!Order) \ {{}}]
          /\ next.vehicle = row.vehicle /\ next.driver = row.driver /\ next.orders = row.orders
          /\ next.status = "IN_PROGRESS"
      BY <2>2, <2>3
    <3>2. next # Planning!NoRow
      BY <3>1 DEF Planning!NoRow
    <3> QED
      BY <1>2, <2>1, <3>1, <3>2 DEF PlanFits
  <2> QED
    BY <2>1, <2>3
<1>4. TripBecomes(t, next, S)
  BY <1>1, <1>3 DEF TripBecomes
<1>5. Planning!Change(S) /\ (t \in Planning!ActiveTrips)
  BY <1>1, <1>2
<1>6. /\ hubTrip'[t] = next
      /\ \A u \in HubTrip : u # t => hubTrip'[u] = hubTrip[u]
                                     /\ (u \in Planning!ActiveTrips' <=> u \in Planning!ActiveTrips)
      /\ t \in Planning!ActiveTrips' <=> next # Planning!NoRow
      /\ hubTrip' \in [HubTrip -> Planning!TripRow]
      /\ \A u \in Planning!ActiveTrips' : u \in HubTrip /\ PlanFits(hubTrip'[u])
      /\ \A x : x \notin S => (Planning!ActiveTripsOf(x)' = Planning!ActiveTripsOf(x))
      /\ \A o : o \notin S => PlannedRows(o)' = PlannedRows(o)
  <2>1. PlanTyped
    BY DEF PlanInv
  <2> HIDE DEF S
  <2> QED
    BY <1>4, <2>1, TripStep
\* An active trip was one before, with the same vehicle, driver and orders.
<1>7. \A u \in Planning!ActiveTrips' :
        /\ u \in Planning!ActiveTrips /\ u \in HubTrip
        /\ hubTrip'[u].vehicle = hubTrip[u].vehicle
        /\ hubTrip'[u].driver = hubTrip[u].driver
        /\ hubTrip'[u].orders = hubTrip[u].orders
  BY <1>2, <1>3, <1>6
<1>8. \A o \in Planning!Order :
        /\ hubOrder[o].trip = t => hubOrder'[o] = rows[o] /\ o \in S
        /\ hubOrder[o].trip # t => hubOrder'[o] = hubOrder[o]
  BY <1>0, <1>1, OrderShape DEF OrderPlaced
<1>9. hubOrder' \in [Planning!Order -> [status : {"WAITING", "ASSIGNED", "GONE"},
                                        trip : HubTrip \cup {NoTrip}]]
  <2>1. \A o \in Planning!Order :
          rows[o] \in [status : {"WAITING", "ASSIGNED", "GONE"}, trip : HubTrip \cup {NoTrip}]
    OBVIOUS
  <2>2. hubOrder \in [Planning!Order -> [status : {"WAITING", "ASSIGNED", "GONE"},
                                        trip : HubTrip \cup {NoTrip}]]
    BY DEF PlanInv, PlanTyped, Planning!TypeOK
  <2> QED
    BY <1>1, <2>1, <2>2
<1>10. Planning!TypeOK'
  <2>1. S \subseteq Planning!Order \cup Planning!Vehicle \cup HubDriver
    BY <1>2
  <2>2. changedHub' \subseteq Planning!Order \cup Planning!Vehicle \cup HubDriver
    BY <1>1, <2>1 DEF Planning!Change, PlanInv, PlanTyped, Planning!TypeOK
  <2> QED
    BY <1>1, <1>6, <1>9, <2>2 DEF PlanInv, PlanTyped, Planning!TypeOK
<1>11. PlanTyped'
  BY <1>1, <1>6, <1>10 DEF PlanInv, PlanTyped
<1>12. SharingNoted'
  BY <1>1 DEF PlanInv, SharingNoted, Planning!Subject
<1>13. ASSUME NEW o \in Planning!Order PROVE OrderPlaced(o)'
  <2>1. PICK p : p = hubOrder[o].trip
    OBVIOUS
  <2>2. /\ OrderPlaced(o) /\ p \in HubTrip \cup {NoTrip}
        /\ hubOrder[o].status \in {"WAITING", "ASSIGNED", "GONE"}
    BY <2>1, OrderShape
  <2>3. CASE p # t
    <3>1. hubOrder'[o] = hubOrder[o]
      BY <1>8, <2>1, <2>3
    <3> QED
      BY <1>0, <1>1, <1>6, <1>7, <2>1, <2>2, <2>3, <3>1 DEF OrderPlaced
  <2>4. CASE p = t /\ next = Planning!NoRow
    <3>1. hubOrder'[o].status \in {"WAITING", "GONE"} /\ hubOrder'[o].trip = NoTrip
      BY <1>8, <2>1, <2>4
    <3>2. t \notin Planning!ActiveTrips'
      BY <1>6, <2>4
    <3>3. o \notin shared =>
            \A u \in Planning!ActiveTrips' : o \in hubTrip'[u].orders => u = NoTrip
      BY <1>7, <2>1, <2>2, <2>4, <3>2 DEF OrderPlaced
    <3> QED
      BY <1>1, <3>1, <3>3 DEF OrderPlaced
  <2>5. CASE p = t /\ next # Planning!NoRow
    <3>1. hubOrder'[o].status = "GONE" /\ hubOrder'[o].trip = t
      BY <1>8, <2>1, <2>5
    <3>2. t \in Planning!ActiveTrips' /\ o \in hubTrip'[t].orders
      BY <1>0, <1>6, <1>7, <2>1, <2>2, <2>5 DEF OrderPlaced
    <3>3. o \notin shared =>
            \A u \in Planning!ActiveTrips' : o \in hubTrip'[u].orders => u = t
      BY <1>7, <2>1, <2>2, <2>5 DEF OrderPlaced
    <3> QED
      BY <1>1, <3>1, <3>2, <3>3 DEF OrderPlaced
  <2> QED
    BY <2>3, <2>4, <2>5
<1>14. ASSUME NEW g \in Clerk PROVE Ready(desk[g])'
  <2>1. Ready(desk[g]) /\ desk' = desk /\ shared' = shared
    BY <1>1 DEF PlanInv
  <2>2. \A x : Planning!ActiveTripsOf(x) = {} => Planning!ActiveTripsOf(x)' = {}
    BY <1>7 DEF Planning!ActiveTripsOf
  <2>3. \A o \in Planning!Waiting : o \in Planning!Waiting'
    BY <1>0, <1>8 DEF Planning!Waiting
  <2> QED
    BY <2>1, <2>2, <2>3 DEF Ready
<1>15. BoardCurrent'
  <2>1. \A o \in Planning!Order \ S : o \in Planning!Waiting' <=> o \in Planning!Waiting
    BY <1>8 DEF Planning!Waiting
  <2>2. BoardCurrent /\ UNCHANGED board
    BY <1>1 DEF PlanInv
  <2> HIDE DEF S
  <2> QED
    BY <1>1, <1>6, <2>1, <2>2, BoardKept
<1>16. Planning!PreviewSound'
  BY <1>1 DEF PlanInv, Planning!PreviewSound
<1>17. Planning!ApprovalSound'
  BY <1>1, <1>7 DEF PlanInv, Planning!ApprovalSound
<1> QED
  BY <1>11, <1>12, <1>13, <1>14, <1>15, <1>16, <1>17 DEF PlanInv

LEMMA StartTripKeeps ==
  ASSUME Planning!ParametersOK, PlanInv, NEW t \in HubTrip, Planning!StartTrip(t)
  PROVE  PlanInv'
<1>1. PICK next, rows : /\ next = [hubTrip[t] EXCEPT !.status = "IN_PROGRESS"]
                        /\ rows = [o \in Planning!Order |-> [status |-> "GONE", trip |-> t]]
  OBVIOUS
<1>2. Planning!MoveTrip(t, "PENDING", next, rows)
  BY <1>1 DEF Planning!StartTrip
<1>3. next # Planning!NoRow
  <2>1. PICK row : row = hubTrip[t]
    OBVIOUS
  <2>2. row.status = "PENDING"
    BY <1>2, <2>1 DEF Planning!MoveTrip
  <2>3. row \in [status : {"PENDING", "IN_PROGRESS"}, vehicle : Planning!Vehicle,
                 driver : HubDriver, orders : (SUBSET Planning!Order) \ {{}}]
    BY <2>1, <2>2, TripShape DEF PlanInv
  <2>4. next.status = "IN_PROGRESS"
    BY <1>1, <2>1, <2>3
  <2> QED
    BY <2>4 DEF Planning!NoRow
<1>4. \A o \in Planning!Order :
        /\ rows[o] \in [status : {"WAITING", "GONE"}, trip : HubTrip \cup {NoTrip}]
        /\ rows[o].status = "WAITING" => next = Planning!NoRow
        /\ rows[o].trip = IF next = Planning!NoRow THEN NoTrip ELSE t
  BY <1>1, <1>3
<1> QED
  BY <1>1, <1>2, <1>4, MoveTripKeeps

LEMMA CompleteTripKeeps ==
  ASSUME Planning!ParametersOK, PlanInv, NEW t \in HubTrip, Planning!CompleteTrip(t)
  PROVE  PlanInv'
<1>1. PICK rows : rows = [o \in Planning!Order |-> [status |-> "GONE", trip |-> NoTrip]]
  OBVIOUS
<1>2. Planning!MoveTrip(t, "IN_PROGRESS", Planning!NoRow, rows)
  BY <1>1 DEF Planning!CompleteTrip
<1>3. \A o \in Planning!Order :
        /\ rows[o] \in [status : {"WAITING", "GONE"}, trip : HubTrip \cup {NoTrip}]
        /\ rows[o].trip = NoTrip
  BY <1>1
<1> QED
  BY <1>2, <1>3, MoveTripKeeps

LEMMA CancelTripKeeps ==
  ASSUME Planning!ParametersOK, PlanInv, NEW t \in HubTrip, Planning!CancelTrip(t)
  PROVE  PlanInv'
<1>1. PICK rows :
        rows = [o \in Planning!Order |->
                  [status |-> IF hubOrder[o].status = "ASSIGNED" THEN "WAITING" ELSE "GONE",
                   trip |-> NoTrip]]
  OBVIOUS
<1>2. Planning!MoveTrip(t, "PENDING", Planning!NoRow, rows)
  BY <1>1 DEF Planning!CancelTrip
<1>3. \A o \in Planning!Order :
        /\ rows[o] \in [status : {"WAITING", "GONE"}, trip : HubTrip \cup {NoTrip}]
        /\ rows[o].trip = NoTrip
  BY <1>1
<1> QED
  BY <1>2, <1>3, MoveTripKeeps

LEMMA CancelOrderKeeps ==
  ASSUME PlanInv, NEW o \in Planning!Order, Planning!CancelOrder(o)
  PROVE  PlanInv'
<1>1. /\ hubOrder' = [hubOrder EXCEPT ![o].status = "GONE"] /\ Planning!Change({o})
      /\ shared' = shared \cup ({o} \cap UNION {Planning!Subject(desk[g]) : g \in Clerk})
      /\ UNCHANGED <<hubTrip, screen, board, desk>>
  BY DEF Planning!CancelOrder
<1>2. hubOrder \in [Planning!Order -> [status : {"WAITING", "ASSIGNED", "GONE"},
                                       trip : HubTrip \cup {NoTrip}]]
  BY DEF PlanInv, PlanTyped, Planning!TypeOK
<1>3. /\ hubOrder'[o].status = "GONE" /\ hubOrder'[o].trip = hubOrder[o].trip
      /\ \A p \in Planning!Order : p # o => hubOrder'[p] = hubOrder[p]
      /\ hubOrder' \in [Planning!Order -> [status : {"WAITING", "ASSIGNED", "GONE"},
                                           trip : HubTrip \cup {NoTrip}]]
  BY <1>1, <1>2
<1>4. shared \subseteq shared'
  BY <1>1
<1>5. Planning!TypeOK'
  <2>1. changedHub' \subseteq Planning!Order \cup Planning!Vehicle \cup HubDriver
    BY <1>1 DEF Planning!Change, PlanInv, PlanTyped, Planning!TypeOK
  <2>2. shared' \subseteq Planning!Order \cup Planning!Vehicle \cup HubDriver
    BY <1>1 DEF PlanInv, PlanTyped, Planning!TypeOK
  <2> QED
    BY <1>1, <1>3, <2>1, <2>2 DEF PlanInv, PlanTyped, Planning!TypeOK
<1>6. PlanTyped'
  BY <1>1, <1>5 DEF PlanInv, PlanTyped, Planning!ActiveTrips
<1>7. SharingNoted'
  BY <1>1, <1>4 DEF PlanInv, SharingNoted, Planning!Subject
<1>8. ASSUME NEW p \in Planning!Order PROVE OrderPlaced(p)'
  <2>1. OrderPlaced(p)
    BY DEF PlanInv
  <2>2. hubOrder'[p].trip = hubOrder[p].trip
        /\ (hubOrder'[p].status = hubOrder[p].status \/ hubOrder'[p].status = "GONE")
    BY <1>3
  <2> QED
    BY <1>1, <1>4, <2>1, <2>2 DEF OrderPlaced, Planning!ActiveTrips
<1>9. ASSUME NEW g \in Clerk PROVE Ready(desk[g])'
  <2>1. Ready(desk[g]) /\ desk' = desk
    BY <1>1 DEF PlanInv
  <2>2. \A x : Planning!ActiveTripsOf(x)' = Planning!ActiveTripsOf(x)
    BY <1>1 DEF Planning!ActiveTripsOf, Planning!ActiveTrips
  <2>3. desk[g].op = "write" => desk[g].valid \ shared' \subseteq Planning!Waiting'
    <3> SUFFICES ASSUME desk[g].op = "write", NEW p \in desk[g].valid, p \notin shared'
                 PROVE  p \in Planning!Waiting'
      OBVIOUS
    <3>1. p \in Planning!Subject(desk[g])
      BY DeskShape DEF PlanInv, PlanTyped
    <3>2. p # o
      BY <1>1, <3>1
    <3>3. p \in Planning!Waiting
      BY <1>4, <2>1 DEF Ready
    <3> QED
      BY <1>3, <3>2, <3>3 DEF Planning!Waiting
  <2> QED
    BY <1>4, <2>1, <2>2, <2>3 DEF Ready
<1>10. BoardCurrent'
  <2>1. \A p \in Planning!Order \ {o} : p \in Planning!Waiting' <=> p \in Planning!Waiting
    BY <1>3 DEF Planning!Waiting
  <2>2. \A x : Planning!ActiveTripsOf(x)' = Planning!ActiveTripsOf(x)
    BY <1>1 DEF Planning!ActiveTripsOf, Planning!ActiveTrips
  <2>3. \A p : PlannedRows(p)' = PlannedRows(p)
    BY <1>1 DEF PlannedRows
  <2>4. BoardCurrent /\ UNCHANGED board
    BY <1>1 DEF PlanInv
  <2> QED
    BY <1>1, <2>1, <2>2, <2>3, <2>4, BoardKept
<1>11. Planning!PreviewSound'
  BY <1>1 DEF PlanInv, Planning!PreviewSound
<1>12. Planning!ApprovalSound'
  BY <1>1, <1>4 DEF PlanInv, Planning!ApprovalSound, Planning!ActiveTrips
<1> QED
  BY <1>6, <1>7, <1>8, <1>9, <1>10, <1>11, <1>12 DEF PlanInv

\* The trip of an approval has the vehicle, the driver and the orders nobody else has, but
\* for what was shared.
LEMMA ApproveWriteKeeps ==
  ASSUME Planning!ParametersOK, PlanInv, NEW h \in Clerk, NEW t \in HubTrip,
         Planning!ApproveWrite(h, t)
  PROVE  PlanInv'
<1>1. PICK s, valid, n : /\ s = desk[h].plan /\ valid = desk[h].valid
                         /\ n = [status |-> "PENDING", vehicle |-> s.vehicle,
                                 driver |-> s.driver, orders |-> valid]
  OBVIOUS
<1> DEFINE S == {s.vehicle, s.driver} \cup valid
<1>2. /\ desk[h].op = "write" /\ hubTrip[t] = Planning!NoRow
      /\ hubTrip' = [hubTrip EXCEPT ![t] = n]
      /\ hubOrder' = [o \in Planning!Order |-> IF o \in valid \cap Planning!Waiting
                                       THEN [status |-> "ASSIGNED", trip |-> t] ELSE hubOrder[o]]
      /\ Planning!Change(S) /\ desk' = [desk EXCEPT ![h] = Planning!Idle]
      /\ UNCHANGED <<screen, board, shared>>
  BY <1>1 DEF Planning!ApproveWrite, Planning!Op, Planning!Continue, Planning!Hold
<1>3. /\ s \in Planning!Suggestion /\ PlanFits(s) /\ valid \in (SUBSET s.orders) \ {{}}
      /\ Planning!Subject(desk[h]) = {s.vehicle, s.driver} \cup s.orders
  BY <1>1, <1>2, DeskShape DEF PlanInv, PlanTyped
<1>4. /\ s.vehicle \in Planning!Vehicle /\ s.driver \in HubDriver
      /\ s.orders \in SUBSET Planning!Order /\ valid \in (SUBSET Planning!Order) \ {{}}
  BY <1>3, SuggestionShape
<1>5. /\ n \in [status : {"PENDING", "IN_PROGRESS"}, vehicle : Planning!Vehicle,
                driver : HubDriver, orders : (SUBSET Planning!Order) \ {{}}]
      /\ n.status = "PENDING" /\ n.vehicle = s.vehicle /\ n.driver = s.driver
      /\ n.orders = valid /\ n # Planning!NoRow
  <2>1. /\ n \in [status : {"PENDING", "IN_PROGRESS"}, vehicle : Planning!Vehicle,
                  driver : HubDriver, orders : (SUBSET Planning!Order) \ {{}}]
        /\ n.status = "PENDING" /\ n.vehicle = s.vehicle /\ n.driver = s.driver
        /\ n.orders = valid
    BY <1>1, <1>4
  <2> QED
    BY <2>1 DEF Planning!NoRow
<1>6. PlanFits(n)
  <2>1. /\ Planning!Total(s.orders).weight \in Nat /\ Planning!Total(s.orders).volume \in Nat
        /\ Planning!Total(valid).weight \in Nat /\ Planning!Total(valid).volume \in Nat
        /\ Planning!Total(valid).weight <= Planning!Total(s.orders).weight
        /\ Planning!Total(valid).volume <= Planning!Total(s.orders).volume
    BY <1>3, <1>4, PlanAdded
  <2>2. Capacity[s.vehicle].weight \in Nat /\ Capacity[s.vehicle].volume \in Nat
    BY <1>4, PlanParameters
  <2>3. /\ Planning!Total(s.orders).weight <= Capacity[s.vehicle].weight
        /\ Planning!Total(s.orders).volume <= Capacity[s.vehicle].volume
    BY <1>3 DEF PlanFits, Planning!Within
  <2>4. /\ Planning!Total(valid).weight <= Capacity[s.vehicle].weight
        /\ Planning!Total(valid).volume <= Capacity[s.vehicle].volume
    BY <2>1, <2>2, <2>3
  <2> QED
    BY <1>5, <2>4 DEF PlanFits, Planning!Within
<1>7. TripBecomes(t, n, S)
  BY <1>2, <1>5, <1>6 DEF TripBecomes
<1>8. /\ hubTrip'[t] = n
      /\ \A u \in HubTrip : u # t => hubTrip'[u] = hubTrip[u]
                                     /\ (u \in Planning!ActiveTrips' <=> u \in Planning!ActiveTrips)
      /\ t \in Planning!ActiveTrips' <=> n # Planning!NoRow
      /\ hubTrip' \in [HubTrip -> Planning!TripRow]
      /\ \A u \in Planning!ActiveTrips' : u \in HubTrip /\ PlanFits(hubTrip'[u])
      /\ \A x : x \notin S => (Planning!ActiveTripsOf(x)' = Planning!ActiveTripsOf(x))
      /\ \A o : o \notin S => PlannedRows(o)' = PlannedRows(o)
  <2>1. PlanTyped
    BY DEF PlanInv
  <2> HIDE DEF S
  <2> QED
    BY <1>7, <2>1, TripStep
<1>9. NoTrip \notin HubTrip /\ t \notin Planning!ActiveTrips
  BY <1>2, PlanParameters DEF Planning!ActiveTrips
<1>10. \A u \in Planning!ActiveTrips' : u \in HubTrip /\ (u # t => u \in Planning!ActiveTrips)
  BY <1>8
<1>11. /\ \A x \in {s.vehicle, s.driver} \ shared : Planning!ActiveTripsOf(x) = {}
       /\ valid \ shared \subseteq Planning!Waiting
  BY <1>1, <1>2 DEF PlanInv, Ready
\* Nobody else has stops for an order that waits.
<1>12. \A o \in Planning!Waiting : o \in Planning!Order /\ hubOrder[o].trip = NoTrip /\
         (o \notin shared => \A u \in Planning!ActiveTrips : o \notin hubTrip[u].orders)
  BY <1>9, OrderShape DEF OrderPlaced, Planning!Waiting, Planning!ActiveTrips
<1>13. \A o \in Planning!Order :
         /\ o \in valid \cap Planning!Waiting =>
              hubOrder'[o].status = "ASSIGNED" /\ hubOrder'[o].trip = t
         /\ o \notin valid \cap Planning!Waiting => hubOrder'[o] = hubOrder[o]
  BY <1>2
<1>14. hubOrder' \in [Planning!Order -> [status : {"WAITING", "ASSIGNED", "GONE"},
                                         trip : HubTrip \cup {NoTrip}]]
  <2>1. hubOrder \in [Planning!Order -> [status : {"WAITING", "ASSIGNED", "GONE"},
                                         trip : HubTrip \cup {NoTrip}]]
    BY DEF PlanInv, PlanTyped, Planning!TypeOK
  <2> QED
    BY <1>2, <2>1
<1>15. /\ desk'[h] = Planning!Idle /\ \A g \in Clerk : g # h => desk'[g] = desk[g]
       /\ DOMAIN desk' = Clerk /\ \A g \in Clerk : DeskTyped(desk'[g])
       /\ \A g \in Clerk : Planning!TaskOK(desk'[g])
  <2>1. DeskBecomes(h, Planning!Idle)
    BY <1>2 DEF DeskBecomes, DeskTyped
  <2> QED
    BY <2>1, DeskStep DEF PlanInv
<1>16. Planning!TypeOK'
  <2>1. S \subseteq Planning!Order \cup Planning!Vehicle \cup HubDriver
    BY <1>4
  <2>2. changedHub' \subseteq Planning!Order \cup Planning!Vehicle \cup HubDriver
    BY <1>2, <2>1 DEF Planning!Change, PlanInv, PlanTyped, Planning!TypeOK
  <2> QED
    BY <1>2, <1>8, <1>14, <1>15, <2>2 DEF PlanInv, PlanTyped, Planning!TypeOK
<1>17. PlanTyped'
  BY <1>2, <1>8, <1>15, <1>16 DEF PlanInv, PlanTyped
<1>18. SharingNoted'
  <2>1. DeskBecomes(h, Planning!Idle) /\ shared' = shared
    BY <1>2 DEF DeskBecomes, DeskTyped
  <2>2. Planning!Subject(Planning!Idle) = {}
    BY DEF Planning!Subject, Planning!Idle
  <2> QED
    BY <2>1, <2>2, SharingStep
<1>19. ASSUME NEW o \in Planning!Order PROVE OrderPlaced(o)'
  <2>1. OrderPlaced(o)
    BY DEF PlanInv
  <2>2. CASE o \in valid \cap Planning!Waiting
    <3>1. hubOrder'[o].status = "ASSIGNED" /\ hubOrder'[o].trip = t
      BY <1>13, <2>2
    <3>2. t \in Planning!ActiveTrips' /\ o \in hubTrip'[t].orders /\ hubTrip'[t].status = "PENDING"
      BY <1>5, <1>8, <2>2
    <3>3. o \notin shared => \A u \in Planning!ActiveTrips' : o \in hubTrip'[u].orders => u = t
      BY <1>8, <1>10, <1>12, <2>2
    <3> QED
      BY <1>2, <1>9, <3>1, <3>2, <3>3 DEF OrderPlaced
  <2>3. CASE o \notin valid \cap Planning!Waiting
    <3>1. hubOrder'[o] = hubOrder[o]
      BY <1>13, <2>3
    <3>2. hubOrder[o].trip # NoTrip =>
            hubOrder[o].trip \in Planning!ActiveTrips /\ hubOrder[o].trip # t
            /\ hubOrder[o].trip \in HubTrip
      BY <1>9, <2>1 DEF OrderPlaced, Planning!ActiveTrips
    <3>3. o \notin shared =>
            \A u \in Planning!ActiveTrips' : o \in hubTrip'[u].orders => u = hubOrder[o].trip
      BY <1>5, <1>8, <1>10, <1>11, <2>1, <2>3 DEF OrderPlaced
    <3> QED
      BY <1>2, <1>8, <2>1, <3>1, <3>2, <3>3 DEF OrderPlaced
  <2> QED
    BY <2>2, <2>3
<1>20. ASSUME NEW g \in Clerk PROVE Ready(desk[g])'
  <2>1. CASE g = h
    BY <1>15, <2>1 DEF Ready, Planning!Idle
  <2>2. CASE g # h
    <3>1. Ready(desk[g]) /\ desk'[g] = desk[g] /\ shared' = shared
      BY <1>2, <1>15, <2>2 DEF PlanInv
    <3>2. Planning!Subject(desk[g]) \cap Planning!Subject(desk[h]) \subseteq shared
      BY <2>2 DEF PlanInv, SharingNoted
    <3>3. /\ desk[g].op \in {"requery", "write"} =>
               desk[g].plan.vehicle \in Planning!Subject(desk[g])
               /\ desk[g].plan.driver \in Planning!Subject(desk[g])
          /\ desk[g].op = "write" => desk[g].valid \subseteq Planning!Subject(desk[g])
      BY DeskShape DEF PlanInv, PlanTyped
    <3>4. \A x \in Planning!Subject(desk[g]) \ shared : x \notin S
      BY <1>3, <3>2
    <3>5. \A x \in Planning!Subject(desk[g]) \ shared :
            Planning!ActiveTripsOf(x) = {} => Planning!ActiveTripsOf(x)' = {}
      BY <1>8, <3>4
    <3>6. \A o \in Planning!Subject(desk[g]) \ shared :
            o \in Planning!Waiting => o \in Planning!Waiting'
      BY <1>13, <3>4 DEF Planning!Waiting
    <3> QED
      BY <3>1, <3>3, <3>5, <3>6 DEF Ready
  <2> QED
    BY <2>1, <2>2
<1>21. BoardCurrent'
  <2>1. \A o \in Planning!Order \ S : o \in Planning!Waiting' <=> o \in Planning!Waiting
    BY <1>13 DEF Planning!Waiting
  <2>2. BoardCurrent /\ UNCHANGED board
    BY <1>2 DEF PlanInv
  <2> HIDE DEF S
  <2> QED
    BY <1>2, <1>8, <2>1, <2>2, BoardKept
<1>22. Planning!PreviewSound'
  BY <1>2 DEF PlanInv, Planning!PreviewSound
<1>23. Planning!ApprovalSound'
  <2>1. \A u \in Planning!ActiveTrips :
          /\ u \in HubTrip
          /\ hubTrip[u].vehicle = s.vehicle => s.vehicle \in shared
          /\ hubTrip[u].driver = s.driver => s.driver \in shared
          /\ hubTrip[u].orders \cap valid \subseteq shared
    <3> SUFFICES ASSUME NEW u \in Planning!ActiveTrips
                 PROVE  /\ u \in HubTrip
                        /\ hubTrip[u].vehicle = s.vehicle => s.vehicle \in shared
                        /\ hubTrip[u].driver = s.driver => s.driver \in shared
                        /\ hubTrip[u].orders \cap valid \subseteq shared
      OBVIOUS
    <3>1. u \in HubTrip /\ u \in Planning!ActiveTripsOf(hubTrip[u].vehicle)
          /\ u \in Planning!ActiveTripsOf(hubTrip[u].driver)
      BY DEF Planning!ActiveTripsOf, Planning!ActiveTrips
    <3> QED
      BY <1>11, <1>12, <3>1
  <2>2. \A u \in Planning!ActiveTrips' :
          Planning!Within(Planning!Total(hubTrip'[u].orders), Capacity[hubTrip'[u].vehicle])
    BY <1>8 DEF PlanFits
  <2>3. ASSUME NEW u \in Planning!ActiveTrips', NEW w \in Planning!ActiveTrips', u # w
        PROVE  /\ hubTrip'[u].vehicle = hubTrip'[w].vehicle => hubTrip'[u].vehicle \in shared
               /\ hubTrip'[u].driver = hubTrip'[w].driver => hubTrip'[u].driver \in shared
               /\ hubTrip'[u].orders \cap hubTrip'[w].orders \subseteq shared
    <3>1. CASE u = t
      <4>1. w \in Planning!ActiveTrips /\ hubTrip'[w] = hubTrip[w] /\ hubTrip'[u] = n
        BY <1>8, <1>10, <2>3, <3>1
      <4> QED
        BY <1>5, <2>1, <4>1
    <3>2. CASE w = t
      <4>1. u \in Planning!ActiveTrips /\ hubTrip'[u] = hubTrip[u] /\ hubTrip'[w] = n
        BY <1>8, <1>10, <2>3, <3>2
      <4> QED
        BY <1>5, <2>1, <4>1
    <3>3. CASE u # t /\ w # t
      <4>1. /\ u \in Planning!ActiveTrips /\ hubTrip'[u] = hubTrip[u]
            /\ w \in Planning!ActiveTrips /\ hubTrip'[w] = hubTrip[w]
        BY <1>8, <1>10, <3>3
      <4> QED
        BY <2>3, <4>1 DEF PlanInv, Planning!ApprovalSound
    <3> QED
      BY <3>1, <3>2, <3>3
  <2> QED
    BY <1>2, <2>2, <2>3 DEF Planning!ApprovalSound
<1> QED
  BY <1>17, <1>18, <1>19, <1>20, <1>21, <1>22, <1>23 DEF PlanInv

LEMMA BoardReadKeeps ==
  ASSUME PlanInv, Planning!BoardRead
  PROVE  PlanInv'
<1>1. PICK q \in Planning!BoardQuery \ DOMAIN board : board' = Planning!Read(board, q)
  BY DEF Planning!BoardRead
<1>2. UNCHANGED <<hubOrder, hubTrip, screen, changedHub, desk, shared>>
  BY DEF Planning!BoardRead
<1>3. Planning!ReadsOf(board, Planning!BoardQuery)
  BY DEF PlanInv, PlanTyped, Planning!TypeOK
<1>4. /\ DOMAIN board' = DOMAIN board \cup {q} /\ DOMAIN board' \subseteq Planning!BoardQuery
      /\ board'[q] = Planning!Answer(q) /\ \A p \in DOMAIN board : p # q => board'[p] = board[p]
      /\ Planning!Answer("vehicles") = Planning!Free(Planning!Vehicle)
      /\ Planning!Answer("orders") = Planning!Waiting
      /\ Planning!Answer("drivers") = Planning!Free(HubDriver)
      /\ Planning!Answer("trips") =
           {hubTrip[t] : t \in {u \in HubTrip : hubTrip[u].status = "PENDING"}}
      /\ Planning!Answer(q) \subseteq Planning!Order \cup Planning!Vehicle \cup HubDriver
                                        \cup Planning!TripRow
  <2>1. PICK next : next = Planning!Read(board, q)
    OBVIOUS
  <2>2. DOMAIN board \subseteq Planning!BoardQuery /\ PlanTyped
    BY <1>3 DEF Planning!ReadsOf, PlanInv
  <2> QED
    BY <1>1, <2>1, <2>2, ReadTyped
<1>5. Planning!ReadsOf(board', Planning!BoardQuery)
  BY <1>3, <1>4 DEF Planning!ReadsOf
<1>6. Planning!TypeOK'
  BY <1>2, <1>5 DEF PlanInv, PlanTyped, Planning!TypeOK, Planning!ReadsOf
<1>7. PlanTyped'
  BY <1>2, <1>6 DEF PlanInv, PlanTyped, Planning!ActiveTrips
<1>8. SharingNoted'
  BY <1>2 DEF PlanInv, SharingNoted, Planning!Subject
<1>9. \A o \in Planning!Order : OrderPlaced(o)'
  BY <1>2 DEF PlanInv, OrderPlaced, Planning!ActiveTrips
<1>10. \A g \in Clerk : Ready(desk[g])'
  BY <1>2 DEF PlanInv, Ready, Planning!ActiveTripsOf, Planning!ActiveTrips, Planning!Waiting
<1>11. BoardCurrent'
  <2>1. /\ Planning!Waiting' = Planning!Waiting
        /\ Planning!Free(Planning!Vehicle)' = Planning!Free(Planning!Vehicle)
        /\ Planning!Free(HubDriver)' = Planning!Free(HubDriver)
        /\ \A o : PlannedRows(o)' = PlannedRows(o)
    BY <1>2 DEF Planning!Waiting, Planning!Free, Planning!ActiveTripsOf, Planning!ActiveTrips,
                PlannedRows
  <2>2. BoardCurrent
    BY DEF PlanInv
  <2>3. "orders" \in DOMAIN board' =>
          \A o \in Planning!Order \ changedHub : o \in board'["orders"] <=> o \in Planning!Waiting
    BY <1>4, <2>2 DEF BoardCurrent
  <2>4. "vehicles" \in DOMAIN board' =>
          \A x \in (Planning!Vehicle \cup HubDriver) \ changedHub :
            x \in board'["vehicles"] <=> x \in Planning!Free(Planning!Vehicle)
    BY <1>4, <2>2 DEF BoardCurrent
  <2>5. "drivers" \in DOMAIN board' =>
          \A x \in (Planning!Vehicle \cup HubDriver) \ changedHub :
            x \in board'["drivers"] <=> x \in Planning!Free(HubDriver)
    BY <1>4, <2>2 DEF BoardCurrent
  <2>6. ASSUME "trips" \in DOMAIN board', NEW o \in Planning!Order \ changedHub
        PROVE  {row \in board'["trips"] : o \in row.orders} = PlannedRows(o)
    <3>1. CASE q = "trips"
      <4>1. board'["trips"]
              = {hubTrip[t] : t \in {u \in HubTrip : hubTrip[u].status = "PENDING"}}
        BY <1>4, <3>1
      <4> QED
        BY <4>1 DEF PlannedRows
    <3>2. CASE q # "trips"
      <4>1. "trips" \in DOMAIN board /\ board'["trips"] = board["trips"]
        BY <1>4, <2>6, <3>2
      <4> QED
        BY <2>2, <4>1 DEF BoardCurrent
    <3> QED
      BY <3>1, <3>2
  <2> QED
    BY <1>2, <2>1, <2>3, <2>4, <2>5, <2>6 DEF BoardCurrent
<1>12. Planning!PreviewSound' /\ Planning!ApprovalSound'
  BY <1>2 DEF PlanInv, Planning!PreviewSound, Planning!ApprovalSound, Planning!ActiveTrips
<1> QED
  BY <1>7, <1>8, <1>9, <1>10, <1>11, <1>12 DEF PlanInv

LEMMA BoardCloseKeeps ==
  ASSUME PlanInv, Planning!BoardClose
  PROVE  PlanInv'
<1>1. /\ board' = Planning!NoReads /\ changedHub' = {}
      /\ UNCHANGED <<hubOrder, hubTrip, screen, desk, shared>>
  BY DEF Planning!BoardClose
<1>2. DOMAIN board' = {}
  BY <1>1 DEF Planning!NoReads
<1>3. Planning!TypeOK'
  BY <1>1, <1>2 DEF PlanInv, PlanTyped, Planning!TypeOK, Planning!ReadsOf
<1>4. PlanTyped'
  BY <1>1, <1>3 DEF PlanInv, PlanTyped, Planning!ActiveTrips
<1>5. SharingNoted'
  BY <1>1 DEF PlanInv, SharingNoted, Planning!Subject
<1>6. \A o \in Planning!Order : OrderPlaced(o)'
  BY <1>1 DEF PlanInv, OrderPlaced, Planning!ActiveTrips
<1>7. \A g \in Clerk : Ready(desk[g])'
  BY <1>1 DEF PlanInv, Ready, Planning!ActiveTripsOf, Planning!ActiveTrips, Planning!Waiting
<1>8. BoardCurrent'
  BY <1>2 DEF BoardCurrent
<1>9. Planning!PreviewSound' /\ Planning!ApprovalSound'
  BY <1>1 DEF PlanInv, Planning!PreviewSound, Planning!ApprovalSound, Planning!ActiveTrips
<1> QED
  BY <1>4, <1>5, <1>6, <1>7, <1>8, <1>9 DEF PlanInv

LEMMA PlanInit == Planning!Init => PlanInv
<1> SUFFICES ASSUME Planning!Init PROVE PlanInv
  OBVIOUS
<1>1. /\ hubOrder = [o \in Planning!Order |-> [status |-> "WAITING", trip |-> NoTrip]]
      /\ hubTrip = [t \in HubTrip |-> Planning!NoRow]
      /\ screen = [suggestions |-> {}, unassigned |-> {}, drivers |-> {}]
      /\ board = Planning!NoReads /\ changedHub = {}
      /\ desk = [h \in Clerk |-> Planning!Idle] /\ shared = {}
  BY DEF Planning!Init
<1>2. Planning!ActiveTrips = {}
  BY <1>1 DEF Planning!ActiveTrips
<1>3. DOMAIN board = {}
  BY <1>1 DEF Planning!NoReads
<1>4. screen.suggestions = {} /\ screen \in Planning!Preview
  BY <1>1 DEF Planning!Preview
<1>5. \A h \in Clerk : desk[h] = Planning!Idle /\ DeskTyped(desk[h])
  BY <1>1 DEF DeskTyped
<1>6. Planning!TypeOK
  BY <1>1, <1>3, <1>4, <1>5, DeskShape DEF Planning!TypeOK, Planning!TripRow, Planning!ReadsOf
<1>7. PlanTyped
  BY <1>1, <1>2, <1>4, <1>5, <1>6 DEF PlanTyped
<1>8. \A h \in Clerk : Planning!Subject(desk[h]) = {} /\ Ready(desk[h])
  <2>1. \A h \in Clerk : desk[h].op = "idle"
    <3>1. Planning!Idle.op = "idle"
      BY DEF Planning!Idle
    <3> QED
      BY <1>5, <3>1
  <2> QED
    BY <2>1 DEF Planning!Subject, Ready
<1>9. SharingNoted
  BY <1>8 DEF SharingNoted
<1>10. \A o \in Planning!Order : OrderPlaced(o)
  BY <1>1, <1>2 DEF OrderPlaced
<1>11. BoardCurrent
  BY <1>3 DEF BoardCurrent
<1>12. Planning!PreviewSound /\ Planning!ApprovalSound
  BY <1>2, <1>4 DEF Planning!PreviewSound, Planning!ApprovalSound
<1> QED
  BY <1>7, <1>8, <1>9, <1>10, <1>11, <1>12 DEF PlanInv

LEMMA PlanStep ==
  ASSUME Planning!ParametersOK, PlanInv, [Planning!Next]_Planning!vars
  PROVE  PlanInv'
<1>1. CASE UNCHANGED Planning!vars
  BY <1>1 DEF Planning!vars, PlanInv, PlanTyped, Planning!TypeOK, Planning!ActiveTrips,
         Planning!ReadsOf, SharingNoted, Planning!Subject, OrderPlaced, Ready,
         Planning!ActiveTripsOf, Planning!Waiting, Planning!Free, BoardCurrent, PlannedRows,
         Planning!PreviewSound, Planning!ApprovalSound
<1>2. ASSUME NEW h \in Clerk,
             \/ Planning!PreviewBegin(h) \/ Planning!PreviewRead(h)
             \/ Planning!PreviewAnswer(h) \/ Planning!ApproveCheck(h)
             \/ Planning!ApproveRequery(h) \/ Planning!BreakOff(h)
      PROVE  PlanInv'
  BY <1>2, PreviewBeginKeeps, PreviewReadKeeps, PreviewAnswerKeeps, ApproveCheckKeeps,
     ApproveRequeryKeeps, BreakOffKeeps
<1>3. ASSUME NEW h \in Clerk, NEW s \in screen.suggestions, Planning!ApproveBegin(h, s)
      PROVE  PlanInv'
  BY <1>3, ApproveBeginKeeps
<1>4. ASSUME NEW h \in Clerk, NEW t \in HubTrip, Planning!ApproveWrite(h, t)
      PROVE  PlanInv'
  BY <1>4, ApproveWriteKeeps
<1>5. CASE Planning!BoardRead
  BY <1>5, BoardReadKeeps
<1>6. CASE Planning!BoardClose
  BY <1>6, BoardCloseKeeps
<1>7. ASSUME NEW t \in HubTrip,
             Planning!StartTrip(t) \/ Planning!CompleteTrip(t) \/ Planning!CancelTrip(t)
      PROVE  PlanInv'
  BY <1>7, StartTripKeeps, CompleteTripKeeps, CancelTripKeeps
<1>8. ASSUME NEW o \in Planning!Order, Planning!CancelOrder(o)
      PROVE  PlanInv'
  BY <1>8, CancelOrderKeeps
<1> QED
  BY <1>1, <1>2, <1>3, <1>4, <1>5, <1>6, <1>7, <1>8 DEF Planning!Next

\* What the invariant says of a complete board.
LEMMA BoardShown == PlanInv /\ Planning!ParametersOK => Planning!BoardCoherent
<1> SUFFICES ASSUME PlanInv, Planning!ParametersOK, DOMAIN board = Planning!BoardQuery
             PROVE  Planning!BoardCoherent
  BY DEF Planning!BoardCoherent
<1>0. {"vehicles", "orders", "drivers", "trips"} \subseteq DOMAIN board /\ NoTrip \notin HubTrip
  BY PlanParameters DEF Planning!BoardQuery, Planning!Query
<1>1. ASSUME NEW o \in Planning!Order \ (changedHub \cup shared)
      PROVE  LET on == {row \in board["trips"] : o \in row.orders}
             IN /\ o \in board["orders"] => on = {}
                /\ hubOrder[o].status = "WAITING" <=> o \in board["orders"]
                /\ hubOrder[o].status = "ASSIGNED" => on = {hubTrip[hubOrder[o].trip]}
  <2>1. /\ {row \in board["trips"] : o \in row.orders} = PlannedRows(o)
        /\ o \in board["orders"] <=> o \in Planning!Waiting
    BY <1>0 DEF PlanInv, BoardCurrent
  <2>2. OrderPlaced(o) /\ (o \in Planning!Waiting <=> hubOrder[o].status = "WAITING")
    BY OrderShape
  <2>3. \A u \in HubTrip : hubTrip[u].status = "PENDING" => u \in Planning!ActiveTrips
    BY DEF Planning!ActiveTrips, Planning!NoRow
  <2>4. \A u \in HubTrip : hubTrip[u].status = "PENDING" /\ o \in hubTrip[u].orders
                             => u = hubOrder[o].trip
    BY <2>2, <2>3 DEF OrderPlaced
  <2>5. o \in Planning!Waiting => PlannedRows(o) = {}
    BY <1>0, <2>2, <2>4 DEF OrderPlaced, PlannedRows
  <2>6. hubOrder[o].status = "ASSIGNED" => PlannedRows(o) = {hubTrip[hubOrder[o].trip]}
    <3>1. hubOrder[o].status = "ASSIGNED" =>
            /\ hubOrder[o].trip \in HubTrip /\ hubTrip[hubOrder[o].trip].status = "PENDING"
            /\ o \in hubTrip[hubOrder[o].trip].orders
      BY <2>2 DEF OrderPlaced, Planning!ActiveTrips
    <3> QED
      BY <2>4, <3>1 DEF PlannedRows
  <2> QED
    BY <2>1, <2>2, <2>5, <2>6
<1>2. ASSUME NEW x \in (Planning!Vehicle \cup HubDriver) \ changedHub
      PROVE  x \in board["vehicles"] \cup board["drivers"] <=> Planning!ActiveTripsOf(x) = {}
  <2>1. /\ x \in board["vehicles"] <=> x \in Planning!Free(Planning!Vehicle)
        /\ x \in board["drivers"] <=> x \in Planning!Free(HubDriver)
    BY <1>0 DEF PlanInv, BoardCurrent
  <2> QED
    BY <2>1 DEF Planning!Free
<1> QED
  BY <1>1, <1>2 DEF Planning!BoardCoherent

--------------------------------------------------------------------------------
(***************************************************************************)
(* The theorems about planning.                                            *)
(***************************************************************************)

\* A preview is sound whatever it read and at whatever moments: nothing is suggested twice,
\* every load is within its vehicle, and nothing left over would still fit beside one.
THEOREM PreviewSoundSafe ==
  ASSUME Planning!ParametersOK
  PROVE  Planning!Spec => []PreviewSound
<1>1. Planning!Init => PlanInv
  BY PlanInit
<1>2. PlanInv /\ [Planning!Next]_Planning!vars => PlanInv'
  BY PlanStep
<1>3. PlanInv => PreviewSound
  BY DEF PlanInv, PreviewSound
<1> QED
  BY <1>1, <1>2, <1>3, PTL DEF Planning!Spec

\* However old the preview an approval comes from: no trip is overloaded, and only what
\* approvals in flight share can end on two active trips.
THEOREM ApprovalSoundSafe ==
  ASSUME Planning!ParametersOK
  PROVE  Planning!Spec => []ApprovalSound
<1>1. Planning!Init => PlanInv
  BY PlanInit
<1>2. PlanInv /\ [Planning!Next]_Planning!vars => PlanInv'
  BY PlanStep
<1>3. PlanInv => ApprovalSound
  BY DEF PlanInv, ApprovalSound
<1> QED
  BY <1>1, <1>2, <1>3, PTL DEF Planning!Spec

\* The four answers of a board may be of four moments: of what did not change meanwhile
\* they tell one story.
THEOREM BoardCoherentSafe ==
  ASSUME Planning!ParametersOK
  PROVE  Planning!Spec => []BoardCoherent
<1>1. Planning!Init => PlanInv
  BY PlanInit
<1>2. PlanInv /\ [Planning!Next]_Planning!vars => PlanInv'
  BY PlanStep
<1>3. PlanInv => BoardCoherent
  BY BoardShown DEF BoardCoherent
<1> QED
  BY <1>1, <1>2, <1>3, PTL DEF Planning!Spec

--------------------------------------------------------------------------------
\* Every variable of the three has its type, whichever of them moves.
THEOREM ScreensTypeCorrect ==
  ASSUME Planning!ParametersOK, Updates!ParametersOK, Rooms!ParametersOK
  PROVE  ScreensSpec => []ScreensTypeOK
<1> DEFINE Inv == PlanInv /\ UpdatesInv /\ RoomsInv
           Vars == <<planningVars, updatesVars, roomsVars>>
<1>1. ScreensInit => Inv
  BY PlanInit, UpdatesInit, RoomsInit DEF ScreensInit
<1>2. Inv /\ [PlanningMove \/ UpdatesMove \/ RoomsMove]_Vars => Inv'
  <2> SUFFICES ASSUME Inv, [PlanningMove \/ UpdatesMove \/ RoomsMove]_Vars PROVE Inv'
    OBVIOUS
  <2>1. [Planning!Next]_Planning!vars
    BY DEF PlanningMove, UpdatesMove, RoomsMove, planningVars, Planning!vars
  <2>2. [Updates!Next]_Updates!vars
    BY DEF PlanningMove, UpdatesMove, RoomsMove, updatesVars, Updates!vars
  <2>3. [Rooms!Next]_Rooms!vars
    BY DEF PlanningMove, UpdatesMove, RoomsMove, roomsVars, Rooms!vars
  <2> QED
    BY <2>1, <2>2, <2>3, PlanStep, UpdatesStep, RoomsStep
<1>3. Inv => ScreensTypeOK
  BY DEF ScreensTypeOK, PlanInv, PlanTyped, UpdatesInv, UpdatesTyped, RoomsInv, RoomsTyped
<1> QED
  BY <1>1, <1>2, <1>3, PTL DEF ScreensSpec
================================================================================

------------------------------- MODULE Workforce -------------------------------
(***************************************************************************)
(* Who works for which hub: the requests by which a customer becomes a     *)
(* driver or a member of the staff, the decisions of the administrators,   *)
(* and the hubs people are put into and taken out of; and the hub a new    *)
(* order is given to, which is picked from a cached list of the hubs.      *)
(*                                                                         *)
(* Administrators are left out: they send no requests, and any of them may *)
(* decide one.  Which hub is the nearest is left open.  A notification is  *)
(* written after the decision, and an error of it is swallowed.            *)
(***************************************************************************)
EXTENDS Integers, Sequences, FiniteSets

CONSTANTS
  Handler,     \* requests in flight at a time
  Person, Hub,
  NoHub,
  MaxRequests, \* bound on the role requests
  MaxOrders    \* bound on the orders

ASSUME NoHubAssumption == NoHub \notin Hub
ASSUME BoundAssumption == MaxRequests \in Nat /\ MaxOrders \in Nat

VARIABLES
  person,    \* per person: role and hubId
  hub,       \* per hub: whether it is there, active or deleted
  changes,   \* how many times a hub was made or deleted
  request,   \* the rows of role_requests
  told,      \* per request: the decisions its requester was notified of
  left,      \* history: people whose last change of hub was to leave the one they had
  cache,     \* the list of hubs in the cache
  placed,    \* the orders: the hub of each, and the list it was picked from
  task,      \* per handler: what its request holds between two awaits
  contended  \* history: people, and whether requests about their role or their hub
             \* overlapped

hubVars == <<hub, changes>>
orderVars == <<cache, placed>>
vars == <<person, hubVars, request, told, left, orderVars, task, contended>>

TargetRole == {"DRIVER", "WAREHOUSE_STAFF"}
Request == 1..MaxRequests
Member == [role : TargetRole \cup {"CUSTOMER"}, hub : Hub \cup {NoHub}]
RoleRequest == [requester : Person, target : TargetRole, hub : Hub \cup {NoHub},
                status : {"PENDING", "APPROVED", "REJECTED"}]
NoList == [hubs |-> {}, at |-> -1]
HubList == {NoList} \cup [hubs : SUBSET Hub, at : Nat]
Placed == [hub : Hub \cup {NoHub}, at : Nat, open : SUBSET Hub, changes : Nat]

Idle == [op |-> "idle"]
Task ==
  {Idle}
    \cup [op : {"submit"}, person : Person, target : TargetRole, hub : Hub]
    \cup [op : {"approve"}, request : Request, person : Person, hub : Hub]
    \cup [op : {"reject"}, request : Request, person : Person]
    \cup [op : {"tell"}, request : Request, person : Person,
          status : {"APPROVED", "REJECTED"}]
    \cup [op : {"assign", "remove"}, person : Person, role : TargetRole, hub : Hub]
    \cup [op : {"delete"}, hub : Hub]
    \cup [op : {"list"}, hubs : SUBSET Hub, at : Nat]
    \cup [op : {"place"}, hub : Hub \cup {NoHub}, at : Nat]

TypeOK ==
  /\ person \in [Person -> Member]
  /\ hub \in [Hub -> {"absent", "active", "deleted"}]
  /\ changes \in Nat
  /\ request \in Seq(RoleRequest) /\ Len(request) <= MaxRequests
  /\ told \in [Request -> SUBSET {"APPROVED", "REJECTED"}]
  /\ left \subseteq Person
  /\ cache \in HubList
  /\ placed \in Seq(Placed)
  /\ task \in [Handler -> Task]
  /\ contended \subseteq {"role", "hub"} \X Person

Init ==
  /\ person = [p \in Person |-> [role |-> "CUSTOMER", hub |-> NoHub]]
  /\ hub \in [Hub -> {"absent", "active"}]
  /\ changes = 0
  /\ request = <<>>
  /\ told = [r \in Request |-> {}]
  /\ left = {}
  /\ cache = NoList
  /\ placed = <<>>
  /\ task = [h \in Handler |-> Idle]
  /\ contended = {}

\* What the requests in flight are about: an approval is about role and hub.
Subject(r) ==
  CASE r.op \in {"submit", "reject"} -> {<<"role", r.person>>}
    [] r.op \in {"assign", "remove"} -> {<<"hub", r.person>>}
    [] r.op = "approve" -> {"role", "hub"} \X {r.person}
    [] OTHER -> {}

\* A request arrives and has read what it decides on; it holds r until it goes on.
Begin(h, r) ==
  /\ task[h] = Idle
  /\ task' = [task EXCEPT ![h] = r]
  /\ contended' = contended \cup (Subject(r) \cap UNION {Subject(task[g]) : g \in Handler})

Continue(h, r) == task' = [task EXCEPT ![h] = r] /\ UNCHANGED contended
Op(h, op) == task[h].op = op

--------------------------------------------------------------------------------
(***************************************************************************)
(* Role requests.                                                          *)
(***************************************************************************)

\* findActiveHubById.
OpenHub == {b \in Hub : hub[b] = "active"}

\* findPendingByRequesterId.
PendingOf(p) == {r \in DOMAIN request : request[r].requester = p
                                        /\ request[r].status = "PENDING"}

\* create, up to its decision.
SubmittableAgain(p, role) == person[p].role # role  \* mutant
Submittable(p, role) == person[p].role # role /\ PendingOf(p) = {}

SubmitBegin(h, p, role, b) ==
  /\ Submittable(p, role)
  /\ b \in OpenHub
  /\ Begin(h, [op |-> "submit", person |-> p, target |-> role, hub |-> b])
  /\ UNCHANGED <<person, hubVars, request, told, left, orderVars>>

\* createRoleRequest.
SubmitWrite(h) ==
  /\ Op(h, "submit")
  /\ Len(request) < MaxRequests
  /\ LET r == task[h]
     IN request' = Append(request, [requester |-> r.person, target |-> r.target,
                                    hub |-> r.hub, status |-> "PENDING"])
  /\ Continue(h, Idle)
  /\ UNCHANGED <<person, hubVars, told, left, orderVars>>

\* The transactions of approve and reject read the request, and the first one a hub:
\* the one of the body, or else the one of the request.
DecidableAny(r) == r \in DOMAIN request  \* mutant
Decidable(r) == r \in DOMAIN request /\ request[r].status = "PENDING"

ApproveBegin(h, r, b) ==
  /\ Decidable(r)
  /\ b \in OpenHub
  /\ Begin(h, [op |-> "approve", request |-> r, person |-> request[r].requester,
               hub |-> b])
  /\ UNCHANGED <<person, hubVars, request, told, left, orderVars>>

DecideTellRead(h, status, b) ==  \* mutant
  LET r == task[h].request
  IN /\ request' = [request EXCEPT ![r] = [@ EXCEPT !.status = status, !.hub = b]]
     /\ Continue(h, [op |-> "tell", request |-> r, person |-> task[h].person,
                     status |-> request[r].status])

\* updateRoleRequest by id; the notification carries the decision.
Decide(h, status, b) ==
  LET r == task[h].request
  IN /\ request' = [request EXCEPT ![r] = [@ EXCEPT !.status = status, !.hub = b]]
     /\ Continue(h, [op |-> "tell", request |-> r, person |-> task[h].person,
                     status |-> status])

\* updateUserRole: the hub is cleared for roles that have none.
HubForStaff(role, b) == IF role = "WAREHOUSE_STAFF" THEN b ELSE NoHub  \* mutant
HubFor(role, b) == IF role \in TargetRole THEN b ELSE NoHub

\* What approve commits, whatever the request has become.
ApproveWrite(h) ==
  /\ Op(h, "approve")
  /\ LET p == task[h].person
         role == request[task[h].request].target
         b == HubFor(role, task[h].hub)
     IN /\ person' = [person EXCEPT ![p] = [role |-> role, hub |-> b]]
        /\ left' = left \ {p}
        /\ Decide(h, "APPROVED", b)
  /\ UNCHANGED <<hubVars, told, orderVars>>

RejectBegin(h, r) ==
  /\ Decidable(r)
  /\ Begin(h, [op |-> "reject", request |-> r, person |-> request[r].requester])
  /\ UNCHANGED <<person, hubVars, request, told, left, orderVars>>

\* What reject commits, whatever the request has become.
RejectWrite(h) ==
  /\ Op(h, "reject")
  /\ Decide(h, "REJECTED", NoHub)
  /\ UNCHANGED <<person, hubVars, told, left, orderVars>>

\* createRoleRequestReviewedNotification.
Tell(h) ==
  /\ Op(h, "tell")
  /\ told' = [told EXCEPT ![task[h].request] = @ \cup {task[h].status}]
  /\ Continue(h, Idle)
  /\ UNCHANGED <<person, hubVars, request, left, orderVars>>

--------------------------------------------------------------------------------
(***************************************************************************)
(* Hubs.  A hub is looked up without regard to its deletion.               *)
(***************************************************************************)

Exists(b) == hub[b] # "absent"

\* HubService.create; delete, of a hub that may be deleted already.
CreateHub(b) ==
  /\ ~Exists(b)
  /\ hub' = [hub EXCEPT ![b] = "active"]
  /\ changes' = changes + 1
  /\ UNCHANGED <<person, request, told, left, orderVars, task, contended>>

DeleteHubBegin(h, b) ==
  /\ Exists(b)
  /\ Begin(h, [op |-> "delete", hub |-> b])
  /\ UNCHANGED <<person, hubVars, request, told, left, orderVars>>

DeleteHub(h) ==
  /\ Op(h, "delete")
  /\ LET b == task[h].hub
     IN /\ hub' = [hub EXCEPT ![b] = "deleted"]
        /\ changes' = IF b \in OpenHub THEN changes + 1 ELSE changes
  /\ Continue(h, Idle)
  /\ UNCHANGED <<person, request, told, left, orderVars>>

\* assignStaff and assignDriver: the role is the one the endpoint is for.
AssignBegin(h, p, role, b) ==
  /\ Exists(b)
  /\ person[p].role = role
  /\ Begin(h, [op |-> "assign", person |-> p, role |-> role, hub |-> b])
  /\ UNCHANGED <<person, hubVars, request, told, left, orderVars>>

AssignWrite(h) ==
  /\ Op(h, "assign")
  /\ LET p == task[h].person
     IN /\ person' = [person EXCEPT ![p].hub = task[h].hub]
        /\ left' = left \ {p}
  /\ Continue(h, Idle)
  /\ UNCHANGED <<hubVars, request, told, orderVars>>

\* removeStaff and removeDriver.
RemovableFromAny(p, role, b) == person[p].role = role  \* mutant
Removable(p, role, b) == person[p].role = role /\ person[p].hub = b

RemoveBegin(h, p, role, b) ==
  /\ Exists(b)
  /\ Removable(p, role, b)
  /\ Begin(h, [op |-> "remove", person |-> p, role |-> role, hub |-> b])
  /\ UNCHANGED <<person, hubVars, request, told, left, orderVars>>

\* hubId is cleared by id, whatever the person has become.
RemoveWrite(h) ==
  /\ Op(h, "remove")
  /\ LET p == task[h].person
     IN /\ person' = [person EXCEPT ![p].hub = NoHub]
        /\ left' = IF person[p] = [role |-> task[h].role, hub |-> task[h].hub]
                   THEN left \cup {p} ELSE left
  /\ Continue(h, Idle)
  /\ UNCHANGED <<hubVars, request, told, orderVars>>

--------------------------------------------------------------------------------
(***************************************************************************)
(* The hub of a new order.                                                 *)
(***************************************************************************)

\* What findNearestHubId may pick from a list.
Nearest(hubs) == IF hubs = {} THEN {NoHub} ELSE hubs

\* The list is in the cache, be it empty, or it is read from the table.
ListedAll == {b \in Hub : Exists(b)}  \* mutant
Listed == OpenHub

OrderBegin(h) ==
  /\ \/ /\ cache # NoList
        /\ \E b \in Nearest(cache.hubs) :
             Begin(h, [op |-> "place", hub |-> b, at |-> cache.at])
     \/ /\ cache = NoList
        /\ Begin(h, [op |-> "list", hubs |-> Listed, at |-> changes])
  /\ UNCHANGED <<person, hubVars, request, told, left, orderVars>>

\* The list that was read is put into the cache, over one that is newer perhaps.
OrderList(h) ==
  /\ Op(h, "list")
  /\ cache' = [hubs |-> task[h].hubs, at |-> task[h].at]
  /\ \E b \in Nearest(task[h].hubs) :
       Continue(h, [op |-> "place", hub |-> b, at |-> task[h].at])
  /\ UNCHANGED <<person, hubVars, request, told, left, placed>>

\* OrderRepository.create.
OrderPlace(h) ==
  /\ Op(h, "place")
  /\ Len(placed) < MaxOrders
  /\ placed' = Append(placed, [hub |-> task[h].hub, at |-> task[h].at, open |-> OpenHub,
                               changes |-> changes])
  /\ Continue(h, Idle)
  /\ UNCHANGED <<person, hubVars, request, told, left, cache>>

\* Five minutes are over.
ForgetList ==
  /\ cache # NoList
  /\ cache' = NoList
  /\ UNCHANGED <<person, hubVars, request, told, left, placed, task, contended>>

--------------------------------------------------------------------------------
\* The process dies, or what a request awaits throws: the request is gone.
BreakOff(h) ==
  /\ task[h] # Idle
  /\ Continue(h, Idle)
  /\ UNCHANGED <<person, hubVars, request, told, left, orderVars>>

Proceed(h) ==
  \/ SubmitWrite(h) \/ ApproveWrite(h) \/ RejectWrite(h) \/ Tell(h)
  \/ DeleteHub(h) \/ AssignWrite(h) \/ RemoveWrite(h)
  \/ OrderList(h) \/ OrderPlace(h) \/ BreakOff(h)

Next ==
  \/ \E h \in Handler : Proceed(h) \/ OrderBegin(h)
  \/ \E h \in Handler, p \in Person, role \in TargetRole, b \in Hub :
       \/ SubmitBegin(h, p, role, b)
       \/ AssignBegin(h, p, role, b)
       \/ RemoveBegin(h, p, role, b)
  \/ \E h \in Handler, r \in Request, b \in Hub : ApproveBegin(h, r, b)
  \/ \E h \in Handler, r \in Request : RejectBegin(h, r)
  \/ \E h \in Handler, b \in Hub : DeleteHubBegin(h, b)
  \/ \E b \in Hub : CreateHub(b)
  \/ ForgetList

Spec == Init /\ [][Next]_vars

--------------------------------------------------------------------------------
(***************************************************************************)
(* Properties.                                                             *)
(***************************************************************************)

Approved(p) == {r \in DOMAIN request : request[r].requester = p
                                       /\ request[r].status = "APPROVED"}

\* Unless requests about the role of a person overlapped, the table of requests tells how
\* the person came by it: it is the target of the last request that stands APPROVED,
\* whoever moves the person between hubs meanwhile. The person has one request to be
\* decided at most, and was told of no decision but the one that stands.
RoleWasApproved ==
  \A p \in Person : <<"role", p>> \notin contended =>
    /\ person[p].role =
         IF Approved(p) = {} THEN "CUSTOMER"
         ELSE request[CHOOSE r \in Approved(p) : \A s \in Approved(p) : s <= r].target
    /\ Cardinality(PendingOf(p)) <= 1
    /\ \A r \in DOMAIN request :
         request[r].requester = p => told[r] \subseteq {request[r].status}

\* Unless requests about the hub of a person overlapped, a driver or a member of the
\* staff is without one only after being taken out of the very hub that was named.
HublessWasRemoved ==
  \A p \in Person : <<"hub", p>> \notin contended =>
    (person[p].role # "CUSTOMER" /\ person[p].hub = NoHub => p \in left)

\* An order is given to a hub that is open, if there is one, unless a hub was made or
\* deleted after the list was read that the order was picked from.
OrderAtOpenHub ==
  \A n \in DOMAIN placed :
    placed[n].at = placed[n].changes =>
      IF placed[n].open = {} THEN placed[n].hub = NoHub
      ELSE placed[n].hub \in placed[n].open
================================================================================

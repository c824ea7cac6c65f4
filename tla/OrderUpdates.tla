------------------------------ MODULE OrderUpdates ------------------------------
(***************************************************************************)
(* What users are told about orders and requests: the tracking events of   *)
(* an order, its timeline, and the notifications that follow a change.     *)
(*                                                                         *)
(* A service commits a change, and only then emits an event whose listener *)
(* inserts one notification per recipient; an error of the listener is     *)
(* logged and forgotten.  Timeline and inbox are answered from two queries *)
(* each, with other requests between the two.                              *)
(*                                                                         *)
(* The handlers of trips, which write the status of an order and neither   *)
(* an event nor a notification, are one step here and the subject of       *)
(* TripLifecycle, as is what a delivery does to a trip.                    *)
(***************************************************************************)
EXTENDS Naturals, Sequences, FiniteSets, SequencesExt, OrderStates

CONSTANTS
  Handler,      \* requests in flight at a time
  Order, User,
  Customer,     \* per order: its customerId
  Review,       \* requests whose submission or review the role and assignment services tell
  Recipients,   \* per such request: who is told
  MaxAttempts,  \* MAX_DELIVERY_ATTEMPTS
  PageSize,     \* the limit of a page of the inbox
  PutStatuses,  \* the statuses PUT /orders/:id/status is called with in this instance
  MaxEvents,    \* bound on the events of an order
  MaxPuts       \* bound on the calls of PUT /orders/:id/status

\* What an instance assumes of its parameters.
ParametersOK ==
  /\ Customer \in [Order -> User] /\ Order \cap Review = {}
  /\ Recipients \in [Review -> SUBSET User]
  /\ PutStatuses \subseteq OrderStatus
  /\ MaxAttempts \in Nat /\ PageSize \in Nat \ {0}
  /\ MaxEvents \in Nat /\ MaxPuts \in Nat

VARIABLES
  status,     \* per order: its status, or "NONE" before it is created
  events,     \* per order: its tracking events
  inbox,      \* per user: his notifications, the oldest first
  page,       \* the two queries of an inbox that is being answered
  timeline,   \* the two queries of a timeline that is being answered
  task,       \* per handler: what its request holds between two awaits
  puts,       \* history, per order: the statuses PUT wrote
  told,       \* history: the reviews that were committed
  lost,       \* history: what was committed and will not be announced
  changed,    \* history: users whose inbox changed since the page was begun
  contended   \* history: orders whose EXCEPTION events overlapped

vars == <<status, events, inbox, page, timeline, task, puts, told, lost, changed, contended>>

Unset == "NONE"

(***************************************************************************)
(* What CreateTrackingEventSchema lets through, as far as it is told apart *)
(* here: SCAN, POD and ETA_UPDATE are NOTEs.  Any of these may carry a     *)
(* status, which then is not written.                                      *)
(***************************************************************************)
Event ==
  [type : {"STATUS_CHANGE"}, status : OrderStatus]
    \cup [type : {"NOTE"}, status : {"DELIVERED"}]
    \cup [type : {"EXCEPTION"}, status : {Unset}]

NotifiableStatuses == {"OUT_FOR_DELIVERY", "DELIVERED", "CANCELLED"}

\* A notification is of an order, and then of its creation or a status, or of a review.
Notice == [about : Order, kind : {"PENDING"} \cup NotifiableStatuses]
            \cup [about : Review, kind : {"REVIEW"}]
To(n) == IF n.about \in Order THEN {Customer[n.about]} ELSE Recipients[n.about]

Idle == [op |-> "idle"]
TaskOK(r) ==
  \/ r = Idle
  \/ r.op \in {"count", "write"} /\ r.order \in Order /\ r.event \in Event
  \/ r.op = "cancel" /\ r.order \in Order
  \/ r.op = "emit" /\ r.notice \in Notice
  \/ r.op = "mark" /\ r.user \in User /\ r.row \in Nat

TypeOK ==
  /\ status \in [Order -> OrderStatus \cup {Unset}]
  /\ \A o \in Order : events[o] \in Seq(Event)
  /\ \A u \in User : inbox[u] \in Seq([notice : Notice, read : BOOLEAN])
  /\ \/ page = Idle
     \/ /\ page.user \in User
        /\ page.rows = <<>> \/ page.rows[1] \in SUBSET Nat
        /\ page.total = <<>> \/ page.total[1] \in Nat
  /\ \/ timeline = Idle
     \/ timeline.order \in Order /\ timeline.status \in OrderStatus
  /\ \A h \in Handler : TaskOK(task[h])
  /\ puts \in [Order -> Seq(OrderStatus)]
  /\ told \subseteq Review
  /\ lost \subseteq Notice
  /\ changed \subseteq User
  /\ contended \subseteq Order

Init ==
  /\ status = [o \in Order |-> Unset]
  /\ events = [o \in Order |-> <<>>]
  /\ inbox = [u \in User |-> <<>>]
  /\ page = Idle
  /\ timeline = Idle
  /\ task = [h \in Handler |-> Idle]
  /\ puts = [o \in Order |-> <<>>]
  /\ told = {}
  /\ lost = {}
  /\ changed = {}
  /\ contended = {}

Op(h, op) == task[h].op = op
Begin(h, r) == task[h] = Idle /\ task' = [task EXCEPT ![h] = r]
Continue(h, r) == task' = [task EXCEPT ![h] = r]
Finish(h) == Continue(h, Idle)

Emit(o, kind) == [op |-> "emit", notice |-> [about |-> o, kind |-> kind]]

\* What a request that set the status of an order to s does next.
Announce(o, s) == IF s \in NotifiableStatuses THEN Emit(o, s) ELSE Idle

--------------------------------------------------------------------------------
(***************************************************************************)
(* Orders: POST /orders, PUT /orders/:id/status, PATCH /orders/:id/cancel, *)
(* and the handlers of trips.                                              *)
(***************************************************************************)

Create(h, o) ==
  /\ status[o] = Unset
  /\ Begin(h, Emit(o, "PENDING"))
  /\ status' = [status EXCEPT ![o] = "PENDING"]
  /\ UNCHANGED <<events, inbox, page, timeline, puts, told, lost, changed, contended>>

\* A status written without an event.
Put(h, o, s) ==
  /\ status[o] # Unset
  /\ Len(puts[o]) < MaxPuts
  /\ Begin(h, Announce(o, s))
  /\ status' = [status EXCEPT ![o] = s]
  /\ puts' = [puts EXCEPT ![o] = Append(@, s)]
  /\ UNCHANGED <<events, inbox, page, timeline, told, lost, changed, contended>>

CancelBegin(h, o) ==
  /\ status[o] \in CancellableStatuses
  /\ Begin(h, [op |-> "cancel", order |-> o])
  /\ UNCHANGED <<status, events, inbox, page, timeline, puts, told, lost, changed, contended>>

\* createEventWithStatusUpdate inserts the event and writes the status together.
Record(o, e, s) ==
  /\ Len(events[o]) < MaxEvents
  /\ events' = [events EXCEPT ![o] = Append(@, e)]
  /\ status' = [status EXCEPT ![o] = s]

CancelQuietly(h) ==  \* mutant
  /\ Op(h, "cancel")
  /\ LET o == task[h].order
     IN /\ status' = [status EXCEPT ![o] = "CANCELLED"]
        /\ Continue(h, Emit(o, "CANCELLED"))
  /\ UNCHANGED <<events, inbox, page, timeline, puts, told, lost, changed, contended>>
CancelWrite(h) ==
  /\ Op(h, "cancel")
  /\ LET o == task[h].order
     IN /\ Record(o, [type |-> "STATUS_CHANGE", status |-> "CANCELLED"], "CANCELLED")
        /\ Continue(h, Emit(o, "CANCELLED"))
  /\ UNCHANGED <<inbox, page, timeline, puts, told, lost, changed, contended>>

\* Dispatch, start and the return of an order to its hub.
Move(o) ==
  /\ \E s \in {"PENDING", "ASSIGNED", "IN_TRANSIT"} :
       /\ \/ s = "ASSIGNED" /\ status[o] \in DispatchableStatuses
          \/ s = "IN_TRANSIT" /\ status[o] \in StartableStatuses
          \/ s = "PENDING" /\ status[o] = "ASSIGNED"
       /\ status' = [status EXCEPT ![o] = s]
  /\ UNCHANGED <<events, inbox, page, timeline, task, puts, told, lost, changed, contended>>

--------------------------------------------------------------------------------
(***************************************************************************)
(* POST /tracking-events.                                                  *)
(***************************************************************************)

Failures(o) == Cardinality({i \in DOMAIN events[o] : events[o][i].type = "EXCEPTION"})

\* It reads the order and checks the step of a STATUS_CHANGE against its status.
TrackBegin(h, o, e) ==
  /\ status[o] # Unset
  /\ e.type = "STATUS_CHANGE" => e.status \in NextStatuses[status[o]]
  /\ Begin(h, [op |-> IF e.type = "EXCEPTION" THEN "count" ELSE "write",
               order |-> o, event |-> e])
  /\ UNCHANGED <<status, events, inbox, page, timeline, puts, told, lost, changed, contended>>

\* Are more failed attempts allowed after n?
AllowedOnceMore(n) == n <= MaxAttempts  \* mutant
Allowed(n) == n < MaxAttempts

\* countFailedAttempts; one attempt too many answers the request with an error.
TrackCount(h) ==
  /\ Op(h, "count")
  /\ Continue(h, IF Allowed(Failures(task[h].order))
                 THEN [task[h] EXCEPT !.op = "write"] ELSE Idle)
  /\ contended' = contended \cup
       {task[g].order : g \in {f \in Handler \ {h} : /\ Op(f, "write")
                                                     /\ task[f].event.type = "EXCEPTION"
                                                     /\ task[f].order = task[h].order}}
  /\ UNCHANGED <<status, events, inbox, page, timeline, puts, told, lost, changed>>

\* Is an event announced once it is recorded?
AnnouncedAny(e) == e.status \in NotifiableStatuses  \* mutant
Announced(e) == e.type = "STATUS_CHANGE" /\ e.status \in NotifiableStatuses

TrackWrite(h) ==
  /\ Op(h, "write")
  /\ LET o == task[h].order
         e == task[h].event
     IN /\ Record(o, e, IF e.type = "STATUS_CHANGE" THEN e.status ELSE status[o])
        /\ Continue(h, IF Announced(e) THEN Emit(o, e.status) ELSE Idle)
  /\ UNCHANGED <<inbox, page, timeline, puts, told, lost, changed, contended>>

--------------------------------------------------------------------------------
(***************************************************************************)
(* Notifications.                                                          *)
(***************************************************************************)

\* A role or assignment request is submitted or reviewed, by the services of Workforce
\* and DriverRequests.
TellReview(h, r) ==
  /\ r \notin told
  /\ Begin(h, [op |-> "emit", notice |-> [about |-> r, kind |-> "REVIEW"]])
  /\ told' = told \cup {r}
  /\ UNCHANGED <<status, events, inbox, page, timeline, puts, lost, changed, contended>>

\* emitSafe waits for the listener, whose createMany inserts a row per recipient at once.
DeliveredFirst(n) == {CHOOSE u \in To(n) : TRUE}  \* mutant
Delivered(n) == To(n)

Notify(h) ==
  /\ Op(h, "emit")
  /\ LET n == task[h].notice
     IN /\ inbox' = [u \in User |-> IF u \in Delivered(n)
                                    THEN Append(inbox[u], [notice |-> n, read |-> FALSE])
                                    ELSE inbox[u]]
        /\ changed' = IF page = Idle THEN {} ELSE changed \cup To(n)
  /\ Finish(h)
  /\ UNCHANGED <<status, events, page, timeline, puts, told, lost, contended>>

\* PATCH /notifications/:id/read finds the row of the user, then updates it.
MarkBegin(h, u, i) ==
  /\ i \in DOMAIN inbox[u]
  /\ Begin(h, [op |-> "mark", user |-> u, row |-> i])
  /\ UNCHANGED <<status, events, inbox, page, timeline, puts, told, lost, changed, contended>>

\* A row that is marked stays where it is; rows are only ever inserted.
Marked(u, S) ==
  /\ inbox' = [inbox EXCEPT ![u] = [i \in DOMAIN @ |->
       IF i \in S THEN [@[i] EXCEPT !.read = TRUE] ELSE @[i]]]
  /\ changed' = IF page = Idle THEN {} ELSE changed \cup {u}

MarkWrite(h) ==
  /\ Op(h, "mark")
  /\ Marked(task[h].user, {task[h].row})
  /\ Finish(h)
  /\ UNCHANGED <<status, events, page, timeline, puts, told, lost, contended>>

MarkAll(u) ==
  /\ Marked(u, DOMAIN inbox[u])
  /\ UNCHANGED <<status, events, page, timeline, task, puts, told, lost, contended>>

\* The rows of an inbox a query matches, and the page of them: the newest.
Matching(u, unread) == {i \in DOMAIN inbox[u] : unread => ~inbox[u][i].read}
Newest(S) == {i \in S : Cardinality({j \in S : j >= i}) <= PageSize}

\* GET /notifications, with or without isRead=false: findMany and count at once.
PageBegin(u, unread) ==
  /\ page = Idle
  /\ page' = [user |-> u, unread |-> unread, rows |-> <<>>, total |-> <<>>]
  /\ changed' = {}
  /\ UNCHANGED <<status, events, inbox, timeline, task, puts, told, lost, contended>>

CountedAll(u, unread) == Cardinality(DOMAIN inbox[u])  \* mutant
Counted(u, unread) == Cardinality(Matching(u, unread))

PageRead ==
  /\ page # Idle
  /\ \/ /\ page.rows = <<>>
        /\ page' = [page EXCEPT !.rows = <<Newest(Matching(page.user, page.unread))>>]
     \/ /\ page.total = <<>>
        /\ page' = [page EXCEPT !.total = <<Counted(page.user, page.unread)>>]
  /\ UNCHANGED <<status, events, inbox, timeline, task, puts, told, lost, changed, contended>>

PageClose ==
  /\ page # Idle
  /\ page' = Idle
  /\ changed' = {}
  /\ UNCHANGED <<status, events, inbox, timeline, task, puts, told, lost, contended>>

--------------------------------------------------------------------------------
(***************************************************************************)
(* getTimeline and getPublicTimeline: the status of the order, and then    *)
(* its events.                                                             *)
(***************************************************************************)

TimelineBegin(o) ==
  /\ timeline = Idle
  /\ status[o] # Unset
  /\ timeline' = [order |-> o, status |-> status[o], put |-> Range(puts[o]), events |-> <<>>]
  /\ UNCHANGED <<status, events, inbox, page, task, puts, told, lost, changed, contended>>

\* findByOrderId.
Found(o) == Range(events[o])

TimelineRead ==
  /\ timeline # Idle
  /\ timeline.events = <<>>
  /\ timeline' = [timeline EXCEPT !.events = <<Found(timeline.order)>>]
  /\ UNCHANGED <<status, events, inbox, page, task, puts, told, lost, changed, contended>>

TimelineClose ==
  /\ timeline # Idle
  /\ timeline' = Idle
  /\ UNCHANGED <<status, events, inbox, page, task, puts, told, lost, changed, contended>>

--------------------------------------------------------------------------------
\* The process dies or the database refuses: what was to be announced is not.
BreakOff(h) ==
  /\ task[h] # Idle
  /\ lost' = IF Op(h, "emit") THEN lost \cup {task[h].notice} ELSE lost
  /\ Finish(h)
  /\ UNCHANGED <<status, events, inbox, page, timeline, puts, told, changed, contended>>

Next ==
  \/ \E h \in Handler :
       \/ CancelWrite(h) \/ TrackCount(h) \/ TrackWrite(h) \/ Notify(h) \/ MarkWrite(h)
       \/ BreakOff(h)
       \/ \E o \in Order : Create(h, o) \/ CancelBegin(h, o)
       \/ \E o \in Order, s \in PutStatuses : Put(h, o, s)
       \/ \E o \in Order, e \in Event : TrackBegin(h, o, e)
       \/ \E r \in Review : TellReview(h, r)
       \/ \E u \in User : \E i \in DOMAIN inbox[u] : MarkBegin(h, u, i)
  \/ \E o \in Order : Move(o) \/ TimelineBegin(o)
  \/ \E u \in User : MarkAll(u) \/ \E unread \in BOOLEAN : PageBegin(u, unread)
  \/ PageRead \/ PageClose \/ TimelineRead \/ TimelineClose

Spec == Init /\ [][Next]_vars

--------------------------------------------------------------------------------
(***************************************************************************)
(* Properties.                                                             *)
(***************************************************************************)

\* How often a notice was due: what was committed and is to be announced.
Due(n) ==
  IF n.about \in Review THEN IF n.about \in told THEN 1 ELSE 0
  ELSE IF n.kind = "PENDING" THEN IF status[n.about] = Unset THEN 0 ELSE 1
  ELSE Cardinality({i \in DOMAIN puts[n.about] : puts[n.about][i] = n.kind})
       + Cardinality({i \in DOMAIN events[n.about] :
           events[n.about][i] = [type |-> "STATUS_CHANGE", status |-> n.kind]})
Sent(n, u) == Cardinality({i \in DOMAIN inbox[u] : inbox[u][i].notice = n})
Emitting(n) == Cardinality({h \in Handler : Op(h, "emit") /\ task[h].notice = n})

\* Every commit is announced at most once and to all its recipients or to none, just once
\* unless its request broke off, and nobody else hears of it.
NoticesAccounted ==
  \A n \in Notice, u \in User :
    LET sent == Sent(n, u) + Emitting(n)
    IN IF u \notin To(n) THEN Sent(n, u) = 0
       ELSE /\ sent <= Due(n)
            /\ n \notin lost => sent = Due(n)

\* No order gets more failed attempts than MAX_DELIVERY_ATTEMPTS, unless their events
\* overlap.
AttemptsLimited == \A o \in Order : o \in contended \/ Failures(o) <= MaxAttempts

UpdatesAccounted == NoticesAccounted /\ AttemptsLimited

\* A timeline has the event of the status it shows, where only an event could set it: the
\* status is read first, and is committed with its event.
TimelineCoherent ==
  timeline # Idle /\ timeline.events # <<>> =>
    \/ timeline.status \in {"PENDING", "ASSIGNED", "IN_TRANSIT"} \cup timeline.put
    \/ [type |-> "STATUS_CHANGE", status |-> timeline.status] \in timeline.events[1]

\* A page is the newest of as many notifications as are counted, unless the inbox changed
\* between the two queries.
PageCoherent ==
  page # Idle /\ page.rows # <<>> /\ page.total # <<>> /\ page.user \notin changed =>
    /\ Cardinality(page.rows[1]) <= page.total[1]
    /\ Cardinality(page.rows[1]) < page.total[1] => Cardinality(page.rows[1]) = PageSize

AnswersCoherent == TimelineCoherent /\ PageCoherent
================================================================================

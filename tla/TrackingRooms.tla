------------------------------ MODULE TrackingRooms -----------------------------
(***************************************************************************)
(* The tracking gateway: sockets that follow a trip in its room, and       *)
(* the positions its driver sends there.                                   *)
(*                                                                         *)
(* Who may follow a trip is read from the database, and the answer is kept *)
(* for TRACKING_ACCESS_CACHE_TTL_MS in a map of the process, refusals and  *)
(* trips that do not exist included.  Between the read and the answer of a *)
(* join the trip may change, an entry expire, another join store one, and  *)
(* the socket leave or close.                                              *)
(***************************************************************************)
EXTENDS Naturals, FiniteSets

CONSTANTS
  Socket,
  Account,   \* per socket: the user and the role in its token
  Trip,
  Driver,    \* per trip: the driver it gets when it is created
  TTL,       \* TRACKING_ACCESS_CACHE_TTL_MS
  MaxTime    \* bound on the clock

Customer == {Account[c].user : c \in {d \in Socket : Account[d].role = "CUSTOMER"}}

\* What an instance assumes of its parameters.
ParametersOK ==
  /\ \A c \in Socket : Account[c].role \in {"ADMIN", "WAREHOUSE_STAFF", "DRIVER", "CUSTOMER"}
  /\ TTL \in Nat /\ MaxTime \in Nat

VARIABLES
  now,     \* Date.now()
  trip,    \* per trip: does it exist, and the customers its stops have orders of
  socket,  \* per socket: is it closed, connecting or verified
  cache,   \* tripAccessCache: per user, role and trip [expiresAt, hasAccess], or NoEntry
  room,    \* per trip: the sockets in the room trip_N
  task,    \* per socket: the join or position that awaits the database
  flip,    \* history: when the access of a user in a role to a trip changed last
  joined,  \* history, per socket and trip: when the join began that let it in, or Never
  answer,  \* history: the join this step answered, and when it began
  heard    \* history: who received the position sent in this step, and of which trip

vars == <<now, trip, socket, cache, room, task, flip, joined, answer, heard>>

Time == 0..MaxTime
Never == MaxTime + TTL + 1
Viewer == {Account[c] : c \in Socket}
NoEntry == [expiresAt |-> 0, hasAccess |-> FALSE]
Idle == [op |-> "idle"]

TypeOK ==
  /\ now \in Time
  /\ trip \in [Trip -> [exists : BOOLEAN, buyers : SUBSET Customer]]
  /\ socket \in [Socket -> {"CLOSED", "CONNECTING", "VERIFIED"}]
  /\ \A v \in Viewer, t \in Trip : cache[<<v, t>>].hasAccess \in BOOLEAN
  /\ room \in [Trip -> SUBSET Socket]
  /\ \A c \in Socket :
       \/ task[c] = Idle
       \/ /\ task[c].op \in {"query", "join", "locate", "publish"}
          /\ task[c].trip \in Trip /\ task[c].began \in Time
  /\ flip \in [Viewer \X Trip -> Time]
  /\ joined \in [Socket \X Trip -> Time \cup {Never}]
  /\ heard \subseteq Socket \X Trip

Init ==
  /\ now = 0
  /\ trip = [t \in Trip |-> [exists |-> FALSE, buyers |-> {}]]
  /\ socket = [c \in Socket |-> "CLOSED"]
  /\ cache = [x \in Viewer \X Trip |-> NoEntry]
  /\ room = [t \in Trip |-> {}]
  /\ task = [c \in Socket |-> Idle]
  /\ flip = [x \in Viewer \X Trip |-> 0]
  /\ answer = Idle
  /\ joined = [x \in Socket \X Trip |-> Never]
  /\ heard = {}

Staff(v) == v.role \in {"ADMIN", "WAREHOUSE_STAFF"}

\* What the query of verifyTripAccess finds.
Access(v, t) ==
  /\ trip[t].exists
  /\ IF v.role = "DRIVER" THEN v.user = Driver[t] ELSE v.user \in trip[t].buyers

Silent == answer' = Idle /\ heard' = {}

Set(c, r) == task' = [task EXCEPT ![c] = r]
Op(c, op) == task[c].op = op

--------------------------------------------------------------------------------
(***************************************************************************)
(* The world around the gateway.                                           *)
(***************************************************************************)

\* An entry that has expired is as good as none.
Tick ==
  /\ now < MaxTime
  /\ now' = now + 1
  /\ cache' = [x \in Viewer \X Trip |->
       IF cache[x].expiresAt <= now + 1 THEN NoEntry ELSE cache[x]]
  /\ Silent
  /\ UNCHANGED <<trip, socket, room, task, flip, joined>>

\* A trip is created, or orders get stops on it or are taken off.
ChangeTrip(t, S) ==
  /\ trip[t] # [exists |-> TRUE, buyers |-> S]
  /\ trip' = [trip EXCEPT ![t] = [exists |-> TRUE, buyers |-> S]]
  /\ flip' = [x \in Viewer \X Trip |->
       IF x[2] = t /\ Access(x[1], t) # Access(x[1], t)' THEN now ELSE flip[x]]
  /\ Silent
  /\ UNCHANGED <<now, socket, cache, room, task, joined>>

--------------------------------------------------------------------------------
(***************************************************************************)
(* Connections.                                                            *)
(***************************************************************************)

\* A socket connects, and may send messages before its token has been verified. A new
\* connection is told apart from one that closed and left a handler behind.
Connect(c) ==
  /\ socket[c] = "CLOSED"
  /\ task[c] = Idle
  /\ socket' = [socket EXCEPT ![c] = "CONNECTING"]
  /\ Silent
  /\ UNCHANGED <<now, trip, cache, room, task, flip, joined>>

\* validateClient: the token is valid, and its payload becomes the user of the socket.
Verify(c) ==
  /\ socket[c] = "CONNECTING"
  /\ socket' = [socket EXCEPT ![c] = "VERIFIED"]
  /\ Silent
  /\ UNCHANGED <<now, trip, cache, room, task, flip, joined>>

\* The token is refused, or the socket goes away: socket.io takes it out of its rooms. A
\* handler of the socket that awaits the database goes on.
Close(c) ==
  /\ socket[c] # "CLOSED"
  /\ socket' = [socket EXCEPT ![c] = "CLOSED"]
  /\ room' = [t \in Trip |-> room[t] \ {c}]
  /\ joined' = [x \in Socket \X Trip |-> IF x[1] = c THEN Never ELSE joined[x]]
  /\ Silent
  /\ UNCHANGED <<now, trip, cache, task, flip>>

\* The process restarts with its map empty and no sockets.
Restart ==
  /\ socket' = [c \in Socket |-> "CLOSED"]
  /\ cache' = [x \in Viewer \X Trip |-> NoEntry]
  /\ room' = [t \in Trip |-> {}]
  /\ task' = [c \in Socket |-> Idle]
  /\ joined' = [x \in Socket \X Trip |-> Never]
  /\ Silent
  /\ UNCHANGED <<now, trip, flip>>

--------------------------------------------------------------------------------
(***************************************************************************)
(* joinTripTracking and leaveTripTracking.                                 *)
(***************************************************************************)

Key(v, t) == <<v, t>>

\* The answer to a join begun at a time: a socket that closed meanwhile joins nothing.
Admit(c, t, granted, began) ==
  /\ IF granted /\ socket[c] = "VERIFIED"
     THEN /\ room' = [room EXCEPT ![t] = @ \cup {c}]
          /\ joined' = [joined EXCEPT ![<<c, t>>] = began]
     ELSE UNCHANGED <<room, joined>>
  /\ answer' = [account |-> Account[c], trip |-> t, granted |-> granted, began |-> began]
  /\ heard' = {}
  /\ Set(c, Idle)

\* Staff and cached answers pass with no query.
JoinKnown(c, t) ==
  /\ socket[c] = "VERIFIED"
  /\ task[c] = Idle
  /\ LET v == Account[c]
         entry == cache[Key(v, t)]
     IN \/ Staff(v) /\ Admit(c, t, TRUE, now)
        \/ ~Staff(v) /\ entry.expiresAt > now /\ Admit(c, t, entry.hasAccess, now)
  /\ UNCHANGED <<now, trip, socket, cache, flip>>

JoinBegin(c, t) ==
  /\ socket[c] = "VERIFIED"
  /\ task[c] = Idle
  /\ ~Staff(Account[c])
  /\ cache[Key(Account[c], t)].expiresAt <= now
  /\ Set(c, [op |-> "query", trip |-> t, began |-> now])
  /\ Silent
  /\ UNCHANGED <<now, trip, socket, cache, room, flip, joined>>

JoinQuery(c) ==
  /\ Op(c, "query")
  /\ Set(c, [op |-> "join", trip |-> task[c].trip, began |-> task[c].began,
             granted |-> Access(Account[c], task[c].trip)])
  /\ Silent
  /\ UNCHANGED <<now, trip, socket, cache, room, flip, joined>>

\* When an answer that was asked for at a time expires: now was taken before the query.
ExpiryAnswered(began) == now + TTL  \* mutant
Expiry(began) == began + TTL

JoinAnswer(c) ==
  /\ Op(c, "join")
  /\ LET r == task[c]
     IN /\ cache' = [cache EXCEPT ![Key(Account[c], r.trip)] =
                       [expiresAt |-> Expiry(r.began), hasAccess |-> r.granted]]
        /\ Admit(c, r.trip, r.granted, r.began)
  /\ UNCHANGED <<now, trip, socket, flip>>

Leave(c, t) ==
  /\ socket[c] = "VERIFIED"
  /\ c \in room[t]
  /\ room' = [room EXCEPT ![t] = @ \ {c}]
  /\ joined' = [joined EXCEPT ![<<c, t>>] = Never]
  /\ Silent
  /\ UNCHANGED <<now, trip, socket, cache, task, flip>>

--------------------------------------------------------------------------------
(***************************************************************************)
(* driverLocationUpdate.                                                   *)
(***************************************************************************)

LocateBegin(c, t) ==
  /\ socket[c] = "VERIFIED"
  /\ task[c] = Idle
  /\ Account[c].role = "DRIVER"
  /\ Set(c, [op |-> "locate", trip |-> t, began |-> now])
  /\ Silent
  /\ UNCHANGED <<now, trip, socket, cache, room, flip, joined>>

\* The driver of the trip is read past the cache.
LocateQuery(c) ==
  /\ Op(c, "locate")
  /\ Set(c, IF Access(Account[c], task[c].trip)
            THEN [op |-> "publish", trip |-> task[c].trip, began |-> task[c].began]
            ELSE Idle)
  /\ Silent
  /\ UNCHANGED <<now, trip, socket, cache, room, flip, joined>>

\* The position goes to whoever is in the room, whatever the status of the trip.
AudienceAll(t) == {c \in Socket : socket[c] # "CLOSED"}  \* mutant
Audience(t) == room[t]

Publish(c) ==
  /\ Op(c, "publish")
  /\ heard' = {<<d, task[c].trip>> : d \in Audience(task[c].trip)}
  /\ answer' = Idle
  /\ Set(c, Idle)
  /\ UNCHANGED <<now, trip, socket, cache, room, flip, joined>>

Next ==
  \/ Tick \/ Restart
  \/ \E t \in Trip, S \in SUBSET Customer : ChangeTrip(t, S)
  \/ \E c \in Socket :
       \/ Connect(c) \/ Verify(c) \/ Close(c)
       \/ JoinQuery(c) \/ JoinAnswer(c) \/ LocateQuery(c) \/ Publish(c)
       \/ \E t \in Trip : JoinKnown(c, t) \/ JoinBegin(c, t) \/ Leave(c, t) \/ LocateBegin(c, t)

Spec == Init /\ [][Next]_vars

--------------------------------------------------------------------------------
(***************************************************************************)
(* Properties.                                                             *)
(***************************************************************************)

\* A join of a driver or customer, granted or refused, is answered by what was true no
\* longer than the time to live before it began: a cached answer never outlives it, however
\* long its query took and whatever other joins stored meanwhile.
AnswersFresh ==
  answer # Idle /\ ~Staff(answer.account) =>
    \/ answer.granted = Access(answer.account, answer.trip)
    \/ flip[<<answer.account, answer.trip>>] + TTL >= answer.began

\* Who hears a position is in the room, and if he has no access to the trip he lost it after
\* he joined, or no longer than the time to live before: nobody is put out of a room.
HeardEntitled ==
  \A x \in heard :
    LET v == Account[x[1]]
    IN Staff(v) \/ Access(v, x[2]) \/ flip[<<v, x[2]>>] + TTL >= joined[x]

RoomsSound == AnswersFresh /\ HeardEntitled
================================================================================

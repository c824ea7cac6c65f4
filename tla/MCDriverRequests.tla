---------------------------- MODULE MCDriverRequests ----------------------------
EXTENDS DriverRequests, TLC

CONSTANTS d1, d2, o1, o2, o3, t1, h1, h2

UnitWeight == [o \in Order |-> 1]

\* Three orders while one driver has asked, which is enough to overload the vehicle; two
\* when two requests for one of them are there.
Touched(o) ==
  \/ order[o].status # "open"
  \/ RequestsFor(o) # {}
  \/ \E t \in Trip : o \in StopOrders(stops[t])

FewOrders ==
  /\ Cardinality({o \in Order : Touched(o)}) <= 4 - Len(request)
  /\ Len(request) = 2 => request[1].order = request[2].order

\* Once all requests are decided, an order has left the hub or the trip is over, what is
\* under way comes to its end.
Over ==
  \/ request # <<>> /\ \A r \in DOMAIN request : Decided(r)
  \/ \E o \in Order : order[o].status = "away"
  \/ \E t \in Trip : trip[t].status = "CLOSED"
Ends ==
  Over =>
    /\ \E h \in Handler : task[h].op \in {"cancel", "reject", "add", "newTrip", "confirm"}
    /\ \A h \in Handler : task[h].op \notin {"create", "staffAdd", "pick", "requery"}

\* A trip has three stops. Of what the properties except for a collision there is one.
Bounded ==
  /\ FewOrders
  /\ Ends
  /\ \A t \in Trip : NextSeq(t) <= 4
  /\ Cardinality(contended) + Cardinality(shrunk) <= 1

Sym == Permutations({h1, h2}) \cup Permutations({o1, o2, o3}) \cup Permutations({d1, d2})
================================================================================

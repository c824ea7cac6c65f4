-------------------------------- MODULE MCScreens -------------------------------
EXTENDS Screens, Naturals, Sequences, FiniteSets, TLC

CONSTANTS
  o1, o2, v1, v2, d1, d2, t1, t2, h1, h2, o3, u1, u2, r1, c1, c2, c3, b1, d3, t3

TwoOrders == <<o1, o2>>
TwoVehicles == <<v1, v2>>
\* Both orders go into v1; v2 could bear the first but has no room for it.
OrderSize ==
  [o \in {o1, o2} |-> IF o = o1 THEN [weight |-> 1, volume |-> 2]
                      ELSE [weight |-> 1, volume |-> 1]]
VehicleCapacity ==
  [v \in {v1, v2} |-> IF v = v1 THEN [weight |-> 2, volume |-> 3]
                      ELSE [weight |-> 2, volume |-> 1]]

ToldCustomer == [o \in {o3} |-> u1]
ToldUsers == [r \in {r1} |-> {u1, u2}]

\* Two sockets of a customer, and one of the driver.
SocketAccount == [c \in {c1, c2, c3} |-> IF c = c3 THEN [user |-> d3, role |-> "DRIVER"]
                                        ELSE [user |-> b1, role |-> "CUSTOMER"]]
TripDriver == [t \in {t3} |-> d3]

ASSUME PlanningAssumption == Planning!ParametersOK
ASSUME UpdatesAssumption == Updates!ParametersOK
ASSUME RoomsAssumption == Rooms!ParametersOK

\* Who only reads does not disturb the others: one board or preview is put together at a
\* time, beside it an approval that is about to commit at most, and none once approvals
\* have met. The board has nothing to do with the suggestions on a screen.
OneReader ==
  LET busy == {h \in Clerk : desk[h] # Planning!Idle}
      reading == {h \in busy : desk[h].op = "preview"}
  IN reading # {} \/ board # Planning!NoReads =>
       /\ Cardinality(reading) + (IF board = Planning!NoReads THEN 0 ELSE 1) = 1
       /\ \A g, h \in busy \ reading : g = h /\ desk[h].op = "write"
       /\ shared = {}
       /\ board # Planning!NoReads =>
            screen.suggestions = {} \/ \E h \in Clerk : desk[h].op = "write"

\* The inbox is looked at before the order moves, beside announcements at most, and a
\* timeline beside one request that writes the order.
FewUpdates ==
  LET busy == {h \in Writer : update[h] # Updates!Idle}
      looked == \/ page # Updates!Idle
                \/ \E u \in User : \E i \in DOMAIN inbox[u] : inbox[u][i].read
      fresh == events[o3] = <<>> /\ puts[o3] = <<>>
  IN /\ Cardinality(lost) + Len(events[o3]) + Len(puts[o3]) <= 2
     /\ looked => /\ fresh /\ status[o3] \in {"NONE", "PENDING"}
                  /\ lost = {} /\ timeline = Updates!Idle
                  /\ \A h \in busy : update[h].op \in {"emit", "mark"}
     /\ timeline # Updates!Idle => /\ lost = {} /\ Cardinality(busy) <= 1
                                  /\ \A h \in busy : update[h].op \in {"write", "cancel"}
     /\ reviewed # {} => events[o3] = <<>> /\ timeline = Updates!Idle

\* At most two sockets and their handlers at a time; one that connects, and the driver's
\* when he joins, does so on its own.
FewSockets ==
  LET present == {c \in Socket : socket[c] # "CLOSED" \/ await[c] # Rooms!Idle}
  IN /\ Cardinality(present) <= 2
     /\ (\E c \in present : socket[c] = "CONNECTING") =>
          answer = Rooms!Idle /\ \A c \in present : await[c] = Rooms!Idle
     /\ await[c3].op \in {"query", "join"} => present = {c3}

Bounds == OneReader /\ FewUpdates /\ FewSockets
ScreensSym ==
  Permutations({h1, h2}) \cup Permutations({t1, t2}) \cup Permutations({d1, d2})
    \cup Permutations({c1, c2})
================================================================================

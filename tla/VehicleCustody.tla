----------------------------- MODULE VehicleCustody ----------------------------
(***************************************************************************)
(* What the handlers promise together about who carries an order: an order *)
(* is carried by at most one trip, by a trip that exists, and goes from    *)
(* one trip to another only through a hub.  currentTripId is the only      *)
(* record of it, and nothing here says which handler moves an order.       *)
(***************************************************************************)
CONSTANTS Order, Trip, NoTrip

VARIABLES
  holder,   \* per order: the trip that carries it, or NoTrip
  existing  \* the trips created so far

vars == <<holder, existing>>

Init ==
  /\ holder = [o \in Order |-> NoTrip]
  /\ existing = {}

\* A trip, new or not, takes orders that no trip carries.
Load(t, S) ==
  /\ \A o \in S : holder[o] = NoTrip
  /\ holder' = [o \in Order |-> IF o \in S THEN t ELSE holder[o]]
  /\ existing' = existing \cup {t}

\* Orders return to a hub, are delivered, or are taken off.
Unload(S) ==
  /\ holder' = [o \in Order |-> IF o \in S THEN NoTrip ELSE holder[o]]
  /\ UNCHANGED existing

Next ==
  \/ \E t \in Trip, S \in SUBSET Order : Load(t, S)
  \/ \E S \in SUBSET Order : Unload(S)

Spec == Init /\ [][Next]_vars

\* An order is carried only by a trip that exists.
CarriedByExisting == \A o \in Order : holder[o] \in existing \cup {NoTrip}
================================================================================

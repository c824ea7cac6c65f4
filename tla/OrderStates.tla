------------------------------ MODULE OrderStates ------------------------------
(***************************************************************************)
(* The statuses of orders and trips and the tables the services consult.   *)
(* They are the vocabulary of every other module of the project.           *)
(***************************************************************************)

\* ORDER_STATUS, in the order a parcel normally goes through them.
OrderStatus ==
  {"PENDING", "ASSIGNED", "PICKED_UP", "IN_TRANSIT", "ARRIVED_AT_HUB",
   "OUT_FOR_DELIVERY", "DELIVERED", "CANCELLED"}

\* TRIP_STATUS.
TripStatus == {"PENDING", "IN_PROGRESS", "COMPLETED", "CANCELLED"}

\* VALID_STATUS_TRANSITIONS, the whitelist of validateStatusTransition. A
\* status that is not a key of the table is final.
NextStatuses ==
  [s \in OrderStatus |->
     CASE s = "PENDING"          -> {"ASSIGNED", "CANCELLED"}
       [] s = "ASSIGNED"         -> {"PICKED_UP", "CANCELLED"}
       [] s = "PICKED_UP"        -> {"IN_TRANSIT"}
       [] s = "IN_TRANSIT"       -> {"ARRIVED_AT_HUB", "OUT_FOR_DELIVERY"}
       [] s = "ARRIVED_AT_HUB"   -> {"IN_TRANSIT"}
       [] s = "OUT_FOR_DELIVERY" -> {"DELIVERED", "CANCELLED"}
       [] OTHER                  -> {}]

\* The statuses in which an order waits in a hub for a vehicle.
DispatchableStatuses == {"PENDING", "ARRIVED_AT_HUB"}

\* The statuses the start of a trip moves to IN_TRANSIT.
StartableStatuses == {"PENDING", "ASSIGNED", "ARRIVED_AT_HUB"}

\* CUSTOMER_CANCELLABLE_STATUSES of the orders service.
CancellableStatuses == {"PENDING", "ASSIGNED"}

\* What a trip needs of each of its orders before it may be completed.
ClosedStatuses == {"DELIVERED", "CANCELLED"}
================================================================================

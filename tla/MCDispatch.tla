------------------------------- MODULE MCDispatch ------------------------------
EXTENDS Dispatch, TLC

CONSTANTS o1, o2, v1, v2, d1, d2, w1, w2, h1

OneOrder == <<o1>>
OneRank == v1 :> 1
OneSize == o1 :> [weight |-> 2, volume |-> 1]
OneCapacity == v1 :> [weight |-> 2, volume |-> 2]
TwoOrders == <<o1, o2>>
VehicleRank == (v1 :> 1) @@ (v2 :> 2)
\* Both orders fit in the first vehicle by volume and not by weight.
OrderSize == (o1 :> [weight |-> 2, volume |-> 1]) @@ (o2 :> [weight |-> 1, volume |-> 1])
VehicleCapacity ==
  (v1 :> [weight |-> 2, volume |-> 2]) @@ (v2 :> [weight |-> 2, volume |-> 1])
StaffBookings == {[vehicle |-> v1, driver |-> d1, load |-> {o1}]}
Sym == Permutations({w1, w2})
================================================================================

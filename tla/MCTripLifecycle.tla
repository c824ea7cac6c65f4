---------------------------- MODULE MCTripLifecycle ----------------------------
EXTENDS TripLifecycle, TLC

CONSTANTS o1, o2, t1, t2, h1, h2

ManualPlan(o) == [orders |-> {o}, stops |-> <<o>>]
\* A pick-up and a drop-off for each order, then back to the depot.
AutoPlan(o) == [orders |-> {o}, stops |-> <<o, o, NoOrder>>]
JointPlan == [orders |-> {o1, o2}, stops |-> <<o1, o2>>]

SerialPlans == {AutoPlan(o1), JointPlan}
SerialAddLists == {<<o2>>}
Sym == Permutations({t1, t2}) \cup Permutations({h1, h2})

ManualPlans == {ManualPlan(o1)}
JointPlans == {JointPlan}
RacePlans == {ManualPlan(o1), [orders |-> {o1}, stops |-> <<o1, o1>>]}
RaceAddLists == {<<o1>>}
================================================================================

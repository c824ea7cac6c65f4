------------------------------ MODULE MCWorkforce ------------------------------
EXTENDS Workforce, TLC

CONSTANTS p1, b1, b2, h1, h2

\* People and orders share the hubs only. Hubs change more often under orders.
Bounded ==
  request # <<>> => placed = <<>> /\ cache = NoList /\ changes <= 1

Sym == Permutations({h1, h2}) \cup Permutations({b1, b2})
================================================================================

-------------------------------- MODULE HubLease --------------------------------
(***************************************************************************)
(* What the lock of a hub promises, whatever happens to its workers: one   *)
(* enters only while nobody holds the lease, nobody gives up the lease of  *)
(* another, and who works without the lease is late: it expired meanwhile. *)
(***************************************************************************)
CONSTANTS Worker, NoWorker

VARIABLES
  holder,  \* the worker that has the lease
  working, \* the workers that dispatch
  late     \* those of them whose lease expired meanwhile

vars == <<holder, working, late>>

Init == holder = NoWorker /\ working = {} /\ late = {}

Enter(w) ==
  /\ holder = NoWorker /\ w \notin working
  /\ holder' = w
  /\ working' = working \cup {w}
  /\ UNCHANGED late

Stop(w) ==
  /\ w \in working
  /\ working' = working \ {w}
  /\ late' = late \ {w}

\* The worker ends, and gives the lease back if it is its own.
Leave(w) == Stop(w) /\ holder' = IF holder = w THEN NoWorker ELSE holder

\* The worker dies, and a lease it has remains until it expires.
Die(w) == Stop(w) /\ UNCHANGED holder

Expire ==
  /\ holder # NoWorker
  /\ holder' = NoWorker
  /\ late' = late \cup ({holder} \cap working)
  /\ UNCHANGED working

Next == Expire \/ \E w \in Worker : Enter(w) \/ Leave(w) \/ Die(w)

Spec == Init /\ [][Next]_vars
================================================================================

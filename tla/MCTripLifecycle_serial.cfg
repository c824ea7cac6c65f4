CONSTANTS
  o1 = o1  o2 = o2  t1 = t1  t2 = t2  h1 = h1  h2 = h2
  NoOrder = NoOrder  NoTrip = NoTrip
  Order = {o1, o2}
  Prepaid = {}
  Trip = {t1, t2}
  Handler = {h1}
  Plans <- SerialPlans
  AddLists <- SerialAddLists
  Endpoints = {"create", "add", "remove", "start", "cancelTrip", "complete", "cancelOrder", "track", "note"}
  MaxStops = 3
  MaxOverrides = 0
SPECIFICATION Spec
SYMMETRY Sym
INVARIANT TripsConsistent
CHECK_DEADLOCK FALSE

CONSTANTS
  o1 = o1  o2 = o2  t1 = t1  t2 = t2  h1 = h1  h2 = h2
  NoOrder = NoOrder  NoTrip = NoTrip
  Order = {o1}
  Prepaid = {o1}
  Trip = {t1, t2}
  Handler = {h1, h2}
  Plans <- ManualPlans
  AddLists <- RaceAddLists
  Endpoints = {"create", "add", "assign", "remove", "optimize", "cancelTrip", "pay", "payFail", "put", "delete", "crash"}
  MaxStops = 3
  MaxOverrides = 1
SPECIFICATION Spec
SYMMETRY Sym
INVARIANT OnBoardSound
CHECK_DEADLOCK FALSE

CONSTANTS
  o1 = o1  o2 = o2  t1 = t1  t2 = t2  h1 = h1  h2 = h2
  NoOrder = NoOrder  NoTrip = NoTrip
  Order = {o1}
  Prepaid = {o1}
  Trip = {t1, t2}
  Handler = {h1, h2}
  Plans <- RacePlans
  AddLists <- RaceAddLists
  Endpoints = {"create", "add", "assign", "remove", "start", "cancelTrip", "complete", "cancelOrder", "track", "pay"}
  MaxStops = 2
  MaxOverrides = 0
SPECIFICATION Spec
SYMMETRY Sym
INVARIANT TypeOK OnBoardSound
PROPERTY NoRevival CustodySpec
CHECK_DEADLOCK FALSE

CONSTANTS
  o1 = o1  o2 = o2  t1 = t1  t2 = t2  h1 = h1  h2 = h2
  NoOrder = NoOrder  NoTrip = NoTrip
  Order = {o1, o2}
  Prepaid = {}
  Trip = {t1}
  Handler = {h1, h2}
  Plans <- JointPlans
  AddLists = {}
  Endpoints = {"create", "start", "complete", "track", "note"}
  MaxStops = 2
  MaxOverrides = 0
SPECIFICATION FairSpec
PROPERTY AllDeliveredCompletes
CHECK_DEADLOCK FALSE

CONSTANTS
  d1 = d1  d2 = d2  o1 = o1  o2 = o2  o3 = o3  t1 = t1  h1 = h1  h2 = h2
  NoDriver = NoDriver  NoTrip = NoTrip
  Handler = {h1, h2}
  Driver = {d1, d2}
  Order = {o1, o2, o3}
  Trip = {t1}
  Weight <- UnitWeight
  Capacity = 2
  MaxRequests = 2
SPECIFICATION Spec
SYMMETRY Sym
CONSTRAINT Bounded
INVARIANT TypeOK RequestsFollowOrders
PROPERTY DecidedOnce 
CHECK_DEADLOCK FALSE

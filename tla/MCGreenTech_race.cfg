CONSTANTS
  d1 = d1  t1 = t1  t2 = t2  o1 = o1  o2 = o2  o3 = o3
  h1 = h1  h2 = h2  w1 = w1  w2 = w2
  Handler = {h1, h2}
  Worker = {w1, w2}
  Trip = {t1, t2}
  Driver = {d1}
  Order = {o1, o2, o3}
  DriverOf <- SameDriver
  TripOf <- Loads
  Distance <- Distances
  Rate <- Rates
  MaxStalls = 1
SPECIFICATION Spec
SYMMETRY Sym
INVARIANT TypeOK  
CHECK_DEADLOCK FALSE

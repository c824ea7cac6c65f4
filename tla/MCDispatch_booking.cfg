CONSTANTS
  o1 = o1  o2 = o2  v1 = v1  v2 = v2  d1 = d1  d2 = d2  w1 = w1  w2 = w2  h1 = h1
  NoWorker = NoWorker
  Worker = {w1, w2}
  Handler = {h1}
  Order = {o1, o2}
  Vehicle = {v1, v2}
  Driver = {d1}
  Orders <- TwoOrders
  Rank <- VehicleRank
  Size <- OrderSize
  Capacity <- VehicleCapacity
  Bookings <- StaffBookings
  Events = {"staff", "stall"}
  Attempts = 1
  MaxStalls = 0
  MaxOverruns = 1
  MaxTrips = 2
SPECIFICATION Spec
SYMMETRY Sym
INVARIANT BookedOnce WithinCapacity
CHECK_DEADLOCK FALSE

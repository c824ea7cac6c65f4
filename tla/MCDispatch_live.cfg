CONSTANTS
  o1 = o1  o2 = o2  v1 = v1  v2 = v2  d1 = d1  d2 = d2  w1 = w1  w2 = w2  h1 = h1
  NoWorker = NoWorker
  Worker = {w1, w2}
  Handler = {}
  Order = {o1}
  Vehicle = {v1}
  Driver = {d1}
  Orders <- OneOrder
  Rank <- OneRank
  Size <- OneSize
  Capacity <- OneCapacity
  Bookings = {}
  Events = {"crash", "stall", "throw"}
  Attempts = 2
  MaxStalls = 1
  MaxOverruns = 1
  MaxTrips = 2
SPECIFICATION FairSpec
PROPERTY LockFreed JobSettles LeaseSpec
CHECK_DEADLOCK FALSE

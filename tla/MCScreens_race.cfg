CONSTANTS
  o1 = o1  o2 = o2  v1 = v1  v2 = v2  d1 = d1  d2 = d2
  t1 = t1  t2 = t2  h1 = h1  h2 = h2
  o3 = o3  u1 = u1  u2 = u2  r1 = r1  c1 = c1  c2 = c2  c3 = c3  b1 = b1  d3 = d3  t3 = t3
  NoTrip = NoTrip
  Clerk = {h1, h2}
  HubTrip = {t1, t2}
  HubDriver = {d1, d2}
  Orders <- TwoOrders
  Vehicles <- TwoVehicles
  Size <- OrderSize
  Capacity <- VehicleCapacity
  Writer = {h1, h2}
  Cargo = {o3}
  User = {u1, u2}
  PlacedBy <- ToldCustomer
  Review = {r1}
  Recipients <- ToldUsers
  MaxAttempts = 1
  PageSize = 1
  PutStatuses = {"PENDING", "DELIVERED"}
  MaxEvents = 2
  MaxPuts = 1
  Socket = {c1, c2, c3}
  Account <- SocketAccount
  Trip = {t3}
  Driver <- TripDriver
  TTL = 1
  MaxTime = 2
SPECIFICATION ScreensSpec
SYMMETRY ScreensSym
CONSTRAINT Bounds
INVARIANT ScreensTypeOK PreviewSound   UpdatesAccounted AnswersCoherent RoomsSound
CHECK_DEADLOCK FALSE

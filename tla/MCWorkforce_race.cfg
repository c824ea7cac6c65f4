CONSTANTS
  p1 = p1  b1 = b1  b2 = b2  h1 = h1  h2 = h2
  NoHub = NoHub
  Handler = {h1, h2}
  Person = {p1}
  Hub = {b1, b2}
  MaxRequests = 2
  MaxOrders = 1
SPECIFICATION Spec
SYMMETRY Sym
CONSTRAINT Bounded
INVARIANT TypeOK RoleWasApproved HublessWasRemoved OrderAtOpenHub
CHECK_DEADLOCK FALSE

CONSTANTS
  e1 = e1  s1 = s1  h1 = h1  h2 = h2  h3 = h3
  Handler = {h1, h2, h3}
  Email = {e1}
  AuthState = {s1}
  MaxCodes = 2
  MaxDevices = 2
  MaxTokens = 3
  MaxAddresses = 3
SPECIFICATION Spec
SYMMETRY Sym
CONSTRAINT Bounded
INVARIANT TypeOK CodesAccounted LoginsAccounted OneDefault
PROPERTY ChainSpec
CHECK_DEADLOCK FALSE

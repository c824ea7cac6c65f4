CONSTANTS
  o1 = o1  d1 = d1  d2 = d2  h1 = h1  h2 = h2
  NoOrder = NoOrder
  Handler = {h1, h2}
  Order = {o1}
  Driver = {d1}
  Fee = 1
  Amounts = {1, 2}
  MaxIntents = 2
  MaxEntries = 3
SPECIFICATION Spec
SYMMETRY Sym
CONSTRAINT Bounded
INVARIANT TypeOK CompletedIsPaid CashAccounted LedgerBalanced OneOpenIntent
CHECK_DEADLOCK FALSE

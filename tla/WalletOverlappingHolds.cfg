SPECIFICATION Spec
CONSTANTS
  Lots = {1, 2}
  Refs = {r1, r2}
  Callers = {c1, c2}
  LotAmount <- Amounts
  Consideration <- Paid
  Expiring = {1}
  Refundable = {}
  Price <- Prices
  MaxFreezes = 2
CONSTRAINT CapturesAlone
SYMMETRY Interchangeable
INVARIANTS WalletReadable
CHECK_DEADLOCK FALSE

SPECIFICATION Spec
CONSTANTS
  Lots = {1, 2}
  Refs = {r1, r2}
  Callers = {c1, c2}
  LotAmount <- Amounts
  Consideration <- Paid
  Expiring = {1}
  Refundable = {1}
  Price <- Prices
  MaxFreezes = 2
SYMMETRY Interchangeable
INVARIANTS ExpiredCreditUnused
CHECK_DEADLOCK FALSE

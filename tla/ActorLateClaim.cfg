SPECIFICATION Spec
CONSTANTS
  h1 = h1  h2 = h2  h3 = h3
  Hosts = {h1, h2, h3}
  Attempts = {h1, h2, h3}
  HostOf <- Callers
  MaxChildren = 1
  None = None
SYMMETRY Symmetric
INVARIANTS ClaimsOnlyDeadOwners
CHECK_DEADLOCK FALSE

SPECIFICATION Spec
CONSTANTS
  h1 = h1  h2 = h2  h3 = h3
  Hosts = {h1, h2, h3}
  Attempts = {h1, h2, h3}
  HostOf <- Callers
  MaxChildren = 2
  None = None
SYMMETRY Symmetric
INVARIANTS TypeOK SingleOwner SingleNative RunningIsRecorded
PROPERTIES HolderUndisturbed
CHECK_DEADLOCK FALSE

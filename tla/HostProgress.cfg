SPECIFICATION FairSpec
CONSTANTS
  Uids = {1, 2}
  Ops = {1, 2}
  Names = {n1, n2}
  Keys = {k1, k2}
  Workers = {w1}
  Clients = {c1}
  SerializedNames = {}
  RefChoices <- NoTargets
  PrivChoices = {FALSE}
  None = None
PROPERTIES EventuallySettled
CHECK_DEADLOCK FALSE

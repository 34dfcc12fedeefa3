SPECIFICATION LedgerSpec
CONSTANTS
  Uids = {1, 2}
  Ops = {1, 2, 3, 4}
  Names = {n1, n2}
  Keys = {k1, k2, k3, k4}
  Workers = {w1}
  SerializedNames = {n1}
  RefChoices <- AtMostOneTarget
  PrivChoices = {TRUE}
  None = None
VIEW Essence
INVARIANTS LedgerTypeOK OperationOwnsResource GenerationsAccounted
  DependenciesStay PublicationExcludesUpdate
PROPERTIES ResourceHistory
CHECK_DEADLOCK FALSE

SPECIFICATION Spec
CONSTANTS
  Uids = {1}
  Ops = {1, 2}
  Names = {n1}
  Keys = {k1, k2}
  Workers = {w1, w2}
  Clients = {c1}
  SerializedNames = {}
  RefChoices <- NoTargets
  PrivChoices = {TRUE, FALSE}
  None = None
SYMMETRY Interchangeable
INVARIANTS TypeOK DispatchedOnce OutcomeIsTrue InputsBeforeDispatch
PROPERTIES SettledIsFinal KeepsContract
CHECK_DEADLOCK FALSE

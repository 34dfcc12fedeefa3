SPECIFICATION Spec
CONSTANTS
  h1 = h1  h2 = h2  v1 = v1  v2 = v2  resolved = resolved  rejected = rejected
  Triggers = {1, 2}
  Minutes = {1, 2}
  Hosts = {h1, h2}
  Versions = {v1, v2}
  Answers = {resolved, rejected}
  PageSize = 1
  MaxAttempts = 2
  MaxWork = 4
  None = None
SYMMETRY Symmetric
INVARIANTS TypeOK SentOnce VersionKept ResultOfLastAttempt ScanMissesNone
PROPERTIES AuthorizedForServing
CHECK_DEADLOCK FALSE

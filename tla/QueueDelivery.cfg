SPECIFICATION Spec
CONSTANTS
  m1 = m1  m2 = m2  b1 = b1  b2 = b2  b3 = b3  c1 = c1  c2 = c2
  patient = patient  strict = strict
  Messages = {m1, m2}
  Batches = {b1, b2}
  Consumers = {c1, c2}
  Policies = {patient, strict}
  MaxRetries <- RetriesOf
  DeadLetter = {patient}
  MaxConcurrency = 2
  MaxOperations = 2
  None = None
SYMMETRY Symmetric
INVARIANTS TypeOK AttemptsAccounted HandlerKeepsMessages OldGenerationsIdle
PROPERTIES GivenUpAfterRetries
CHECK_DEADLOCK FALSE

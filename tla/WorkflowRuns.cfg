SPECIFICATION Spec
CONSTANTS
  c1 = c1  c2 = c2  h1 = h1  h2 = h2  a = a  b = b  v1 = v1
  Controllers = {c1, c2}
  Hosts = {h1, h2}
  Pollers = {h1}
  Names = {a, b}
  Plan <- Steps
  Events = {v1}
  LeaseMs = 2
  Delay = 1
  Retries = 1
  MaxSteps = 1
  MaxPending = 1
  Deadline = 4
  Horizon = 4
  Lag = 1
  MaxEpoch = 2
  MaxTerminating = 1
  MaxFaults = 1
  None = None
INVARIANTS TypeOK CodeUnderClaim EventsAccounted WaitersWoken
PROPERTY RecordsFinal
SYMMETRY Symmetric
CONSTRAINT AtMostTwo

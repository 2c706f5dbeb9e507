SPECIFICATION Spec
CONSTANTS
  j1 = j1
  j2 = j2
  j3 = j3
  Jobs = {j1, j2}
  Malformed = {j2}
  Invalid = {}
  NoTests = {}
  Procs = {p1, p2}
  Handlers = {h1, h2}
  Nobody = Nobody
  Capacity = 1
  FaultKinds = {"crash", "stop", "sqs", "late"}
  MaxFaults = 2
INVARIANTS
  SingleHandler
  DeletedIsSettled
PROPERTIES
  ImplementsAtLeastOnce
  EveryJobAnswered
CHECK_DEADLOCK FALSE

SPECIFICATION Spec
CONSTANTS
  j1 = j1
  j2 = j2
  j3 = j3
  Jobs = {j1}
  Malformed = {}
  Invalid = {}
  NoTests = {j1}
  Procs = {p1}
  Handlers = {h1}
  Nobody = Nobody
  Capacity = 1
  FaultKinds = {}
  MaxFaults = 0
PROPERTY
  AlwaysDeleted
CHECK_DEADLOCK FALSE

SPECIFICATION SafeSpec
CONSTANTS
  j1 = j1
  j2 = j2
  j3 = j3
  Jobs = {j1}
  Malformed = {}
  Invalid = {}
  NoTests = {}
  Procs = {p1}
  Handlers = {h1}
  Nobody = Nobody
  Capacity = 1
  FaultKinds = {"redis"}
  MaxFaults = 2
INVARIANT
  AlwaysSurfaced
CHECK_DEADLOCK FALSE

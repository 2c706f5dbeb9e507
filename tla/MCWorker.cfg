SPECIFICATION SafeSpec
CONSTANTS
  j1 = j1
  j2 = j2
  j3 = j3
  Jobs = {j1, j2, j3}
  Malformed = {}
  Invalid = {j3}
  NoTests = {j2}
  Procs = {p1}
  Handlers = {h1, h2}
  Nobody = Nobody
  Capacity = 1
  FaultKinds = {"crash", "stop", "redis", "sqs", "late", "ttl"}
  MaxFaults = 2
SYMMETRY Interchangeable
INVARIANTS
  TypeOK
  NoInterruptedVerdict
  TerminalHasPayload
PROPERTIES
  AnswerStays
CHECK_DEADLOCK FALSE

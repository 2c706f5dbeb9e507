SPECIFICATION SafeSpec
CONSTANTS
  Callers = {c1, c2}
  Holding = {}
  MaxConcurrency = 1
  QueueDepth = 1
  RingCap = 2
  MaxCalls = 2
SYMMETRY CallerSymmetry
INVARIANT
  ExecutionsCapped

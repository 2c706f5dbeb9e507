SPECIFICATION SafeSpec
CONSTANTS
  Limits = {0, 2, 3}
  MaxWritten = 4
  Pieces <- MCPieces
  Expectations <- MCExpectations
INVARIANTS
  TypeOK
  CaptureExact
  VerdictMeans
CHECK_DEADLOCK FALSE

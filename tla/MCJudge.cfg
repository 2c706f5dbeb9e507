SPECIFICATION SafeSpec
CONSTANTS
  MaxTests = 2
  Second = 2
  Margin = 1
  BuildLimit = 6
  RunLimit = 4
  CtxTimeout = 13
  CancelTimes = {0, 1, 5, 7, 1000}
  Programs <- MCPrograms
INVARIANTS
  TypeOK
  AcceptedIsEarned
  OverrunIsHeld
  AcceptedInTime
  FairVerdict
CHECK_DEADLOCK FALSE

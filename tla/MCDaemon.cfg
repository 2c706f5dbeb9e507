SPECIFICATION Spec
CONSTANTS
  Calls = {c1, c2}
  Holding = {c1}
  Messages = {m1}
  Nothing = Nothing
  Visibility = 4
  Headroom = 1
  RequestTimeout = 3
  Grace = 2
  Hour = 3
  MaxUptime = 2
  MaxInside = 4
  MaxOutside = 2
INVARIANTS
  TypeOK
  StraysBounded
  OverlapIsLate
PROPERTIES
  CutCallsAreLong
  ShutdownEnds

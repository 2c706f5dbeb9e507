SPECIFICATION Spec
CONSTANTS
  Callers = {c1, c2, c3}
  Holding = {c1, c2}
  MaxConcurrency = 1
  QueueDepth = 1
  RingCap = 2
  MaxCalls = 4
INVARIANTS
  TypeOK
  SlotsAccounted
  GaugeWithinSlots
  SnapshotConsistent
  NoStrayWorkspace
PROPERTIES
  SaturationClears
  ImplementsAdmission

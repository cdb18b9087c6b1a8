CONSTANTS
  p1 = p1  p2 = p2
  d1 = d1  d2 = d2  d3 = d3  m1 = m1  m2 = m2
  None = None
  Procs <- MCTwo
  Deliveries <- MCDeliveries
  Manuals <- MCManual
  KindOf <- MCKindOf
  Anonymous <- MCAnonymous
  DbMayFail = TRUE
  BrokerMayFail = TRUE
  MayCrash = TRUE
  MaxAttempts = 2
  MaxRuns = 2
SPECIFICATION Spec
CHECK_DEADLOCK FALSE
SYMMETRY MCSymmetry
INVARIANTS
  RecordedMeansQueued
  AcceptedRunsAreQueued

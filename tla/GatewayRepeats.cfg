CONSTANTS
  p1 = p1  p2 = p2
  d1 = d1  d2 = d2  d3 = d3  m1 = m1  m2 = m2
  None = None
  Procs <- MCTwo
  Deliveries <- MCDeliveries
  Manuals <- MCManuals
  KindOf <- MCNamedKindOf
  Anonymous = {}
  DbMayFail = FALSE
  BrokerMayFail = FALSE
  MayCrash = FALSE
  MaxAttempts = 3
  MaxRuns = 5
SPECIFICATION Spec
CHECK_DEADLOCK FALSE
SYMMETRY MCSymmetry
INVARIANTS
  AtMostOneRunPerProcess

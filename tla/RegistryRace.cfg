CONSTANTS
  r1 = r1  r2 = r2  r3 = r3
  w1 = w1  w2 = w2
  i1 = i1
  NoRun = NoRun
  Runs <- MCTrio
  Issues <- MCIssues
  IssueOf <- MCTrioIssueOf
  Workers <- MCWorkers
  DbMayFail = TRUE
  MaxWallclock = 1
  Grace = 1
  KillLatency = 1
  MaxNow = 5
  MaxDeliveries = 1
SPECIFICATION Spec
CHECK_DEADLOCK FALSE
SYMMETRY MCTrioSymmetry
INVARIANTS
  OneWorkerPerIssue
  LiveRunKeepsItsRow
PROPERTIES
  ImplementsLease

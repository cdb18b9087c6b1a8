CONSTANTS
  r1 = r1  r2 = r2  r3 = r3
  w1 = w1  w2 = w2
  i1 = i1
  NoRun = NoRun
  Runs <- MCPair
  Issues <- MCIssues
  IssueOf <- MCPairIssueOf
  Workers <- MCWorkers
  DbMayFail = FALSE
  MaxWallclock = 1
  Grace = 1
  KillLatency = 1
  MaxNow = 6
  MaxDeliveries = 2
SPECIFICATION FairSpec
CHECK_DEADLOCK FALSE
INVARIANTS
  OnlyRecentRowsBlock
PROPERTIES
  EndedRowsAreFinal
  EveryDeliveryEnds

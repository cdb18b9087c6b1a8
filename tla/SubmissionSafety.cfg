CONSTANTS
  r1 = r1  r2 = r2
  Others = Others
  Runs <- MCPair
  MaxRetries = 2
SPECIFICATION FairSpec
CHECK_DEADLOCK FALSE
INVARIANTS
  DoneMeansDelivered
  
PROPERTIES
  NoCommitIsClobbered
  EverySubmissionEnds

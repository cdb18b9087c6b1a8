CONSTANTS
  MaxSteps = 3
  PlannerCalls = 2
  ReviewerCalls = 2
  MaxReviewRounds = 2
  None = None
SPECIFICATION FairSpec
CHECK_DEADLOCK FALSE
INVARIANTS
  SpendingIsBounded
  ApprovalIsOfWhatShips
  VerdictIsKept
  CompletedMeansShipped
  GoodFixIsNotDiscarded
  NothingIsLeftBehind
PROPERTIES
  RunEnds

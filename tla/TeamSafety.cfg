CONSTANTS
  None = None
  Misspelt = "Misspelt"
  Vendors <- MCVendors
  Models <- MCModels
  HomeOf <- MCHomeOf
  DefaultVendor = "anthropic"
  DefaultModel <- MCDefaultModel
  StableModel <- MCStableModel
  Envs <- MCEnvs
  Names <- MCNames
  Files <- MCFiles
  PlannedPaths <- MCPlannedPaths
  MaxSteps = 4
  MaxCalls = 2
  MaxReviewRounds = 2
SPECIFICATION FairSpec
CHECK_DEADLOCK FALSE
INVARIANTS
  TypeOK
  FallbackHasOneTurn
  TraceLosesOneRun
  DeviationsAreReported
  UnreviewedEditsAreFlagged
  ReviewerSeesTheLatest
  ClientsFitTheirVendors
PROPERTIES
  ImplementsPipeline
  TeamEnds

\* One run of a diamond with every kind of stage.
SPECIFICATION FairSpec
CONSTANTS
  NumStages = 4
  Type <- DiamondType
  Needs <- DiamondNeeds
  Apps <- DiamondApps
  App = {1, 2}
  MaxRuns = 1
  MaxCancels = 1
  Retain = 1
INVARIANTS
  TypeOK
  SuccessIsEarned
  DecideNeverBlocks
  NoStageForgotten
PROPERTIES
  ImplementsWorkflow
  RunsFinish
CHECK_DEADLOCK FALSE

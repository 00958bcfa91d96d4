\* A rerun that evicts the run it reruns, finished or not.
SPECIFICATION Spec
CONSTANTS
  NumStages = 2
  Type <- PairType
  Needs <- PairNeeds
  Apps <- PairApps
  App = {1}
  MaxRuns = 2
  MaxCancels = 1
  Retain = 1
INVARIANTS
  ReuseIsBacked
PROPERTIES
  VerdictStands
CHECK_DEADLOCK FALSE

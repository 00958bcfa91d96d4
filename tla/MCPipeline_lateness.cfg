\* Decisions that race the deadline and the cancellation.
SPECIFICATION Spec
CONSTANTS
  NumStages = 2
  Type <- ShortType
  Needs <- ShortNeeds
  Apps <- ShortApps
  App = {1}
  MaxRuns = 1
  MaxCancels = 2
  Retain = 1
INVARIANTS
  LateDecisionsRefused
CHECK_DEADLOCK FALSE

\* One replica and no crash: the promotion rules under failing deploys and checks.
SPECIFICATION InServiceSpec
CONSTANTS
  NumRings = 3
  v1 = v1
  v2 = v2
  Versions = {v1, v2}
  Ref = ref
  NoVersion = none
  Replicas = {a}
  Procs = {o1, o2}
  NoProc = noproc
  Configured = {1, 2, 3}
  HasURL = {1, 2, 3}
  Verifies = {2, 3}
  Pinned = {3}
  Removable = {}
  Toggled = {1, 2}
  Declared = {}
  DeclaredOn = {}
  DeployFaults = {}
  LateLanding = FALSE
  Timeouts = FALSE
  Requested = {"seed", "promote", "rollback", "restart"}
  MaxRequests = 2
  MaxCrashes = 0
SYMMETRY ProcSymmetry
INVARIANTS
  StoreMatchesCluster
  PromotesRecordedSource
PROPERTIES
  BaselineKept
CHECK_DEADLOCK FALSE

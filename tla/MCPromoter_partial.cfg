\* A deploy reports an error after it changed the cluster.
SPECIFICATION InServiceSpec
CONSTANTS
  NumRings = 2
  v1 = v1
  v2 = v2
  Versions = {v1, v2}
  Ref = ref
  NoVersion = none
  Replicas = {a}
  Procs = {o1, o2}
  NoProc = noproc
  Configured = {1, 2}
  HasURL = {1, 2}
  Verifies = {1, 2}
  Pinned = {}
  Removable = {}
  Toggled = {}
  Declared = {}
  DeclaredOn = {}
  DeployFaults = {"partial"}
  LateLanding = FALSE
  Timeouts = FALSE
  Requested = {"seed", "promote", "rollback", "restart"}
  MaxRequests = 1
  MaxCrashes = 0
SYMMETRY ProcSymmetry
INVARIANTS
  StoreMatchesCluster
CHECK_DEADLOCK FALSE

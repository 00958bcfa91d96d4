\* The operation timeout expires.
SPECIFICATION InServiceSpec
CONSTANTS
  NumRings = 2
  v1 = v1
  v2 = v2
  Versions = {v1, v2}
  Ref = ref
  NoVersion = none
  Replicas = {a}
  Procs = {o1, o2}
  NoProc = noproc
  Configured = {1, 2}
  HasURL = {1, 2}
  Verifies = {1, 2}
  Pinned = {}
  Removable = {}
  Toggled = {}
  Declared = {}
  DeclaredOn = {}
  DeployFaults = {}
  LateLanding = FALSE
  Timeouts = TRUE
  Requested = {"seed", "promote", "rollback", "restart"}
  MaxRequests = 1
  MaxCrashes = 0
SYMMETRY ProcSymmetry
INVARIANTS
  NoSilentLoss
CHECK_DEADLOCK FALSE

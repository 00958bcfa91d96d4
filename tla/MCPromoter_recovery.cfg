\* A replica dies at any step and is restarted, or another takes over.
SPECIFICATION InServiceSpec
CONSTANTS
  NumRings = 2
  v1 = v1
  v2 = v2
  Versions = {v1, v2}
  Ref = ref
  NoVersion = none
  Replicas = {a, b}
  Procs = {o1, o2}
  NoProc = noproc
  Configured = {1, 2}
  HasURL = {1, 2}
  Verifies = {1, 2}
  Pinned = {}
  Removable = {}
  Toggled = {}
  Declared = {}
  DeclaredOn = {}
  DeployFaults = {}
  LateLanding = FALSE
  Timeouts = FALSE
  Requested = {"seed", "promote", "rollback", "restart"}
  MaxRequests = 2
  MaxCrashes = 1
SYMMETRY ProcSymmetry
INVARIANTS
  RecordedOnce
  LeftoverMeansCrash
  OperationsSerialized
  NoSilentLoss
  SuccessIsTruth
PROPERTIES
  ImplementsLedger
CHECK_DEADLOCK FALSE

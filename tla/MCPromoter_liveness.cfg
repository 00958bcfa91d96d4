\* Attempts reach history, through two crashes.
SPECIFICATION FairInServiceSpec
CONSTANTS
  NumRings = 2
  v1 = v1
  v2 = v2
  Versions = {v1, v2}
  Ref = ref
  NoVersion = none
  Replicas = {a, b}
  Procs = {o1, o2}
  NoProc = noproc
  Configured = {1, 2}
  HasURL = {1, 2}
  Verifies = {2}
  Pinned = {}
  Removable = {}
  Toggled = {}
  Declared = {}
  DeclaredOn = {}
  DeployFaults = {"partial", "late"}
  LateLanding = TRUE
  Timeouts = FALSE
  Requested = {"seed", "promote", "rollback", "restart"}
  MaxRequests = 1
  MaxCrashes = 2
PROPERTIES
  ImplementsLedger
  AttemptsAreLogged
CHECK_DEADLOCK FALSE

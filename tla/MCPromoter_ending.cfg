\* Operations end, whatever expires, crashes or disappears.
SPECIFICATION FairInServiceSpec
CONSTANTS
  NumRings = 3
  v1 = v1
  v2 = v2
  Versions = {v1, v2}
  Ref = ref
  NoVersion = none
  Replicas = {a, b}
  Procs = {o1, o2}
  NoProc = noproc
  Configured = {1, 2}
  HasURL = {1, 2}
  Verifies = {2}
  Pinned = {}
  Removable = {2}
  Toggled = {}
  Declared = {2}
  DeclaredOn = {}
  DeployFaults = {}
  LateLanding = FALSE
  Timeouts = TRUE
  Requested = {"seed", "promote", "rollback", "restart"}
  MaxRequests = 1
  MaxCrashes = 1
INVARIANTS
  TypeOK
PROPERTIES
  OperationsEnd
CHECK_DEADLOCK FALSE

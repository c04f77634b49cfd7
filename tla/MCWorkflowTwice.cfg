SPECIFICATION Spec
CHECK_DEADLOCK FALSE
CONSTANTS
  Fiber = {f1, f2}
  RunId = {r1}
  Step <- Steps
  Policy = {"fail_fast"}
  Faults = {}
  RecoverAgain = TRUE
  MaxCrashes = 1
  Idle = Idle
INVARIANTS
  OneExecutor

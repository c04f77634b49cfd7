SPECIFICATION FairSpec
CHECK_DEADLOCK FALSE
CONSTANTS
  Fiber = {f1, f2}
  RunId = {r1}
  Step <- Steps
  Policy = {"fail_fast", "continue", "conditional"}
  Faults = {"save", "raise"}
  RecoverAgain = FALSE
  MaxCrashes = 2
  Idle = Idle
INVARIANTS
  OneExecutor
  ApprovalGates
  CompletedStepsDoNotRerun
  AgainOnlyAfterCrash
  StatusDurable
  RunningIsOwned
PROPERTIES
  RunSettles

CONSTANTS
  RunId = {r1}
  Project = {p1}
  OperationId = {o1}
  Request = {"prepare"}
  Receipt = {c1}
  WaitId = {}
  VerdictLists = {{"skipped"}}
  LeaseMs = {1}
  ApprovalMs = 1
  ActiveMs = 1
  ExternalWaitMs = 0
  OperationLimit = 1
  MaxTime = 0
  run = r1
  CleanupMs = 1
  LateCalls = TRUE
  MaxCrash = 0
SPECIFICATION LifeSpec
CHECK_DEADLOCK FALSE
INVARIANTS
  CanceledDiscloses

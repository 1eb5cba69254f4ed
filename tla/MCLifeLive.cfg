CONSTANTS
  RunId = {r1}
  Project = {p1}
  OperationId = {o1}
  Request = {"prepare"}
  Receipt = {c1}
  WaitId = {}
  VerdictLists = {{"pass"}}
  LeaseMs = {1}
  ApprovalMs = 1
  ActiveMs = 1
  ExternalWaitMs = 0
  OperationLimit = 2
  MaxTime = 1
  run = r1
  CleanupMs = 0
  LateCalls = FALSE
  MaxCrash = 1
SPECIFICATION FairLifeSpec
CHECK_DEADLOCK FALSE
PROPERTIES
  RunSettles

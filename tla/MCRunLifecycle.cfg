CONSTANTS
  RunId = {r1}
  Project = {p1}
  OperationId = {o1, o2}
  Request = {"prepare", "cleanup"}
  Receipt = {c1}
  WaitId = {}
  VerdictLists = {{"pass"}}
  LeaseMs = {1}
  ApprovalMs = 1
  ActiveMs = 1
  ExternalWaitMs = 0
  OperationLimit = 2
  MaxTime = 1
  run = r1
  CleanupMs = 1
  LateCalls = FALSE
  MaxCrash = 1
SPECIFICATION LifeSpec
SYMMETRY OperationSymmetry
CHECK_DEADLOCK FALSE
INVARIANTS
  StepDispatchedOnce
  CanceledDiscloses
  ReceiptsInContext
PROPERTIES
  DeletionIsOneEffect

CONSTANTS
  RunId = {r1}
  Project = {p1}
  OperationId = {}
  Request = {}
  Receipt = {}
  WaitId = {}
  VerdictLists = {{"pass"}}
  LeaseMs = {}
  ApprovalMs = 1
  ActiveMs = 1
  ExternalWaitMs = 0
  OperationLimit = 0
  MaxTime = 2
  run = r1
  Caller = {c1, c2}
  Binding = {r1}
  MaxSent = 2
  MaxCrash = 0
SPECIFICATION PlanSpec
CHECK_DEADLOCK FALSE

INVARIANTS
  DecisionDispatchedOnce

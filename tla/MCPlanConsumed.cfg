CONSTANTS
  RunId = {r1}
  Project = {p1}
  OperationId = {}
  Request = {}
  Receipt = {}
  WaitId = {}
  VerdictLists = {{"pass"}}
  LeaseMs = {}
  ApprovalMs = 1
  ActiveMs = 1
  ExternalWaitMs = 0
  OperationLimit = 0
  MaxTime = 2
  run = r1
  Caller = {c1}
  Binding = {r1, other}
  MaxSent = 1
  MaxCrash = 1
SPECIFICATION PlanSpec
CHECK_DEADLOCK FALSE

INVARIANTS
  ApprovalNotConsumed

CONSTANTS
  RunId = {r1, r2, r3}
  Project = {p1}
  OperationId = {o1, o2}
  Request = {q1}
  Receipt = {c1}
  WaitId = {w1}
  VerdictLists = {{"pass"}}
  LeaseMs = {1}
  ApprovalMs = 1
  ActiveMs = 2
  ExternalWaitMs = 2
  OperationLimit = 1
  MaxTime = 5
  StoreTime = 2
  run = r3
  wait = w1
  WaitSince = 1
  MaxSent = 2
  MaxCrash = 2
  ProviderCall = {a1, a2, a3}
  MaxClock = 2
SPECIFICATION Spec
CHECK_DEADLOCK FALSE
INVARIANTS
  OneActiveRunPerProject
  AtMostOneGrant
  ResumedIsCredited
  CanceledIsQuiet
  RetainedIsQuiet
PROPERTIES
  MutationsAreOneEffect
  TerminalFrozen
  NoGrantAfterStop
  ContinuationIsOneEffect

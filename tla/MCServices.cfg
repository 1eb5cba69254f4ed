SPECIFICATION ServicesSpec
CONSTANTS
  Report = {"whole", "leftover"}
  Contents <- ReportContents
  Proposal = {"confirmed", "attentive"}
  Proposed <- Reviews
  MaxAttempt = 2
  MaxDeath = 1
  Call = {c1, c2, c3}
  MaxPending = 1
  Completion = {q1, q2, q3}
  QueueLimit = 1
  MaxTry = 2
  MaxPress = 2
  MaxLog = 2
  MaxTrouble = 2
CHECK_DEADLOCK FALSE
INVARIANTS
  ConfirmedIsSound
  AcceptedIsWhole
  AnswerIsOfOneTry
  PressActsOnce
PROPERTIES
  ServicesEnd
  FinalIsKept
  ShownCatchesUp

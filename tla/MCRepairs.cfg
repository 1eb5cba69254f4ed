SPECIFICATION RepairsSpec
CONSTANTS
  Finding = {"SC01"}
  Attempt = {1, 2}
  Mode = {"local_replay"}
  Content = {"fix"}
  Text = {"text"}
  Token = {t1}
  ApprovalMs = 1
  LeaseMs = 0
  MaxTime = 1
  MaxTurn = 6
  MaxDeath = 1
  Patch <- ThePatch
  MaxOther = 1
CHECK_DEADLOCK FALSE
INVARIANTS
  OneJobAtATime
  RuntimeToldOnce
  ResultIsGiven
  PostsAccounted
  KnownTurnsStopped

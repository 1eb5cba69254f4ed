CONSTANTS
  Finding = {"SC01"}
  Attempt = {1}
  Mode = {"local_replay"}
  Content = {"fix", "other"}
  Text = {"text"}
  Token = {t1, t2}
  ApprovalMs = 2
  LeaseMs = 1
  MaxTime = 3
  proposal <- TheProposal
SPECIFICATION PublicationSpec
SYMMETRY PublisherSymmetry
CHECK_DEADLOCK FALSE
INVARIANTS
  WritesApproved
  PublishedIsReal
PROPERTIES
  PullRequestIsOneEffect
  RepairSpec

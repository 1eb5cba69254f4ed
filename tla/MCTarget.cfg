CONSTANTS
  Operation = {o1, o2}
  Run = {"run1", "run2"}
  Customer = {"cus1", "cus_replay"}
  ReplayCustomer = {"cus_replay"}
  RunOf <- RunOfCustomer
  Token = {t1}
  Subscription = {"sub1", "sub2"}
  SubscriptionOf <- TheSubscription
  ReplayEvent <- ReplayedEvents
  FaultMode = "none"
  MaxVersion = 2
  MaxQueue = 2
  Scenario = {"SC01", "SC02", "SC03", "SC04"}
  Conduct = {"honest", "wrong", "erratic"}
  EstablishMs = 1
  SyncMs = 2
  FreshMs = 1
  ReadMs = 1
  LagMs = 1
  MaxTime = 16
SPECIFICATION TargetSpec
SYMMETRY OperationSymmetry
CHECK_DEADLOCK FALSE
INVARIANTS
  AcknowledgedIsApplied
  BillingIsOwned
  FailureIsDeserved
  WrongNeverPasses
  ObservedInTime
PROPERTIES
  ProjectionNeverGoesBack

SPECIFICATION Spec
CONSTANTS
  Replicas = {r1, r2}
  Rows = {1}
  BatchSize = 2
  MaxAttempts = 2
  Poison = {}
  DbFaults <- AllFaults
  Tokens = {t1, t2}
  Free = Free
  Flaky = {r1, r2}
  MaxOverruns = 1
  MaxCrashes = 1
  MaxFaults = 1
  MaxPublished = 6
  Threshold = 1
INVARIANTS TypeOK HandedOver DeadLetterEarned OneDispatcher PublishedPerCause
PROPERTIES ImplementsDelivery LockIsSafe
CHECK_DEADLOCK FALSE
SYMMETRY TokenReplicaSymmetry

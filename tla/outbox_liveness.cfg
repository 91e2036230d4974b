SPECIFICATION FairSpec
CONSTANTS
  Replicas = {r1, r2}
  Rows = {1,2}
  BatchSize = 1
  MaxAttempts = 2
  Poison = {1}
  DbFaults <- AllFaults
  Tokens = {t1, t2}
  Free = Free
  Flaky = {r1}
  MaxOverruns = 0
  MaxCrashes = 1
  MaxFaults = 0
  MaxPublished = 1
  Threshold = 1
PROPERTIES EventuallyRetired
CHECK_DEADLOCK FALSE

SPECIFICATION Spec
CONSTANTS
  v = v
  e0 = e0
  e1 = e1
  e2 = e2
  none = none
  data = data
  Absent = Absent
  NoPayload = none
  NilPayload = NilPayload
  Replicas = {r1}
  Sagas <- OneSaga
  Events <- TwoEvents
  SagaOf <- MCSagaOf
  StepOf <- MCStepOf
  NSteps <- MCNSteps
  Payloads <- MCPayloads
  Faults <- NoFaults
  MaxCrashes = 1
  MaxForgets = 0
  MaxCount = 2
  Timeouts = {"sweep", "ttl"}
INVARIANTS NoSweepPanic
CHECK_DEADLOCK FALSE

SPECIFICATION Spec
CONSTANTS
  v = v
  e0 = e0
  e1 = e1
  e2 = e2
  none = none
  data = data
  Absent = Absent
  NoPayload = none
  NilPayload = NilPayload
  Replicas = {r1, r2}
  Sagas <- OneSaga
  Events <- TwoEvents
  SagaOf <- MCSagaOf
  StepOf <- MCStepOf
  NSteps <- MCNSteps
  Payloads <- MCPayloads
  Faults <- AllFaults
  MaxCrashes = 0
  MaxForgets = 0
  MaxCount = 1
  Timeouts = {"sweep", "ttl"}
SYMMETRY ReplicaSymmetry
INVARIANTS TypeOK StepOrder CompletionEarned
CHECK_DEADLOCK FALSE

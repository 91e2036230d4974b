SPECIFICATION FairSpec
CONSTANTS
  v = v
  e0 = e0
  e1 = e1
  e2 = e2
  none = none
  data = data
  Absent = Absent
  NoPayload = none
  NilPayload = NilPayload
  Replicas = {r1}
  Sagas <- OneSaga
  Events <- ThreeEvents
  SagaOf <- MCSagaOf
  StepOf <- MCStepOf
  NSteps <- MCNSteps
  Payloads <- MCPayloads
  Faults <- NoFaults
  MaxCrashes = 1
  MaxForgets = 1
  MaxCount = 3
  Timeouts = {"sweep"}
INVARIANTS RunsOncePerLife
PROPERTIES EveryLifeEnds
CHECK_DEADLOCK FALSE

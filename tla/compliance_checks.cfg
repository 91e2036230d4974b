SPECIFICATION CSpec
CONSTANTS
  C = C
  new = new
  u1 = u1
  a1 = a1
  a2 = a2
  Created = new
  Updates <- OneUpdate
  Alerts <- OneAlert
  Statuses = {"draft", "compliant"}
  MaxChecks = 1
  Unset = Unset
  Absent = Absent
  NoPayload <- MCNoPayload
  NilPayload = NilPayload
  Replicas = {r1}
  Sagas <- MCSagas
  Events <- MCEvents
  SagaOf <- MCSagaOf
  StepOf <- MCStepOf
  NSteps <- MCNSteps
  Payloads <- MCPayloads
  Faults <- NoFaults
  MaxCrashes = 0
  MaxForgets = 1
  MaxCount = 1
  Timeouts = {}
INVARIANTS CTypeOK AllOrNothing RestoresWhatWas EvaluatedBeforeAlert
CHECK_DEADLOCK FALSE

SPECIFICATION VFairSpec
CONSTANTS
  V = V
  det = det
  res = res
  res2 = res2
  Detected = det
  Resolutions <- OneResolution
  Actions = {c1, c2}
  NoAction = NoAction
  NotFound = NotFound
  Unset = Unset
  Absent = Absent
  NoPayload = NoPayload
  NilPayload = NilPayload
  Replicas = {r1}
  Sagas <- MCSagas
  Events <- MCEvents
  SagaOf <- MCSagaOf
  StepOf <- MCStepOf
  NSteps <- MCNSteps
  Payloads <- MCPayloads
  Faults <- NoFaults
  MaxCrashes = 0
  MaxForgets = 1
  MaxCount = 1
  Timeouts = {"sweep"}
  MaxManual = 1
INVARIANTS VTypeOK OneAutomaticAction KnowsItsAction NoOrphanAction
PROPERTIES AutoActionSettles
CHECK_DEADLOCK FALSE

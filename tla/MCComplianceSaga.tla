-------------------------- MODULE MCComplianceSaga --------------------------
(* Small instances of ComplianceSaga. *)
EXTENDS ComplianceSaga

CONSTANTS new, u1, a1, a2

NoUpdates == {}
OneUpdate == {u1}
OneAlert == {a1}
TwoAlerts == {a1, a2}
MCSagas == {C}
MCEvents == {Created} \cup Updates \cup Alerts
MCSagaOf == [e \in MCEvents |-> C]
MCStepOf == [e \in MCEvents |-> IF e \in Alerts THEN 1 ELSE 0]
MCNSteps == [s \in MCSagas |-> 2]
MCPayloads == [before : RowStatus \cup {Unset}, status : Verdicts \cup {"exempt", Unset}]
MCNoPayload == [before |-> Unset, status |-> Unset]
NoFaults == {}
=============================================================================

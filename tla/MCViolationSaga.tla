-------------------------- MODULE MCViolationSaga --------------------------
(* Small instances of ViolationSaga. *)
EXTENDS ViolationSaga, TLC

CONSTANTS det, res, res2

OneResolution == {res}
TwoResolutions == {res, res2}
MCSagas == {V}
MCEvents == {Detected} \cup Resolutions
MCSagaOf == [e \in MCEvents |-> V]
MCStepOf == [e \in MCEvents |-> IF e = Detected THEN 0 ELSE 1]
MCNSteps == [s \in MCSagas |-> 2]
MCPayloads == Actions \cup {NoPayload, NoAction}
NoFaults == {}
ActionSymmetry == Permutations(Actions)
=============================================================================

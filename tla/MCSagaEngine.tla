---------------------------- MODULE MCSagaEngine ----------------------------
(* Small instances of SagaEngine: one saga with two steps, or the three-   *)
(* step AuditExecution saga, each step driven by one event.                *)
EXTENDS SagaEngine, TLC

CONSTANTS v, e0, e1, e2, none, data

TwoEvents == {e0, e1}
ThreeEvents == {e0, e1, e2}
OneSaga == {v}
MCSagaOf == [e \in Events |-> v]
MCStepOf == [e \in Events |-> CASE e = e0 -> 0 [] e = e1 -> 1 [] OTHER -> 2]
MCNSteps == [s \in Sagas |-> Cardinality(Events)]
ReplicaSymmetry == Permutations(Replicas)
MCPayloads == {none, data}
AllFaults == {"get", "setnx", "set", "del"}
NoFaults == {}
=============================================================================

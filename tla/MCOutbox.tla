-------------------------------- MODULE MCOutbox --------------------------------
(* Small instances of Outbox: rows 1..n in order of creation.              *)
EXTENDS Outbox, TLC

TokenReplicaSymmetry == Permutations(Tokens) \cup Permutations(Replicas)
AllFaults == {"query", "record", "mark"}
=============================================================================

------------------------------ MODULE InProcess ------------------------------
(***************************************************************************)
(* The state a replica guards with its own mutexes: the lock it falls back *)
(* to without Redis and the breaker around the event bus.  They share no   *)
(* state, so a step is a step of the one or of the other.                  *)
(***************************************************************************)
EXTENDS MemoryLock, BreakerCalls

vars == <<lockVars, callsVars>>

Init == LockInit /\ CallsInit

Next ==
  \/ LockNext /\ UNCHANGED callsVars
  \/ CallsNext /\ UNCHANGED lockVars

Spec == Init /\ [][Next]_vars

\* Types of both.
TypeOK == LockTypeOK /\ CallsTypeOK
=============================================================================

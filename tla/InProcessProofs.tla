---------------------------- MODULE InProcessProofs ----------------------------
(***************************************************************************)
(* The in-process lock and the breaker of a replica, each for itself and   *)
(* side by side: a replica's behaviour is one of its lock and one of its   *)
(* breaker.                                                                *)
(***************************************************************************)
EXTENDS InProcess, TLAPS

-----------------------------------------------------------------------------
(* The in-process lock implements the distributed lock, for any number of  *)
(* clients and tokens.  The abstract key is free as soon as the entry has  *)
(* expired: the Release of an expired holder then removes an entry that    *)
(* the Redis lock no longer has, and leaves its successor's alone.         *)

Key == IF held = Free \/ held.expired THEN Free ELSE held.token

Entry == [token : Tokens, expired : BOOLEAN]

LEMMA LockInitRefines == LockInit => Redis!Init
BY DEF LockInit, Redis!Init

LEMMA LockInitType == LockInit => LockTypeOK
BY DEF LockInit, LockTypeOK

(* An entry is a record and Free is none: the maps either have one or not. *)
LEMMA LockNextType == LockTypeOK /\ [LockNext]_lockVars => LockTypeOK'
<1> SUFFICES ASSUME LockTypeOK, [LockNext]_lockVars PROVE LockTypeOK'
  OBVIOUS
<1>1. CASE Expire
  BY <1>1 DEF Expire, LockTypeOK
<1>2. ASSUME NEW c \in Clients, TryAcquire(c) PROVE LockTypeOK'
  BY <1>2 DEF TryAcquire, Fresh, LockTypeOK
<1>3. ASSUME NEW c \in Clients, Release(c) PROVE LockTypeOK'
  BY <1>3 DEF Release, LockTypeOK
<1>4. CASE UNCHANGED lockVars
  BY <1>4 DEF lockVars, LockTypeOK
<1> QED BY <1>1, <1>2, <1>3, <1>4 DEF LockNext

LEMMA LockStepRefines == LockTypeOK /\ [LockNext]_lockVars => [Redis!Next]_(Redis!vars)
<1> SUFFICES ASSUME LockTypeOK, [LockNext]_lockVars PROVE [Redis!Next]_(Redis!vars)
  OBVIOUS
<1>0. held \in Entry \cup {Free} /\ Free \notin Tokens \cup Entry
  BY FreeAssumption DEF LockTypeOK, Entry
<1>1. CASE Expire
  <2>1. Key # Free /\ Key' = Free
    BY <1>0, <1>1 DEF Expire, Entry, Key
  <2> QED BY <1>1, <2>1 DEF Expire, Redis!Next, Redis!Expire, Key
<1>2. ASSUME NEW c \in Clients, TryAcquire(c)
      PROVE  Redis!TryAcquire(c)
  <2>1. Key = Free
    BY <1>2 DEF TryAcquire, Key
  <2>2. PICK t \in Fresh : /\ held' = [token |-> t, expired |-> FALSE]
                           /\ token' = [token EXCEPT ![c] = t]
    BY <1>2 DEF TryAcquire
  <2>3. t \in Redis!Fresh
    BY <1>0, <2>1, <2>2 DEF Fresh, Redis!Fresh, Key
  <2>4. Key' = t
    <3>1. held' \in Entry
      BY <2>2 DEF Entry, Fresh
    <3> QED BY <1>0, <2>2, <3>1 DEF Key
  <2> QED BY <1>2, <2>1, <2>2, <2>3, <2>4 DEF TryAcquire, Redis!TryAcquire, Key
<1>3. ASSUME NEW c \in Clients, Release(c)
      PROVE  Redis!Release(c)
  <2>1. Key' = IF Key = token[c] THEN Free ELSE Key
    BY <1>0, <1>3 DEF Release, Entry, Key
  <2> QED BY <1>3, <2>1 DEF Release, Redis!Release, Key
<1>4. CASE UNCHANGED lockVars
  BY <1>4 DEF lockVars, Redis!vars
<1> QED BY <1>1, <1>2, <1>3, <1>4 DEF LockNext, Redis!Next

(* Behind the Lock interface the in-process lock is the Redis lock: lazy   *)
(* reclaiming of expired entries cannot be observed (memoryLock).          *)
THEOREM MemoryLockRefines == LockSpec => ImplementsDistLock
<1>1. LockSpec => []LockTypeOK
  BY LockInitType, LockNextType, PTL DEF LockSpec
<1> QED BY <1>1, LockInitRefines, LockStepRefines, PTL DEF LockSpec, ImplementsDistLock, Redis!Spec

-----------------------------------------------------------------------------
(* The breaker, for any threshold and any number of concurrent callers.    *)
(* CallsTypeOK and ClosedBelowThreshold together are inductive: failures   *)
(* may reach Threshold while open or half-open, and the only way back to   *)
(* closed, Success, resets them.                                           *)

LEMMA CallsInitInv == CallsInit => CallsTypeOK /\ ClosedBelowThreshold
BY ThresholdAssumption
   DEF CallsInit, NewBreaker, Breaker, CallsTypeOK, ClosedBelowThreshold

LEMMA AllowInv ==
  ASSUME NEW b \in Breaker, b.state = "closed" => b.failures < Threshold
  PROVE  LET c == AfterAllow(b)
         IN c \in Breaker /\ (c.state = "closed" => c.failures < Threshold)
BY DEF AfterAllow, Transition, Breaker

LEMMA SuccessInv ==
  ASSUME NEW b \in Breaker
  PROVE  LET c == AfterSuccess(b)
         IN c \in Breaker /\ (c.state = "closed" => c.failures < Threshold)
<1> DEFINE d == IF b.state = "half_open" THEN Transition(b, "closed") ELSE b
<1>1. d \in Breaker
  BY DEF Transition, Breaker
<1> HIDE DEF d
<1>2. [d EXCEPT !.failures = 0] \in Breaker /\ [d EXCEPT !.failures = 0].failures = 0
  BY <1>1 DEF Breaker
<1>3. AfterSuccess(b) = [d EXCEPT !.failures = 0]
  BY DEF AfterSuccess, d
<1> QED BY <1>2, <1>3, ThresholdAssumption

LEMMA FailureInv ==
  ASSUME NEW b \in Breaker, b.state = "closed" => b.failures < Threshold
  PROVE  LET c == AfterFailure(b)
         IN c \in Breaker /\ (c.state = "closed" => c.failures < Threshold)
<1> DEFINE n == IF b.failures < Threshold THEN b.failures + 1 ELSE b.failures
           c == [b EXCEPT !.failures = n]
<1>1. c \in Breaker /\ c.state = b.state /\ c.failures = n /\ n \in Nat
  BY ThresholdAssumption DEF Breaker
<1>2. Transition(c, "open") \in Breaker /\ Transition(c, "open").state = "open"
  BY <1>1 DEF Transition, Breaker
<1>3. CASE b.state = "half_open" \/ (b.state = "closed" /\ n >= Threshold)
  BY <1>2, <1>3 DEF AfterFailure
<1>4. CASE ~(b.state = "half_open" \/ (b.state = "closed" /\ n >= Threshold))
  BY <1>1, <1>4, ThresholdAssumption DEF AfterFailure
<1> QED BY <1>3, <1>4

LEMMA CallsNextInv ==
  CallsTypeOK /\ ClosedBelowThreshold /\ [CallsNext]_callsVars => (CallsTypeOK /\ ClosedBelowThreshold)'
<1> SUFFICES ASSUME CallsTypeOK, ClosedBelowThreshold, [CallsNext]_callsVars
             PROVE  (CallsTypeOK /\ ClosedBelowThreshold)'
  OBVIOUS
<1>1. CASE CoolDown
  BY <1>1 DEF CoolDown, Cools, CallsTypeOK, ClosedBelowThreshold, Breaker
<1>2. ASSUME NEW c \in Callers, Begin(c)
      PROVE  (CallsTypeOK /\ ClosedBelowThreshold)'
  BY <1>2, AllowInv DEF Begin, CallsTypeOK, ClosedBelowThreshold
<1>3. ASSUME NEW c \in Callers, Succeed(c)
      PROVE  (CallsTypeOK /\ ClosedBelowThreshold)'
  BY <1>3, SuccessInv DEF Succeed, CallsTypeOK, ClosedBelowThreshold
<1>4. ASSUME NEW c \in Callers, Fail(c)
      PROVE  (CallsTypeOK /\ ClosedBelowThreshold)'
  BY <1>4, FailureInv DEF Fail, CallsTypeOK, ClosedBelowThreshold
<1>5. CASE UNCHANGED callsVars
  BY <1>5 DEF callsVars, CallsTypeOK, ClosedBelowThreshold
<1> QED BY <1>1, <1>2, <1>3, <1>4, <1>5 DEF CallsNext

LEMMA CallsInductive == CallsSpec => [](CallsTypeOK /\ ClosedBelowThreshold)
BY CallsInitInv, CallsNextInv, PTL DEF CallsSpec

(* A closed breaker always has fewer than Threshold failures behind it     *)
(* (Success, Failure).                                                     *)
THEOREM ClosedIsHealthy == CallsSpec => []ClosedBelowThreshold
BY CallsInductive, PTL

LEMMA StepFromOpen ==
  CallsTypeOK /\ [CallsNext]_callsVars =>
    (breaker.state = "open" /\ breaker'.state # "open"
       => breaker.cooled /\ breaker'.state = "half_open")
<1> SUFFICES ASSUME CallsTypeOK, [CallsNext]_callsVars, breaker.state = "open",
                    breaker'.state # "open"
             PROVE  breaker.cooled /\ breaker'.state = "half_open"
  OBVIOUS
<1>1. breaker \in Breaker
  BY DEF CallsTypeOK
<1>2. CASE CoolDown
  BY <1>1, <1>2 DEF CoolDown, Breaker
<1>3. ASSUME NEW c \in Callers, Begin(c)
      PROVE  breaker.cooled /\ breaker'.state = "half_open"
  BY <1>1, <1>3 DEF Begin, Admits, AfterAllow, Transition, Breaker
<1>4. ASSUME NEW c \in Callers, Succeed(c) PROVE FALSE
  BY <1>1, <1>4 DEF Succeed, AfterSuccess, Transition, Breaker
<1>5. ASSUME NEW c \in Callers, Fail(c) PROVE FALSE
  BY <1>1, <1>5 DEF Fail, AfterFailure, Transition, Breaker
<1>6. CASE UNCHANGED callsVars
  BY <1>6 DEF callsVars
<1> QED BY <1>2, <1>3, <1>4, <1>5, <1>6 DEF CallsNext

(* No result of an older call ends the open state: only Allow does, after  *)
(* the cooldown, and only towards half-open (Allow, Success, Failure).     *)
THEOREM OpenIsPatient == CallsSpec => OpenUntilCooled
<1>1. CallsTypeOK /\ [CallsNext]_callsVars =>
        [breaker.state = "open" /\ breaker'.state # "open"
           => breaker.cooled /\ breaker'.state = "half_open"]_callsVars
  BY StepFromOpen
<1> QED BY <1>1, CallsInductive, PTL DEF CallsSpec, OpenUntilCooled

-----------------------------------------------------------------------------
(* Both in one replica.                                                    *)

LEMMA StepOfEach == [Next]_vars => [LockNext]_lockVars /\ [CallsNext]_callsVars
BY DEF Next, vars

LEMMA BothRun == Spec => LockSpec /\ CallsSpec
<1>1. Init => LockInit /\ CallsInit
  BY DEF Init
<1> QED BY <1>1, StepOfEach, PTL DEF Spec, LockSpec, CallsSpec

(* Beside the breaker, the in-process lock still implements the Redis lock *)
(* (memoryLock).                                                           *)
THEOREM ReplicaLockRefines == Spec => ImplementsDistLock
BY BothRun, MemoryLockRefines

(* A closed breaker of a replica has fewer than Threshold failures behind  *)
(* it, and an open one waits for its cooldown (Allow, Success, Failure).   *)
THEOREM ReplicaBreaker == Spec => []ClosedBelowThreshold /\ OpenUntilCooled
BY BothRun, ClosedIsHealthy, OpenIsPatient

(* The types of both. *)
THEOREM ReplicaTypes == Spec => []TypeOK
<1>1. CallsSpec => []CallsTypeOK
  BY CallsInductive, PTL
<1>2. LockSpec => []LockTypeOK
  BY LockInitType, LockNextType, PTL DEF LockSpec
<1>3. LockTypeOK /\ CallsTypeOK => TypeOK
  BY DEF TypeOK
<1> QED BY <1>1, <1>2, <1>3, BothRun, PTL
=============================================================================

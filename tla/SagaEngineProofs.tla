--------------------------- MODULE SagaEngineProofs ---------------------------
(***************************************************************************)
(* TypeOK, StepOrder and CompletionEarned of SagaEngine, for any number of *)
(* replicas, sagas, steps and events, with every Redis call allowed to     *)
(* fail, and for any number of crashes and redeliveries; what is at work   *)
(* has been published; and RunsOncePerLife, for one replica.               *)
(*                                                                         *)
(* StepOrder is not inductive: a body runs at the step its handler holds   *)
(* locally, and that step comes from Redis.  IInv adds that no persisted   *)
(* and no local CurrentStep is ahead of the bodies that have run.          *)
(***************************************************************************)
EXTENDS SagaEngine, FiniteSetTheorems, TLAPS

JobType == [pc : PCs, s : Saga, i : Nat]

Steps(s) == 0..(NSteps[s] - 1)

(* The bodies of the first k steps of s have run. *)
Done(s, k) == \A m \in Steps(s) : m < k => runs[s][m] > 0

StateOK(s, x) == x.step <= NSteps[s] /\ Done(s, x.step)

(* What a handler or a sweeper at J.pc knows of the saga s it works on.    *)
JobOK(s, J) ==
  /\ StateOK(s, J.s)
  /\ J.pc = "act" => J.s.step < NSteps[s]
  /\ J.pc = "persist" => J.s.step < NSteps[s] /\ runs[s][J.s.step] > 0
  /\ J.pc = "finish" => J.s.step = NSteps[s]

StoreInv == \A s \in Sagas : store[s] # Absent => StateOK(s, store[s])
JobInv == \A r \in Replicas, j \in Jobs : JobOK(SagaFor(j), job[r][j])

(* The parts of the invariant over counters, processes and history.        *)
CountersOK ==
  /\ started \in [Sagas -> Nat]
  /\ completed \in [Sagas -> Nat]
  /\ failed \in [Sagas -> Nat]
  /\ DOMAIN runs = Sagas
  /\ \A s \in Sagas : runs[s] \in [Steps(s) -> Nat]
EnvOK ==
  /\ sent \subseteq Events
  /\ seen \in [Replicas -> SUBSET Events]
  /\ crashes \in Nat /\ forgets \in Nat /\ panics \subseteq {"steps", "payload"}
StoreOK == store \in [Sagas -> Saga \cup {Absent}] /\ StoreInv
JobsOK == job \in [Replicas -> [Jobs -> JobType]] /\ JobInv
RunsOK == StepOrder /\ CompletionEarned

IInv == StoreOK /\ JobsOK /\ CountersOK /\ EnvOK /\ RunsOK

LEMMA IInvImplies == IInv => TypeOK /\ StepOrder /\ CompletionEarned
BY DEF IInv, TypeOK, StoreOK, JobsOK, CountersOK, EnvOK, RunsOK, JobType, Steps,
       StoreInv, StateOK

-----------------------------------------------------------------------------
(* Lemmas on the operators of the model. *)

LEMMA SagaForType == \A j \in Jobs : SagaFor(j) \in Sagas
BY SagaAssumption DEF SagaFor, Jobs

LEMMA SagaForEvent == \A e \in Events : SagaFor(e) = SagaOf[e] /\ SagaOf[e] \in Sagas /\ e \in Jobs
BY SagaAssumption DEF SagaFor, Jobs

LEMMA SagaForSaga == \A s \in Sagas : SagaFor(s) = s /\ s \in Jobs
BY SagaAssumption DEF SagaFor, Jobs

LEMMA NewSagaOK == NewSaga \in Saga /\ \A s \in Sagas : StateOK(s, NewSaga)
BY SagaAssumption DEF NewSaga, Saga, StateOK, Done, Steps

LEMMA IdleOK == Idle \in JobType /\ \A s \in Sagas : JobOK(s, Idle)
BY NewSagaOK, SagaAssumption DEF Idle, JobType, PCs, JobOK

(* Reading and writing the JSON of a saga keeps its step.                  *)
LEMMA LoadedOK ==
  ASSUME NEW s \in Sagas, NEW x \in Saga, StateOK(s, x)
  PROVE  /\ Loaded(x) \in Saga /\ Loaded(x).step = x.step /\ StateOK(s, Loaded(x))
         /\ Stored(x) \in Saga /\ Stored(x).step = x.step /\ StateOK(s, Stored(x))
<1>1. NoPayload \in Payloads
  BY SagaAssumption
<1>2. Loaded(x) \in Saga /\ Loaded(x).step = x.step
  BY <1>1 DEF Loaded, Saga
<1>3. Stored(x) \in Saga /\ Stored(x).step = x.step
  BY <1>1 DEF Stored, Saga
<1> QED BY <1>2, <1>3 DEF StateOK

(* A counter that Inc touched is positive and keeps its type.              *)
LEMMA IncType == \A n \in Nat : Inc(n) \in Nat /\ Inc(n) > 0 /\ Inc(n) >= 0
BY SagaAssumption DEF Inc

(* SetJob changes one job.                                                 *)
LEMMA SetJobEffect ==
  ASSUME job \in [Replicas -> [Jobs -> JobType]],
         NEW r \in Replicas, NEW j \in Jobs, NEW new \in JobType,
         SetJob(r, j, new)
  PROVE  /\ job' \in [Replicas -> [Jobs -> JobType]]
         /\ \A q \in Replicas, k \in Jobs :
              job'[q][k] = IF q = r /\ k = j THEN new ELSE job[q][k]
BY DEF SetJob

(* Dispatch sends a handler to a state that fits its local step.           *)
LEMMA DispatchOK ==
  ASSUME NEW e \in Events, NEW x \in Saga, StateOK(SagaOf[e], x)
  PROVE  LET new == IF Dispatch(e, x) = "idle" THEN Idle
                    ELSE [pc |-> Dispatch(e, x), s |-> x, i |-> 0]
         IN new \in JobType /\ JobOK(SagaOf[e], new)
<1>1. SagaOf[e] \in Sagas /\ NSteps[SagaOf[e]] \in Nat /\ x.step \in Nat
  BY SagaAssumption DEF Saga
<1>2. CASE Dispatch(e, x) = "idle"
  BY <1>1, <1>2, IdleOK
<1>3. CASE Dispatch(e, x) = "act"
  <2>1. x.step < NSteps[SagaOf[e]]
    BY <1>1, <1>3 DEF Dispatch
  <2> QED BY <2>1, <1>3 DEF JobType, JobOK, PCs
<1>4. CASE Dispatch(e, x) = "finish"
  <2>1. x.step = NSteps[SagaOf[e]]
    BY <1>1, <1>4 DEF Dispatch, StateOK
  <2> QED BY <2>1, <1>4 DEF JobType, JobOK, PCs
<1> QED BY <1>2, <1>3, <1>4 DEF Dispatch

-----------------------------------------------------------------------------
(* Frame lemmas: one job moves, one key is written. *)

LEMMA JobsStep ==
  ASSUME JobsOK, NEW r \in Replicas, NEW j \in Jobs, NEW new \in JobType,
         SetJob(r, j, new), JobOK(SagaFor(j), new), UNCHANGED runs
  PROVE  JobsOK'
<1>1. job' \in [Replicas -> [Jobs -> JobType]]
      /\ \A q \in Replicas, k \in Jobs :
           job'[q][k] = IF q = r /\ k = j THEN new ELSE job[q][k]
  BY SetJobEffect DEF JobsOK
<1>2. SUFFICES ASSUME NEW q \in Replicas, NEW k \in Jobs
               PROVE  JobOK(SagaFor(k), job[q][k])'
  BY <1>1 DEF JobsOK, JobInv
<1>3. JobOK(SagaFor(k), job'[q][k])
  BY <1>1 DEF JobsOK, JobInv
<1> QED BY <1>3 DEF JobOK, StateOK, Done, SagaFor, Jobs

LEMMA StoreStep ==
  ASSUME StoreOK, NEW s \in Sagas, NEW x \in Saga \cup {Absent},
         x # Absent => StateOK(s, x),
         store' = [store EXCEPT ![s] = x], UNCHANGED runs
  PROVE  StoreOK'
BY DEF StoreOK, StoreInv, StateOK, Done

LEMMA StoreSame == StoreOK /\ UNCHANGED <<store, runs>> => StoreOK'
BY DEF StoreOK, StoreInv, StateOK, Done

LEMMA JobsSame == JobsOK /\ UNCHANGED <<job, runs>> => JobsOK'
BY DEF JobsOK, JobInv, JobOK, StateOK, Done

(* A replica that restarts has no job under way.                           *)
LEMMA JobsRestart ==
  ASSUME JobsOK, NEW r \in Replicas,
         job' = [job EXCEPT ![r] = [j \in Jobs |-> Idle]], UNCHANGED runs
  PROVE  JobsOK'
<1>1. job' \in [Replicas -> [Jobs -> JobType]]
  BY IdleOK DEF JobsOK
<1>2. SUFFICES ASSUME NEW q \in Replicas, NEW k \in Jobs
               PROVE  JobOK(SagaFor(k), job[q][k])'
  BY <1>1 DEF JobsOK, JobInv
<1>3. JobOK(SagaFor(k), job'[q][k])
  BY IdleOK, SagaForType DEF JobsOK, JobInv
<1> QED BY <1>3 DEF JobOK, StateOK, Done, SagaFor, Jobs

LEMMA RunsSame == RunsOK /\ UNCHANGED <<runs, completed>> => RunsOK'
BY DEF RunsOK, StepOrder, CompletionEarned

LEMMA CountersSame == CountersOK /\ UNCHANGED counters => CountersOK'
BY DEF CountersOK, counters, Steps

LEMMA EnvSame == EnvOK /\ UNCHANGED env => EnvOK'
BY DEF EnvOK, env

(* A panic restarts a replica and only records why.                        *)
LEMMA PanicOK ==
  ASSUME NEW r \in Replicas, NEW why \in {"steps", "payload"}, Panic(r, why),
         UNCHANGED runs
  PROVE  (JobsOK => JobsOK') /\ (EnvOK => EnvOK')
<1>1. JobsOK => JobsOK'
  BY JobsRestart DEF Panic
<1>2. EnvOK => EnvOK'
  BY DEF Panic, EnvOK
<1> QED BY <1>1, <1>2

-----------------------------------------------------------------------------
(* The initial state and each action. *)

LEMMA InitIInv == Init => IInv
<1> SUFFICES ASSUME Init PROVE IInv
  OBVIOUS
<1>1. StoreOK
  BY DEF Init, StoreOK, StoreInv
<1>2. JobsOK
  BY IdleOK, SagaForType DEF Init, JobsOK, JobInv
<1>3. CountersOK /\ EnvOK
  BY DEF Init, CountersOK, EnvOK, Steps
<1>4. RunsOK
  BY SagaAssumption DEF Init, RunsOK, StepOrder, CompletionEarned
<1> QED BY <1>1, <1>2, <1>3, <1>4 DEF IInv

LEMMA PublishIInv ==
  ASSUME IInv, NEW e \in Events, Publish(e)
  PROVE  IInv'
<1>1. StoreOK' /\ JobsOK' /\ CountersOK' /\ RunsOK'
  BY StoreSame, JobsSame, CountersSame, RunsSame DEF Publish, counters, IInv
<1>2. EnvOK'
  BY DEF Publish, EnvOK, IInv
<1> QED BY <1>1, <1>2 DEF IInv

LEMMA HandleEventIInv ==
  ASSUME IInv, NEW r \in Replicas, NEW e \in Events, HandleEvent(r, e)
  PROVE  IInv'
<1> DEFINE new == [Idle EXCEPT !.pc = "load"]
<1>1. StoreOK' /\ CountersOK' /\ RunsOK'
  BY StoreSame, CountersSame, RunsSame DEF HandleEvent, counters, IInv
<1>2. new \in JobType /\ JobOK(SagaFor(e), new)
  BY IdleOK, SagaForEvent DEF JobType, PCs, JobOK, Idle
<1>3. JobsOK'
  BY <1>2, JobsStep, SagaForEvent DEF HandleEvent, counters, IInv
<1>4. EnvOK'
  BY DEF HandleEvent, EnvOK, IInv
<1> QED BY <1>1, <1>3, <1>4 DEF IInv

LEMMA LoadIInv ==
  ASSUME IInv, NEW r \in Replicas, NEW e \in Events, Load(r, e)
  PROVE  IInv'
<1>1. StoreOK' /\ CountersOK' /\ EnvOK' /\ RunsOK'
  BY StoreSame, CountersSame, RunsSame, EnvSame DEF Load, counters, IInv
<1>2. UNCHANGED runs
  BY DEF Load, counters
<1>3. CASE /\ store[SagaOf[e]] # Absent
           /\ Enter(r, e, Loaded(store[SagaOf[e]]))
  <2> DEFINE x == Loaded(store[SagaOf[e]])
             new == IF Dispatch(e, x) = "idle" THEN Idle
                    ELSE [pc |-> Dispatch(e, x), s |-> x, i |-> 0]
  <2>1. x \in Saga /\ StateOK(SagaOf[e], x)
    BY <1>3, SagaForEvent, LoadedOK DEF StoreOK, StoreInv, IInv
  <2>2. new \in JobType /\ JobOK(SagaOf[e], new)
    BY <2>1, DispatchOK
  <2>3. SetJob(r, e, new)
    BY <1>3 DEF Enter
  <2> QED BY <2>2, <2>3, <1>1, <1>2, JobsStep, SagaForEvent DEF IInv
<1>4. CASE SetJob(r, e, IF StepOf[e] = 0 THEN [Idle EXCEPT !.pc = "claim"] ELSE Idle)
  <2> DEFINE new == IF StepOf[e] = 0 THEN [Idle EXCEPT !.pc = "claim"] ELSE Idle
  <2>1. new \in JobType /\ JobOK(SagaFor(e), new)
    BY IdleOK, SagaForEvent DEF JobType, PCs, JobOK, Idle
  <2> QED BY <2>1, <1>4, <1>1, <1>2, JobsStep, SagaForEvent DEF IInv
<1> QED BY <1>3, <1>4 DEF Load

LEMMA ClaimIInv ==
  ASSUME IInv, NEW r \in Replicas, NEW e \in Events, Claim(r, e)
  PROVE  IInv'
<1> DEFINE s == SagaOf[e]
           new == IF Dispatch(e, NewSaga) = "idle" THEN Idle
                  ELSE [pc |-> Dispatch(e, NewSaga), s |-> NewSaga, i |-> 0]
<1>1. EnvOK' /\ RunsOK' /\ UNCHANGED runs
  BY RunsSame, EnvSame DEF Claim, IInv
<1>2. s \in Sagas /\ SagaFor(e) = s /\ e \in Jobs
  BY SagaForEvent
<1>3. new \in JobType /\ JobOK(s, new)
  BY <1>2, NewSagaOK, DispatchOK
<1>4. CountersOK'
  <2>1. started' \in [Sagas -> Nat]
    BY <1>2, IncType DEF Claim, CountersOK, IInv
  <2> QED BY <1>1, <2>1 DEF Claim, CountersOK, Steps, IInv
<1>5. JobsOK'
  <2>1. CASE Enter(r, e, NewSaga)
    <3>1. SetJob(r, e, new)
      BY <2>1 DEF Enter
    <3> QED BY <3>1, <1>1, <1>2, <1>3, JobsStep DEF IInv
  <2>2. CASE SetJob(r, e, Idle)
    BY <2>2, <1>1, <1>2, IdleOK, JobsStep DEF IInv
  <2> QED BY <2>1, <2>2 DEF Claim
<1>6. StoreOK'
  <2>1. CASE store' = [store EXCEPT ![s] = NewSaga]
    BY <2>1, <1>1, <1>2, NewSagaOK, StoreStep DEF IInv
  <2>2. CASE UNCHANGED store
    BY <2>2, <1>1, StoreSame DEF IInv
  <2> QED BY <2>1, <2>2 DEF Claim
<1> QED BY <1>1, <1>4, <1>5, <1>6 DEF IInv

(* The body of a step runs: the steps in front of it have run.             *)
LEMMA ActOkIInv ==
  ASSUME IInv, NEW r \in Replicas, NEW e \in Events, NEW p \in Payloads \cup {NilPayload},
         ActOk(r, e, p)
  PROVE  IInv'
<1> DEFINE s == SagaOf[e]
           J == job[r][e]
           n == J.s.step
           new == [J EXCEPT !.pc = "persist", !.s.payload = p]
<1>1. /\ s \in Sagas /\ SagaFor(e) = s /\ e \in Jobs
      /\ NSteps[s] \in Nat
  BY SagaForEvent, SagaAssumption
<1>2. J \in JobType /\ J.pc = "act" /\ n \in Nat /\ n < NSteps[s] /\ Done(s, n)
  BY <1>1 DEF IInv, JobsOK, JobInv, JobOK, StateOK, JobType, Saga, ActOk
<1>3. runs[s] \in [Steps(s) -> Nat] /\ n \in Steps(s)
  BY <1>1, <1>2 DEF IInv, CountersOK, Steps
<1>4. runs' = [runs EXCEPT ![s][n] = Inc(@)]
  BY DEF ActOk
<1>5. /\ \A t \in Sagas : runs'[t] \in [Steps(t) -> Nat]
      /\ \A t \in Sagas : \A m \in Steps(t) : runs[t][m] > 0 => runs'[t][m] > 0
      /\ runs'[s][n] > 0
      /\ \A t \in Sagas : \A m \in Steps(t) :
           t # s \/ m # n => runs'[t][m] = runs[t][m]
  <2>1. SUFFICES ASSUME NEW t \in Sagas
                 PROVE  /\ runs'[t] \in [Steps(t) -> Nat]
                        /\ \A m \in Steps(t) : runs[t][m] > 0 => runs'[t][m] > 0
                        /\ runs'[s][n] > 0
                        /\ \A m \in Steps(t) : t # s \/ m # n => runs'[t][m] = runs[t][m]
    BY <1>1
  <2> DEFINE f == [runs[s] EXCEPT ![n] = Inc(@)]
  <2>2. runs[t] \in [Steps(t) -> Nat]
    BY DEF IInv, CountersOK
  <2>3. /\ f \in [Steps(s) -> Nat] /\ f[n] > 0
        /\ \A m \in Steps(s) : m # n => f[m] = runs[s][m]
    BY <1>3, IncType
  <2>5. s \in DOMAIN runs /\ t \in DOMAIN runs
    BY <1>1 DEF IInv, CountersOK
  <2>6. runs'[s] = f /\ (t # s => runs'[t] = runs[t])
    BY <1>4, <2>5
  <2> QED BY <2>2, <2>3, <2>6, <1>3
<1>6. CountersOK'
  BY <1>4, <1>5 DEF IInv, CountersOK, ActOk, Steps
<1>7. \A t \in Sagas : \A k : Done(t, k) => Done(t, k)'
  BY <1>5 DEF Done, Steps
<1>8. StoreOK'
  BY <1>7 DEF IInv, StoreOK, StoreInv, StateOK, ActOk
<1>9. JobsOK'
  <2>1. new \in JobType /\ new.s.step = n /\ new.pc = "persist"
    BY <1>2 DEF JobType, PCs, Saga
  <2>2. /\ job' \in [Replicas -> [Jobs -> JobType]]
        /\ \A q \in Replicas, k \in Jobs :
             job'[q][k] = IF q = r /\ k = e THEN new ELSE job[q][k]
    BY <1>1, <2>1, SetJobEffect DEF IInv, JobsOK, ActOk
  <2>3. SUFFICES ASSUME NEW q \in Replicas, NEW k \in Jobs
                 PROVE  JobOK(SagaFor(k), job[q][k])'
    BY <2>2 DEF JobsOK, JobInv
  <2>4. SagaFor(k)' = SagaFor(k) /\ SagaFor(k) \in Sagas
    BY SagaForType DEF SagaFor
  <2>5. CASE q = r /\ k = e
    <3>1. job'[q][k] = new
      BY <2>2, <2>5
    <3> QED BY <3>1, <1>1, <1>2, <1>5, <1>7, <2>1, <2>4, <2>5 DEF JobOK, StateOK
  <2>6. CASE ~(q = r /\ k = e)
    <3>1. job'[q][k] = job[q][k] /\ JobOK(SagaFor(k), job[q][k])
          /\ job[q][k].s.step \in Nat
      BY <2>2, <2>6 DEF IInv, JobsOK, JobInv, JobType, Saga
    <3>2. job[q][k].pc = "persist" => job[q][k].s.step \in Steps(SagaFor(k))
      BY <3>1, <2>4, SagaAssumption DEF JobOK, Steps
    <3> QED BY <3>1, <3>2, <1>5, <1>7, <2>4 DEF JobOK, StateOK
  <2> QED BY <2>5, <2>6
<1>10. RunsOK'
  <2>1. ASSUME NEW t \in Sagas, NEW k \in 1..(NSteps[t] - 1), runs'[t][k] > 0
        PROVE  runs'[t][k - 1] > 0
    <3>1. NSteps[t] \in Nat /\ k \in Steps(t) /\ k - 1 \in Steps(t) /\ k - 1 < k
      BY SagaAssumption DEF Steps
    <3>2. CASE t = s /\ k = n
      BY <3>1, <3>2, <1>2, <1>5 DEF Done
    <3>3. CASE ~(t = s /\ k = n)
      BY <2>1, <3>1, <3>3, <1>5 DEF IInv, RunsOK, StepOrder
    <3> QED BY <3>2, <3>3
  <2>2. StepOrder'
    BY <2>1 DEF StepOrder
  <2>3. CompletionEarned'
    BY <1>5 DEF IInv, RunsOK, CompletionEarned, ActOk, Steps
  <2> QED BY <2>2, <2>3 DEF RunsOK
<1>11. EnvOK'
  BY EnvSame DEF ActOk, IInv
<1> QED BY <1>6, <1>8, <1>9, <1>10, <1>11 DEF IInv

LEMMA ActErrIInv ==
  ASSUME IInv, NEW r \in Replicas, NEW e \in Events, NEW p \in Payloads \cup {NilPayload},
         ActErr(r, e, p)
  PROVE  IInv'
<1> DEFINE J == job[r][e]
           new == [J EXCEPT !.pc = "comp", !.s.payload = p, !.i = J.s.step]
<1>1. StoreOK' /\ CountersOK' /\ EnvOK' /\ RunsOK' /\ UNCHANGED runs
  BY StoreSame, CountersSame, RunsSame, EnvSame DEF ActErr, counters, IInv
<1>2. e \in Jobs /\ J \in JobType /\ JobOK(SagaFor(e), J)
  BY SagaForEvent DEF IInv, JobsOK, JobInv
<1>3. new \in JobType /\ new.s.step = J.s.step /\ new.pc = "comp"
  BY <1>2 DEF JobType, PCs, Saga
<1>4. JobOK(SagaFor(e), new)
  BY <1>2, <1>3 DEF JobOK, StateOK
<1>5. SetJob(r, e, new)
  BY DEF ActErr
<1> QED BY <1>1, <1>2, <1>3, <1>4, <1>5, JobsStep DEF IInv

LEMMA ActPanicIInv ==
  ASSUME IInv, NEW r \in Replicas, NEW e \in Events, ActPanic(r, e)
  PROVE  IInv'
<1>1. StoreOK' /\ CountersOK' /\ RunsOK' /\ UNCHANGED runs
  BY StoreSame, CountersSame, RunsSame DEF ActPanic, counters, IInv
<1>2. JobsOK' /\ EnvOK'
  BY <1>1, PanicOK DEF ActPanic, IInv
<1> QED BY <1>1, <1>2 DEF IInv

(* The step a body has run for is the one that becomes CurrentStep - 1.    *)
LEMMA PersistIInv ==
  ASSUME IInv, NEW r \in Replicas, NEW e \in Events, Persist(r, e)
  PROVE  IInv'
<1> DEFINE J == job[r][e]
           s == SagaOf[e]
           x == [J.s EXCEPT !.step = @ + 1, !.status = "active"]
           new == IF Dispatch(e, x) = "idle" THEN Idle
                  ELSE [pc |-> Dispatch(e, x), s |-> x, i |-> 0]
<1>1. CountersOK' /\ EnvOK' /\ RunsOK' /\ UNCHANGED runs
  BY CountersSame, RunsSame, EnvSame DEF Persist, counters, IInv
<1>2. s \in Sagas /\ SagaFor(e) = s /\ e \in Jobs /\ NSteps[s] \in Nat
  BY SagaForEvent, SagaAssumption
<1>3. J \in JobType /\ JobOK(s, J) /\ J.pc = "persist"
  BY <1>2 DEF IInv, JobsOK, JobInv, Persist
<1>4. x \in Saga /\ x.step = J.s.step + 1 /\ J.s.step \in Nat
  <2>1. J.s \in Saga
    BY <1>3 DEF JobType
  <2> HIDE DEF J
  <2>2. J.s.step \in Nat /\ J.s.step + 1 \in Nat
    BY <2>1 DEF Saga
  <2> QED BY <2>1, <2>2 DEF Saga
<1>5. StateOK(s, x)
  BY <1>2, <1>3, <1>4 DEF JobOK, StateOK, Done, Steps
<1>6. new \in JobType /\ JobOK(s, new)
  BY <1>4, <1>5, DispatchOK
<1>7. SetJob(r, e, new)
  BY DEF Persist, Enter
<1>8. JobsOK'
  BY <1>1, <1>2, <1>6, <1>7, JobsStep DEF IInv
<1>9. StoreOK'
  BY <1>1, <1>2, <1>4, <1>5, StoreStep, StoreSame DEF Persist, IInv
<1> QED BY <1>1, <1>8, <1>9 DEF IInv

LEMMA FinishIInv ==
  ASSUME IInv, NEW r \in Replicas, NEW e \in Events, Finish(r, e)
  PROVE  IInv'
<1> DEFINE s == SagaOf[e]
<1>1. EnvOK' /\ UNCHANGED runs
  BY EnvSame DEF Finish, IInv
<1>2. s \in Sagas /\ SagaFor(e) = s /\ e \in Jobs /\ NSteps[s] \in Nat
  BY SagaForEvent, SagaAssumption
<1>3. JobOK(s, job[r][e]) /\ job[r][e].pc = "finish"
  BY <1>2 DEF IInv, JobsOK, JobInv, Finish
<1>4. \A k \in 0..(NSteps[s] - 1) : runs[s][k] > 0
  BY <1>2, <1>3 DEF JobOK, StateOK, Done, Steps
<1>5. CountersOK'
  BY <1>1, <1>2, IncType DEF Finish, IInv, CountersOK, Steps
<1>6. RunsOK'
  BY <1>1, <1>2, <1>4 DEF Finish, IInv, CountersOK, RunsOK, StepOrder, CompletionEarned
<1>7. JobsOK'
  BY <1>1, <1>2, IdleOK, JobsStep DEF Finish, IInv
<1>8. StoreOK'
  BY <1>1, <1>2, StoreStep, StoreSame DEF Finish, IInv
<1> QED BY <1>1, <1>5, <1>6, <1>7, <1>8 DEF IInv

LEMMA CompensateIInv ==
  ASSUME IInv, NEW r \in Replicas, NEW j \in Jobs, Compensate(r, j)
  PROVE  IInv'
<1> DEFINE J == job[r][j]
           new == IF J.i = 0 THEN [J EXCEPT !.pc = "failset"]
                  ELSE [J EXCEPT !.i = @ - 1]
<1>1. StoreOK' /\ CountersOK' /\ EnvOK' /\ RunsOK' /\ UNCHANGED runs
  BY StoreSame, CountersSame, RunsSame, EnvSame DEF Compensate, counters, IInv
<1>2. J \in JobType /\ JobOK(SagaFor(j), J) /\ J.pc = "comp"
  BY DEF IInv, JobsOK, JobInv, Compensate
<1>3. new \in JobType /\ new.s = J.s /\ new.pc \in {"comp", "failset"}
  BY <1>2 DEF JobType, PCs
<1>4. JobOK(SagaFor(j), new)
  BY <1>2, <1>3 DEF JobOK, StateOK
<1>5. SetJob(r, j, new)
  BY DEF Compensate
<1> QED BY <1>1, <1>3, <1>4, <1>5, JobsStep DEF IInv

LEMMA FailSetIInv ==
  ASSUME IInv, NEW r \in Replicas, NEW j \in Jobs, FailSet(r, j)
  PROVE  IInv'
<1> DEFINE J == job[r][j]
           s == SagaFor(j)
           x == [Stored(J.s) EXCEPT !.status = "failed"]
           new == [J EXCEPT !.pc = "faildel"]
<1>1. CountersOK' /\ EnvOK' /\ RunsOK' /\ UNCHANGED runs
  BY CountersSame, RunsSame, EnvSame DEF FailSet, counters, IInv
<1>2. J \in JobType /\ JobOK(s, J) /\ s \in Sagas
  BY SagaForType DEF IInv, JobsOK, JobInv
<1>3. new \in JobType /\ JobOK(s, new)
  BY <1>2 DEF JobType, PCs, JobOK
<1>4. x \in Saga /\ StateOK(s, x)
  <2>1. Stored(J.s) \in Saga /\ StateOK(s, Stored(J.s))
    BY <1>2, LoadedOK DEF JobType, JobOK
  <2> QED BY <2>1 DEF Saga, StateOK
<1>5. JobsOK'
  BY <1>1, <1>3, JobsStep DEF FailSet, IInv
<1>6. StoreOK'
  BY <1>1, <1>2, <1>4, StoreStep, StoreSame DEF FailSet, IInv
<1> QED BY <1>1, <1>5, <1>6 DEF IInv

LEMMA FailDelIInv ==
  ASSUME IInv, NEW r \in Replicas, NEW j \in Jobs, FailDel(r, j)
  PROVE  IInv'
<1>1. EnvOK' /\ RunsOK' /\ UNCHANGED runs /\ SagaFor(j) \in Sagas
  BY RunsSame, EnvSame, SagaForType DEF FailDel, IInv
<1>2. CountersOK'
  BY <1>1, IncType DEF FailDel, IInv, CountersOK, Steps
<1>3. JobsOK'
  BY <1>1, IdleOK, JobsStep DEF FailDel, IInv
<1>4. StoreOK'
  BY <1>1, StoreStep, StoreSame DEF FailDel, IInv
<1> QED BY <1>1, <1>2, <1>3, <1>4 DEF IInv

LEMMA SweepIInv ==
  ASSUME IInv, NEW r \in Replicas, NEW s \in Sagas, Sweep(r, s)
  PROVE  IInv'
<1> DEFINE x == Loaded(store[s])
           new == [pc |-> "comp", i |-> store[s].step, s |-> x]
<1>1. StoreOK' /\ CountersOK' /\ RunsOK' /\ UNCHANGED runs
  BY StoreSame, CountersSame, RunsSame DEF Sweep, counters, IInv
<1>2. EnvOK'
  BY <1>1, EnvSame, PanicOK DEF Sweep, IInv
<1>3. store[s] \in Saga /\ StateOK(s, store[s])
  BY DEF IInv, StoreOK, StoreInv, Sweep
<1>4. new \in JobType /\ JobOK(SagaFor(s), new) /\ s \in Jobs
  <2>1. x \in Saga /\ StateOK(s, x) /\ store[s].step \in Nat
    BY <1>3, LoadedOK DEF Saga
  <2> QED BY <2>1, SagaForSaga DEF JobType, PCs, JobOK
<1>5. JobsOK'
  <2>1. CASE SetJob(r, s, new)
    BY <2>1, <1>1, <1>4, JobsStep DEF IInv
  <2>2. CASE Panic(r, "steps")
    BY <2>2, <1>1, PanicOK DEF IInv
  <2> QED BY <2>1, <2>2 DEF Sweep
<1> QED BY <1>1, <1>2, <1>5 DEF IInv

LEMMA AgeIInv ==
  ASSUME IInv, NEW s \in Sagas, Age(s)
  PROVE  IInv'
<1> DEFINE x == [store[s] EXCEPT !.aged = TRUE]
<1>1. JobsOK' /\ CountersOK' /\ EnvOK' /\ RunsOK' /\ UNCHANGED runs
  BY JobsSame, CountersSame, EnvSame, RunsSame DEF Age, counters, IInv
<1>2. store[s] \in Saga /\ StateOK(s, store[s])
  BY DEF IInv, StoreOK, StoreInv, Age
<1>3. x \in Saga /\ StateOK(s, x)
  BY <1>2 DEF Saga, StateOK, Done
<1>4. store' = [store EXCEPT ![s] = x]
  BY DEF Age
<1>5. StoreOK'
  BY <1>1, <1>3, <1>4, StoreStep DEF IInv
<1> QED BY <1>1, <1>5 DEF IInv

LEMMA ExpireIInv ==
  ASSUME IInv, NEW s \in Sagas, Expire(s)
  PROVE  IInv'
<1>1. JobsOK' /\ CountersOK' /\ EnvOK' /\ RunsOK' /\ UNCHANGED runs
  BY JobsSame, CountersSame, EnvSame, RunsSame DEF Expire, counters, IInv
<1>2. StoreOK'
  BY <1>1, StoreStep DEF Expire, IInv
<1> QED BY <1>1, <1>2 DEF IInv

LEMMA ForgetIInv ==
  ASSUME IInv, NEW r \in Replicas, NEW e \in Events, Forget(r, e)
  PROVE  IInv'
<1>1. StoreOK' /\ JobsOK' /\ CountersOK' /\ RunsOK'
  BY StoreSame, JobsSame, CountersSame, RunsSame DEF Forget, counters, IInv
<1>2. EnvOK'
  BY DEF Forget, IInv, EnvOK
<1> QED BY <1>1, <1>2 DEF IInv

LEMMA CrashIInv ==
  ASSUME IInv, NEW r \in Replicas, Crash(r)
  PROVE  IInv'
<1>1. StoreOK' /\ CountersOK' /\ RunsOK' /\ UNCHANGED runs
  BY StoreSame, CountersSame, RunsSame DEF Crash, counters, IInv
<1>2. JobsOK'
  BY <1>1, JobsRestart DEF Crash, IInv
<1>3. EnvOK'
  BY DEF Crash, IInv, EnvOK
<1> QED BY <1>1, <1>2, <1>3 DEF IInv

LEMMA StutterIInv == IInv /\ UNCHANGED vars => IInv'
BY StoreSame, JobsSame, CountersSame, EnvSame, RunsSame DEF IInv, vars, counters, env

-----------------------------------------------------------------------------
(* IInv is an invariant of the engine. *)

LEMMA NextIInv == IInv /\ [Next]_vars => IInv'
<1> SUFFICES ASSUME IInv, [Next]_vars PROVE IInv'
  OBVIOUS
<1>1. CASE \E e \in Events : Publish(e)
  BY <1>1, PublishIInv
<1>2. CASE \E r \in Replicas, e \in Events : HandleEvent(r, e)
  BY <1>2, HandleEventIInv
<1>3. CASE \E r \in Replicas, e \in Events : Handler(r, e)
  BY <1>3, LoadIInv, ClaimIInv, PersistIInv, FinishIInv DEF Handler
<1>4. CASE \E r \in Replicas, e \in Events : Body(r, e)
  BY <1>4, ActOkIInv, ActErrIInv, ActPanicIInv DEF Body
<1>5. CASE \E r \in Replicas, j \in Jobs : Compensate(r, j) \/ Failing(r, j)
  BY <1>5, CompensateIInv, FailSetIInv, FailDelIInv DEF Failing
<1>6. CASE \E r \in Replicas, s \in Sagas : Sweep(r, s)
  BY <1>6, SweepIInv
<1>7. CASE World
  BY <1>7, AgeIInv, ExpireIInv, CrashIInv, ForgetIInv DEF World
<1>8. CASE UNCHANGED vars
  BY <1>8, StutterIInv
<1> QED BY <1>1, <1>2, <1>3, <1>4, <1>5, <1>6, <1>7, <1>8 DEF Next

THEOREM Inductive == Spec => []IInv
BY NextIInv, InitIInv, PTL DEF Spec

(* The state of the engine keeps its types, and no local or persisted      *)
(* CurrentStep ever exceeds the length of the definition (persist, load).  *)
THEOREM TypeCorrect == Spec => []TypeOK
BY Inductive, IInvImplies, PTL

(* The steps of every saga execute in order: no interleaving of replicas,  *)
(* redeliveries, sweepers, crashes and Redis errors runs a step body       *)
(* before the one in front of it (handleDefinition).                       *)
THEOREM StepsInOrder == Spec => []StepOrder
BY Inductive, IInvImplies, PTL

(* A saga is never counted as completed unless each of its step bodies has *)
(* run successfully at some time (handleDefinition, finish).               *)
THEOREM CompletionIsEarned == Spec => []CompletionEarned
BY Inductive, IInvImplies, PTL

-----------------------------------------------------------------------------
(* Nothing happens without an event. *)

(* A replica has only handled what was published, and a handler that runs  *)
(* is for an event its replica has recorded.                               *)
Woken ==
  \A r \in Replicas :
    /\ seen[r] \subseteq sent
    /\ \A e \in Events : job[r][e].pc # "idle" => e \in seen[r]

(* A key exists, and a sweeper works on it, only for a saga an event of    *)
(* which was published.                                                    *)
Caused ==
  \A s \in Sagas :
    store[s] # Absent \/ (\E r \in Replicas : job[r][s].pc # "idle")
      => \E e \in sent : SagaOf[e] = s

LEMMA InitWoken == Init => Woken /\ Caused
BY SagaForEvent, SagaForSaga DEF Init, Woken, Caused, Idle

(* SetJob reads at one job.                                                *)
LEMMA SetJobAt ==
  ASSUME JobsOK, NEW r \in Replicas, NEW j \in Jobs, NEW new, SetJob(r, j, new)
  PROVE  \A q \in Replicas, k \in Jobs :
           job'[q][k] = IF q = r /\ k = j THEN new ELSE job[q][k]
BY DEF SetJob, JobsOK

LEMMA RestartAt ==
  ASSUME JobsOK, NEW r \in Replicas, job' = [job EXCEPT ![r] = [j \in Jobs |-> Idle]]
  PROVE  \A q \in Replicas, k \in Jobs :
           job'[q][k] = IF q = r THEN Idle ELSE job[q][k]
BY DEF JobsOK

(* A step by which no job starts and a key only comes up for a saga at     *)
(* work.                                                                   *)
Quietly ==
  /\ UNCHANGED <<sent, seen>>
  /\ \A r \in Replicas, j \in Jobs : job'[r][j].pc # "idle" => job[r][j].pc # "idle"
  /\ \A s \in Sagas : store'[s] # Absent => store[s] # Absent \/ InFlight(s)

LEMMA WorkingCaused ==
  ASSUME Woken, Caused, NEW s \in Sagas, store[s] # Absent \/ InFlight(s)
  PROVE  \E e \in sent : SagaOf[e] = s
<1>1. CASE store[s] # Absent
  BY <1>1 DEF Caused
<1>2. CASE InFlight(s)
  <2>1. PICK r \in Replicas, j \in Jobs : job[r][j].pc # "idle" /\ SagaFor(j) = s
    BY <1>2 DEF InFlight
  <2>2. CASE j \in Events
    BY <2>1, <2>2, SagaForEvent DEF Woken
  <2>3. CASE j \in Sagas
    BY <2>1, <2>3, SagaForSaga DEF Caused
  <2> QED BY <2>2, <2>3 DEF Jobs
<1> QED BY <1>1, <1>2

LEMMA QuietlyWoken == Woken /\ Caused /\ Quietly => Woken' /\ Caused'
<1> SUFFICES ASSUME Woken, Caused, Quietly PROVE Woken' /\ Caused'
  OBVIOUS
<1>1. Woken'
  BY SagaForEvent DEF Woken, Quietly
<1>2. ASSUME NEW s \in Sagas, store'[s] # Absent \/ \E r \in Replicas : job'[r][s].pc # "idle"
      PROVE  \E e \in sent' : SagaOf[e] = s
  <2>1. store[s] # Absent \/ InFlight(s)
    BY <1>2, SagaForSaga DEF Quietly, InFlight
  <2> QED BY <2>1, WorkingCaused DEF Quietly
<1> QED BY <1>1, <1>2 DEF Caused

(* A job that is at work and goes on writes under its own key.             *)
LEMMA WorksQuietly ==
  ASSUME JobsOK, NEW r \in Replicas, NEW j \in Jobs, NEW new, SetJob(r, j, new),
         job[r][j].pc # "idle", UNCHANGED <<sent, seen>>,
         \A s \in Sagas : s # SagaFor(j) => store'[s] = store[s]
  PROVE  Quietly
<1>1. \A q \in Replicas, k \in Jobs :
        job'[q][k].pc # "idle" => job[q][k].pc # "idle"
  BY SetJobAt
<1>2. ASSUME NEW s \in Sagas, store'[s] # Absent
      PROVE  store[s] # Absent \/ InFlight(s)
  <2>1. CASE s = SagaFor(j)
    BY <2>1 DEF InFlight
  <2>2. CASE s # SagaFor(j)
    BY <1>2, <2>2
  <2> QED BY <2>1, <2>2
<1> QED BY <1>1, <1>2 DEF Quietly

LEMMA HandlerQuietly ==
  ASSUME IInv, NEW r \in Replicas, NEW e \in Events, Handler(r, e)
  PROVE  Quietly
<1>1. JobsOK /\ e \in Jobs /\ SagaFor(e) = SagaOf[e] /\ store \in [Sagas -> Saga \cup {Absent}]
  BY SagaForEvent DEF IInv, StoreOK
<1>2. CASE Load(r, e)
  <2>1. PICK new : SetJob(r, e, new)
    BY <1>2 DEF Load, Enter
  <2> QED BY <2>1, <1>1, <1>2, WorksQuietly DEF Load, env
<1>3. CASE Claim(r, e)
  <2>1. PICK new : SetJob(r, e, new)
    BY <1>3 DEF Claim, Enter
  <2>2. \A s \in Sagas : s # SagaOf[e] => store'[s] = store[s]
    BY <1>1, <1>3 DEF Claim
  <2> QED BY <2>1, <2>2, <1>1, <1>3, WorksQuietly DEF Claim, env
<1>4. CASE Persist(r, e)
  <2>1. PICK new : SetJob(r, e, new)
    BY <1>4 DEF Persist, Enter
  <2>2. \A s \in Sagas : s # SagaOf[e] => store'[s] = store[s]
    BY <1>1, <1>4 DEF Persist
  <2> QED BY <2>1, <2>2, <1>1, <1>4, WorksQuietly DEF Persist, env
<1>5. CASE Finish(r, e)
  <2>2. \A s \in Sagas : s # SagaOf[e] => store'[s] = store[s]
    BY <1>1, <1>5 DEF Finish
  <2> QED BY <2>2, <1>1, <1>5, WorksQuietly DEF Finish, env
<1> QED BY <1>2, <1>3, <1>4, <1>5 DEF Handler

LEMMA BodyQuietly ==
  ASSUME IInv, NEW r \in Replicas, NEW e \in Events,
         NEW p, ActOk(r, e, p) \/ ActErr(r, e, p)
  PROVE  Quietly
<1>1. JobsOK /\ e \in Jobs
  BY SagaForEvent DEF IInv
<1>2. PICK new : SetJob(r, e, new)
  BY DEF ActOk, ActErr
<1> QED BY <1>1, <1>2, WorksQuietly DEF ActOk, ActErr, env

LEMMA FailingQuietly ==
  ASSUME IInv, NEW r \in Replicas, NEW j \in Jobs, Compensate(r, j) \/ Failing(r, j)
  PROVE  Quietly
<1>1. JobsOK /\ store \in [Sagas -> Saga \cup {Absent}]
  BY DEF IInv, StoreOK
<1>2. CASE Compensate(r, j)
  <2>1. PICK new : SetJob(r, j, new)
    BY <1>2 DEF Compensate
  <2> QED BY <2>1, <1>1, <1>2, WorksQuietly DEF Compensate, env
<1>3. CASE FailSet(r, j)
  <2>2. \A s \in Sagas : s # SagaFor(j) => store'[s] = store[s]
    BY <1>1, <1>3 DEF FailSet
  <2> QED BY <2>2, <1>1, <1>3, WorksQuietly DEF FailSet, env
<1>4. CASE FailDel(r, j)
  <2>2. \A s \in Sagas : s # SagaFor(j) => store'[s] = store[s]
    BY <1>1, <1>4 DEF FailDel
  <2> QED BY <2>2, <1>1, <1>4, WorksQuietly DEF FailDel, env
<1> QED BY <1>2, <1>3, <1>4 DEF Failing

(* A replica that restarts forgets all events or none, and works on none.  *)
LEMMA RestartWoken ==
  ASSUME JobsOK, Woken, Caused, NEW r \in Replicas,
         job' = [job EXCEPT ![r] = [j \in Jobs |-> Idle]],
         seen' = [seen EXCEPT ![r] = {}] \/ UNCHANGED seen,
         UNCHANGED <<store, sent>>, seen \in [Replicas -> SUBSET Events]
  PROVE  Woken' /\ Caused'
<1>1. \A q \in Replicas, k \in Jobs :
        job'[q][k] = IF q = r THEN Idle ELSE job[q][k]
  BY RestartAt
<1>2. Woken'
  BY <1>1, SagaForEvent DEF Woken, Idle
<1>3. \A q \in Replicas, k \in Jobs : job'[q][k].pc # "idle" => job[q][k].pc # "idle"
  BY <1>1 DEF Idle
<1>4. Caused'
  BY <1>3, SagaForSaga DEF Caused
<1> QED BY <1>2, <1>4

LEMMA NextWoken == IInv /\ Woken /\ Caused /\ [Next]_vars => Woken' /\ Caused'
<1> SUFFICES ASSUME IInv, Woken, Caused, [Next]_vars
             PROVE  Woken' /\ Caused'
  OBVIOUS
<1>0. /\ JobsOK /\ store \in [Sagas -> Saga \cup {Absent}]
      /\ seen \in [Replicas -> SUBSET Events]
  BY DEF IInv, StoreOK, EnvOK
<1>1. ASSUME NEW e \in Events, Publish(e)
      PROVE  Woken' /\ Caused'
  BY <1>1 DEF Publish, Woken, Caused
<1>2. ASSUME NEW r \in Replicas, NEW e \in Events, HandleEvent(r, e)
      PROVE  Woken' /\ Caused'
  <2>1. \A q \in Replicas, k \in Jobs :
          job'[q][k] = IF q = r /\ k = e THEN [Idle EXCEPT !.pc = "load"] ELSE job[q][k]
    BY <1>0, <1>2, SetJobAt, SagaForEvent DEF HandleEvent
  <2>2. Woken'
    BY <1>0, <1>2, <2>1, SagaForEvent DEF Woken, HandleEvent
  <2>3. \A q \in Replicas, s \in Sagas : job'[q][s] = job[q][s]
    BY <2>1, SagaForSaga, SagaAssumption
  <2>4. Caused'
    BY <1>2, <2>3 DEF Caused, HandleEvent
  <2> QED BY <2>2, <2>4
<1>3. ASSUME NEW r \in Replicas, NEW e \in Events, Handler(r, e)
      PROVE  Woken' /\ Caused'
  BY <1>3, HandlerQuietly, QuietlyWoken
<1>4. ASSUME NEW r \in Replicas, NEW e \in Events, Body(r, e)
      PROVE  Woken' /\ Caused'
  <2>1. CASE ActPanic(r, e)
    BY <2>1, <1>0, RestartWoken DEF ActPanic, Panic
  <2>2. CASE \E p : ActOk(r, e, p) \/ ActErr(r, e, p)
    BY <2>2, BodyQuietly, QuietlyWoken
  <2> QED BY <1>4, <2>1, <2>2 DEF Body
<1>5. ASSUME NEW r \in Replicas, NEW j \in Jobs, Compensate(r, j) \/ Failing(r, j)
      PROVE  Woken' /\ Caused'
  BY <1>5, FailingQuietly, QuietlyWoken
<1>6. ASSUME NEW r \in Replicas, NEW s \in Sagas, Sweep(r, s)
      PROVE  Woken' /\ Caused'
  <2>1. CASE Panic(r, "steps")
    BY <2>1, <1>0, <1>6, RestartWoken DEF Sweep, Panic
  <2>2. CASE UNCHANGED env /\ \E new : SetJob(r, s, new)
    <3>1. PICK new : SetJob(r, s, new)
      BY <2>2
    <3>2. \A q \in Replicas, k \in Jobs :
            job'[q][k] = IF q = r /\ k = s THEN new ELSE job[q][k]
      BY <1>0, <3>1, SetJobAt, SagaForSaga
    <3>3. \A e \in Events : e \in Jobs /\ e # s
      BY SagaForEvent, SagaAssumption
    <3>4. Woken'
      BY <2>2, <3>2, <3>3 DEF Woken, env
    <3>5. \E e \in sent : SagaOf[e] = s
      BY <1>6 DEF Sweep, Caused
    <3>6. Caused'
      BY <1>6, <2>2, <3>2, <3>5, SagaForSaga DEF Caused, env, Sweep
    <3> QED BY <3>4, <3>6
  <2> QED BY <1>6, <2>1, <2>2 DEF Sweep
<1>7. ASSUME NEW s \in Sagas, Age(s) \/ Expire(s)
      PROVE  Woken' /\ Caused'
  <2>1. Quietly
    BY <1>0, <1>7 DEF Age, Expire, Quietly, env
  <2> QED BY <2>1, QuietlyWoken
<1>8. ASSUME NEW r \in Replicas, NEW e \in Events, Forget(r, e)
      PROVE  Woken' /\ Caused'
  <2>1. job[r][e].pc = "idle"
    BY <1>8, SagaForEvent DEF Forget, InFlight
  <2> QED BY <1>0, <1>8, <2>1 DEF Forget, Woken, Caused
<1>9. ASSUME NEW r \in Replicas, Crash(r)
      PROVE  Woken' /\ Caused'
  BY <1>9, <1>0, RestartWoken DEF Crash
<1>10. CASE UNCHANGED vars
  BY <1>10 DEF vars, Woken, Caused
<1> QED BY <1>1, <1>2, <1>3, <1>4, <1>5, <1>6, <1>7, <1>8, <1>9, <1>10 DEF Next, World

(* Nobody works on a saga, and no key exists for it, before an event of it *)
(* was published: handlers and sweepers act on deliveries and on keys only *)
(* (HandleEvent, claim, sweepOnce).                                        *)
THEOREM NothingUncaused == Spec => [](Woken /\ Caused)
BY Inductive, InitWoken, NextWoken, PTL DEF Spec

-----------------------------------------------------------------------------
(* What the copies of a saga carry.  A copy is its value in Redis or the   *)
(* local one of a goroutine at work.  A is what a Payload may be at all, B *)
(* what it may be once the first step is behind it.                        *)

CopyOK(A, B, x) == x.payload \in A /\ (x.step > 0 => x.payload \in B)

WorkOK(A, B, J) ==
  J.pc # "idle" => CopyOK(A, B, J.s) /\ (J.pc = "persist" => J.s.payload \in B)

StoreCarries(A, B) == \A s \in Sagas : store[s] # Absent => CopyOK(A, B, store[s])
JobsCarry(A, B) == \A r \in Replicas, j \in Jobs : WorkOK(A, B, job[r][j])

(* A holds the empty maps, B both or none of them: an empty map comes back *)
(* from Redis as nil and nil goes there as the empty map.                  *)
Carriers(A, B) ==
  /\ NoPayload \in A /\ NilPayload \in A
  /\ NoPayload \in B <=> NilPayload \in B

LEMMA JsonCarries ==
  ASSUME NEW A, NEW B, Carriers(A, B), NEW x \in Saga, CopyOK(A, B, x)
  PROVE  /\ CopyOK(A, B, Loaded(x))
         /\ CopyOK(A, B, [Stored(x) EXCEPT !.status = "failed"])
<1>1. /\ Loaded(x).step = x.step
      /\ Loaded(x).payload = IF x.payload = NoPayload THEN NilPayload ELSE x.payload
  BY DEF Loaded, Saga
<1> DEFINE y == [Stored(x) EXCEPT !.status = "failed"]
<1>2. /\ y.step = x.step
      /\ y.payload = IF x.payload = NilPayload THEN NoPayload ELSE x.payload
  BY DEF Stored, Saga
<1> HIDE DEF y
<1>3. CopyOK(A, B, y)
  BY <1>2 DEF CopyOK, Carriers
<1> QED BY <1>1, <1>3 DEF CopyOK, Carriers, y

LEMMA NewCarries ==
  ASSUME NEW A, NEW B, Carriers(A, B)
  PROVE  CopyOK(A, B, NewSaga)
BY DEF CopyOK, Carriers, NewSaga

(* One job moves. *)
LEMMA JobsCarryStep ==
  ASSUME IInv, NEW A, NEW B, JobsCarry(A, B), NEW r \in Replicas, NEW j \in Jobs,
         NEW new, SetJob(r, j, new), WorkOK(A, B, new)
  PROVE  JobsCarry(A, B)'
<1>1. \A q \in Replicas, k \in Jobs :
        job'[q][k] = IF q = r /\ k = j THEN new ELSE job[q][k]
  BY SetJobAt DEF IInv
<1> QED BY <1>1 DEF JobsCarry, WorkOK, CopyOK, Jobs

LEMMA StoreCarriesStep ==
  ASSUME IInv, NEW A, NEW B, StoreCarries(A, B), NEW s \in Sagas, NEW x,
         store' = [store EXCEPT ![s] = x], x # Absent => CopyOK(A, B, x)
  PROVE  StoreCarries(A, B)'
BY DEF IInv, StoreOK, StoreCarries, CopyOK

LEMMA StoreCarriesSame ==
  ASSUME NEW A, NEW B, StoreCarries(A, B), UNCHANGED store
  PROVE  StoreCarries(A, B)'
BY DEF StoreCarries, CopyOK

LEMMA JobsCarrySame ==
  ASSUME NEW A, NEW B, JobsCarry(A, B), UNCHANGED job
  PROVE  JobsCarry(A, B)'
BY DEF JobsCarry, WorkOK, CopyOK

LEMMA RestartCarries ==
  ASSUME IInv, NEW A, NEW B, JobsCarry(A, B), NEW r \in Replicas,
         job' = [job EXCEPT ![r] = [j \in Jobs |-> Idle]]
  PROVE  JobsCarry(A, B)'
<1>1. \A q \in Replicas, k \in Jobs : job'[q][k] = IF q = r THEN Idle ELSE job[q][k]
  BY RestartAt DEF IInv
<1> QED BY <1>1 DEF JobsCarry, WorkOK, CopyOK, Idle, Jobs

(* A handler enters the loop with a copy, or leaves. *)
LEMMA EnterCarries ==
  ASSUME IInv, NEW A, NEW B, JobsCarry(A, B), NEW r \in Replicas, NEW e \in Events,
         NEW x, Enter(r, e, x), CopyOK(A, B, x)
  PROVE  JobsCarry(A, B)'
<1> DEFINE new == IF Dispatch(e, x) = "idle" THEN Idle
                  ELSE [pc |-> Dispatch(e, x), s |-> x, i |-> 0]
<1>1. SetJob(r, e, new)
  BY DEF Enter
<1>2. WorkOK(A, B, new)
  BY DEF WorkOK, Idle, Dispatch
<1> QED BY <1>1, <1>2, SagaForEvent, JobsCarryStep

LEMMA HandlerCarries ==
  ASSUME IInv, NEW A, NEW B, Carriers(A, B), StoreCarries(A, B), JobsCarry(A, B),
         NEW r \in Replicas, NEW e \in Events, HandleEvent(r, e) \/ Handler(r, e)
  PROVE  StoreCarries(A, B)' /\ JobsCarry(A, B)'
<1>1. SagaOf[e] \in Sagas /\ e \in Jobs
  BY SagaForEvent
<1>2. CASE HandleEvent(r, e)
  <2> DEFINE new == [Idle EXCEPT !.pc = "load"]
  <2>1. WorkOK(A, B, new)
    BY NewCarries DEF WorkOK, Idle
  <2> QED BY <1>1, <1>2, <2>1, JobsCarryStep, StoreCarriesSame DEF HandleEvent
<1>3. CASE Load(r, e)
  <2> DEFINE new == IF StepOf[e] = 0 THEN [Idle EXCEPT !.pc = "claim"] ELSE Idle
  <2>1. StoreCarries(A, B)'
    BY <1>3, StoreCarriesSame DEF Load
  <2>2. CASE store[SagaOf[e]] # Absent /\ Enter(r, e, Loaded(store[SagaOf[e]]))
    <3>1. CopyOK(A, B, Loaded(store[SagaOf[e]]))
      BY <1>1, <2>2, JsonCarries DEF IInv, StoreOK, StoreCarries
    <3> QED BY <2>1, <2>2, <3>1, EnterCarries
  <2>3. CASE SetJob(r, e, new)
    <3>1. WorkOK(A, B, new)
      BY NewCarries DEF WorkOK, Idle
    <3> QED BY <1>1, <2>1, <2>3, <3>1, JobsCarryStep
  <2> QED BY <1>3, <2>2, <2>3 DEF Load
<1>4. CASE Claim(r, e)
  <2>1. StoreCarries(A, B)'
    BY <1>1, <1>4, NewCarries, StoreCarriesStep, StoreCarriesSame DEF Claim
  <2>2. CASE Enter(r, e, NewSaga)
    BY <2>1, <2>2, NewCarries, EnterCarries
  <2>3. CASE SetJob(r, e, Idle)
    <3>1. WorkOK(A, B, Idle)
      BY DEF WorkOK, Idle
    <3> QED BY <1>1, <2>1, <2>3, <3>1, JobsCarryStep
  <2> QED BY <1>4, <2>2, <2>3 DEF Claim
<1>5. CASE Persist(r, e)
  <2> DEFINE x == [job[r][e].s EXCEPT !.step = @ + 1, !.status = "active"]
  <2>1. job[r][e].s \in Saga /\ job[r][e].pc = "persist"
    BY <1>1, <1>5 DEF IInv, JobsOK, JobType, Persist
  <2>2. x.payload = job[r][e].s.payload
    BY <2>1 DEF Saga
  <2>3. CopyOK(A, B, x)
    BY <1>1, <2>1, <2>2 DEF JobsCarry, WorkOK, CopyOK
  <2> HIDE DEF x
  <2>4. StoreCarries(A, B)'
    BY <1>1, <1>5, <2>3, StoreCarriesStep, StoreCarriesSame DEF Persist, x
  <2> QED BY <1>5, <2>3, <2>4, EnterCarries DEF Persist, x
<1>6. CASE Finish(r, e)
  <2>1. WorkOK(A, B, Idle)
    BY DEF WorkOK, Idle
  <2> QED BY <1>1, <1>6, <2>1, JobsCarryStep, StoreCarriesStep, StoreCarriesSame DEF Finish
<1> QED BY <1>2, <1>3, <1>4, <1>5, <1>6 DEF Handler

LEMMA FailingCarries ==
  ASSUME IInv, NEW A, NEW B, Carriers(A, B), StoreCarries(A, B), JobsCarry(A, B),
         NEW r \in Replicas, NEW j \in Jobs, Compensate(r, j) \/ Failing(r, j)
  PROVE  StoreCarries(A, B)' /\ JobsCarry(A, B)'
<1> DEFINE J == job[r][j]
<1>1. J \in JobType /\ SagaFor(j) \in Sagas /\ WorkOK(A, B, J)
  BY SagaForType DEF IInv, JobsOK, JobsCarry
<1>2. CASE Compensate(r, j)
  <2> DEFINE new == IF J.i = 0 THEN [J EXCEPT !.pc = "failset"] ELSE [J EXCEPT !.i = @ - 1]
  <2>1. new.s = J.s /\ new.pc \in {"comp", "failset"} /\ J.pc # "idle"
    BY <1>1, <1>2 DEF JobType, Compensate
  <2>2. WorkOK(A, B, new)
    BY <1>1, <2>1 DEF WorkOK
  <2>3. SetJob(r, j, new)
    BY <1>2 DEF Compensate
  <2> QED BY <1>2, <2>2, <2>3, JobsCarryStep, StoreCarriesSame DEF Compensate
<1>3. CASE FailSet(r, j)
  <2> DEFINE new == [J EXCEPT !.pc = "faildel"]
             x == [Stored(J.s) EXCEPT !.status = "failed"]
  <2>1. J.s \in Saga /\ CopyOK(A, B, J.s)
    BY <1>1, <1>3 DEF JobType, WorkOK, FailSet
  <2>2. CopyOK(A, B, x)
    BY <2>1, JsonCarries
  <2>3. WorkOK(A, B, new)
    BY <1>1, <2>1 DEF WorkOK, JobType
  <2>4. SetJob(r, j, new)
    BY <1>3 DEF FailSet
  <2>5. store' = [store EXCEPT ![SagaFor(j)] = x] \/ UNCHANGED store
    BY <1>3 DEF FailSet
  <2> HIDE DEF x
  <2> QED BY <1>1, <2>2, <2>3, <2>4, <2>5, JobsCarryStep, StoreCarriesStep, StoreCarriesSame
<1>4. CASE FailDel(r, j)
  <2>1. WorkOK(A, B, Idle)
    BY DEF WorkOK, Idle
  <2> QED BY <1>1, <1>4, <2>1, JobsCarryStep, StoreCarriesStep, StoreCarriesSame DEF FailDel
<1> QED BY <1>2, <1>3, <1>4 DEF Failing

LEMMA SweepCarries ==
  ASSUME IInv, NEW A, NEW B, Carriers(A, B), StoreCarries(A, B), JobsCarry(A, B),
         NEW r \in Replicas, NEW s \in Sagas, Sweep(r, s)
  PROVE  StoreCarries(A, B)' /\ JobsCarry(A, B)'
<1> DEFINE new == [pc |-> "comp", i |-> store[s].step, s |-> Loaded(store[s])]
<1>1. StoreCarries(A, B)'
  BY StoreCarriesSame DEF Sweep
<1>2. CASE SetJob(r, s, new)
  <2>1. CopyOK(A, B, Loaded(store[s]))
    BY JsonCarries DEF Sweep, IInv, StoreOK, StoreCarries
  <2>2. WorkOK(A, B, new)
    BY <2>1 DEF WorkOK
  <2> QED BY <1>1, <1>2, <2>2, SagaForSaga, JobsCarryStep
<1>3. CASE Panic(r, "steps")
  BY <1>1, <1>3, RestartCarries DEF Panic
<1> QED BY <1>2, <1>3 DEF Sweep

LEMMA WorldCarries ==
  ASSUME IInv, NEW A, NEW B, StoreCarries(A, B), JobsCarry(A, B), World
  PROVE  StoreCarries(A, B)' /\ JobsCarry(A, B)'
<1>1. ASSUME NEW s \in Sagas, Age(s) PROVE StoreCarries(A, B)' /\ JobsCarry(A, B)'
  <2> DEFINE x == [store[s] EXCEPT !.aged = TRUE]
  <2>1. CopyOK(A, B, x)
    BY <1>1 DEF Age, IInv, StoreOK, StoreCarries, CopyOK, Saga
  <2>2. store' = [store EXCEPT ![s] = x]
    BY <1>1 DEF Age
  <2> QED BY <1>1, <2>1, <2>2, StoreCarriesStep, JobsCarrySame DEF Age
<1>2. ASSUME NEW s \in Sagas, Expire(s) PROVE StoreCarries(A, B)' /\ JobsCarry(A, B)'
  BY <1>2, StoreCarriesStep, JobsCarrySame DEF Expire
<1>3. ASSUME NEW r \in Replicas, Crash(r) PROVE StoreCarries(A, B)' /\ JobsCarry(A, B)'
  BY <1>3, StoreCarriesSame, RestartCarries DEF Crash
<1>4. ASSUME NEW r \in Replicas, NEW e \in Events, Forget(r, e)
      PROVE  StoreCarries(A, B)' /\ JobsCarry(A, B)'
  BY <1>4, StoreCarriesSame, JobsCarrySame DEF Forget
<1> QED BY <1>1, <1>2, <1>3, <1>4 DEF World

(* A body leaves behind a payload it may have written. *)
LEMMA BodyCarries ==
  ASSUME IInv, NEW A, NEW B, StoreCarries(A, B), JobsCarry(A, B),
         NEW r \in Replicas, NEW e \in Events, NEW p,
         \/ ActOk(r, e, p) /\ p \in A \cap B
         \/ ActErr(r, e, p) /\ p \in A /\ (job[r][e].s.step > 0 => p \in B)
         \/ ActPanic(r, e)
  PROVE  StoreCarries(A, B)' /\ JobsCarry(A, B)'
<1> DEFINE J == job[r][e]
<1>1. J \in JobType /\ J.s \in Saga /\ e \in Jobs
  BY SagaForEvent DEF IInv, JobsOK, JobType
<1>2. UNCHANGED store
  BY DEF ActOk, ActErr, ActPanic
<1>3. ASSUME ActOk(r, e, p), p \in A \cap B PROVE JobsCarry(A, B)'
  <2> DEFINE new == [J EXCEPT !.pc = "persist", !.s.payload = p]
  <2>1. new.s.payload = p
    BY <1>1 DEF JobType, Saga
  <2>2. WorkOK(A, B, new)
    BY <1>3, <2>1 DEF WorkOK, CopyOK
  <2>3. SetJob(r, e, new)
    BY <1>3 DEF ActOk
  <2> QED BY <1>1, <2>2, <2>3, JobsCarryStep
<1>4. ASSUME ActErr(r, e, p), p \in A, J.s.step > 0 => p \in B PROVE JobsCarry(A, B)'
  <2> DEFINE new == [J EXCEPT !.pc = "comp", !.s.payload = p, !.i = J.s.step]
  <2>1. new.s.payload = p /\ new.s.step = J.s.step /\ new.pc = "comp"
    BY <1>1 DEF JobType, Saga
  <2>2. WorkOK(A, B, new)
    BY <1>4, <2>1 DEF WorkOK, CopyOK
  <2>3. SetJob(r, e, new)
    BY <1>4 DEF ActErr
  <2> QED BY <1>1, <2>2, <2>3, JobsCarryStep
<1>5. ASSUME ActPanic(r, e) PROVE JobsCarry(A, B)'
  BY <1>5, RestartCarries DEF ActPanic, Panic
<1> QED BY <1>2, <1>3, <1>4, <1>5, StoreCarriesSame

-----------------------------------------------------------------------------
(* Where no sweeper has anything to do: timeoutAfter has not passed yet.   *)

NoSweeper == "sweep" \notin Timeouts
OneReplica == \A q, r \in Replicas : q = r

Unaged ==
  /\ \A s \in Sagas : store[s] # Absent => ~store[s].aged
  /\ \A r \in Replicas : /\ \A j \in Jobs : ~job[r][j].s.aged
                         /\ \A s \in Sagas : job[r][s].pc = "idle"

LEMMA InitUnaged == Init => Unaged
BY SagaForSaga DEF Init, Unaged, Idle, NewSaga

(* A handler keeps and writes what it has read.                            *)
LEMMA WorksUnaged ==
  ASSUME IInv, Unaged, NEW r \in Replicas, NEW j \in Jobs, NEW new, SetJob(r, j, new),
         ~new.s.aged, j \in Events \/ new.pc = "idle",
         \A s \in Sagas : \/ store'[s] = store[s] \/ store'[s] = Absent
                          \/ ~store'[s].aged
  PROVE  Unaged'
<1>1. \A q \in Replicas, k \in Jobs :
        job'[q][k] = IF q = r /\ k = j THEN new ELSE job[q][k]
  BY SetJobAt DEF IInv
<1>2. \A s \in Sagas : s \in Jobs /\ (s = j => new.pc = "idle")
  BY SagaForSaga, SagaAssumption
<1>3. \A s \in Sagas : store'[s] # Absent => ~store'[s].aged
  BY DEF Unaged
<1>4. \A q \in Replicas, k \in Jobs : ~job'[q][k].s.aged
  BY <1>1 DEF Unaged
<1>5. \A q \in Replicas, s \in Sagas : job'[q][s].pc = "idle"
  BY <1>1, <1>2 DEF Unaged
<1> QED BY <1>3, <1>4, <1>5 DEF Unaged

LEMMA HandlerUnaged ==
  ASSUME IInv, Unaged, NEW r \in Replicas, NEW e \in Events, Handler(r, e)
  PROVE  Unaged'
<1>1. /\ e \in Jobs /\ SagaOf[e] \in Sagas /\ job[r][e] \in JobType /\ ~job[r][e].s.aged
      /\ store \in [Sagas -> Saga \cup {Absent}]
  BY SagaForEvent DEF IInv, JobsOK, StoreOK, Unaged
<1>2. \A x : Enter(r, e, x) => \E new : SetJob(r, e, new) /\ (new = Idle \/ new.s = x)
  BY DEF Enter
<1>3. ~Idle.s.aged /\ ~NewSaga.aged
  BY DEF Idle, NewSaga
<1>4. CASE Load(r, e)
  <2>1. CASE store[SagaOf[e]] # Absent /\ Enter(r, e, Loaded(store[SagaOf[e]]))
    <3>1. ~Loaded(store[SagaOf[e]]).aged
      <4>1. store[SagaOf[e]] \in Saga
        BY <1>1, <2>1
      <4> QED BY <4>1 DEF Loaded, Saga
    <3> QED BY <1>1, <1>2, <1>3, <1>4, <2>1, <3>1, WorksUnaged DEF Load
  <2>2. CASE SetJob(r, e, IF StepOf[e] = 0 THEN [Idle EXCEPT !.pc = "claim"] ELSE Idle)
    <3>1. ~[Idle EXCEPT !.pc = "claim"].s.aged
      BY DEF Idle, NewSaga
    <3> QED BY <1>1, <1>3, <1>4, <2>2, <3>1, WorksUnaged DEF Load
  <2> QED BY <1>4, <2>1, <2>2 DEF Load
<1>5. CASE Claim(r, e)
  <2>1. \E new : SetJob(r, e, new) /\ ~new.s.aged
    BY <1>2, <1>3, <1>5 DEF Claim
  <2>2. \A s \in Sagas : store'[s] = store[s] \/ store'[s] = NewSaga
    BY <1>1, <1>5 DEF Claim
  <2> QED BY <1>1, <1>3, <2>1, <2>2, WorksUnaged
<1>6. CASE Persist(r, e)
  <2> DEFINE x == [job[r][e].s EXCEPT !.step = @ + 1, !.status = "active"]
  <2>1. ~x.aged
    BY <1>1 DEF JobType, Saga
  <2>2. \E new : SetJob(r, e, new) /\ ~new.s.aged
    <3>1. Enter(r, e, x)
      BY <1>6 DEF Persist
    <3> HIDE DEF x
    <3> QED BY <1>2, <1>3, <2>1, <3>1
  <2>3. \A s \in Sagas : store'[s] = store[s] \/ store'[s] = x
    BY <1>1, <1>6 DEF Persist
  <2> QED BY <1>1, <2>1, <2>2, <2>3, WorksUnaged
<1>7. CASE Finish(r, e)
  <2>1. \A s \in Sagas : store'[s] = store[s] \/ store'[s] = Absent
    BY <1>1, <1>7 DEF Finish
  <2> QED BY <1>1, <1>3, <1>7, <2>1, WorksUnaged DEF Finish
<1> QED BY <1>4, <1>5, <1>6, <1>7 DEF Handler

LEMMA BodyUnaged ==
  ASSUME IInv, Unaged, NEW r \in Replicas, NEW e \in Events,
         NEW p, ActOk(r, e, p) \/ ActErr(r, e, p)
  PROVE  Unaged'
<1> DEFINE J == job[r][e]
           ok == [J EXCEPT !.pc = "persist", !.s.payload = p]
           err == [J EXCEPT !.pc = "comp", !.s.payload = p, !.i = J.s.step]
<1>1. e \in Jobs /\ J \in JobType /\ ~J.s.aged
  BY SagaForEvent DEF IInv, JobsOK, Unaged
<1>2. ~ok.s.aged /\ ~err.s.aged
  BY <1>1 DEF JobType, Saga
<1>3. SetJob(r, e, ok) \/ SetJob(r, e, err)
  BY DEF ActOk, ActErr
<1>4. UNCHANGED store
  BY DEF ActOk, ActErr
<1> HIDE DEF ok, err
<1> QED BY <1>1, <1>2, <1>3, <1>4, WorksUnaged

LEMMA FailingUnaged ==
  ASSUME IInv, Unaged, NEW r \in Replicas, NEW j \in Jobs, Compensate(r, j) \/ Failing(r, j)
  PROVE  Unaged'
<1> DEFINE J == job[r][j]
           x == [Stored(J.s) EXCEPT !.status = "failed"]
<1>1. /\ J \in JobType /\ ~J.s.aged /\ SagaFor(j) \in Sagas
      /\ store \in [Sagas -> Saga \cup {Absent}]
  BY SagaForType DEF IInv, JobsOK, Unaged, StoreOK
<1>2. j \in Events
  <2>1. J.pc # "idle"
    BY DEF Compensate, Failing, FailSet, FailDel
  <2> QED BY <2>1 DEF Unaged, Jobs
<1>3. ~x.aged
  BY <1>1 DEF Stored, JobType, Saga
<1>4. \A s \in Sagas : store'[s] = store[s] \/ store'[s] = Absent \/ store'[s] = x
  BY <1>1 DEF Compensate, Failing, FailSet, FailDel
<1>5. \E new : SetJob(r, j, new) /\ ~new.s.aged
  <2>1. CASE Compensate(r, j)
    <3> DEFINE a == [J EXCEPT !.pc = "failset"]
               b == [J EXCEPT !.i = @ - 1]
    <3>1. ~a.s.aged /\ ~b.s.aged
      BY <1>1 DEF JobType
    <3> HIDE DEF a, b
    <3>2. SetJob(r, j, IF J.i = 0 THEN a ELSE b)
      BY <2>1 DEF Compensate, a, b
    <3> QED BY <3>1, <3>2
  <2>2. CASE FailSet(r, j)
    <3>1. ~[J EXCEPT !.pc = "faildel"].s.aged
      BY <1>1 DEF JobType
    <3> QED BY <2>2, <3>1 DEF FailSet
  <2>3. CASE FailDel(r, j)
    BY <2>3 DEF FailDel, Idle, NewSaga
  <2> QED BY <2>1, <2>2, <2>3 DEF Failing
<1> HIDE DEF x
<1> QED BY <1>2, <1>3, <1>4, <1>5, WorksUnaged

LEMMA RestartUnaged ==
  ASSUME IInv, Unaged, NEW r \in Replicas, UNCHANGED store,
         job' = [job EXCEPT ![r] = [j \in Jobs |-> Idle]]
  PROVE  Unaged'
<1>1. \A q \in Replicas, k \in Jobs : job'[q][k] = IF q = r THEN Idle ELSE job[q][k]
  BY RestartAt DEF IInv
<1> QED BY <1>1, SagaForSaga DEF Unaged, Idle, NewSaga

LEMMA NextUnaged == NoSweeper /\ IInv /\ Unaged /\ [Next]_vars => Unaged'
<1> SUFFICES ASSUME NoSweeper, IInv, Unaged, [Next]_vars PROVE Unaged'
  OBVIOUS
<1>1. ASSUME NEW e \in Events, Publish(e) PROVE Unaged'
  BY <1>1 DEF Publish, Unaged
<1>2. ASSUME NEW r \in Replicas, NEW e \in Events, HandleEvent(r, e) PROVE Unaged'
  <2>1. ~[Idle EXCEPT !.pc = "load"].s.aged
    BY DEF Idle, NewSaga
  <2> QED BY <1>2, <2>1, WorksUnaged, SagaForEvent DEF HandleEvent
<1>3. ASSUME NEW r \in Replicas, NEW e \in Events, Handler(r, e) PROVE Unaged'
  BY <1>3, HandlerUnaged
<1>4. ASSUME NEW r \in Replicas, NEW e \in Events, Body(r, e) PROVE Unaged'
  <2>1. CASE ActPanic(r, e)
    BY <2>1, RestartUnaged DEF ActPanic, Panic
  <2>2. CASE \E p : ActOk(r, e, p) \/ ActErr(r, e, p)
    BY <2>2, BodyUnaged
  <2> QED BY <1>4, <2>1, <2>2 DEF Body
<1>5. ASSUME NEW r \in Replicas, NEW j \in Jobs, Compensate(r, j) \/ Failing(r, j)
      PROVE  Unaged'
  BY <1>5, FailingUnaged
<1>6. ASSUME NEW r \in Replicas, NEW s \in Sagas, Sweep(r, s) PROVE FALSE
  BY <1>6 DEF Sweep, Unaged
<1>7. ASSUME NEW s \in Sagas, Age(s) \/ Expire(s) PROVE FALSE
  BY <1>7 DEF Age, Expire, Unaged, NoSweeper
<1>8. ASSUME NEW r \in Replicas, NEW e \in Events, Forget(r, e) PROVE Unaged'
  BY <1>8 DEF Forget, Unaged
<1>9. ASSUME NEW r \in Replicas, Crash(r) PROVE Unaged'
  BY <1>9, RestartUnaged DEF Crash
<1>10. CASE UNCHANGED vars
  BY <1>10 DEF vars, Unaged
<1> QED BY <1>1, <1>2, <1>3, <1>4, <1>5, <1>6, <1>7, <1>8, <1>9, <1>10 DEF Next, World

(* Mishaps are counted one by one and never taken back.                    *)
LEMMA MishapsCount ==
  [Next]_vars => /\ forgets' \in {forgets, forgets + 1}
                 /\ crashes' \in {crashes, crashes + 1}
                 /\ panics \subseteq panics'
<1> DEFINE Counted == /\ forgets' \in {forgets, forgets + 1}
                      /\ crashes' \in {crashes, crashes + 1}
                      /\ panics \subseteq panics'
           Same == UNCHANGED <<forgets, crashes, panics>>
<1> SUFFICES ASSUME [Next]_vars PROVE Counted
  OBVIOUS
<1>0. Same => Counted
  OBVIOUS
<1>1. ASSUME NEW e \in Events, Publish(e) PROVE Same
  BY <1>1 DEF Publish
<1>2. ASSUME NEW r \in Replicas, NEW e \in Events, HandleEvent(r, e) \/ Handler(r, e)
      PROVE  Same
  BY <1>2 DEF HandleEvent, Handler, Load, Claim, Persist, Finish, env
<1>3. ASSUME NEW r \in Replicas, NEW e \in Events, Body(r, e) PROVE Counted
  BY <1>3 DEF Body, ActOk, ActErr, ActPanic, Panic, env
<1>4. ASSUME NEW r \in Replicas, NEW j \in Jobs, Compensate(r, j) \/ Failing(r, j)
      PROVE  Same
  BY <1>4 DEF Failing, Compensate, FailSet, FailDel, env
<1>5. ASSUME NEW r \in Replicas, NEW s \in Sagas, Sweep(r, s) PROVE Counted
  BY <1>5 DEF Sweep, Panic, env
<1>6. World => Counted
  BY DEF World, Age, Expire, Crash, Forget, env
<1>7. CASE UNCHANGED vars
  BY <1>7 DEF vars
<1> HIDE DEF Counted
<1> QED BY <1>0, <1>1, <1>2, <1>3, <1>4, <1>5, <1>6, <1>7 DEF Next

-----------------------------------------------------------------------------
(* RunsOncePerLife.  For a step k of a saga s, Due(s, k) is the set of     *)
(* steps from which a body of step k can still follow without another      *)
(* start: the step the key holds, when an event may read it, the step a    *)
(* handler is at, and the step a failing job puts back.  The bodies of     *)
(* step k that have run and those that are due never exceed the starts and *)
(* the crashes.                                                            *)

OnePerStep == \A d, e \in Events : SagaOf[d] = SagaOf[e] /\ StepOf[d] = StepOf[e] => d = e

SurePersistence == {"set", "del"} \cap Faults = {}

(* A handler of the event that triggers step m may still load the state.   *)
Awaited(s, m) ==
  \E r \in Replicas, e \in Events :
    /\ SagaOf[e] = s /\ StepOf[e] = m
    /\ e \notin seen[r] \/ job[r][e].pc \in {"load", "claim"}

WorkPCs == {"act", "persist", "finish", "comp", "failset", "faildel"}
UndoPCs == {"comp", "failset"}

EngineAtWork(s) == \E r \in Replicas, j \in Jobs : SagaFor(j) = s /\ job[r][j].pc \in WorkPCs

Undoing(s, m) ==
  \E r \in Replicas, j \in Jobs :
    SagaFor(j) = s /\ job[r][j].pc \in UndoPCs /\ job[r][j].s.step = m

Copied(s, m) ==
  \/ store[s] # Absent /\ store[s].step = m /\ (Awaited(s, m) \/ ~EngineAtWork(s))
  \/ Awaited(s, m) /\ Undoing(s, m)

Running(s, k, m) ==
  \E r \in Replicas, e \in Events :
    /\ SagaOf[e] = s /\ StepOf[e] = m
    /\ job[r][e].pc = "act" \/ (job[r][e].pc = "persist" /\ m < k)

Due(s, k) == {m \in 0..k : Copied(s, m) \/ Running(s, k, m)}

Budget(s, k) ==
  /\ runs[s][k] <= MaxCount /\ started[s] <= MaxCount
  /\ started[s] = MaxCount \/ runs[s][k] + Cardinality(Due(s, k)) <= started[s] + crashes

Budgets == \A s \in Sagas : \A k \in Steps(s) : Budget(s, k)

(* A handler works on an event it has recorded, at the step of the event.  *)
Handlers ==
  \A r \in Replicas, e \in Events :
    /\ job[r][e].pc # "idle" => e \in seen[r]
    /\ job[r][e].pc = "claim" => StepOf[e] = 0
    /\ job[r][e].pc \in {"act", "persist"} => job[r][e].s.step = StepOf[e]

LifeInv == Handlers /\ (panics = {} => Budgets)

(* Sets with one element more or less.                                     *)
LEMMA OneMore ==
  ASSUME NEW S, IsFiniteSet(S), NEW e, NEW T, T \subseteq S \cup {e}
  PROVE  IsFiniteSet(T) /\ Cardinality(T) <= Cardinality(S) + 1
<1>1. IsFiniteSet(S \cup {e}) /\ Cardinality(S \cup {e}) <= Cardinality(S) + 1
      /\ Cardinality(S) \in Nat
  BY FS_AddElement, FS_CardinalityType
<1> QED BY <1>1, FS_Subset, FS_CardinalityType

LEMMA OneLess ==
  ASSUME NEW S, IsFiniteSet(S), NEW e \in S, NEW T, T \subseteq S \ {e}
  PROVE  IsFiniteSet(T) /\ Cardinality(T) + 1 <= Cardinality(S)
<1>1. IsFiniteSet(S \ {e}) /\ Cardinality(S \ {e}) = Cardinality(S) - 1
      /\ Cardinality(S) \in Nat
  BY FS_RemoveElement, FS_CardinalityType
<1> QED BY <1>1, FS_Subset, FS_CardinalityType

LEMMA StepsType == \A s \in Sagas : NSteps[s] \in Nat /\ \A k \in Steps(s) : k \in Nat /\ k < NSteps[s]
<1> SUFFICES ASSUME NEW s \in Sagas
             PROVE  NSteps[s] \in Nat /\ \A k \in Steps(s) : k \in Nat /\ k < NSteps[s]
  OBVIOUS
<1>1. NSteps[s] \in Nat
  BY SagaAssumption
<1> QED BY <1>1 DEF Steps

(* How a budget is kept: what is due is run, replaced, started or restarted.*)
LEMMA BudgetStep ==
  ASSUME IInv, IInv', NEW s \in Sagas, NEW k \in Steps(s), Budget(s, k),
         NEW D, NEW E, D = Due(s, k), E = Due(s, k)',
         \/ /\ \/ E \subseteq D
               \/ \E m \in D : \E n : E \subseteq (D \ {m}) \cup {n}
            /\ UNCHANGED <<runs[s][k], started[s], crashes>>
         \/ /\ \E m \in D : E \subseteq D \ {m}
            /\ runs'[s][k] = Inc(runs[s][k])
            /\ UNCHANGED <<started[s], crashes>>
         \/ /\ \E n : E \subseteq D \cup {n}
            /\ started'[s] = Inc(started[s])
            /\ UNCHANGED <<runs[s][k], crashes>>
         \/ /\ \E n : E \subseteq {n}
            /\ crashes' = crashes + 1
            /\ UNCHANGED <<runs[s][k], started[s]>>
  PROVE  Budget(s, k)'
<1>1. /\ runs[s][k] \in Nat /\ runs'[s][k] \in Nat /\ started[s] \in Nat /\ started'[s] \in Nat
      /\ crashes \in Nat /\ crashes' \in Nat /\ MaxCount \in Nat /\ MaxCount > 0
  BY SagaAssumption DEF IInv, CountersOK, EnvOK
<1>2. IsFiniteSet(D) /\ IsFiniteSet(E) /\ Cardinality(D) \in Nat /\ Cardinality(E) \in Nat
  <2>1. k \in Nat
    BY StepsType
  <2>2. IsFiniteSet(0..k) /\ D \subseteq 0..k /\ E \subseteq 0..k
    BY <2>1, FS_Interval DEF Due
  <2> QED BY <2>2, FS_Subset, FS_CardinalityType
<1>3. /\ runs[s][k] <= MaxCount /\ started[s] <= MaxCount
      /\ started[s] = MaxCount \/ runs[s][k] + Cardinality(D) <= started[s] + crashes
  BY DEF Budget
<1>4. SUFFICES /\ runs'[s][k] <= MaxCount /\ started'[s] <= MaxCount
               /\ \/ started'[s] = MaxCount
                  \/ runs'[s][k] + Cardinality(E) <= started'[s] + crashes'
  BY DEF Budget
<1>5. \A n \in Nat : /\ Inc(n) \in Nat /\ (n <= MaxCount => Inc(n) <= MaxCount)
                     /\ Inc(n) <= n + 1 /\ (n = MaxCount => Inc(n) = MaxCount)
                     /\ n <= Inc(n) /\ (Inc(n) = n + 1 \/ (n <= MaxCount => Inc(n) = MaxCount))
  BY <1>1 DEF Inc
<1>6. CASE Cardinality(E) <= Cardinality(D) /\ UNCHANGED <<runs[s][k], started[s], crashes>>
  BY <1>1, <1>2, <1>3, <1>6
<1>7. CASE E \subseteq D /\ UNCHANGED <<runs[s][k], started[s], crashes>>
  BY <1>2, <1>6, <1>7, FS_Subset
<1>8. CASE (\E m \in D : \E n : E \subseteq (D \ {m}) \cup {n}) /\ UNCHANGED <<runs[s][k], started[s], crashes>>
  <2>0. PICK m \in D : \E n : E \subseteq (D \ {m}) \cup {n}
    BY <1>8
  <2>1. PICK n : E \subseteq (D \ {m}) \cup {n}
    BY <2>0
  <2>2. IsFiniteSet(D \ {m}) /\ Cardinality(D \ {m}) + 1 <= Cardinality(D)
    BY <1>2, OneLess
  <2>3. Cardinality(E) <= Cardinality(D \ {m}) + 1 /\ Cardinality(D \ {m}) \in Nat
    BY <2>1, <2>2, OneMore, FS_CardinalityType
  <2> QED BY <1>2, <1>6, <1>8, <2>2, <2>3
<1>9. CASE (\E m \in D : E \subseteq D \ {m}) /\ runs'[s][k] = Inc(runs[s][k])
           /\ UNCHANGED <<started[s], crashes>>
  <2>1. Cardinality(E) + 1 <= Cardinality(D)
    BY <1>2, <1>9, OneLess
  <2>2. runs'[s][k] <= runs[s][k] + 1 /\ runs'[s][k] <= MaxCount
    BY <1>1, <1>3, <1>5, <1>9
  <2> QED BY <1>1, <1>2, <1>3, <1>9, <2>1, <2>2
<1>10. CASE (\E n : E \subseteq D \cup {n}) /\ started'[s] = Inc(started[s])
            /\ UNCHANGED <<runs[s][k], crashes>>
  <2>1. Cardinality(E) <= Cardinality(D) + 1
    BY <1>2, <1>10, OneMore
  <2>2. CASE started[s] = MaxCount
    BY <1>1, <1>3, <1>5, <1>10, <2>2
  <2>3. CASE started[s] # MaxCount /\ started'[s] = started[s] + 1
    BY <1>1, <1>2, <1>3, <1>10, <2>1, <2>3
  <2> QED BY <1>1, <1>3, <1>10, <2>2, <2>3 DEF Inc
<1>11. CASE (\E n : E \subseteq {n}) /\ crashes' = crashes + 1 /\ UNCHANGED <<runs[s][k], started[s]>>
  <2>1. IsFiniteSet({}) /\ Cardinality({}) = 0
    BY FS_EmptySet
  <2>2. \E n : E \subseteq {} \cup {n}
    BY <1>11
  <2>3. Cardinality(E) <= 1
    BY <2>1, <2>2, OneMore
  <2> QED BY <1>1, <1>2, <1>3, <1>11, <2>3
<1> QED BY <1>7, <1>8, <1>9, <1>10, <1>11

(* An event recorded and past its load is not awaited, before and after.   *)
LEMMA NotAwaited ==
  ASSUME OneReplica, OnePerStep, NEW r \in Replicas, NEW e \in Events
  PROVE  /\ e \in seen[r] /\ job[r][e].pc \notin {"load", "claim"}
              => ~Awaited(SagaOf[e], StepOf[e])
         /\ e \in seen'[r] /\ job'[r][e].pc \notin {"load", "claim"}
              => ~Awaited(SagaOf[e], StepOf[e])'
BY DEF OneReplica, OnePerStep, Awaited

(* A job of a saga moves: what is due of any saga was due before, or is at *)
(* one of the steps X that its move brings up.                             *)
LEMMA JobMoves ==
  ASSUME IInv, NEW r \in Replicas, NEW j \in Jobs, NEW new, SetJob(r, j, new),
         NEW k \in Nat, NEW X,
         \A q \in Replicas : seen[q] \subseteq seen'[q],
         \A t \in Sagas : store'[t] # Absent =>
           \/ store[t] # Absent /\ store'[t].step = store[t].step
           \/ t = SagaFor(j) /\ store'[t].step \in X,
         job[r][j].pc \in WorkPCs =>
           \/ new.pc \in WorkPCs
           \/ store'[SagaFor(j)] = Absent \/ store'[SagaFor(j)].step \in X,
         new.pc \in {"load", "claim"} => job[r][j].pc \in {"load", "claim"} \/ j \notin seen[r],
         new.pc \in UndoPCs /\ Awaited(SagaFor(j), new.s.step) =>
           new.s.step \in X \/ Copied(SagaFor(j), new.s.step),
         j \in Events /\ (new.pc = "act" \/ (new.pc = "persist" /\ StepOf[j] < k)) =>
           \/ StepOf[j] \in X \/ Copied(SagaOf[j], StepOf[j])
           \/ Running(SagaOf[j], k, StepOf[j])
  PROVE  \A t \in Sagas : \A m \in Due(t, k)' : m \in Due(t, k) \/ (t = SagaFor(j) /\ m \in X)
<1>1. \A q \in Replicas, i \in Jobs : job'[q][i] = IF q = r /\ i = j THEN new ELSE job[q][i]
  BY SetJobAt DEF IInv
<1> SUFFICES ASSUME NEW t \in Sagas, NEW m \in 0..k,
                    Copied(t, m)' \/ Running(t, k, m)', ~(t = SagaFor(j) /\ m \in X)
             PROVE  Copied(t, m) \/ Running(t, k, m)
  BY DEF Due
<1>2. Awaited(t, m)' => Awaited(t, m)
  BY <1>1 DEF Awaited, Jobs
<1>3. store'[t] # Absent /\ store'[t].step = m /\ EngineAtWork(t) => EngineAtWork(t)'
  <2> SUFFICES ASSUME store'[t] # Absent, store'[t].step = m, EngineAtWork(t) PROVE EngineAtWork(t)'
    OBVIOUS
  <2>1. PICK q \in Replicas, i \in Jobs : SagaFor(i) = t /\ job[q][i].pc \in WorkPCs
    BY DEF EngineAtWork
  <2>2. job'[q][i].pc \in WorkPCs
    BY <1>1, <2>1
  <2>3. SagaFor(i)' = SagaFor(i)
    BY DEF SagaFor
  <2> QED BY <2>1, <2>2, <2>3 DEF EngineAtWork
<1>4. Awaited(t, m)' /\ Undoing(t, m)' => Copied(t, m)
  <2> SUFFICES ASSUME Awaited(t, m)', Undoing(t, m)' PROVE Copied(t, m)
    OBVIOUS
  <2>1. PICK q \in Replicas, i \in Jobs :
          SagaFor(i) = t /\ job'[q][i].pc \in UndoPCs /\ job'[q][i].s.step = m
    BY DEF Undoing, SagaFor
  <2>2. CASE q = r /\ i = j
    BY <1>1, <1>2, <2>1, <2>2
  <2>3. CASE ~(q = r /\ i = j)
    BY <1>1, <1>2, <2>1, <2>3 DEF Undoing, Copied
  <2> QED BY <2>2, <2>3
<1>5. Copied(t, m)' => Copied(t, m)
  BY <1>2, <1>3, <1>4 DEF Copied
<1>6. Running(t, k, m)' => Copied(t, m) \/ Running(t, k, m)
  <2> SUFFICES ASSUME Running(t, k, m)' PROVE Copied(t, m) \/ Running(t, k, m)
    OBVIOUS
  <2>1. PICK q \in Replicas, e \in Events :
          /\ SagaOf[e] = t /\ StepOf[e] = m
          /\ job'[q][e].pc = "act" \/ (job'[q][e].pc = "persist" /\ m < k)
    BY DEF Running
  <2>2. CASE q = r /\ e = j
    BY <1>1, <2>1, <2>2, SagaForEvent
  <2>3. CASE ~(q = r /\ e = j)
    BY <1>1, <2>1, <2>3 DEF Running, Jobs
  <2> QED BY <2>2, <2>3
<1> QED BY <1>5, <1>6

LEMMA EnterMoves ==
  ASSUME NEW r \in Replicas, NEW e \in Events, NEW x, Enter(r, e, x)
  PROVE  \E new : /\ SetJob(r, e, new) /\ new.pc \in {"idle", "act", "finish"}
                  /\ new.pc = "act" => new.s = x /\ StepOf[e] = x.step
                  /\ new.pc = "idle" => x.step < NSteps[SagaOf[e]]
<1> DEFINE new == IF Dispatch(e, x) = "idle" THEN Idle
                  ELSE [pc |-> Dispatch(e, x), s |-> x, i |-> 0]
<1>1. new.pc \in {"idle", "act", "finish"} /\ new.pc = Dispatch(e, x)
  BY DEF Idle, Dispatch
<1>2. new.pc = "act" => new.s = x /\ StepOf[e] = x.step
  BY <1>1 DEF Dispatch
<1>3. new.pc = "idle" => x.step < NSteps[SagaOf[e]]
  BY <1>1 DEF Dispatch
<1>4. SetJob(r, e, new)
  BY DEF Enter
<1> HIDE DEF new
<1> QED BY <1>1, <1>2, <1>3, <1>4

-----------------------------------------------------------------------------
(* Handlers is kept by every step. *)

LEMMA HandlerMoves ==
  ASSUME IInv, Handlers, NEW r \in Replicas, NEW j \in Jobs, NEW new, SetJob(r, j, new),
         \A q \in Replicas : seen[q] \subseteq seen'[q],
         j \in Events => /\ new.pc # "idle" => j \in seen'[r]
                         /\ new.pc = "claim" => StepOf[j] = 0
                         /\ new.pc \in {"act", "persist"} => new.s.step = StepOf[j]
  PROVE  Handlers'
<1>1. \A q \in Replicas, i \in Jobs : job'[q][i] = IF q = r /\ i = j THEN new ELSE job[q][i]
  BY SetJobAt DEF IInv
<1> QED BY <1>1, SagaForEvent DEF Handlers

LEMMA RestartHandlers ==
  ASSUME IInv, Handlers, NEW r \in Replicas, job' = [job EXCEPT ![r] = [j \in Jobs |-> Idle]],
         \A q \in Replicas : q # r => seen'[q] = seen[q]
  PROVE  Handlers'
<1>1. \A q \in Replicas, i \in Jobs : job'[q][i] = IF q = r THEN Idle ELSE job[q][i]
  BY RestartAt DEF IInv
<1> QED BY <1>1, SagaForEvent DEF Handlers, Idle

LEMMA PanicHandlers ==
  ASSUME IInv, Handlers, NEW r \in Replicas, NEW why, Panic(r, why)
  PROVE  Handlers' /\ panics' # {}
<1>1. \A q \in Replicas : q # r => seen'[q] = seen[q]
  BY DEF Panic, IInv, EnvOK
<1> QED BY <1>1, RestartHandlers DEF Panic

LEMMA WorkHandlers ==
  ASSUME IInv, Handlers, NEW r \in Replicas, NEW e \in Events,
         Handler(r, e) \/ (\E p : ActOk(r, e, p) \/ ActErr(r, e, p))
  PROVE  Handlers'
<1>1. /\ e \in Jobs /\ SagaOf[e] \in Sagas /\ job[r][e] \in JobType /\ UNCHANGED seen
  BY SagaForEvent DEF IInv, JobsOK, Handler, Load, Claim, Persist, Finish, ActOk, ActErr, env
<1>2. job[r][e].pc # "idle" /\ e \in seen[r]
  BY DEF Handlers, Handler, Load, Claim, Persist, Finish, ActOk, ActErr
<1>3. ASSUME NEW x, Enter(r, e, x) PROVE Handlers'
  BY <1>1, <1>2, <1>3, EnterMoves, HandlerMoves
<1>4. CASE Load(r, e)
  <2>1. CASE SetJob(r, e, IF StepOf[e] = 0 THEN [Idle EXCEPT !.pc = "claim"] ELSE Idle)
    BY <1>1, <1>2, <2>1, HandlerMoves DEF Idle
  <2> QED BY <1>3, <1>4, <2>1 DEF Load
<1>5. CASE Claim(r, e)
  <2>1. CASE SetJob(r, e, Idle)
    BY <1>1, <2>1, HandlerMoves DEF Idle
  <2> QED BY <1>3, <1>5, <2>1 DEF Claim
<1>6. CASE Persist(r, e)
  BY <1>3, <1>6 DEF Persist
<1>7. CASE Finish(r, e)
  BY <1>1, <1>7, HandlerMoves DEF Finish, Idle
<1>8. ASSUME NEW p, ActOk(r, e, p) \/ ActErr(r, e, p) PROVE Handlers'
  <2> DEFINE ok == [job[r][e] EXCEPT !.pc = "persist", !.s.payload = p]
             err == [job[r][e] EXCEPT !.pc = "comp", !.s.payload = p, !.i = job[r][e].s.step]
  <2>1. job[r][e].s.step = StepOf[e]
    BY <1>8 DEF ActOk, ActErr, Handlers
  <2>2. ok.pc = "persist" /\ ok.s.step = StepOf[e] /\ err.pc = "comp"
    BY <1>1, <2>1 DEF JobType, Saga
  <2>3. SetJob(r, e, ok) \/ SetJob(r, e, err)
    BY <1>8 DEF ActOk, ActErr
  <2> HIDE DEF ok, err
  <2> QED BY <1>1, <1>2, <2>2, <2>3, HandlerMoves
<1> QED BY <1>4, <1>5, <1>6, <1>7, <1>8 DEF Handler

LEMMA FailHandlers ==
  ASSUME IInv, Handlers, NEW r \in Replicas, NEW j \in Jobs, Compensate(r, j) \/ Failing(r, j)
  PROVE  Handlers'
<1> DEFINE J == job[r][j]
           a == [J EXCEPT !.pc = "failset"]
           b == [J EXCEPT !.i = @ - 1]
           c == [J EXCEPT !.pc = "faildel"]
<1>1. J \in JobType /\ UNCHANGED seen /\ J.pc # "idle"
  BY DEF IInv, JobsOK, Compensate, Failing, FailSet, FailDel, env
<1>2. a.pc = "failset" /\ (J.pc = "comp" => b.pc = "comp") /\ c.pc = "faildel" /\ Idle.pc = "idle"
  BY <1>1 DEF JobType, Idle
<1>3. \/ SetJob(r, j, Idle) \/ SetJob(r, j, a) \/ SetJob(r, j, c)
      \/ SetJob(r, j, b) /\ J.pc = "comp"
  BY DEF Compensate, Failing, FailSet, FailDel
<1>4. j \in Events => j \in seen'[r]
  BY <1>1 DEF Handlers
<1> HIDE DEF J, a, b, c
<1> QED BY <1>1, <1>2, <1>3, <1>4, HandlerMoves

LEMMA NextHandlers == IInv /\ Handlers /\ [Next]_vars => Handlers'
<1> SUFFICES ASSUME IInv, Handlers, [Next]_vars PROVE Handlers'
  OBVIOUS
<1>0. seen \in [Replicas -> SUBSET Events]
  BY DEF IInv, EnvOK
<1>1. ASSUME UNCHANGED job, UNCHANGED seen PROVE Handlers'
  BY <1>1 DEF Handlers
<1>2. ASSUME NEW r \in Replicas, NEW e \in Events, HandleEvent(r, e) PROVE Handlers'
  <2>1. e \in seen'[r] /\ \A q \in Replicas : seen[q] \subseteq seen'[q]
    BY <1>0, <1>2 DEF HandleEvent
  <2> QED BY <1>2, <2>1, HandlerMoves, SagaForEvent DEF HandleEvent, Idle
<1>3. ASSUME NEW r \in Replicas, NEW e \in Events, Handler(r, e) \/ Body(r, e) PROVE Handlers'
  BY <1>3, WorkHandlers, PanicHandlers DEF Body, ActPanic
<1>4. ASSUME NEW r \in Replicas, NEW j \in Jobs, Compensate(r, j) \/ Failing(r, j)
      PROVE  Handlers'
  BY <1>4, FailHandlers
<1>5. ASSUME NEW r \in Replicas, NEW s \in Sagas, Sweep(r, s) PROVE Handlers'
  <2>1. s \notin Events /\ s \in Jobs
    BY SagaForSaga, SagaAssumption
  <2>2. CASE (\E new : SetJob(r, s, new)) /\ UNCHANGED env
    BY <2>1, <2>2, HandlerMoves DEF env
  <2> QED BY <1>5, <2>2, PanicHandlers DEF Sweep
<1>6. ASSUME NEW r \in Replicas, NEW e \in Events, Forget(r, e) PROVE Handlers'
  <2>1. \A q \in Replicas, d \in Events : d \in seen[q] => d \in seen'[q] \/ d = e
    BY <1>0, <1>6 DEF Forget
  <2>2. \A q \in Replicas : job[q][e].pc = "idle"
    BY <1>6, SagaForEvent DEF Forget, InFlight
  <2> QED BY <1>6, <2>1, <2>2 DEF Handlers, Forget
<1>7. ASSUME NEW r \in Replicas, Crash(r) PROVE Handlers'
  <2>1. \A q \in Replicas : q # r => seen'[q] = seen[q]
    BY <1>0, <1>7 DEF Crash
  <2> QED BY <1>7, <2>1, RestartHandlers DEF Crash
<1>8. CASE \/ \E e \in Events : Publish(e)
           \/ \E s \in Sagas : Age(s) \/ Expire(s)
           \/ UNCHANGED vars
  BY <1>1, <1>8 DEF Publish, Age, Expire, env, vars
<1> QED BY <1>2, <1>3, <1>4, <1>5, <1>6, <1>7, <1>8 DEF Next, World

-----------------------------------------------------------------------------
(* The budgets are kept by every step of one replica's engine. *)

(* Nothing more is due and nothing is counted.                             *)
LEMMA QuietBudgets ==
  ASSUME IInv, IInv', Budgets, UNCHANGED <<runs, started, crashes>>,
         \A s \in Sagas : \A k \in Steps(s) : Due(s, k)' \subseteq Due(s, k)
  PROVE  Budgets'
<1> SUFFICES ASSUME NEW s \in Sagas, NEW k \in Steps(s) PROVE Budget(s, k)'
  BY DEF Budgets, Steps
<1>1. Budget(s, k)
  BY DEF Budgets
<1>2. PICK D, E : D = Due(s, k) /\ E = Due(s, k)'
  OBVIOUS
<1> QED BY <1>1, <1>2, BudgetStep

(* A job of saga s moves and brings up nothing: the budgets stand.         *)
LEMMA QuietMove ==
  ASSUME IInv, IInv', Budgets, NEW r \in Replicas, NEW j \in Jobs, NEW new, SetJob(r, j, new),
         UNCHANGED <<runs, started, crashes>>,
         \A q \in Replicas : seen[q] \subseteq seen'[q],
         \A t \in Sagas : store'[t] # Absent => store'[t] = store[t],
         job[r][j].pc \in WorkPCs => new.pc \in WorkPCs \/ store'[SagaFor(j)] = Absent,
         new.pc \in {"load", "claim"} => job[r][j].pc \in {"load", "claim"} \/ j \notin seen[r],
         new.pc \in UndoPCs /\ Awaited(SagaFor(j), new.s.step) => Copied(SagaFor(j), new.s.step),
         new.pc # "persist",
         j \in Events /\ new.pc = "act" => Copied(SagaOf[j], StepOf[j])
  PROVE  Budgets'
<1> SUFFICES ASSUME NEW s \in Sagas, NEW k \in Steps(s) PROVE Due(s, k)' \subseteq Due(s, k)
  BY QuietBudgets
<1>1. k \in Nat
  BY StepsType
<1>2. PICK X : X = {}
  OBVIOUS
<1>3. \A t \in Sagas : \A m \in Due(t, k)' : m \in Due(t, k) \/ (t = SagaFor(j) /\ m \in X)
  BY <1>1, JobMoves
<1> QED BY <1>2, <1>3

LEMMA HandleEventBudgets ==
  ASSUME IInv, IInv', Budgets, NEW r \in Replicas, NEW e \in Events, HandleEvent(r, e)
  PROVE  Budgets'
<1>1. e \in Jobs /\ \A q \in Replicas : seen[q] \subseteq seen'[q]
  BY SagaForEvent DEF HandleEvent, IInv, EnvOK
<1>2. [Idle EXCEPT !.pc = "load"].pc = "load"
  BY DEF Idle
<1> QED BY <1>1, <1>2, QuietMove DEF HandleEvent, counters, UndoPCs, WorkPCs

LEMMA LoadBudgets ==
  ASSUME IInv, IInv', Budgets, NEW r \in Replicas, NEW e \in Events, Load(r, e)
  PROVE  Budgets'
<1>1. /\ e \in Jobs /\ SagaFor(e) = SagaOf[e] /\ SagaOf[e] \in Sagas
      /\ job[r][e].pc = "load" /\ UNCHANGED <<store, runs, started, crashes, seen>>
  BY SagaForEvent DEF Load, counters, env
<1>2. Awaited(SagaOf[e], StepOf[e])
  BY <1>1 DEF Awaited
<1>3. CASE store[SagaOf[e]] # Absent /\ Enter(r, e, Loaded(store[SagaOf[e]]))
  <2>1. Loaded(store[SagaOf[e]]).step = store[SagaOf[e]].step
    BY <1>1, <1>3, LoadedOK DEF IInv, StoreOK, StoreInv
  <2>2. PICK new : /\ SetJob(r, e, new) /\ new.pc \in {"idle", "act", "finish"}
                   /\ new.pc = "act" => StepOf[e] = store[SagaOf[e]].step
    BY <1>3, <2>1, EnterMoves
  <2>3. new.pc = "act" => Copied(SagaOf[e], StepOf[e])
    BY <1>2, <1>3, <2>2 DEF Copied
  <2> QED BY <1>1, <2>2, <2>3, QuietMove DEF UndoPCs, WorkPCs
<1>4. CASE SetJob(r, e, IF StepOf[e] = 0 THEN [Idle EXCEPT !.pc = "claim"] ELSE Idle)
  <2>1. PICK new : SetJob(r, e, new) /\ new.pc \in {"idle", "claim"}
    BY <1>4 DEF Idle
  <2> QED BY <1>1, <2>1, QuietMove DEF UndoPCs, WorkPCs
<1> QED BY <1>3, <1>4 DEF Load

LEMMA ClaimBudgets ==
  ASSUME IInv, IInv', Handlers, Budgets, NEW r \in Replicas, NEW e \in Events, Claim(r, e)
  PROVE  Budgets'
<1> DEFINE s == SagaOf[e]
<1>1. /\ e \in Jobs /\ SagaFor(e) = s /\ s \in Sagas /\ StepOf[e] = 0
      /\ job[r][e].pc = "claim" /\ UNCHANGED <<runs, crashes, seen>>
      /\ store \in [Sagas -> Saga \cup {Absent}]
  BY SagaForEvent DEF Claim, env, Handlers, IInv, StoreOK
<1>2. CASE SetJob(r, e, Idle) /\ UNCHANGED <<store, started>>
  <2>1. Idle.pc = "idle"
    BY DEF Idle
  <2> QED BY <1>1, <1>2, <2>1, QuietMove DEF UndoPCs, WorkPCs
<1>3. CASE /\ Enter(r, e, NewSaga) /\ started' = [started EXCEPT ![s] = Inc(@)]
           /\ store' = [store EXCEPT ![s] = NewSaga] \/ UNCHANGED store
  <2>1. PICK new : /\ SetJob(r, e, new) /\ new.pc \in {"idle", "act", "finish"}
    BY <1>3, EnterMoves
  <2>2. \A t \in Sagas : started'[t] = IF t = s THEN Inc(started[t]) ELSE started[t]
    BY <1>3 DEF IInv, CountersOK
  <2>3. PICK X : X = {0}
    OBVIOUS
  <2>4. \A t \in Sagas : store'[t] # Absent =>
           \/ store[t] # Absent /\ store'[t].step = store[t].step
           \/ t = SagaFor(e) /\ store'[t].step \in X
    BY <1>1, <1>3, <2>3 DEF NewSaga
  <2>5. SUFFICES ASSUME NEW t \in Sagas, NEW k \in Steps(t) PROVE Budget(t, k)'
    BY DEF Budgets, Steps
  <2>6. k \in Nat /\ Budget(t, k)
    BY StepsType DEF Budgets
  <2>7. \A u \in Sagas : \A m \in Due(u, k)' : m \in Due(u, k) \/ (u = SagaFor(e) /\ m \in X)
    BY <1>1, <2>1, <2>3, <2>4, <2>6, JobMoves DEF UndoPCs, WorkPCs
  <2>8. PICK D, E : D = Due(t, k) /\ E = Due(t, k)'
    OBVIOUS
  <2>9. CASE t = s
    <3>1. \E n : E \subseteq D \cup {n}
      BY <2>3, <2>7, <2>8
    <3> QED BY <1>1, <2>2, <2>6, <2>8, <2>9, <3>1, BudgetStep
  <2>10. CASE t # s
    BY <1>1, <2>2, <2>6, <2>7, <2>8, <2>10, BudgetStep
  <2> QED BY <2>9, <2>10
<1> QED BY <1>2, <1>3 DEF Claim

(* What a body that has run leaves: its step is no longer due to itself.   *)
LEMMA ActOkBudgets ==
  ASSUME IInv, IInv', Handlers, OneReplica, OnePerStep, Budgets,
         NEW r \in Replicas, NEW e \in Events, NEW p, ActOk(r, e, p)
  PROVE  Budgets'
<1> DEFINE s == SagaOf[e]
           m == StepOf[e]
           new == [job[r][e] EXCEPT !.pc = "persist", !.s.payload = p]
<1>1. /\ e \in Jobs /\ SagaFor(e) = s /\ s \in Sagas /\ job[r][e] \in JobType
      /\ job[r][e].pc = "act" /\ job[r][e].s.step = m /\ e \in seen[r]
      /\ UNCHANGED <<started, crashes, seen, store>>
  BY SagaForEvent DEF ActOk, env, Handlers, IInv, JobsOK
<1>2. SetJob(r, e, new) /\ new.pc = "persist"
  BY <1>1 DEF ActOk, JobType
<1>3. \A t \in Sagas : \A k \in Steps(t) :
        runs'[t][k] = IF t = s /\ k = m THEN Inc(runs[t][k]) ELSE runs[t][k]
  BY <1>1 DEF ActOk, IInv, CountersOK
<1> HIDE DEF new
<1>4. \A q \in Replicas, i \in Jobs : job'[q][i] = IF q = r /\ i = e THEN new ELSE job[q][i]
  BY <1>1, <1>2, SetJobAt DEF IInv
<1> SUFFICES ASSUME NEW t \in Sagas, NEW k \in Steps(t) PROVE Budget(t, k)'
  BY DEF Budgets, Steps
<1>5. k \in Nat /\ Budget(t, k)
  BY StepsType DEF Budgets
<1>6. m < k => Running(s, k, m)
  BY <1>1 DEF Running
<1>7. \A u \in Sagas : \A n \in Due(u, k)' : n \in Due(u, k)
  <2>1. PICK X : X = {}
    OBVIOUS
  <2>2. \A u \in Sagas : \A n \in Due(u, k)' : n \in Due(u, k) \/ (u = SagaFor(e) /\ n \in X)
    BY <1>1, <1>2, <1>5, <1>6, JobMoves DEF UndoPCs, WorkPCs
  <2> QED BY <2>1, <2>2
<1>8. PICK D, E : D = Due(t, k) /\ E = Due(t, k)'
  OBVIOUS
<1>9. CASE t = s /\ k = m
  <2>1. m \in Due(s, m)
    BY <1>1, <1>5, <1>9 DEF Due, Running
  <2>2. ~Awaited(s, m)' /\ EngineAtWork(s)'
    <3>1. e \in seen'[r] /\ job'[r][e].pc = "persist"
      BY <1>1, <1>2, <1>4
    <3> QED BY <1>1, <3>1, NotAwaited DEF EngineAtWork, WorkPCs, SagaFor
  <2>3. ~Running(s, m, m)'
    BY <1>1, <1>2, <1>4, <1>5, <1>9 DEF Running, OneReplica, OnePerStep
  <2>4. m \notin Due(s, m)'
    BY <2>2, <2>3 DEF Due, Copied
  <2>5. m \in D /\ E \subseteq D \ {m}
    BY <1>7, <1>8, <1>9, <2>1, <2>4
  <2> QED BY <1>1, <1>3, <1>5, <1>8, <1>9, <2>5, BudgetStep
<1>10. CASE ~(t = s /\ k = m)
  BY <1>1, <1>3, <1>5, <1>7, <1>8, <1>10, BudgetStep
<1> QED BY <1>9, <1>10

LEMMA ActErrBudgets ==
  ASSUME IInv, IInv', Handlers, OneReplica, OnePerStep, Budgets,
         NEW r \in Replicas, NEW e \in Events, NEW p, ActErr(r, e, p)
  PROVE  Budgets'
<1> DEFINE new == [job[r][e] EXCEPT !.pc = "comp", !.s.payload = p, !.i = job[r][e].s.step]
<1>1. /\ e \in Jobs /\ SagaFor(e) = SagaOf[e] /\ job[r][e] \in JobType
      /\ job[r][e].pc = "act" /\ job[r][e].s.step = StepOf[e] /\ e \in seen[r]
      /\ UNCHANGED <<runs, started, crashes, seen, store>>
  BY SagaForEvent DEF ActErr, counters, env, Handlers, IInv, JobsOK
<1>2. SetJob(r, e, new) /\ new.pc = "comp" /\ new.s.step = StepOf[e]
  BY <1>1 DEF ActErr, JobType, Saga
<1>3. ~Awaited(SagaOf[e], StepOf[e])
  BY <1>1, NotAwaited
<1> HIDE DEF new
<1> QED BY <1>1, <1>2, <1>3, QuietMove DEF WorkPCs

(* Persisting moves what is due from the step that ran to the next one.    *)
LEMMA PersistBudgets ==
  ASSUME IInv, IInv', Handlers, OneReplica, OnePerStep, SurePersistence, Budgets,
         NEW r \in Replicas, NEW e \in Events, Persist(r, e)
  PROVE  Budgets'
<1> DEFINE s == SagaOf[e]
           m == StepOf[e]
           x == [job[r][e].s EXCEPT !.step = @ + 1, !.status = "active"]
<1>1. /\ e \in Jobs /\ SagaFor(e) = s /\ s \in Sagas /\ job[r][e] \in JobType /\ m \in Nat
      /\ job[r][e].pc = "persist" /\ job[r][e].s.step = m /\ e \in seen[r]
      /\ UNCHANGED <<runs, started, crashes, seen>>
      /\ store \in [Sagas -> Saga \cup {Absent}]
  BY SagaForEvent, SagaAssumption DEF Persist, counters, env, Handlers, IInv, JobsOK, StoreOK
<1>2. x.step = m + 1
  BY <1>1 DEF JobType, Saga
<1>3. store' = [store EXCEPT ![s] = x]
  BY DEF Persist, SurePersistence
<1>4. Enter(r, e, x)
  BY DEF Persist
<1> HIDE DEF x
<1>5. PICK new : /\ SetJob(r, e, new) /\ new.pc \in {"idle", "act", "finish"}
                 /\ new.pc = "act" => m = m + 1
  BY <1>2, <1>4, EnterMoves
<1>6. new.pc \in {"idle", "finish"}
  BY <1>1, <1>5
<1>7. \A q \in Replicas, i \in Jobs : job'[q][i] = IF q = r /\ i = e THEN new ELSE job[q][i]
  BY <1>1, <1>5, SetJobAt DEF IInv
<1>8. \A t \in Sagas : store'[t] = IF t = s THEN x ELSE store[t]
  BY <1>1, <1>3
<1> SUFFICES ASSUME NEW t \in Sagas, NEW k \in Steps(t) PROVE Budget(t, k)'
  BY DEF Budgets, Steps
<1>9. k \in Nat /\ Budget(t, k)
  BY StepsType DEF Budgets
<1>10. \A u \in Sagas : \A n \in Due(u, k)' : n \in Due(u, k) \/ (u = s /\ n = m + 1)
  <2>1. PICK X : X = {m + 1}
    OBVIOUS
  <2>2. \A u \in Sagas : store'[u] # Absent =>
           \/ store[u] # Absent /\ store'[u].step = store[u].step
           \/ u = SagaFor(e) /\ store'[u].step \in X
    BY <1>1, <1>2, <1>8, <2>1
  <2>3. store'[SagaFor(e)].step \in X
    BY <1>1, <1>2, <1>8, <2>1
  <2>4. \A u \in Sagas : \A n \in Due(u, k)' : n \in Due(u, k) \/ (u = SagaFor(e) /\ n \in X)
    BY <1>1, <1>5, <1>6, <1>9, <2>2, <2>3, JobMoves DEF UndoPCs, WorkPCs
  <2> QED BY <1>1, <2>1, <2>4
<1>11. PICK D, E : D = Due(t, k) /\ E = Due(t, k)'
  OBVIOUS
<1>12. CASE t = s /\ m < k
  <2>1. m \in Due(s, k)
    BY <1>1, <1>9, <1>12 DEF Due, Running
  <2>2. ~Awaited(s, m)'
    <3>1. e \in seen'[r] /\ job'[r][e].pc \notin {"load", "claim"}
      BY <1>1, <1>6, <1>7
    <3> QED BY <3>1, NotAwaited
  <2>3. ~Running(s, k, m)'
    BY <1>1, <1>6, <1>7 DEF Running, OneReplica, OnePerStep
  <2>4. store'[s].step # m
    BY <1>1, <1>2, <1>8
  <2>5. m \notin Due(s, k)'
    BY <2>2, <2>3, <2>4 DEF Due, Copied
  <2>6. m \in D /\ E \subseteq (D \ {m}) \cup {m + 1}
    BY <1>10, <1>11, <1>12, <2>1, <2>5
  <2>7. \E a \in D : \E b : E \subseteq (D \ {a}) \cup {b}
    BY <2>6
  <2> QED BY <1>1, <1>9, <1>11, <2>7, BudgetStep
<1>13. CASE ~(t = s /\ m < k)
  <2>1. t = s => m + 1 \notin Due(t, k)'
    BY <1>1, <1>9, <1>13 DEF Due
  <2>2. E \subseteq D
    BY <1>10, <1>11, <2>1
  <2> QED BY <1>1, <1>9, <1>11, <2>2, BudgetStep
<1> QED BY <1>12, <1>13

LEMMA FinishBudgets ==
  ASSUME IInv, IInv', SurePersistence, Budgets, NEW r \in Replicas, NEW e \in Events, Finish(r, e)
  PROVE  Budgets'
<1>1. /\ e \in Jobs /\ SagaFor(e) = SagaOf[e] /\ SagaOf[e] \in Sagas
      /\ job[r][e].pc = "finish" /\ SetJob(r, e, Idle) /\ Idle.pc = "idle"
      /\ UNCHANGED <<runs, started, crashes, seen>>
  BY SagaForEvent DEF Finish, env, Idle
<1>2. \A t \in Sagas : store'[t] = IF t = SagaOf[e] THEN Absent ELSE store[t]
  BY DEF Finish, SurePersistence, IInv, StoreOK
<1> QED BY <1>1, <1>2, QuietMove DEF UndoPCs, WorkPCs

LEMMA CompensateBudgets ==
  ASSUME IInv, IInv', Budgets, NEW r \in Replicas, NEW j \in Jobs, Compensate(r, j)
  PROVE  Budgets'
<1> DEFINE J == job[r][j]
           a == [J EXCEPT !.pc = "failset"]
           b == [J EXCEPT !.i = @ - 1]
<1>1. /\ J \in JobType /\ J.pc = "comp" /\ UNCHANGED <<runs, started, crashes, seen, store>>
  BY DEF IInv, JobsOK, Compensate, counters, env
<1>2. a.pc = "failset" /\ b.pc = "comp" /\ a.s = J.s /\ b.s = J.s
  BY <1>1 DEF JobType
<1>3. SetJob(r, j, a) \/ SetJob(r, j, b)
  BY DEF Compensate
<1>4. Awaited(SagaFor(j), J.s.step) => Copied(SagaFor(j), J.s.step)
  BY <1>1 DEF Copied, Undoing, UndoPCs
<1> HIDE DEF J, a, b
<1>5. \E new : SetJob(r, j, new) /\ new.s = J.s /\ new.pc \in {"comp", "failset"}
  BY <1>2, <1>3
<1>6. PICK new : SetJob(r, j, new) /\ new.s = J.s /\ new.pc \in {"comp", "failset"}
  BY <1>5
<1> QED BY <1>1, <1>4, <1>6, QuietMove DEF UndoPCs, WorkPCs

(* The failed state is put back while its job is at work: a handler that   *)
(* could not load its step before cannot load it now, or was due already.  *)
LEMMA FailSetBudgets ==
  ASSUME IInv, IInv', SurePersistence, Budgets, NEW r \in Replicas, NEW j \in Jobs, FailSet(r, j)
  PROVE  Budgets'
<1> DEFINE J == job[r][j]
           s == SagaFor(j)
           x == [Stored(J.s) EXCEPT !.status = "failed"]
           new == [J EXCEPT !.pc = "faildel"]
<1>1. /\ J \in JobType /\ J.pc = "failset" /\ s \in Sagas /\ store \in [Sagas -> Saga \cup {Absent}]
      /\ UNCHANGED <<runs, started, crashes, seen>>
  BY SagaForType DEF IInv, JobsOK, StoreOK, FailSet, counters, env
<1>2. new.pc = "faildel" /\ SetJob(r, j, new)
  BY <1>1 DEF JobType, FailSet
<1>3. x.step = J.s.step
  BY <1>1 DEF JobType, Saga, Stored
<1> HIDE DEF x, new
<1>4. store' = [store EXCEPT ![s] = x]
  BY DEF FailSet, SurePersistence, x
<1>5. \A t \in Sagas : store'[t] = IF t = s THEN x ELSE store[t]
  BY <1>1, <1>4
<1>6. \A q \in Replicas, i \in Jobs : job'[q][i] = IF q = r /\ i = j THEN new ELSE job[q][i]
  BY <1>2, SetJobAt DEF IInv
<1> SUFFICES ASSUME NEW t \in Sagas, NEW k \in Steps(t) PROVE Due(t, k)' \subseteq Due(t, k)
  BY <1>1, QuietBudgets
<1>7. k \in Nat
  BY StepsType
<1>8. \A u \in Sagas : \A n \in Due(u, k)' : n \in Due(u, k) \/ (u = s /\ n = J.s.step)
  <2>1. PICK X : X = {J.s.step}
    OBVIOUS
  <2>2. \A u \in Sagas : store'[u] # Absent =>
           \/ store[u] # Absent /\ store'[u].step = store[u].step
           \/ u = SagaFor(j) /\ store'[u].step \in X
    BY <1>3, <1>5, <2>1
  <2>3. \A u \in Sagas : \A n \in Due(u, k)' : n \in Due(u, k) \/ (u = SagaFor(j) /\ n \in X)
    BY <1>1, <1>2, <1>7, <2>2, JobMoves DEF UndoPCs, WorkPCs
  <2> QED BY <2>1, <2>3
<1>9. PICK m : m = J.s.step
  OBVIOUS
<1>10. m \in Due(s, k)' => m \in Due(s, k)
  <2>1. EngineAtWork(s)'
    BY <1>2, <1>6 DEF EngineAtWork, WorkPCs, SagaFor
  <2>2. Awaited(s, m)' => Awaited(s, m)
    BY <1>1, <1>2, <1>6 DEF Awaited, Jobs
  <2>3. Undoing(s, m)
    BY <1>1, <1>9 DEF Undoing, UndoPCs
  <2>4. Running(s, k, m)' => Running(s, k, m)
    BY <1>2, <1>6 DEF Running, Jobs
  <2> QED BY <2>1, <2>2, <2>3, <2>4 DEF Due, Copied
<1> QED BY <1>8, <1>9, <1>10

LEMMA FailDelBudgets ==
  ASSUME IInv, IInv', SurePersistence, Budgets, NEW r \in Replicas, NEW j \in Jobs, FailDel(r, j)
  PROVE  Budgets'
<1>1. /\ SagaFor(j) \in Sagas /\ job[r][j].pc = "faildel" /\ SetJob(r, j, Idle)
      /\ Idle.pc = "idle" /\ UNCHANGED <<runs, started, crashes, seen>>
  BY SagaForType DEF FailDel, env, Idle
<1>2. \A t \in Sagas : store'[t] = IF t = SagaFor(j) THEN Absent ELSE store[t]
  BY DEF FailDel, SurePersistence, IInv, StoreOK
<1> QED BY <1>1, <1>2, QuietMove DEF UndoPCs, WorkPCs

LEMMA SweepBudgets ==
  ASSUME IInv, IInv', Budgets, NEW r \in Replicas, NEW s \in Sagas, Sweep(r, s), panics' = {}
  PROVE  Budgets'
<1> DEFINE new == [pc |-> "comp", i |-> store[s].step, s |-> Loaded(store[s])]
<1>1. /\ s \in Jobs /\ s \notin Events /\ SagaFor(s) = s /\ job[r][s].pc = "idle"
      /\ store[s] # Absent
  BY SagaForSaga, SagaAssumption DEF Sweep
<1>2. SetJob(r, s, new) /\ UNCHANGED <<runs, started, crashes, seen, store>>
  BY DEF Sweep, Panic, counters, env
<1>3. new.pc = "comp" /\ new.s.step = store[s].step
  BY <1>1, LoadedOK DEF IInv, StoreOK, StoreInv
<1> HIDE DEF new
<1>4. Awaited(s, new.s.step) => Copied(s, new.s.step)
  BY <1>1, <1>3 DEF Copied
<1> QED BY <1>1, <1>2, <1>3, <1>4, QuietMove DEF UndoPCs, WorkPCs

(* Time passes or an entry is dropped while nobody works on the saga.      *)
LEMMA WorldBudgets ==
  ASSUME IInv, IInv', Budgets,
         \/ \E e \in Events : Publish(e)
         \/ \E s \in Sagas : Age(s) \/ Expire(s)
         \/ \E r \in Replicas, e \in Events : Forget(r, e)
         \/ UNCHANGED vars
  PROVE  Budgets'
<1>1. UNCHANGED <<runs, started, crashes, job>>
  BY DEF Publish, Age, Expire, Forget, counters, env, vars
<1> SUFFICES ASSUME NEW t \in Sagas, NEW k \in Steps(t), NEW m \in 0..k,
                    Copied(t, m)' \/ Running(t, k, m)'
             PROVE  Copied(t, m) \/ Running(t, k, m)
  BY <1>1, QuietBudgets DEF Due
<1>2. store'[t] # Absent => store[t] # Absent /\ store'[t].step = store[t].step
  <2>1. store \in [Sagas -> Saga \cup {Absent}]
    BY DEF IInv, StoreOK
  <2>2. ASSUME NEW s \in Sagas, Age(s)
        PROVE  store'[t] # Absent => store[t] # Absent /\ store'[t].step = store[t].step
    <3>1. store[s] \in Saga /\ store' = [store EXCEPT ![s] = [store[s] EXCEPT !.aged = TRUE]]
      BY <2>1, <2>2 DEF Age
    <3>2. [store[s] EXCEPT !.aged = TRUE].step = store[s].step
      BY <3>1 DEF Saga
    <3> QED BY <2>1, <2>2, <3>1, <3>2 DEF Age
  <2>3. ASSUME NEW s \in Sagas, Expire(s)
        PROVE  store'[t] # Absent => store[t] # Absent /\ store'[t].step = store[t].step
    BY <2>1, <2>3 DEF Expire
  <2> QED BY <2>2, <2>3 DEF Publish, Forget, vars
<1>3. (\A e \in Events : SagaOf[e] = t => \A q \in Replicas : e \in seen[q] => e \in seen'[q])
      \/ ~InFlight(t)
  <2>1. ASSUME NEW r \in Replicas, NEW e \in Events, Forget(r, e)
        PROVE  \/ \A d \in Events : SagaOf[d] = t => \A q \in Replicas : d \in seen[q] => d \in seen'[q]
               \/ ~InFlight(t)
    BY <2>1 DEF Forget, IInv, EnvOK
  <2> QED BY <2>1 DEF Publish, Age, Expire, env, vars
<1>4. EngineAtWork(t)' <=> EngineAtWork(t)
  BY <1>1 DEF EngineAtWork, SagaFor
<1>5. Undoing(t, m)' => Undoing(t, m)
  BY <1>1 DEF Undoing, SagaFor
<1>6. Running(t, k, m)' => Running(t, k, m)
  BY <1>1 DEF Running
<1>7. CASE ~InFlight(t)
  <2>1. ~EngineAtWork(t) /\ ~Undoing(t, m)
    BY <1>7 DEF InFlight, EngineAtWork, Undoing, WorkPCs, UndoPCs
  <2> QED BY <1>2, <1>5, <1>6, <2>1 DEF Copied
<1>8. CASE \A e \in Events : SagaOf[e] = t => \A q \in Replicas : e \in seen[q] => e \in seen'[q]
  <2>1. Awaited(t, m)' => Awaited(t, m)
    BY <1>1, <1>8 DEF Awaited
  <2> QED BY <1>2, <1>4, <1>5, <1>6, <2>1 DEF Copied
<1> QED BY <1>3, <1>7, <1>8

(* A crash leaves the state under the key, and that only.                  *)
LEMMA CrashBudgets ==
  ASSUME IInv, IInv', OneReplica, Budgets, NEW r \in Replicas, Crash(r)
  PROVE  Budgets'
<1>1. UNCHANGED <<runs, started, store>> /\ crashes' = crashes + 1
  BY DEF Crash, counters
<1>2. \A q \in Replicas, i \in Jobs : job'[q][i] = Idle
  <2>1. \A q \in Replicas, i \in Jobs : job'[q][i] = IF q = r THEN Idle ELSE job[q][i]
    BY RestartAt DEF Crash, IInv
  <2> QED BY <2>1 DEF OneReplica
<1>3. Idle.pc = "idle"
  BY DEF Idle
<1> SUFFICES ASSUME NEW t \in Sagas, NEW k \in Steps(t) PROVE Budget(t, k)'
  BY DEF Budgets, Steps
<1>4. \A m \in Due(t, k)' : m = store[t].step
  <2> SUFFICES ASSUME NEW m, Copied(t, m)' \/ Running(t, k, m)' PROVE m = store[t].step
    BY DEF Due
  <2>1. ~Running(t, k, m)'
    BY <1>2, <1>3, SagaForEvent DEF Running
  <2>2. ~Undoing(t, m)'
    BY <1>2, <1>3 DEF Undoing, UndoPCs
  <2> QED BY <1>1, <2>1, <2>2 DEF Copied
<1>5. PICK D, E : D = Due(t, k) /\ E = Due(t, k)'
  OBVIOUS
<1>6. \E n : E \subseteq {n}
  BY <1>4, <1>5
<1>7. Budget(t, k)
  BY DEF Budgets
<1> QED BY <1>1, <1>5, <1>6, <1>7, BudgetStep

LEMMA NextLifeInv ==
  OneReplica /\ OnePerStep /\ SurePersistence /\ IInv /\ LifeInv /\ [Next]_vars => LifeInv'
<1> SUFFICES ASSUME OneReplica, OnePerStep, SurePersistence, IInv, LifeInv, [Next]_vars
             PROVE  LifeInv'
  OBVIOUS
<1>1. IInv' /\ Handlers /\ Handlers' /\ panics \subseteq panics'
  BY NextIInv, NextHandlers, MishapsCount DEF LifeInv
<1> SUFFICES ASSUME panics' = {} PROVE Budgets'
  BY <1>1 DEF LifeInv
<1>2. Budgets
  BY <1>1 DEF LifeInv
<1>3. ASSUME NEW r \in Replicas, NEW e \in Events, HandleEvent(r, e) PROVE Budgets'
  BY <1>1, <1>2, <1>3, HandleEventBudgets
<1>4. ASSUME NEW r \in Replicas, NEW e \in Events, Handler(r, e) PROVE Budgets'
  BY <1>1, <1>2, <1>4, LoadBudgets, ClaimBudgets, PersistBudgets, FinishBudgets DEF Handler
<1>5. ASSUME NEW r \in Replicas, NEW e \in Events, Body(r, e) PROVE Budgets'
  <2>1. ~ActPanic(r, e)
    BY DEF ActPanic, Panic
  <2> QED BY <1>1, <1>2, <1>5, <2>1, ActOkBudgets, ActErrBudgets DEF Body
<1>6. ASSUME NEW r \in Replicas, NEW j \in Jobs, Compensate(r, j) \/ Failing(r, j)
      PROVE  Budgets'
  BY <1>1, <1>2, <1>6, CompensateBudgets, FailSetBudgets, FailDelBudgets DEF Failing
<1>7. ASSUME NEW r \in Replicas, NEW s \in Sagas, Sweep(r, s) PROVE Budgets'
  BY <1>1, <1>2, <1>7, SweepBudgets
<1>8. ASSUME NEW r \in Replicas, Crash(r) PROVE Budgets'
  BY <1>1, <1>2, <1>8, CrashBudgets
<1>9. CASE \/ \E e \in Events : Publish(e)
           \/ \E s \in Sagas : Age(s) \/ Expire(s)
           \/ \E r \in Replicas, e \in Events : Forget(r, e)
           \/ UNCHANGED vars
  BY <1>1, <1>2, <1>9, WorldBudgets
<1> QED BY <1>3, <1>4, <1>5, <1>6, <1>7, <1>8, <1>9 DEF Next, World

LEMMA InitLifeInv == Init => LifeInv
<1> SUFFICES ASSUME Init PROVE LifeInv
  OBVIOUS
<1>1. Handlers
  BY SagaForEvent DEF Init, Handlers, Idle
<1>2. ASSUME NEW s \in Sagas, NEW k \in Steps(s) PROVE Budget(s, k)
  <2>1. started[s] = 0 /\ runs[s][k] = 0 /\ crashes = 0 /\ MaxCount \in Nat
    BY SagaAssumption DEF Init, Steps
  <2>2. Due(s, k) = {}
    BY SagaForEvent DEF Init, Due, Copied, Running, Undoing, UndoPCs, Idle
  <2>3. Cardinality(Due(s, k)) = 0
    BY <2>2, FS_EmptySet
  <2> QED BY <2>1, <2>3 DEF Budget
<1> QED BY <1>1, <1>2 DEF LifeInv, Budgets

LEMMA LifeInvImplies == IInv /\ LifeInv => RunsOncePerLife
<1> SUFFICES ASSUME IInv, LifeInv, panics = {}, NEW s \in Sagas, NEW k \in Steps(s)
             PROVE  runs[s][k] <= started[s] + crashes
  BY DEF RunsOncePerLife, Steps
<1>1. Budget(s, k)
  BY DEF LifeInv, Budgets
<1>2. /\ runs[s][k] \in Nat /\ started[s] \in Nat /\ crashes \in Nat /\ MaxCount \in Nat
  BY SagaAssumption DEF IInv, CountersOK, EnvOK
<1>3. Cardinality(Due(s, k)) \in Nat
  <2>1. k \in Nat
    BY StepsType
  <2>2. IsFiniteSet(0..k) /\ Due(s, k) \subseteq 0..k
    BY <2>1, FS_Interval DEF Due
  <2> QED BY <2>2, FS_Subset, FS_CardinalityType
<1>4. /\ runs[s][k] <= MaxCount
      /\ started[s] = MaxCount \/ runs[s][k] + Cardinality(Due(s, k)) <= started[s] + crashes
  BY <1>1 DEF Budget
<1>5. CASE started[s] = MaxCount
  BY <1>2, <1>4, <1>5
<1>6. CASE runs[s][k] + Cardinality(Due(s, k)) <= started[s] + crashes
  BY <1>2, <1>3, <1>6
<1> QED BY <1>4, <1>5, <1>6

(* With one replica, one event per step and Redis writes that succeed, a   *)
(* step body runs once per started saga and once more per crash, however   *)
(* events are redelivered, reads fail, keys expire and sweepers reap.      *)
THEOREM OncePerLife ==
  ASSUME OneReplica, OnePerStep, SurePersistence
  PROVE  Spec => []RunsOncePerLife
<1>1. Init => IInv /\ LifeInv
  BY InitIInv, InitLifeInv
<1>2. IInv /\ LifeInv /\ [Next]_vars => (IInv /\ LifeInv)'
  BY NextIInv, NextLifeInv
<1>3. IInv /\ LifeInv => RunsOncePerLife
  BY LifeInvImplies
<1> QED BY <1>1, <1>2, <1>3, PTL DEF Spec
=============================================================================

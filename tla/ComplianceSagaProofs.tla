------------------------- MODULE ComplianceSagaProofs -------------------------
(***************************************************************************)
(* The ComplianceCheck saga, for any deployment: its types, and that what  *)
(* its compensations restore was there.  What is proved of the engine is   *)
(* used through StepRefines.                                               *)
(***************************************************************************)
EXTENDS ComplianceSaga, SagaEngineProofs

(* An evaluation holds a row while its handler is at step 0 with a payload *)
(* it can write into, and a row it is going to write shows another status. *)
HeldOK ==
  \A r \in Replicas, j \in Jobs :
    held[r][j] # Unset =>
      /\ j \in Events \ Alerts /\ job[r][j].pc = "act" /\ job[r][j].s.step = 0
      /\ job[r][j].s.payload # NilPayload
      /\ ~Exempt(held[r][j].row)
      /\ held[r][j].next = "write" => Verdict(held[r][j].row) # held[r][j].row.status

(* Nothing is queued or checked before the row exists. *)
Born == row = Unset => outbox = {} /\ check = Unset

HeldType == held \in [Replicas -> [Jobs -> Holding \cup {Unset}]]

TableOK ==
  /\ row \in Row \cup {Unset}
  /\ outbox \subseteq Events /\ sent \subseteq outbox
  /\ check \in Holding \cup {Unset} /\ checks \in 0..MaxChecks
  /\ created \in RowStatus \cup {Unset} /\ had \subseteq RowStatus
  /\ compFailed \in BOOLEAN
  /\ Born

CInv == HeldType /\ HeldOK /\ TableOK

(* The engine's part of the invariant.                                     *)
EInv == IInv /\ Woken /\ Caused

-----------------------------------------------------------------------------
(* Lemmas on the types. *)

LEMMA SagaIsC == /\ C \in Sagas /\ \A j \in Jobs : SagaFor(j) = C
                 /\ \A e \in Events : SagaOf[e] = C /\ e \in Jobs
BY ComplianceAssumption, SagaForType, SagaForEvent

LEMMA VerdictType == \A rw \in Row : Verdict(rw) \in Verdicts /\ Verdict(rw) \in RowStatus
BY DEF Verdict, Verdicts, RowStatus

LEMMA JobTyped ==
  ASSUME EInv, NEW r \in Replicas, NEW j \in Jobs
  PROVE  job[r][j] \in JobType /\ job[r][j].s.payload \in Payloads \cup {NilPayload}
BY DEF EInv, IInv, JobsOK, JobType, Saga

(* Who works on the saga works on an existing row.                         *)
LEMMA RowThere ==
  ASSUME EInv, CInv, NEW r \in Replicas, NEW j \in Jobs, job[r][j].pc # "idle"
  PROVE  row \in Row
<1>1. InFlight(C)
  BY SagaIsC DEF InFlight
<1>2. \E e \in sent : SagaOf[e] = C
  BY <1>1, SagaIsC, WorkingCaused DEF EInv
<1> QED BY <1>2 DEF CInv, TableOK, Born

LEMMA HeldTyped ==
  ASSUME CInv, NEW r \in Replicas, NEW j \in Jobs, held[r][j] # Unset
  PROVE  held[r][j] \in Holding /\ held[r][j].row \in Row
BY DEF CInv, HeldType, Holding

-----------------------------------------------------------------------------
(* Each step is one of the engine, or leaves the engine alone. *)

LEMMA InitRefines == CInit => Init
BY DEF CInit

LEMMA EngineRefines == Engine => Next
BY SagaForEvent DEF Engine, Next

LEMMA BodyRefines ==
  ASSUME NEW r \in Replicas, NEW e \in Events, NEW p \in Payloads \cup {NilPayload},
         ActOk(r, e, p) \/ ActErr(r, e, p) \/ ActPanic(r, e)
  PROVE  Next
BY DEF Next, Body

LEMMA EvalLoadRefines ==
  ASSUME EInv, CInv, NEW r \in Replicas, NEW e \in Events, EvalLoad(r, e)
  PROVE  [Next]_vars
<1> DEFINE p == job[r][e].s.payload
           x == IF p = NoPayload THEN [p EXCEPT !.status = "exempt"] ELSE p
<1>1. p \in Payloads \cup {NilPayload}
  BY JobTyped, SagaForEvent
<1>2. x \in Payloads \cup {NilPayload}
  <2>1. NoPayload \in Payloads /\ [NoPayload EXCEPT !.status = "exempt"] \in Payloads
    BY ComplianceAssumption
  <2> QED BY <1>1, <2>1
<1>3. CASE ActErr(r, e, p) \/ ActPanic(r, e)
  BY <1>1, <1>3, BodyRefines
<1>4. CASE ActOk(r, e, x)
  BY <1>2, <1>4, BodyRefines
<1>5. CASE UNCHANGED vars
  BY <1>5
<1> HIDE DEF p, x
<1> QED BY <1>3, <1>4, <1>5 DEF EvalLoad, Hold, p, x

LEMMA EvalWriteRefines ==
  ASSUME EInv, CInv, NEW r \in Replicas, NEW e \in Events, EvalWrite(r, e)
  PROVE  [Next]_vars
<1> DEFINE old == held[r][e].row
           p == [before |-> old.status, status |-> job[r][e].s.payload.status]
<1>1. e \in Jobs /\ held[r][e] # Unset
  BY SagaForEvent DEF EvalWrite
<1>2. old \in Row /\ job[r][e].s.payload \in Payloads
  BY <1>1, HeldTyped, JobTyped DEF CInv, HeldOK
<1>3. p \in Payloads
  BY <1>2, ComplianceAssumption DEF Row
<1>4. CASE ActErr(r, e, p)
  BY <1>3, <1>4, BodyRefines
<1>5. CASE UNCHANGED vars
  BY <1>5
<1> QED BY <1>4, <1>5 DEF EvalWrite, Hold

LEMMA EvalAlertRefines ==
  ASSUME EInv, CInv, NEW r \in Replicas, NEW e \in Events, EvalAlert(r, e)
  PROVE  [Next]_vars
<1> DEFINE old == held[r][e].row
           changed == Verdict(old) # old.status
           p == [before |-> IF changed THEN old.status ELSE job[r][e].s.payload.before,
                 status |-> Verdict(old)]
<1>1. e \in Jobs /\ held[r][e] # Unset
  BY SagaForEvent DEF EvalAlert
<1>2. old \in Row /\ job[r][e].s.payload \in Payloads
  BY <1>1, HeldTyped, JobTyped DEF CInv, HeldOK
<1>3. Verdict(old) \in Verdicts /\ old.status \in RowStatus
      /\ job[r][e].s.payload.before \in RowStatus \cup {Unset}
  BY <1>2, VerdictType, ComplianceAssumption DEF Row
<1>4. p \in Payloads
  BY <1>3, ComplianceAssumption
<1>5. ActOk(r, e, p) \/ ActErr(r, e, p)
  BY DEF EvalAlert
<1> QED BY <1>4, <1>5, BodyRefines

LEMMA AlertStepRefines ==
  ASSUME EInv, NEW r \in Replicas, NEW e \in Events, AlertStep(r, e)
  PROVE  Next
BY JobTyped, SagaForEvent, BodyRefines DEF AlertStep

LEMMA StepRefines == EInv /\ CInv /\ [CNext]_cvars => [Next]_vars
<1> SUFFICES ASSUME EInv, CInv, [CNext]_cvars PROVE [Next]_vars
  OBVIOUS
<1>1. CASE Engine
  BY <1>1, EngineRefines
<1>2. ASSUME NEW r \in Replicas, NEW e \in Events, Evaluate(r, e) \/ AlertStep(r, e)
      PROVE  [Next]_vars
  BY <1>2, EvalLoadRefines, EvalWriteRefines, EvalAlertRefines, AlertStepRefines
     DEF Evaluate
<1>3. ASSUME NEW r \in Replicas, NEW j \in Jobs, Restore(r, j)
      PROVE  [Next]_vars
  BY <1>3 DEF Restore, Next
<1>4. ASSUME NEW e \in Events, Dispatched(e)
      PROVE  [Next]_vars
  BY <1>4 DEF Dispatched, Next
<1>5. CASE Officer
  BY <1>5 DEF Officer, CreateCompliance, UpdateCompliance, CheckLoad, CheckWrite, CheckAlert
<1>6. CASE UNCHANGED cvars
  BY <1>6 DEF cvars
<1> QED BY <1>1, <1>2, <1>3, <1>4, <1>5, <1>6 DEF CNext

-----------------------------------------------------------------------------
(* CInv is kept by every step. *)

LEMMA ReleaseOK == HeldType /\ HeldOK /\ Release => HeldType' /\ HeldOK'
<1> SUFFICES ASSUME HeldType, HeldOK, Release PROVE HeldType' /\ HeldOK'
  OBVIOUS
<1>1. \A r \in Replicas, j \in Jobs :
        held'[r][j] = IF job'[r][j] = job[r][j] THEN held[r][j] ELSE Unset
  BY DEF Release
<1>2. HeldType'
  BY <1>1 DEF HeldType, Release, Jobs
<1>3. HeldOK'
  BY <1>1 DEF HeldOK, Verdict, Exempt, Jobs
<1> QED BY <1>2, <1>3

LEMMA TableSame == TableOK /\ UNCHANGED <<business, sent>> => TableOK'
BY DEF TableOK, business, Born

LEMMA EngineSent == Engine => UNCHANGED sent
<1> SUFFICES ASSUME Engine PROVE UNCHANGED sent
  OBVIOUS
<1>1. ASSUME NEW r \in Replicas, NEW e \in Events, HandleEvent(r, e) \/ Handler(r, e)
      PROVE  UNCHANGED sent
  BY <1>1 DEF HandleEvent, Handler, Load, Claim, Persist, Finish, env
<1>2. ASSUME NEW r \in Replicas, NEW j \in Jobs, Failing(r, j) PROVE UNCHANGED sent
  BY <1>2 DEF Failing, FailSet, FailDel, env
<1>3. ASSUME NEW r \in Replicas, NEW s \in Sagas, Sweep(r, s) PROVE UNCHANGED sent
  BY <1>3 DEF Sweep, Panic, env
<1>4. ASSUME World PROVE UNCHANGED sent
  <2>1. ASSUME NEW s \in Sagas, Age(s) \/ Expire(s) PROVE UNCHANGED sent
    BY <2>1 DEF Age, Expire, env
  <2>2. ASSUME NEW r \in Replicas, Crash(r) PROVE UNCHANGED sent
    BY <2>2 DEF Crash
  <2>3. ASSUME NEW r \in Replicas, NEW e \in Events, Forget(r, e) PROVE UNCHANGED sent
    BY <2>3 DEF Forget
  <2> QED BY <1>4, <2>1, <2>2, <2>3 DEF World
<1>5. \/ \E r \in Replicas, e \in Events : HandleEvent(r, e) \/ Handler(r, e)
      \/ \E r \in Replicas, j \in Jobs : Failing(r, j)
      \/ \E r \in Replicas, s \in Sagas : Sweep(r, s)
      \/ World
  BY DEF Engine
<1> QED BY <1>1, <1>2, <1>3, <1>4, <1>5

LEMMA InitCInv == CInit => CInv
<1> SUFFICES ASSUME CInit PROVE CInv
  OBVIOUS
<1>1. HeldType /\ HeldOK
  BY DEF CInit, HeldType, HeldOK
<1>2. 0 \in 0..MaxChecks
  BY ComplianceAssumption
<1>3. TableOK
  BY <1>2 DEF CInit, Init, TableOK, Born
<1> QED BY <1>1, <1>3 DEF CInv

LEMMA EngineCInv == EInv /\ CInv /\ Engine => CInv'
<1> SUFFICES ASSUME EInv, CInv, Engine PROVE CInv'
  OBVIOUS
<1>1. TableOK'
  BY EngineSent, TableSame DEF CInv, Engine
<1>2. HeldType' /\ HeldOK'
  BY ReleaseOK DEF CInv, Engine
<1> QED BY <1>1, <1>2 DEF CInv


LEMMA HoldOK ==
  ASSUME HeldType, HeldOK, NEW r \in Replicas, NEW e \in Events \ Alerts, NEW x \in Holding,
         Hold(r, e, x), InEvaluate(r, e), job[r][e].s.payload # NilPayload,
         ~Exempt(x.row), x.next = "write" => Verdict(x.row) # x.row.status
  PROVE  HeldType' /\ HeldOK'
<1>1. e \in Jobs /\ UNCHANGED job
  BY SagaForEvent DEF Hold, vars
<1>2. \A q \in Replicas, j \in Jobs :
        held'[q][j] = IF q = r /\ j = e THEN x ELSE held[q][j]
  BY <1>1 DEF Hold, HeldType, Jobs
<1>3. HeldType'
  BY <1>1 DEF HeldType, Hold, Jobs
<1>4. HeldOK'
  BY <1>1, <1>2 DEF HeldOK, Verdict, Exempt, InEvaluate, Jobs
<1> QED BY <1>3, <1>4

LEMMA EvalLoadCInv ==
  ASSUME EInv, CInv, NEW r \in Replicas, NEW e \in Events, EvalLoad(r, e)
  PROVE  CInv'
<1>1. e \in Events \ Alerts /\ job[r][e].pc # "idle" /\ e \in Jobs
  BY SagaForEvent DEF EvalLoad, InEvaluate
<1>2. row \in Row
  BY <1>1, RowThere
<1>3. TableOK'
  <2>1. UNCHANGED sent
    BY DEF EvalLoad, ActErr, ActPanic, ActOk, Panic, Hold, vars, env
  <2> QED BY <2>1, TableSame DEF CInv, EvalLoad
<1>4. HeldType' /\ HeldOK'
  <2>1. CASE Release
    BY <2>1, ReleaseOK DEF CInv

  <2>2. CASE ~Release
    <3> DEFINE x == [next |-> IF Verdict(row) = row.status THEN "alert" ELSE "write",
                     row |-> row]
    <3>1. Hold(r, e, x) /\ ~Exempt(row) /\ job[r][e].s.payload # NilPayload
      BY <2>2 DEF EvalLoad
    <3>2. x \in Holding
      BY <1>2 DEF Holding
    <3> QED BY <1>1, <3>1, <3>2, HoldOK DEF CInv, EvalLoad
  <2> QED BY <2>1, <2>2
<1> QED BY <1>3, <1>4 DEF CInv


LEMMA EvalWriteCInv ==
  ASSUME EInv, CInv, NEW r \in Replicas, NEW e \in Events, EvalWrite(r, e)
  PROVE  CInv'
<1> DEFINE old == held[r][e].row
           x == [next |-> "alert", row |-> old]
<1>1. e \in Events \ Alerts /\ job[r][e].pc # "idle" /\ e \in Jobs /\ held[r][e] # Unset
  BY SagaForEvent DEF EvalWrite, InEvaluate
<1>2. row \in Row /\ old \in Row /\ row # Unset
  BY <1>1, RowThere, HeldTyped, UnsetAssumption
<1>3. UNCHANGED sent
  BY DEF EvalWrite, ActErr, Hold, vars, env
<1>4. row' \in Row /\ row' # Unset /\ had' \subseteq RowStatus
  <2>1. row'.status \in RowStatus /\ row' \in Row
    BY <1>2, VerdictType DEF EvalWrite, Row
  <2> QED BY <2>1, UnsetAssumption DEF EvalWrite, CInv, TableOK
<1>5. TableOK'
  BY <1>3, <1>4 DEF CInv, TableOK, Born, EvalWrite
<1>6. HeldType' /\ HeldOK'
  <2>1. CASE Release
    BY <2>1, ReleaseOK DEF CInv

  <2>2. CASE ~Release
    <3>1. x \in Holding /\ ~Exempt(old) /\ job[r][e].s.payload # NilPayload
      BY <1>1, <1>2 DEF Holding, CInv, HeldOK
    <3>2. Hold(r, e, x)
      BY <2>2 DEF EvalWrite
    <3> QED BY <1>1, <3>1, <3>2, HoldOK DEF CInv, EvalWrite
  <2> QED BY <2>1, <2>2
<1> QED BY <1>5, <1>6 DEF CInv


LEMMA EvalAlertCInv ==
  ASSUME EInv, CInv, NEW r \in Replicas, NEW e \in Events, EvalAlert(r, e)
  PROVE  CInv'
<1>1. job[r][e].pc # "idle" /\ e \in Jobs
  BY SagaForEvent DEF EvalAlert, InEvaluate
<1>2. row # Unset
  BY <1>1, RowThere, UnsetAssumption
<1>3. UNCHANGED sent /\ outbox \subseteq outbox' /\ outbox' \subseteq Events
  BY ComplianceAssumption DEF EvalAlert, ActErr, ActOk, env, EnqueueAlert, CInv, TableOK
<1>4. TableOK'
  BY <1>2, <1>3 DEF CInv, TableOK, Born, EvalAlert
<1> QED BY <1>4, ReleaseOK DEF CInv, EvalAlert

LEMMA AlertStepCInv ==
  ASSUME EInv, CInv, NEW r \in Replicas, NEW e \in Events, AlertStep(r, e)
  PROVE  CInv'
<1>1. TableOK'
  BY TableSame DEF CInv, AlertStep, ActOk, env
<1> QED BY <1>1, ReleaseOK DEF CInv, AlertStep

LEMMA RestoreCInv ==
  ASSUME EInv, CInv, NEW r \in Replicas, NEW j \in Jobs, Restore(r, j)
  PROVE  CInv'
<1> DEFINE p == job[r][j].s.payload
<1>1. row \in Row /\ row # Unset
  BY RowThere, UnsetAssumption DEF Restore
<1>2. p \in Payloads \cup {NilPayload}
  BY JobTyped
<1>3. p # NilPayload /\ p.before # Unset => p.before \in RowStatus
  BY <1>2, ComplianceAssumption
<1>4. row' \in Row /\ row' # Unset /\ had' \subseteq RowStatus
  <2>1. row' \in Row
    BY <1>1, <1>3 DEF Restore, Row
  <2> QED BY <1>3, <2>1, UnsetAssumption DEF Restore, CInv, TableOK
<1>5. UNCHANGED sent /\ compFailed' \in BOOLEAN
  BY DEF CInv, Restore, Compensate, env, TableOK
<1>6. TableOK'
  BY <1>4, <1>5 DEF CInv, TableOK, Born, Restore
<1> QED BY <1>6, ReleaseOK DEF CInv, Restore

LEMMA HeldSame == HeldType /\ HeldOK /\ UNCHANGED <<vars, held>> => HeldType' /\ HeldOK'
BY DEF vars, HeldType, HeldOK, Verdict, Exempt

LEMMA DispatchedCInv ==
  ASSUME CInv, NEW e \in Events, Dispatched(e)
  PROVE  CInv'
<1>1. TableOK'
  BY DEF CInv, Dispatched, Publish, TableOK, Born, business
<1>2. HeldType' /\ HeldOK'
  BY DEF CInv, Dispatched, Publish, HeldType, HeldOK, Verdict, Exempt
<1> QED BY <1>1, <1>2 DEF CInv


LEMMA OfficerCInv == CInv /\ Officer => CInv'
<1> SUFFICES ASSUME CInv, Officer PROVE CInv'
  OBVIOUS
<1>1. ASSUME NEW rw \in Row, CreateCompliance(rw)
      PROVE  TableOK' /\ UNCHANGED <<vars, held>>
  <2>1. rw # Unset /\ rw.status \in RowStatus /\ Created \in Events
    BY UnsetAssumption, ComplianceAssumption DEF Row
  <2> QED BY <1>1, <2>1 DEF CInv, CreateCompliance, TableOK, Born, vars
<1>2. ASSUME NEW rw \in Row, NEW e \in Updates, UpdateCompliance(e, rw)
      PROVE  TableOK' /\ UNCHANGED <<vars, held>>
  <2>1. rw # Unset /\ rw.status \in RowStatus /\ e \in Events
    BY UnsetAssumption, ComplianceAssumption DEF Row
  <2> QED BY <1>2, <2>1 DEF CInv, UpdateCompliance, TableOK, Born, vars
<1>3. ASSUME CheckLoad PROVE TableOK' /\ UNCHANGED <<vars, held>>
  <2>1. row \in Row /\ row # Unset
    BY <1>3 DEF CInv, CheckLoad, TableOK
  <2>2. [next |-> "write", row |-> row] \in Holding
    BY <2>1 DEF Holding
  <2>3. checks' \in 0..MaxChecks
    BY <1>3, ComplianceAssumption DEF CInv, CheckLoad, TableOK
  <2>4. check' \in Holding \cup {Unset}
    BY <1>3, <2>2 DEF CheckLoad
  <2> QED BY <1>3, <2>1, <2>3, <2>4 DEF CInv, CheckLoad, TableOK, Born, vars
<1>4. ASSUME CheckWrite PROVE TableOK' /\ UNCHANGED <<vars, held>>
  <2>1. check \in Holding /\ check.row \in Row /\ row \in Row
    BY <1>4 DEF CInv, CheckWrite, TableOK, Born, Holding
  <2>2. row' \in Row /\ row'.status \in RowStatus /\ row' # Unset
    BY <1>4, <2>1, VerdictType, UnsetAssumption DEF CheckWrite, Row
  <2>3. check' \in Holding
    BY <1>4, <2>1 DEF CheckWrite, Holding
  <2> QED BY <1>4, <2>2, <2>3 DEF CInv, CheckWrite, TableOK, Born, vars
<1>5. ASSUME CheckAlert PROVE TableOK' /\ UNCHANGED <<vars, held>>
  <2>1. outbox' \subseteq Events /\ outbox \subseteq outbox' /\ row # Unset
    BY <1>5, ComplianceAssumption DEF CInv, CheckAlert, EnqueueAlert, TableOK, Born
  <2> QED BY <1>5, <2>1 DEF CInv, CheckAlert, TableOK, Born, vars
<1> QED BY <1>1, <1>2, <1>3, <1>4, <1>5, HeldSame DEF CInv, Officer

-----------------------------------------------------------------------------
(* The theorems for any deployment. *)

LEMMA NextCInv == EInv /\ CInv /\ [CNext]_cvars => CInv'
<1> SUFFICES ASSUME EInv, CInv, [CNext]_cvars PROVE CInv'
  OBVIOUS
<1>1. ASSUME NEW r \in Replicas, NEW e \in Events, Evaluate(r, e) \/ AlertStep(r, e)
      PROVE  CInv'
  BY <1>1, EvalLoadCInv, EvalWriteCInv, EvalAlertCInv, AlertStepCInv DEF Evaluate
<1>2. ASSUME NEW r \in Replicas, NEW j \in Jobs, Restore(r, j) PROVE CInv'
  BY <1>2, RestoreCInv
<1>3. ASSUME NEW e \in Events, Dispatched(e) PROVE CInv'
  BY <1>3, DispatchedCInv
<1>4. CASE UNCHANGED cvars
  <2>1. TableOK'
    BY <1>4, TableSame DEF cvars, vars, CInv
  <2>2. HeldType' /\ HeldOK'
    BY <1>4, HeldSame DEF cvars, CInv
  <2> QED BY <2>1, <2>2 DEF CInv
<1> QED BY <1>1, <1>2, <1>3, <1>4, EngineCInv, OfficerCInv DEF CNext

LEMMA NextEInv == EInv /\ CInv /\ [CNext]_cvars => EInv'
BY StepRefines, NextIInv, NextWoken DEF EInv

THEOREM SagaInductive == CSpec => [](EInv /\ CInv)
<1>1. CInit => EInv /\ CInv
  BY InitRefines, InitIInv, InitWoken, InitCInv DEF EInv
<1>2. EInv /\ CInv /\ [CNext]_cvars => (EInv /\ CInv)'
  BY NextCInv, NextEInv
<1> QED BY <1>1, <1>2, PTL DEF CSpec

(* The saga's tables and what an evaluation holds keep their types, and no *)
(* event is published without its outbox row (evaluate, Enqueue).          *)
THEOREM ComplianceTypes == CSpec => []CTypeOK
<1>1. CInv => CTypeOK
  BY DEF CInv, CTypeOK, HeldType, TableOK
<1> QED BY <1>1, SagaInductive, PTL

-----------------------------------------------------------------------------
(* RestoresWhatWas, for any deployment. *)

(* What a payload may be: what it wants restored is restorable.            *)
Restorables == {p \in Payloads \cup {NilPayload} : Restorable(p)}

(* The row's status, and that of every row an evaluation holds, is one the *)
(* row had.                                                                *)
HadOK ==
  /\ row # Unset => row.status \in had
  /\ \A r \in Replicas, j \in Jobs : held[r][j] # Unset => held[r][j].row.status \in had

CarryInv == StoreCarries(Restorables, Restorables) /\ JobsCarry(Restorables, Restorables)

LEMMA RestorableCarriers == Carriers(Restorables, Restorables)
<1>1. NoPayload \in Payloads /\ NoPayload.before = Unset
  BY ComplianceAssumption, SagaAssumption
<1> QED BY <1>1 DEF Carriers, Restorables, Restorable

(* History only grows. *)
LEMMA HadGrows == [CNext]_cvars => had \subseteq had'
<1> SUFFICES ASSUME [CNext]_cvars PROVE had \subseteq had'
  OBVIOUS
<1>1. CASE Engine
  BY <1>1 DEF Engine, business
<1>2. ASSUME NEW r \in Replicas, NEW e \in Events, Evaluate(r, e) \/ AlertStep(r, e)
      PROVE  had \subseteq had'
  BY <1>2 DEF Evaluate, EvalLoad, EvalWrite, EvalAlert, AlertStep, business
<1>3. ASSUME NEW r \in Replicas, NEW j \in Jobs, Restore(r, j) PROVE had \subseteq had'
  BY <1>3 DEF Restore
<1>4. ASSUME NEW e \in Events, Dispatched(e) PROVE had \subseteq had'
  BY <1>4 DEF Dispatched, business
<1>5. CASE Officer
  BY <1>5 DEF Officer, CreateCompliance, UpdateCompliance, CheckLoad, CheckWrite, CheckAlert
<1>6. CASE UNCHANGED cvars
  BY <1>6 DEF cvars, business
<1> QED BY <1>1, <1>2, <1>3, <1>4, <1>5, <1>6 DEF CNext

LEMMA NextHadOK == EInv /\ CInv /\ HadOK /\ [CNext]_cvars => HadOK'
<1> SUFFICES ASSUME EInv, CInv, HadOK, [CNext]_cvars PROVE HadOK'
  OBVIOUS
<1>1. had \subseteq had'
  BY HadGrows
<1>2. ASSUME Release \/ UNCHANGED held, row' # Unset => row'.status \in had'
      PROVE  HadOK'
  <2>1. \A r \in Replicas, j \in Jobs :
          held'[r][j] # Unset => held'[r][j] = held[r][j]
    BY <1>2 DEF Release
  <2> QED BY <1>1, <1>2, <2>1 DEF HadOK
<1>3. ASSUME NEW r \in Replicas, NEW e \in Jobs, NEW x, Hold(r, e, x),
             x.row.status \in had', row' # Unset => row'.status \in had'
      PROVE  HadOK'
  <2>1. \A q \in Replicas, j \in Jobs :
          held'[q][j] = IF q = r /\ j = e THEN x ELSE held[q][j]
    BY <1>3 DEF Hold, CInv, HeldType
  <2> QED BY <1>1, <1>3, <2>1 DEF HadOK
<1>4. ASSUME UNCHANGED row PROVE row' # Unset => row'.status \in had'
  BY <1>1, <1>4 DEF HadOK
<1>5. ASSUME NEW rw \in Row, NEW st, row' = [rw EXCEPT !.status = st], st \in had'
      PROVE  row'.status \in had'
  BY <1>5 DEF Row
<1>6. CASE Engine
  BY <1>2, <1>4, <1>6 DEF Engine, business
<1>7. ASSUME NEW r \in Replicas, NEW e \in Events, EvalLoad(r, e) PROVE HadOK'
  <2>1. UNCHANGED row
    BY <1>7 DEF EvalLoad, business
  <2>2. row # Unset
    BY <1>7, RowThere, SagaForEvent, UnsetAssumption DEF EvalLoad, InEvaluate
  <2>3. row.status \in had'
    BY <1>1, <2>2 DEF HadOK
  <2> QED BY <1>2, <1>3, <1>4, <1>7, <2>1, <2>3, SagaForEvent DEF EvalLoad
<1>8. ASSUME NEW r \in Replicas, NEW e \in Events, EvalWrite(r, e) PROVE HadOK'
  <2> DEFINE old == held[r][e].row
  <2>1. e \in Jobs /\ held[r][e] # Unset /\ job[r][e].pc # "idle"
    BY <1>8, SagaForEvent DEF EvalWrite, InEvaluate
  <2>2. old.status \in had' /\ row \in Row
    BY <1>1, <2>1, RowThere DEF HadOK
  <2> HIDE DEF old
  <2>3. CASE row' = [row EXCEPT !.status = Verdict(old)]
             /\ had' = had \cup {row'.status} /\ Hold(r, e, [next |-> "alert", row |-> old])
    BY <1>3, <2>1, <2>2, <2>3
  <2>4. CASE Release /\ UNCHANGED row
    BY <1>2, <1>4, <2>4
  <2> QED BY <1>8, <2>3, <2>4 DEF EvalWrite, old
<1>9. ASSUME NEW r \in Replicas, NEW e \in Events, EvalAlert(r, e) \/ AlertStep(r, e)
      PROVE  HadOK'
  BY <1>2, <1>4, <1>9 DEF EvalAlert, AlertStep, business
<1>10. ASSUME NEW r \in Replicas, NEW j \in Jobs, Restore(r, j) PROVE HadOK'
  <2>1. row \in Row
    BY <1>10, RowThere DEF Restore
  <2>2. row' # Unset => row'.status \in had'
    BY <1>4, <1>5, <1>10, <2>1 DEF Restore
  <2> QED BY <1>2, <1>10, <2>2 DEF Restore
<1>11. ASSUME NEW e \in Events, Dispatched(e) PROVE HadOK'
  BY <1>2, <1>4, <1>11 DEF Dispatched, business
<1>12. CASE Officer
  <2>1. row' # Unset => row'.status \in had'
    BY <1>4, <1>12 DEF Officer, CreateCompliance, UpdateCompliance, CheckLoad, CheckWrite,
         CheckAlert
  <2> QED BY <1>2, <1>12, <2>1 DEF Officer, CreateCompliance, UpdateCompliance, CheckLoad,
        CheckWrite, CheckAlert
<1>13. CASE UNCHANGED cvars
  BY <1>2, <1>4, <1>13 DEF cvars, business
<1> QED BY <1>6, <1>7, <1>8, <1>9, <1>10, <1>11, <1>12, <1>13 DEF CNext, Evaluate

(* Each step keeps what the copies carry restorable. *)
LEMMA NextCarry == EInv /\ CInv /\ HadOK /\ CarryInv /\ [CNext]_cvars => CarryInv'
<1> SUFFICES ASSUME EInv, CInv, HadOK, CarryInv, [CNext]_cvars PROVE CarryInv'
  OBVIOUS
<1>1. PICK A : A = Restorables'
  OBVIOUS
<1>2. Restorables \subseteq A
  BY <1>1, HadGrows DEF Restorables, Restorable
<1> DEFINE Carried == StoreCarries(A, A) /\ JobsCarry(A, A)
<1>3. Carried /\ IInv
  BY <1>2 DEF CarryInv, StoreCarries, JobsCarry, WorkOK, CopyOK, EInv
<1>4. Carriers(A, A)
  BY <1>2, RestorableCarriers DEF Carriers
<1>5. Carried' => CarryInv'
  BY <1>1 DEF CarryInv, StoreCarries, JobsCarry, WorkOK, CopyOK
<1>6. ASSUME UNCHANGED <<store, job>> PROVE Carried'
  BY <1>3, <1>6, StoreCarriesSame, JobsCarrySame
<1>7. ASSUME NEW r \in Replicas, NEW e \in Events, NEW p \in A,
             ActOk(r, e, p) \/ ActErr(r, e, p) \/ ActPanic(r, e)
      PROVE  Carried'
  BY <1>3, <1>7, BodyCarries
<1>8. ASSUME NEW st \in had \ {"draft", "archived"}, st \in RowStatus,
             NEW y \in Verdicts \cup {"exempt", Unset}
      PROVE  [before |-> st, status |-> y] \in A
  <2>1. [before |-> st, status |-> y] \in Payloads
    BY <1>8, ComplianceAssumption
  <2>2. Restorable([before |-> st, status |-> y])
    BY <1>8 DEF Restorable
  <2> QED BY <1>2, <2>1, <2>2 DEF Restorables
<1>9. ASSUME NEW r \in Replicas, NEW j \in Jobs, job[r][j].pc # "idle"
      PROVE  job[r][j].s.payload \in Restorables
  BY <1>9 DEF CarryInv, JobsCarry, WorkOK, CopyOK
<1>10. ASSUME NEW p \in Restorables, p # NilPayload, NEW y \in Verdicts \cup {"exempt", Unset}
       PROVE  [before |-> p.before, status |-> y] \in A
  <2>1. p \in Payloads
    BY <1>10 DEF Restorables
  <2>2. [before |-> p.before, status |-> y] \in Payloads
    BY <2>1, ComplianceAssumption
  <2>3. Restorable([before |-> p.before, status |-> y])
    BY <1>10 DEF Restorables, Restorable
  <2> QED BY <1>2, <2>2, <2>3 DEF Restorables
<1>11. CASE Engine
  <2>1. Carried'
    BY <1>3, <1>4, <1>11, HandlerCarries, FailingCarries, SweepCarries, WorldCarries
       DEF Engine
  <2> QED BY <1>5, <2>1
<1>12. ASSUME NEW r \in Replicas, NEW e \in Events, EvalLoad(r, e) PROVE Carried'
  <2> DEFINE p == job[r][e].s.payload
             q == IF p = NoPayload THEN [p EXCEPT !.status = "exempt"] ELSE p
  <2>1. p \in Restorables
    BY <1>9, <1>12, SagaForEvent DEF EvalLoad, InEvaluate
  <2>2. ASSUME p # NilPayload PROVE q \in A
    <3>1. NoPayload = [before |-> Unset, status |-> Unset]
      BY ComplianceAssumption
    <3>2. CASE p = NoPayload
      <4>1. q = [before |-> p.before, status |-> "exempt"]
        BY <3>1, <3>2
      <4> HIDE DEF p, q
      <4> QED BY <1>10, <2>1, <2>2, <4>1
    <3>3. CASE p # NoPayload
      BY <1>2, <2>1, <3>3
    <3> QED BY <3>2, <3>3
  <2>3. \/ ActErr(r, e, p) \/ ActPanic(r, e)
        \/ p # NilPayload /\ ActOk(r, e, q)
        \/ UNCHANGED <<store, job>>
    BY <1>12 DEF EvalLoad, Hold, vars
  <2> HIDE DEF p, q
  <2> QED BY <1>2, <1>6, <1>7, <2>1, <2>2, <2>3
<1>13. ASSUME NEW r \in Replicas, NEW e \in Events, NEW h, h = held[r][e],
              h # Unset, InEvaluate(r, e)
       PROVE  /\ h.row.status \in had \ {"draft", "archived"} /\ h.row.status \in RowStatus
              /\ Verdict(h.row) \in Verdicts
              /\ job[r][e].s.payload \in Restorables /\ job[r][e].s.payload # NilPayload
              /\ job[r][e].s.payload.status \in Verdicts \cup {"exempt", Unset}
  <2>1. e \in Jobs /\ job[r][e].pc # "idle"
    BY <1>13, SagaForEvent DEF InEvaluate
  <2>2. h.row \in Row /\ ~Exempt(h.row) /\ job[r][e].s.payload # NilPayload
    BY <1>13, <2>1, HeldTyped DEF CInv, HeldOK
  <2>3. job[r][e].s.payload \in Restorables
    BY <1>9, <2>1
  <2>4. job[r][e].s.payload \in Payloads
    BY <2>2, <2>3 DEF Restorables
  <2>5. job[r][e].s.payload.status \in Verdicts \cup {"exempt", Unset}
    BY <2>4, ComplianceAssumption
  <2>6. h.row.status \in had /\ h.row.status \in RowStatus
    BY <1>13, <2>1, <2>2 DEF HadOK, Row
  <2> QED BY <2>2, <2>3, <2>5, <2>6, VerdictType DEF Exempt
<1>14. ASSUME NEW r \in Replicas, NEW e \in Events, EvalWrite(r, e) PROVE Carried'
  <2> DEFINE h == held[r][e]
             p == [before |-> h.row.status, status |-> job[r][e].s.payload.status]
  <2>1. h # Unset /\ InEvaluate(r, e)
    BY <1>14 DEF EvalWrite
  <2>2. p \in A
    BY <1>8, <1>13, <2>1
  <2>3. ActErr(r, e, p) \/ UNCHANGED <<store, job>>
    BY <1>14 DEF EvalWrite, Hold, vars
  <2> HIDE DEF p
  <2> QED BY <1>6, <1>7, <2>2, <2>3
<1>15. ASSUME NEW r \in Replicas, NEW e \in Events, EvalAlert(r, e) PROVE Carried'
  <2> DEFINE h == held[r][e]
             old == h.row
             p == [before |-> IF Verdict(old) # old.status THEN old.status
                              ELSE job[r][e].s.payload.before,
                   status |-> Verdict(old)]
  <2>1. h # Unset /\ InEvaluate(r, e)
    BY <1>15 DEF EvalAlert
  <2>2. p \in A
    BY <1>8, <1>10, <1>13, <2>1
  <2>3. ActOk(r, e, p) \/ ActErr(r, e, p)
    BY <1>15 DEF EvalAlert
  <2> HIDE DEF p
  <2> QED BY <1>7, <2>2, <2>3
<1>16. ASSUME NEW r \in Replicas, NEW e \in Events, AlertStep(r, e) PROVE Carried'
  <2>1. job[r][e].s.payload \in A
    BY <1>2, <1>9, <1>16, SagaForEvent DEF AlertStep
  <2> QED BY <1>7, <1>16, <2>1 DEF AlertStep
<1>17. ASSUME NEW r \in Replicas, NEW j \in Jobs, Restore(r, j) PROVE Carried'
  BY <1>3, <1>4, <1>17, FailingCarries DEF Restore
<1>18. ASSUME NEW e \in Events, Dispatched(e) PROVE Carried'
  BY <1>6, <1>18 DEF Dispatched, Publish
<1>19. CASE Officer
  <2>1. UNCHANGED <<store, job>>
    BY <1>19 DEF Officer, CreateCompliance, UpdateCompliance, CheckLoad, CheckWrite,
         CheckAlert, vars
  <2> QED BY <1>5, <1>6, <2>1
<1>20. CASE UNCHANGED cvars
  BY <1>5, <1>6, <1>20 DEF cvars, vars
<1> QED BY <1>5, <1>11, <1>12, <1>14, <1>15, <1>16, <1>17, <1>18, <1>19, <1>20
      DEF CNext, Evaluate

LEMMA InitCarry == CInit => HadOK /\ CarryInv
BY DEF CInit, Init, HadOK, CarryInv, StoreCarries, JobsCarry, WorkOK, Idle

(* What a compensation of the saga is going to write back is a status the  *)
(* row really had and never draft or archived, with any replicas, faults,  *)
(* crashes, redeliveries and edits (before_status of evaluate).            *)
THEOREM RestoredWasThere == CSpec => []RestoresWhatWas
<1>1. CarryInv => RestoresWhatWas
  BY SagaIsC DEF CarryInv, StoreCarries, JobsCarry, WorkOK, CopyOK, Restorables,
       RestoresWhatWas, Saga0
<1>2. EInv /\ CInv /\ HadOK /\ CarryInv /\ [CNext]_cvars
        => (EInv /\ CInv /\ HadOK /\ CarryInv)'
  BY NextEInv, NextCInv, NextHadOK, NextCarry
<1>3. CInit => EInv /\ CInv /\ HadOK /\ CarryInv
  BY InitRefines, InitIInv, InitWoken, InitCInv, InitCarry DEF EInv
<1> QED BY <1>1, <1>2, <1>3, PTL DEF CSpec
=============================================================================

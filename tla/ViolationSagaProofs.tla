-------------------------- MODULE ViolationSagaProofs --------------------------
(***************************************************************************)
(* The ViolationProcessing saga: its types, and that past detect it always *)
(* knows the corrective action it is about, for any deployment; and, for   *)
(* one replica, that it never keeps two of its own at a time.  What is     *)
(* proved of the engine is used through StepRefines.                       *)
(***************************************************************************)
EXTENDS ViolationSaga, SagaEngineProofs, FiniteSetTheorems

RowType == [status : {"none", "open", "in_progress", "completed",
                      "deleted", "rolled_back"},
            by : {"nobody", "saga", "officer"}]

(* A row exists once somebody has created it.                              *)
RowsOK == \A c \in Actions : ca[c].by = "nobody" <=> ca[c].status = "none"

TableOK ==
  /\ violation \in {"none", "open", "resolved", "deleted"}
  /\ ca \in [Actions -> RowType] /\ RowsOK
  /\ disturbed \in BOOLEAN

HeldType == held \in [Replicas -> [Jobs -> Actions \cup {NotFound, Unset}]]

(* What is held is the empty outcome of detect's query, the row resolve is *)
(* about to close, or the recorded row a compensator is about to delete.   *)
HeldOK ==
  \A r \in Replicas, j \in Jobs : held[r][j] # Unset =>
    \/ j = Detected /\ job[r][j].pc = "act" /\ held[r][j] = NotFound
    \/ /\ j \in Resolutions /\ job[r][j].pc = "act"
       /\ held[r][j] \in Actions /\ ca[held[r][j]].by # "nobody"
    \/ /\ job[r][j].pc = "comp" /\ job[r][j].i = 0
       /\ held[r][j] \in Actions /\ held[r][j] = job[r][j].s.payload

VInv == TableOK /\ HeldType /\ HeldOK

(* The engine's part of the invariant.                                     *)
EInv == IInv /\ Woken /\ Caused

-----------------------------------------------------------------------------
(* Lemmas on the types. *)

LEMMA SagaIsV ==
  /\ V \in Sagas /\ V \in Jobs /\ V \notin Events
  /\ \A j \in Jobs : SagaFor(j) = V /\ (j = V \/ j = Detected \/ j \in Resolutions)
  /\ \A e \in Events : SagaOf[e] = V /\ e \in Jobs /\ e # V
  /\ Detected \in Events /\ Detected \in Jobs /\ StepOf[Detected] = 0
  /\ \A e \in Resolutions : e \in Events /\ e \in Jobs /\ e # Detected /\ StepOf[e] = 1
  /\ NSteps[V] = 2
BY ViolationAssumption, SagaAssumption, SagaForType, SagaForEvent DEF Jobs

LEMMA JobTyped ==
  ASSUME EInv, NEW r \in Replicas, NEW j \in Jobs
  PROVE  /\ job[r][j] \in JobType /\ job[r][j].s \in Saga /\ JobsOK
         /\ job[r][j].s.payload \in Payloads \cup {NilPayload}
BY DEF EInv, IInv, JobsOK, JobType, Saga

LEMMA NewIdFree == \A c \in NewId : c \in Actions /\ ca[c] = Free
<1> DEFINE Unused == {c \in Actions : ca[c] = Free}
<1>1. Unused # {} => (CHOOSE c \in Unused : TRUE) \in Unused
  OBVIOUS
<1> QED BY <1>1 DEF NewId

LEMMA ReleaseAt ==
  ASSUME Release, NEW r \in Replicas, NEW j \in Jobs
  PROVE  held'[r][j] = IF job'[r][j] = job[r][j] THEN held[r][j] ELSE Unset
BY DEF Release

-----------------------------------------------------------------------------
(* Each step is one of the engine, or leaves the engine alone. *)

LEMMA BodyRefines ==
  ASSUME NEW r \in Replicas, NEW e \in Events, NEW p \in Payloads \cup {NilPayload},
         ActOk(r, e, p) \/ ActErr(r, e, p) \/ ActPanic(r, e)
  PROVE  Next
BY DEF Next, Body

LEMMA DetectRefines ==
  ASSUME EInv, NEW r \in Replicas, Detect(r)
  PROVE  [Next]_vars
<1> DEFINE p == job[r][Detected].s.payload
<1>1. /\ Detected \in Events /\ p \in Payloads \cup {NilPayload}
      /\ WithEntries(p) \in Payloads \cup {NilPayload}
      /\ \A c \in Actions : c \in Payloads \cup {NilPayload}
  BY SagaIsV, JobTyped, ViolationAssumption DEF WithEntries
<1>2. \A c \in Live : c \in Actions
  BY DEF Live
<1>3. \A c \in NewId : c \in Actions
  BY NewIdFree
<1>4. \/ \E x \in Payloads \cup {NilPayload} :
           ActOk(r, Detected, x) \/ ActErr(r, Detected, x)
      \/ ActPanic(r, Detected)
      \/ UNCHANGED vars
  BY <1>1, <1>2, <1>3 DEF Detect, DetectFind, DetectCreate, Hold
<1> QED BY <1>1, <1>4, BodyRefines

LEMMA ResolveRefines ==
  ASSUME EInv, NEW r \in Replicas, NEW e \in Events, Resolve(r, e)
  PROVE  [Next]_vars
<1> DEFINE p == job[r][e].s.payload
<1>1. p \in Payloads \cup {NilPayload}
  BY SagaIsV, JobTyped
<1>2. ActOk(r, e, p) \/ ActErr(r, e, p) \/ UNCHANGED vars
  BY DEF Resolve, ResolveFind, ResolveClose, Hold
<1> QED BY <1>1, <1>2, BodyRefines

LEMMA StepRefines == EInv /\ [VNext]_vvars => [Next]_vars
<1> SUFFICES ASSUME EInv, [VNext]_vvars PROVE [Next]_vars
  OBVIOUS
<1>1. CASE Engine
  BY <1>1, SagaForEvent DEF Engine, Next
<1>2. ASSUME NEW r \in Replicas, NEW j \in Jobs, Rollback(r, j) PROVE [Next]_vars
  <2>1. Compensate(r, j) \/ UNCHANGED vars
    BY <1>2 DEF Rollback, CompSkip, CompFind, CompDelete, Hold
  <2> QED BY <2>1 DEF Next
<1>3. CASE Officer
  <2>1. (\E e \in Events : Publish(e)) \/ UNCHANGED vars
    BY <1>3, SagaIsV DEF Officer, CreateViolation, DeleteViolation, ResolveViolation,
         OfficerCreates, OfficerCompletes, OfficerDeletes, OfficerUpdates
  <2> QED BY <2>1 DEF Next
<1>4. CASE UNCHANGED vvars
  BY <1>4 DEF vvars
<1> QED BY <1>1, <1>2, <1>3, <1>4, DetectRefines, ResolveRefines DEF VNext

-----------------------------------------------------------------------------
(* VInv is kept by every step. *)

(* What was held is released or stays, while the rows keep their creators. *)
LEMMA ReleaseOK ==
  ASSUME HeldType, HeldOK, Release,
         \A c \in Actions : ca[c].by # "nobody" => ca'[c].by # "nobody"
  PROVE  HeldType' /\ HeldOK'
<1>1. \A r \in Replicas, j \in Jobs :
        held'[r][j] = IF job'[r][j] = job[r][j] THEN held[r][j] ELSE Unset
  BY DEF Release
<1>2. HeldType'
  BY <1>1 DEF HeldType, Release, Jobs
<1>3. HeldOK'
  BY <1>1 DEF HeldOK, Jobs
<1> QED BY <1>2, <1>3

LEMMA HeldSame ==
  ASSUME HeldType, HeldOK, UNCHANGED <<job, held>>,
         \A c \in Actions : ca[c].by # "nobody" => ca'[c].by # "nobody"
  PROVE  HeldType' /\ HeldOK'
BY DEF HeldType, HeldOK

LEMMA HoldOK ==
  ASSUME HeldType, HeldOK, NEW r \in Replicas, NEW j \in Jobs, NEW x, Hold(r, j, x),
         UNCHANGED ca, x \in Actions \cup {NotFound},
         \/ j = Detected /\ job[r][j].pc = "act" /\ x = NotFound
         \/ /\ j \in Resolutions /\ job[r][j].pc = "act"
            /\ x \in Actions /\ ca[x].by # "nobody"
         \/ /\ job[r][j].pc = "comp" /\ job[r][j].i = 0
            /\ x \in Actions /\ x = job[r][j].s.payload
  PROVE  HeldType' /\ HeldOK'
<1>1. UNCHANGED job
  BY DEF Hold, vars
<1>2. \A q \in Replicas, k \in Jobs :
        held'[q][k] = IF q = r /\ k = j THEN x ELSE held[q][k]
  BY DEF Hold, HeldType
<1>3. HeldType'
  BY DEF HeldType, Hold
<1>4. HeldOK'
  BY <1>1, <1>2 DEF HeldOK
<1> QED BY <1>3, <1>4

LEMMA LiveExists ==
  ASSUME TableOK, NEW c \in Live
  PROVE  c \in Actions /\ ca[c].by # "nobody"
BY DEF Live, TableOK, RowsOK

(* One row gets another status, or is created.                             *)
LEMMA RowChanges ==
  ASSUME TableOK, NEW c \in Actions, NEW rw \in RowType, ca' = [ca EXCEPT ![c] = rw],
         rw.by # "nobody" /\ rw.status # "none",
         violation' \in {"none", "open", "resolved", "deleted"}, disturbed' \in BOOLEAN
  PROVE  /\ TableOK'
         /\ \A d \in Actions : ca[d].by # "nobody" => ca'[d].by # "nobody"
BY DEF TableOK, RowsOK

LEMMA StatusChanges ==
  ASSUME TableOK, NEW c \in Live,
         NEW st \in {"open", "in_progress", "completed", "deleted", "rolled_back"},
         SetStatus(c, st),
         violation' \in {"none", "open", "resolved", "deleted"}, disturbed' \in BOOLEAN
  PROVE  /\ TableOK'
         /\ \A d \in Actions : ca[d].by # "nobody" => ca'[d].by # "nobody"
<1> DEFINE rw == [ca[c] EXCEPT !.status = st]
<1>1. c \in Actions /\ ca[c] \in RowType /\ ca[c].by # "nobody"
  BY LiveExists DEF TableOK
<1>2. rw \in RowType /\ rw.by # "nobody" /\ rw.status # "none"
  BY <1>1 DEF RowType
<1>3. ca' = [ca EXCEPT ![c] = rw]
  BY <1>1 DEF SetStatus, TableOK
<1> HIDE DEF rw
<1> QED BY <1>1, <1>2, <1>3, RowChanges

LEMMA RowCreated ==
  ASSUME TableOK, NEW c \in NewId, NEW by \in {"saga", "officer"},
         ca' = [ca EXCEPT ![c] = [status |-> "open", by |-> by]],
         UNCHANGED <<violation, disturbed>>
  PROVE  /\ TableOK'
         /\ \A d \in Actions : ca[d].by # "nobody" => ca'[d].by # "nobody"
<1>1. c \in Actions
  BY NewIdFree
<1>2. [status |-> "open", by |-> by] \in RowType
  BY DEF RowType
<1>3. violation' \in {"none", "open", "resolved", "deleted"} /\ disturbed' \in BOOLEAN
  BY DEF TableOK
<1> QED BY <1>1, <1>2, <1>3, RowChanges

LEMMA TableSame == TableOK /\ UNCHANGED business => TableOK'
BY DEF TableOK, RowsOK, business

LEMMA EngineVInv == VInv /\ Engine => VInv'
BY TableSame, ReleaseOK DEF VInv, Engine, business

LEMMA DetectVInv ==
  ASSUME EInv, VInv, NEW r \in Replicas, Detect(r)
  PROVE  VInv'
<1>1. ASSUME UNCHANGED business, Release PROVE VInv'
  BY <1>1, TableSame, ReleaseOK DEF VInv, business
<1>2. ASSUME DetectFind(r), Hold(r, Detected, NotFound) PROVE VInv'
  <2>1. UNCHANGED business /\ job[r][Detected].pc = "act"
    BY <1>2 DEF DetectFind, InDetect
  <2> QED BY <1>2, <2>1, SagaIsV, TableSame, HoldOK DEF VInv, business
<1>3. ASSUME DetectCreate(r) PROVE VInv'
  <2>1. UNCHANGED <<violation, disturbed>> /\ Release
    BY <1>3 DEF DetectCreate
  <2>2. CASE \E c \in NewId : ca' = [ca EXCEPT ![c] = [status |-> "open", by |-> "saga"]]
    BY <2>1, <2>2, RowCreated, ReleaseOK DEF VInv
  <2>3. CASE UNCHANGED ca
    BY <1>1, <2>1, <2>3 DEF business
  <2> QED BY <1>3, <2>2, <2>3 DEF DetectCreate
<1> QED BY <1>1, <1>2, <1>3 DEF Detect, DetectFind

LEMMA ResolveVInv ==
  ASSUME EInv, VInv, NEW r \in Replicas, NEW e \in Events, Resolve(r, e)
  PROVE  VInv'
<1>1. e \in Resolutions /\ e \in Jobs /\ job[r][e].pc = "act"
  BY SagaIsV DEF Resolve, ResolveFind, ResolveClose, InResolve
<1>2. ASSUME UNCHANGED business, Release PROVE VInv'
  BY <1>2, TableSame, ReleaseOK DEF VInv, business
<1>3. ASSUME ResolveFind(r, e), NEW c \in Live, Hold(r, e, c) PROVE VInv'
  BY <1>1, <1>3, LiveExists, TableSame, HoldOK DEF VInv, ResolveFind, business
<1>4. ASSUME ResolveClose(r, e) PROVE VInv'
  <2>1. UNCHANGED <<violation, disturbed>> /\ Release
    BY <1>4 DEF ResolveClose
  <2>2. CASE held[r][e] \in Live /\ SetStatus(held[r][e], "completed")
    <3> DEFINE c == held[r][e]
    <3>1. violation' \in {"none", "open", "resolved", "deleted"} /\ disturbed' \in BOOLEAN
      BY <2>1 DEF VInv, TableOK
    <3> HIDE DEF c
    <3>2. c \in Live /\ SetStatus(c, "completed")
      BY <2>2 DEF c
    <3>3. TableOK' /\ \A d \in Actions : ca[d].by # "nobody" => ca'[d].by # "nobody"
      BY <3>1, <3>2, StatusChanges DEF VInv
    <3> QED BY <2>1, <3>3, ReleaseOK DEF VInv
  <2>3. CASE UNCHANGED ca
    BY <1>2, <2>1, <2>3 DEF business
  <2> QED BY <1>4, <2>2, <2>3 DEF ResolveClose
<1> QED BY <1>2, <1>3, <1>4 DEF Resolve, ResolveFind

LEMMA RollbackVInv ==
  ASSUME EInv, VInv, NEW r \in Replicas, NEW j \in Jobs, Rollback(r, j)
  PROVE  VInv'
<1> DEFINE c == job[r][j].s.payload
           h == held[r][j]
<1>1. ASSUME UNCHANGED <<violation, ca>>, disturbed' \in BOOLEAN, Release PROVE VInv'
  <2>1. TableOK'
    BY <1>1 DEF VInv, TableOK, RowsOK
  <2> QED BY <1>1, <2>1, ReleaseOK DEF VInv
<1>2. CASE CompSkip(r, j)
  BY <1>1, <1>2 DEF CompSkip, business, VInv, TableOK
<1>3. CASE CompFind(r, j)
  <2>1. UNCHANGED <<violation, ca>> /\ disturbed' \in BOOLEAN
    BY <1>3 DEF CompFind, VInv, TableOK
  <2>2. CASE Release
    BY <1>1, <2>1, <2>2
  <2>3. CASE Hold(r, j, c) /\ UNCHANGED disturbed
    <3>1. c \in Actions /\ job[r][j].pc = "comp" /\ job[r][j].i = 0
      BY <1>3 DEF CompFind
    <3>2. HeldType' /\ HeldOK'
      BY <2>1, <2>3, <3>1, HoldOK DEF VInv
    <3>3. TableOK'
      BY <2>1, <2>3 DEF VInv, TableOK, RowsOK
    <3> QED BY <3>2, <3>3 DEF VInv
  <2> QED BY <1>3, <2>2, <2>3 DEF CompFind
<1>4. CASE CompDelete(r, j)
  <2>1. UNCHANGED violation /\ disturbed' \in BOOLEAN /\ Release
    BY <1>4 DEF CompDelete, VInv, TableOK
  <2>2. CASE UNCHANGED ca
    BY <1>1, <2>1, <2>2
  <2>3. CASE h \in Live /\ SetStatus(h, "rolled_back")
    <3> HIDE DEF h
    <3>1. violation' \in {"none", "open", "resolved", "deleted"}
      BY <2>1 DEF VInv, TableOK
    <3>2. TableOK' /\ \A d \in Actions : ca[d].by # "nobody" => ca'[d].by # "nobody"
      BY <2>1, <2>3, <3>1, StatusChanges DEF VInv
    <3> QED BY <2>1, <3>2, ReleaseOK DEF VInv
  <2> QED BY <1>4, <2>2, <2>3 DEF CompDelete
<1> QED BY <1>2, <1>3, <1>4 DEF Rollback

LEMMA OfficerVInv == VInv /\ Officer => VInv'
<1> SUFFICES ASSUME VInv, Officer PROVE VInv'
  OBVIOUS
<1>1. UNCHANGED <<job, held>>
  BY DEF Officer, CreateViolation, DeleteViolation, ResolveViolation, OfficerCreates,
         OfficerCompletes, OfficerDeletes, OfficerUpdates, Publish, vars
<1>2. ASSUME TableOK', \A d \in Actions : ca[d].by # "nobody" => ca'[d].by # "nobody"
      PROVE  VInv'
  BY <1>1, <1>2, HeldSame DEF VInv
<1>3. ASSUME \/ CreateViolation \/ DeleteViolation
             \/ \E e \in Events : ResolveViolation(e)
      PROVE  VInv'
  <2>1. UNCHANGED <<ca, disturbed>> /\ violation' \in {"none", "open", "resolved", "deleted"}
    BY <1>3 DEF CreateViolation, DeleteViolation, ResolveViolation
  <2> QED BY <1>2, <2>1 DEF VInv, TableOK, RowsOK
<1>4. ASSUME NEW c \in Actions, OfficerCreates(c) PROVE VInv'
  BY <1>2, <1>4, RowCreated DEF OfficerCreates, VInv
<1>5. ASSUME NEW c \in Actions,
             \/ OfficerCompletes(c) \/ OfficerDeletes(c)
             \/ \E st \in {"open", "in_progress", "completed"} : OfficerUpdates(c, st)
      PROVE  VInv'
  <2>1. c \in Live /\ violation' \in {"none", "open", "resolved", "deleted"}
        /\ disturbed' \in BOOLEAN
    BY <1>5 DEF OfficerCompletes, OfficerDeletes, OfficerUpdates, VInv, TableOK
  <2>2. \E st \in {"open", "in_progress", "completed", "deleted", "rolled_back"} :
          SetStatus(c, st)
    BY <1>5 DEF OfficerCompletes, OfficerDeletes, OfficerUpdates
  <2> QED BY <1>2, <2>1, <2>2, StatusChanges DEF VInv
<1> QED BY <1>3, <1>4, <1>5 DEF Officer

LEMMA InitVInv == VInit => VInv
<1> SUFFICES ASSUME VInit PROVE VInv
  OBVIOUS
<1>1. Free \in RowType /\ Free.by = "nobody" /\ Free.status = "none"
  BY DEF Free, RowType
<1> QED BY <1>1 DEF VInit, VInv, TableOK, RowsOK, HeldType, HeldOK

LEMMA NextVInv == EInv /\ VInv /\ [VNext]_vvars => VInv'
<1> SUFFICES ASSUME EInv, VInv, [VNext]_vvars PROVE VInv'
  OBVIOUS
<1>1. CASE UNCHANGED vvars
  BY <1>1, TableSame, HeldSame DEF vvars, vars, business, VInv
<1> QED BY <1>1, EngineVInv, DetectVInv, ResolveVInv, RollbackVInv, OfficerVInv DEF VNext

LEMMA NextEInv == EInv /\ [VNext]_vvars => EInv'
BY StepRefines, NextIInv, NextWoken DEF EInv

LEMMA InitEInv == VInit => EInv
BY InitIInv, InitWoken DEF VInit, EInv

-----------------------------------------------------------------------------
(* The theorems for any deployment. *)

THEOREM SagaInductive == VSpec => [](EInv /\ VInv)
<1>1. EInv /\ VInv /\ [VNext]_vvars => (EInv /\ VInv)'
  BY NextVInv, NextEInv
<1> QED BY <1>1, InitEInv, InitVInv, PTL DEF VSpec

(* The rows and what step bodies hold keep their types: only existing rows *)
(* are closed, rolled back or edited (detect, resolve, the compensator).   *)
THEOREM ViolationTypes == VSpec => []VTypeOK
<1>1. VInv => VTypeOK
  BY DEF VInv, VTypeOK, TableOK, RowType, HeldType
<1> QED BY <1>1, SagaInductive, PTL

-----------------------------------------------------------------------------
(* KnowsItsAction, for any number of replicas, with crashes, panics, sweeps*)
(* and Redis calls that fail.                                              *)

Known == {c \in Actions : ca[c] # Free}

(* A copy past detect carries a known action, and so does one whose detect *)
(* has succeeded and is not persisted yet.                                 *)
Any == Payloads \cup {NilPayload}
KnowInv == StoreCarries(Any, Known) /\ JobsCarry(Any, Known)

LEMMA KnownCarriers == Carriers(Any, Known) /\ Known \subseteq Any
BY ViolationAssumption, ValuesAssumption, SagaAssumption DEF Carriers, Any, Known

(* Rows are never freed again. *)
LEMMA KnownGrows == VInv /\ [VNext]_vvars => Known \subseteq Known'
<1> SUFFICES ASSUME VInv, [VNext]_vvars PROVE Known \subseteq Known'
  OBVIOUS
<1>1. ca \in [Actions -> RowType] /\ RowsOK
  BY DEF VInv, TableOK
<1>2. ASSUME UNCHANGED ca PROVE Known \subseteq Known'
  BY <1>2 DEF Known
<1>3. ASSUME NEW c \in Actions, NEW rw, rw # Free, ca' = [ca EXCEPT ![c] = rw]
      PROVE  Known \subseteq Known'
  BY <1>1, <1>3 DEF Known
<1>4. ASSUME NEW c \in Live, NEW st, SetStatus(c, st) PROVE Known \subseteq Known'
  <2> DEFINE rw == [ca[c] EXCEPT !.status = st]
  <2>1. c \in Actions /\ ca[c] \in RowType /\ ca[c].by # "nobody"
    BY <1>1 DEF Live, RowsOK
  <2>2. rw.by = ca[c].by
    BY <2>1 DEF RowType
  <2>3. rw # Free
    BY <2>1, <2>2 DEF Free
  <2>4. ca' = [ca EXCEPT ![c] = rw]
    BY <1>1, <1>4, <2>1 DEF SetStatus
  <2> HIDE DEF rw
  <2> QED BY <1>3, <2>1, <2>3, <2>4
<1>5. ASSUME NEW c \in NewId, NEW by,
             ca' = [ca EXCEPT ![c] = [status |-> "open", by |-> by]]
      PROVE  Known \subseteq Known'
  <2>1. [status |-> "open", by |-> by] # Free /\ c \in Actions
    BY NewIdFree DEF Free
  <2> QED BY <1>3, <1>5, <2>1
<1>6. CASE Engine
  BY <1>2, <1>6 DEF Engine, business
<1>7. ASSUME NEW r \in Replicas, Detect(r) PROVE Known \subseteq Known'
  BY <1>2, <1>5, <1>7 DEF Detect, DetectFind, DetectCreate, business
<1>8. ASSUME NEW r \in Replicas, NEW e \in Events, Resolve(r, e) PROVE Known \subseteq Known'
  BY <1>2, <1>4, <1>8 DEF Resolve, ResolveFind, ResolveClose, business
<1>9. ASSUME NEW r \in Replicas, NEW j \in Jobs, Rollback(r, j) PROVE Known \subseteq Known'
  BY <1>2, <1>4, <1>9 DEF Rollback, CompSkip, CompFind, CompDelete, business
<1>10. CASE Officer
  BY <1>2, <1>4, <1>5, <1>10 DEF Officer, CreateViolation, DeleteViolation,
       ResolveViolation, OfficerCreates, OfficerCompletes, OfficerDeletes, OfficerUpdates
<1>11. CASE UNCHANGED vvars
  BY <1>2, <1>11 DEF vvars, business
<1> QED BY <1>6, <1>7, <1>8, <1>9, <1>10, <1>11 DEF VNext

(* Each step keeps what the copies carry within the rows there are now. *)
LEMMA NextKnows == EInv /\ VInv /\ KnowInv /\ [VNext]_vvars => KnowInv'
<1> SUFFICES ASSUME EInv, VInv, KnowInv, [VNext]_vvars PROVE KnowInv'
  OBVIOUS
<1>1. PICK A, B : A = Any /\ B = Known'
  OBVIOUS
<1> DEFINE Carried == StoreCarries(A, B) /\ JobsCarry(A, B)
<1>2. Carried /\ IInv
  BY <1>1, KnownGrows DEF KnowInv, StoreCarries, JobsCarry, WorkOK, CopyOK, EInv
<1>3. Carriers(A, B)
  <2>1. B \subseteq Actions
    BY <1>1 DEF Known
  <2> QED BY <1>1, <2>1, KnownCarriers, ValuesAssumption DEF Carriers
<1>4. Carried' => KnowInv'
  BY <1>1 DEF KnowInv, StoreCarries, JobsCarry, WorkOK, CopyOK, Any
<1>5. ASSUME UNCHANGED vars PROVE Carried'
  BY <1>2, <1>5, StoreCarriesSame, JobsCarrySame DEF vars
<1>6. CASE Engine
  <2>1. Carried'
    BY <1>2, <1>3, <1>6, HandlerCarries, FailingCarries, SweepCarries, WorldCarries
       DEF Engine
  <2> QED BY <1>4, <2>1
<1>7. ASSUME NEW r \in Replicas, Detect(r) PROVE Carried'
  <2> DEFINE p == job[r][Detected].s.payload
  <2>1. p \in A /\ WithEntries(p) \in A /\ \A c \in Actions : c \in A
    BY <1>1, SagaIsV, JobTyped, ViolationAssumption DEF WithEntries, Any
  <2>2. job[r][Detected].s.step = 0
    BY <1>7 DEF Detect, DetectFind, DetectCreate, InDetect
  <2>3. ASSUME NEW c \in Live PROVE c \in B /\ c \in Actions
    BY <1>1, <2>3, KnownGrows DEF Live, Known, Free
  <2>4. ASSUME NEW c \in NewId,
               ca' = [ca EXCEPT ![c] = [status |-> "open", by |-> "saga"]]
        PROVE  c \in B /\ c \in Actions
    BY <1>1, <2>4, NewIdFree DEF Known, Free, VInv, TableOK
  <2>5. \/ ActErr(r, Detected, p) \/ ActErr(r, Detected, WithEntries(p))
        \/ ActPanic(r, Detected)
        \/ \E c \in B : c \in Actions /\ ActOk(r, Detected, c)
        \/ UNCHANGED vars
    BY <1>7, <2>3, <2>4 DEF Detect, DetectFind, DetectCreate, Hold
  <2>6. ASSUME NEW c \in B, c \in Actions, ActOk(r, Detected, c) PROVE Carried'
    BY <1>2, <2>1, <2>6, SagaIsV, BodyCarries
  <2> QED BY <1>2, <1>5, <2>1, <2>2, <2>5, <2>6, SagaIsV, BodyCarries
<1>8. ASSUME NEW r \in Replicas, NEW e \in Events, Resolve(r, e) PROVE Carried'
  <2> DEFINE p == job[r][e].s.payload
  <2>1. job[r][e].pc = "act" /\ job[r][e].s.step = 1 /\ e \in Jobs
    BY <1>8, SagaIsV DEF Resolve, ResolveFind, ResolveClose, InResolve
  <2>2. p \in A \cap B
    BY <1>1, <1>2, <2>1 DEF JobsCarry, WorkOK, CopyOK
  <2>3. ActOk(r, e, p) \/ ActErr(r, e, p) \/ UNCHANGED vars
    BY <1>8 DEF Resolve, ResolveFind, ResolveClose, Hold
  <2> QED BY <1>2, <1>5, <2>2, <2>3, BodyCarries
<1>9. ASSUME NEW r \in Replicas, NEW j \in Jobs, Rollback(r, j) PROVE Carried'
  <2>1. Compensate(r, j) \/ UNCHANGED vars
    BY <1>9 DEF Rollback, CompSkip, CompFind, CompDelete, Hold
  <2> QED BY <1>2, <1>3, <1>5, <2>1, FailingCarries
<1>10. CASE Officer
  <2>1. UNCHANGED <<store, job>>
    BY <1>10 DEF Officer, CreateViolation, DeleteViolation, ResolveViolation,
         OfficerCreates, OfficerCompletes, OfficerDeletes, OfficerUpdates, Publish, vars
  <2>2. Carried'
    BY <1>2, <2>1, StoreCarriesSame, JobsCarrySame
  <2> QED BY <1>4, <2>2
<1>11. CASE UNCHANGED vvars
  BY <1>4, <1>5, <1>11 DEF vvars
<1> QED BY <1>4, <1>6, <1>7, <1>8, <1>9, <1>10, <1>11 DEF VNext

LEMMA InitKnows == VInit => KnowInv
BY DEF VInit, Init, KnowInv, StoreCarries, JobsCarry, WorkOK, Idle

(* Whoever works on a violation's saga past detect, or finds it in Redis,  *)
(* has the id of a corrective action that exists, with any replicas,       *)
(* faults, crashes, redeliveries and panics (detect, persist, load, fail). *)
THEOREM ActionIsKnown == VSpec => []KnowsItsAction
<1>1. EInv /\ KnowInv => KnowsItsAction
  <2> SUFFICES ASSUME EInv, KnowInv PROVE KnowsItsAction
    OBVIOUS
  <2>1. \A x \in Saga : x.step >= 1 => x.step > 0
    BY DEF Saga
  <2>2. store[V] # Absent => store[V] \in Saga
    BY SagaIsV DEF EInv, IInv, StoreOK
  <2>3. store[V] # Absent => Knowing(store[V])
    BY <2>1, <2>2, SagaIsV DEF KnowInv, StoreCarries, CopyOK, Known, Knowing
  <2>4. ASSUME NEW r \in Replicas, NEW j \in Jobs, job[r][j].pc # "idle"
        PROVE  Knowing(job[r][j].s)
    <3>1. job[r][j].s \in Saga
      BY JobTyped
    <3> QED BY <2>1, <2>4, <3>1 DEF KnowInv, JobsCarry, WorkOK, CopyOK, Known, Knowing
  <2> QED BY <2>3, <2>4 DEF KnowsItsAction
<1>2. EInv /\ VInv /\ KnowInv /\ [VNext]_vvars => (EInv /\ VInv /\ KnowInv)'
  BY NextEInv, NextVInv, NextKnows
<1> QED BY <1>1, <1>2, InitEInv, InitVInv, InitKnows, PTL DEF VSpec

-----------------------------------------------------------------------------
(* OneAutomaticAction, for one replica: between detect's query and its     *)
(* insert no other handler of Detected runs.  With two replicas a failed   *)
(* state left behind by a crash lets both run detect at once.              *)

LiveAuto == Live \cap Automatic

(* Who has found no row is the only one to create one.                     *)
OneInv ==
  /\ \A c, d \in LiveAuto : c = d
  /\ \A r \in Replicas : held[r][Detected] = NotFound => LiveAuto = {}

(* Steps that revive and create no row of the saga's.                      *)
LEMMA StatusShrinks ==
  ASSUME TableOK, NEW c \in Live, NEW st, SetStatus(c, st)
  PROVE  LiveAuto' \subseteq LiveAuto
<1>1. c \in Actions
  BY DEF Live
<1>2. \A d \in Actions : ca'[d].by = ca[d].by /\ (d # c => ca'[d] = ca[d])
  <2>1. ca[c] \in RowType /\ ca' = [ca EXCEPT ![c] = [ca[c] EXCEPT !.status = st]]
    BY <1>1 DEF SetStatus, TableOK
  <2>2. [ca[c] EXCEPT !.status = st].by = ca[c].by
    BY <2>1 DEF RowType
  <2> QED BY <1>1, <2>1, <2>2 DEF TableOK
<1> QED BY <1>2 DEF LiveAuto, Live, Automatic

LEMMA CreateShrinks ==
  ASSUME TableOK, NEW c \in Actions, OfficerCreates(c)
  PROVE  LiveAuto' \subseteq LiveAuto
BY DEF OfficerCreates, TableOK, LiveAuto, Live, Automatic

LEMMA ReleaseOne ==
  ASSUME OneInv, Release \/ UNCHANGED held, LiveAuto' \subseteq LiveAuto
  PROVE  OneInv'
<1>1. \A r \in Replicas : held'[r][Detected] = NotFound => held[r][Detected] = NotFound
  BY ReleaseAt, SagaIsV, ValuesAssumption
<1> QED BY <1>1 DEF OneInv

LEMMA NextOne ==
  ASSUME OneReplica, EInv, VInv, OneInv, [VNext]_vvars
  PROVE  OneInv'
<1>1. ASSUME UNCHANGED ca PROVE LiveAuto' = LiveAuto
  BY <1>1 DEF LiveAuto, Live, Automatic
<1>2. CASE Engine
  BY <1>1, <1>2, ReleaseOne DEF Engine, business
<1>3. ASSUME NEW r \in Replicas, DetectFind(r) PROVE OneInv'
  <2>1. UNCHANGED ca
    BY <1>3 DEF DetectFind, business
  <2>2. CASE Release
    BY <1>1, <2>1, <2>2, ReleaseOne
  <2>3. CASE Live = {}
    BY <1>1, <2>1, <2>3 DEF OneInv, LiveAuto
  <2> QED BY <1>3, <2>2, <2>3 DEF DetectFind
<1>4. ASSUME NEW r \in Replicas, DetectCreate(r) PROVE OneInv'
  <2>1. Release /\ held[r][Detected] = NotFound
    BY <1>4 DEF DetectCreate
  <2>2. CASE UNCHANGED ca
    BY <1>1, <2>1, <2>2, ReleaseOne
  <2>3. ASSUME NEW c \in NewId, ca' = [ca EXCEPT ![c] = [status |-> "open", by |-> "saga"]],
               ActOk(r, Detected, c)
        PROVE  OneInv'
    <3>1. LiveAuto = {}
      BY <2>1 DEF OneInv
    <3>2. \A d \in Actions : d # c => ca'[d] = ca[d]
      BY <2>3 DEF VInv, TableOK
    <3>3. LiveAuto' \subseteq {c}
      BY <3>1, <3>2 DEF LiveAuto, Live, Automatic
    <3>4. job'[r][Detected] # job[r][Detected]
      <4>1. Detected \in Jobs /\ job[r][Detected].pc = "act"
        BY <1>4, SagaIsV DEF DetectCreate, InDetect
      <4> DEFINE new == [job[r][Detected] EXCEPT !.pc = "persist", !.s.payload = c]
      <4>2. JobsOK /\ new.pc = "persist"
        BY <4>1, JobTyped DEF JobType
      <4>3. SetJob(r, Detected, new)
        BY <2>3 DEF ActOk
      <4> HIDE DEF new
      <4>4. job'[r][Detected] = new
        BY <4>1, <4>2, <4>3, SetJobAt
      <4> QED BY <4>1, <4>2, <4>4
    <3>5. \A q \in Replicas : held'[q][Detected] = Unset
      BY <2>1, <3>4, ReleaseAt, SagaIsV DEF OneReplica
    <3> QED BY <3>3, <3>5, ValuesAssumption DEF OneInv
  <2> QED BY <1>4, <2>2, <2>3 DEF DetectCreate
<1>5. ASSUME NEW r \in Replicas, NEW e \in Events, Resolve(r, e) PROVE OneInv'
  <2>1. CASE ResolveFind(r, e)
    <3>1. UNCHANGED ca
      BY <2>1 DEF ResolveFind, business
    <3>2. e # Detected /\ e \in Jobs
      BY <2>1, SagaIsV DEF ResolveFind, InResolve
    <3>3. CASE Release
      BY <1>1, <3>1, <3>3, ReleaseOne
    <3>4. CASE \E c : Hold(r, e, c)
      <4>1. \A q \in Replicas : held'[q][Detected] = held[q][Detected]
        BY <3>2, <3>4 DEF Hold, VInv, HeldType
      <4> QED BY <1>1, <3>1, <4>1 DEF OneInv
    <3> QED BY <2>1, <3>3, <3>4 DEF ResolveFind
  <2>2. CASE ResolveClose(r, e)
    <3>1. LiveAuto' \subseteq LiveAuto
      BY <1>1, <2>2, StatusShrinks DEF ResolveClose, VInv
    <3> QED BY <2>2, <3>1, ReleaseOne DEF ResolveClose
  <2> QED BY <1>5, <2>1, <2>2 DEF Resolve
<1>6. ASSUME NEW r \in Replicas, NEW j \in Jobs, Rollback(r, j) PROVE OneInv'
  <2>1. CASE CompSkip(r, j)
    BY <1>1, <2>1, ReleaseOne DEF CompSkip, business
  <2>2. CASE CompFind(r, j)
    <3> DEFINE c == job[r][j].s.payload
    <3>1. UNCHANGED ca /\ c \in Actions
      BY <2>2 DEF CompFind
    <3>2. CASE Release
      BY <1>1, <3>1, <3>2, ReleaseOne
    <3>3. CASE Hold(r, j, c)
      <4>1. \A q \in Replicas :
              held'[q][Detected] = NotFound => held[q][Detected] = NotFound
        BY <3>1, <3>3, ValuesAssumption DEF Hold, VInv, HeldType
      <4> QED BY <1>1, <3>1, <4>1 DEF OneInv
    <3> QED BY <2>2, <3>2, <3>3 DEF CompFind
  <2>3. CASE CompDelete(r, j)
    <3>1. LiveAuto' \subseteq LiveAuto
      BY <1>1, <2>3, StatusShrinks DEF CompDelete, VInv
    <3> QED BY <2>3, <3>1, ReleaseOne DEF CompDelete
  <2> QED BY <1>6, <2>1, <2>2, <2>3 DEF Rollback
<1>7. CASE Officer
  <2>1. UNCHANGED held
    BY <1>7 DEF Officer, CreateViolation, DeleteViolation, ResolveViolation,
         OfficerCreates, OfficerCompletes, OfficerDeletes, OfficerUpdates
  <2>2. LiveAuto' \subseteq LiveAuto
    BY <1>1, <1>7, StatusShrinks, CreateShrinks
       DEF Officer, CreateViolation, DeleteViolation, ResolveViolation, OfficerCompletes,
           OfficerDeletes, OfficerUpdates, VInv
  <2> QED BY <2>1, <2>2, ReleaseOne
<1>8. CASE UNCHANGED vvars
  BY <1>1, <1>8, ReleaseOne DEF vvars, business
<1> QED BY <1>2, <1>3, <1>4, <1>5, <1>6, <1>7, <1>8 DEF VNext, Detect

(* On one replica detect never leaves two live corrective actions of its   *)
(* own for a violation, whatever Redis calls fail, however often the       *)
(* process crashes, the event is delivered, sagas time out and officers    *)
(* edit the rows (comment in detect of NewViolationProcessingSaga).        *)
THEOREM OneAction ==
  ASSUME OneReplica
  PROVE  VSpec => []OneAutomaticAction
<1>1. VInit => OneInv
  BY SagaIsV, ValuesAssumption DEF VInit, OneInv, LiveAuto, Live, Free
<1>2. OneInv => OneAutomaticAction
  <2> SUFFICES ASSUME OneInv PROVE Cardinality(LiveAuto) <= 1
    BY DEF OneAutomaticAction, LiveAuto
  <2>1. CASE LiveAuto = {}
    BY <2>1, FS_EmptySet
  <2>2. CASE LiveAuto # {}
    <3>1. PICK c : LiveAuto = {c}
      BY <2>2 DEF OneInv
    <3> QED BY <3>1, FS_Singleton
  <2> QED BY <2>1, <2>2
<1>3. OneReplica
  OBVIOUS
<1>4. EInv /\ VInv /\ OneInv /\ [VNext]_vvars => (EInv /\ VInv /\ OneInv)'
  BY <1>3, NextEInv, NextVInv, NextOne
<1> QED BY <1>1, <1>2, <1>4, InitEInv, InitVInv, PTL DEF VSpec
=============================================================================

---------------------------- MODULE ViolationSaga ----------------------------
(***************************************************************************)
(* The ViolationProcessing saga of backend/internal/saga/sagas.go running  *)
(* on SagaEngine: "detect" opens a corrective action for a violation,      *)
(* "resolve" closes it, and the compensator of "detect" rolls it back.     *)
(* Officers work on the same tables through the HTTP handlers.  Each query *)
(* and each write of a step body is one action; the engine sees the body   *)
(* as the single ActOk, ActErr or Compensate of its last access.           *)
(***************************************************************************)
EXTENDS SagaEngine

CONSTANTS
  V,           \* the violation
  Detected,    \* ID of its violation.detected event
  Resolutions, \* IDs of its violation.resolved events: one per /resolve call
  Actions,     \* corrective actions that may ever be created for it
  NoAction,    \* a Payload with entries but no corrective_action_id
  NotFound,    \* outcome of a query that matches no row
  Unset,       \* no query outcome held
  MaxManual    \* bound: corrective actions created by officers

ASSUME ViolationAssumption ==
  /\ Sagas = {V}
  /\ Events = {Detected} \cup Resolutions
  /\ Detected \notin Resolutions
  /\ StepOf[Detected] = 0 /\ \A e \in Resolutions : StepOf[e] = 1
  /\ NSteps[V] = 2
  /\ Payloads = Actions \cup {NoPayload, NoAction}
  /\ MaxManual \in Nat

ASSUME ValuesAssumption ==
  /\ Actions \cap {NoPayload, NilPayload, NoAction, NotFound, Unset} = {}
  /\ NotFound # Unset

VARIABLES
  violation,  \* row of the violation: none, open, resolved or deleted
  ca,         \* corrective action -> status and creator of its row
  held,       \* replica -> job -> row a step body or compensator has queried
  disturbed   \* history: a compensator failed, or an officer reopened a row

business == <<violation, ca, disturbed>>
vvars == <<vars, business, held>>

Free == [status |-> "none", by |-> "nobody"]

(* The id of the next row; ids mean nothing, so any one unused id will do. *)
NewId == LET Unused == {c \in Actions : ca[c] = Free}
         IN  IF Unused = {} THEN {} ELSE {CHOOSE c \in Unused : TRUE}

(* Rows a query sees: deletion is soft, queries skip deleted rows. *)
Live == {c \in Actions : ca[c].status \in {"open", "in_progress", "completed"}}

VInit ==
  /\ Init
  /\ violation = "none"
  /\ ca = [c \in Actions |-> Free]
  /\ held = [r \in Replicas |-> [j \in Jobs |-> Unset]]
  /\ disturbed = FALSE

(* Local results live as long as the engine's job does not move.           *)
Release ==
  held' = [r \in Replicas |-> [j \in Jobs |->
             IF job'[r][j] = job[r][j] THEN held[r][j] ELSE Unset]]

Hold(r, j, x) ==
  /\ held' = [held EXCEPT ![r][j] = x]
  /\ UNCHANGED vars

SetStatus(c, st) == ca' = [ca EXCEPT ![c].status = st]

-----------------------------------------------------------------------------
(* detect *)

InDetect(r) == job[r][Detected].pc = "act" /\ job[r][Detected].s.step = 0

(* Mutant of DetectFind: no look-up of an action that already exists. *)
DetectFindBlind(r) ==
  /\ InDetect(r)
  /\ held[r][Detected] = Unset
  /\ violation # "deleted"
  /\ Hold(r, Detected, NotFound)
  /\ UNCHANGED business

(* The severity and the detection time are in the map by now.              *)
WithEntries(p) == IF p = NoPayload THEN NoAction ELSE p

(* Load the violation, write its data into the payload and look for a      *)
(* corrective action already tracking it.  Either query may fail.          *)
DetectFind(r) ==
  LET p == job[r][Detected].s.payload IN
  /\ InDetect(r)
  /\ held[r][Detected] = Unset
  /\ \/ ActErr(r, Detected, p) /\ Release
     \/ /\ violation # "deleted"
        /\ \/ ActPanic(r, Detected) /\ Release
           \/ ActErr(r, Detected, WithEntries(p)) /\ Release
           \/ \E c \in Live : ActOk(r, Detected, c) /\ Release
           \/ p # NilPayload /\ Live = {} /\ Hold(r, Detected, NotFound)
  /\ UNCHANGED business

(* Mutants of DetectCreate: the id is not kept in the payload; the status  *)
(* is left to a default the table does not have.                           *)
DetectCreateForgets(r) ==
  /\ InDetect(r)
  /\ held[r][Detected] = NotFound
  /\ \E c \in NewId : ca' = [ca EXCEPT ![c] = [status |-> "open", by |-> "saga"]]
  /\ ActOk(r, Detected, WithEntries(job[r][Detected].s.payload)) /\ Release
  /\ UNCHANGED <<violation, disturbed>>

DetectCreateBlank(r) ==
  /\ InDetect(r)
  /\ held[r][Detected] = NotFound
  /\ \E c \in NewId : /\ ca' = [ca EXCEPT ![c] = [status |-> "", by |-> "saga"]]
                       /\ ActOk(r, Detected, c) /\ Release
  /\ UNCHANGED <<violation, disturbed>>

(* None found: insert one and keep its id in the payload, or fail on the   *)
(* database.  Queueing correctiveaction.created after that is best effort  *)
(* and changes nothing the violation's saga looks at.                      *)
DetectCreate(r) ==
  /\ InDetect(r)
  /\ held[r][Detected] = NotFound
  /\ \/ \E c \in NewId :
          /\ ca' = [ca EXCEPT ![c] = [status |-> "open", by |-> "saga"]]
          /\ ActOk(r, Detected, c)
     \/ /\ ActErr(r, Detected, WithEntries(job[r][Detected].s.payload))
        /\ UNCHANGED ca
  /\ Release
  /\ UNCHANGED <<violation, disturbed>>

-----------------------------------------------------------------------------
(* resolve *)

InResolve(r, e) ==
  e \in Resolutions /\ job[r][e].pc = "act" /\ job[r][e].s.step = 1

(* First open corrective action of the violation, whoever created it; the  *)
(* query may fail.                                                         *)
ResolveFind(r, e) ==
  /\ InResolve(r, e)
  /\ held[r][e] = Unset
  /\ LET open == {c \in Live : ca[c].status = "open"} IN
     \/ \E c \in open : Hold(r, e, c)
     \/ open = {} /\ ActOk(r, e, job[r][e].s.payload) /\ Release
     \/ ActErr(r, e, job[r][e].s.payload) /\ Release
  /\ UNCHANGED business

(* Close it by id; a row deleted since then fails the step, as a database  *)
(* error does.  Queueing correctiveaction.completed is best effort.        *)
ResolveClose(r, e) ==
  /\ InResolve(r, e)
  /\ held[r][e] \in Actions
  /\ \/ /\ held[r][e] \in Live
        /\ SetStatus(held[r][e], "completed")
        /\ ActOk(r, e, job[r][e].s.payload)
     \/ ActErr(r, e, job[r][e].s.payload) /\ UNCHANGED ca
  /\ Release
  /\ UNCHANGED <<violation, disturbed>>

-----------------------------------------------------------------------------
(* Compensators: none for resolve, detect's deletes the recorded action    *)
(* while it is open.                                                       *)

CompSkip(r, j) ==
  /\ job[r][j].i = 1 \/ job[r][j].s.payload \notin Actions
  /\ Compensate(r, j) /\ Release
  /\ UNCHANGED business

CompFind(r, j) ==
  LET c == job[r][j].s.payload IN
  /\ job[r][j].pc = "comp" /\ job[r][j].i = 0
  /\ c \in Actions
  /\ held[r][j] = Unset
  /\ \/ /\ IF c \in Live /\ ca[c].status = "open" THEN Hold(r, j, c)
           ELSE Compensate(r, j) /\ Release
        /\ UNCHANGED disturbed
     \/ Compensate(r, j) /\ Release /\ disturbed' = TRUE
  /\ UNCHANGED <<violation, ca>>

(* Mutant of CompDelete: the row is not deleted. *)
CompDeleteForgets(r, j) ==
  /\ job[r][j].pc = "comp"
  /\ held[r][j] \in Actions
  /\ Compensate(r, j) /\ Release
  /\ UNCHANGED business

(* Errors of a compensator are logged and the loop goes on.                *)
CompDelete(r, j) ==
  /\ job[r][j].pc = "comp"
  /\ held[r][j] \in Actions
  /\ \/ /\ IF held[r][j] \in Live THEN SetStatus(held[r][j], "rolled_back")
           ELSE UNCHANGED ca
        /\ UNCHANGED disturbed
     \/ disturbed' = TRUE /\ UNCHANGED ca
  /\ Compensate(r, j) /\ Release
  /\ UNCHANGED violation

-----------------------------------------------------------------------------
(* Officers, through the violation and corrective action handlers *)

(* Insert and Enqueue: a crash between them loses the event.               *)
CreateViolation ==
  /\ violation = "none"
  /\ violation' = "open"
  /\ Publish(Detected) \/ UNCHANGED vars
  /\ UNCHANGED <<ca, held, disturbed>>

(* resolveHandler does not look at the current status.                     *)
ResolveViolation(e) ==
  /\ e \in Resolutions
  /\ violation \in {"open", "resolved"}
  /\ violation' = "resolved"
  /\ Publish(e)
  /\ UNCHANGED <<ca, held, disturbed>>

DeleteViolation ==
  /\ violation \in {"open", "resolved"}
  /\ violation' = "deleted"
  /\ UNCHANGED <<vars, ca, held, disturbed>>

OfficerCreates(c) ==
  /\ violation \in {"open", "resolved"}
  /\ c \in NewId
  /\ Cardinality({d \in Actions : ca[d].by = "officer"}) < MaxManual
  /\ ca' = [ca EXCEPT ![c] = [status |-> "open", by |-> "officer"]]
  /\ UNCHANGED <<vars, violation, held, disturbed>>

(* PATCH takes any status for a row.                                       *)
OfficerUpdates(c, st) ==
  /\ c \in Live /\ ca[c].status # st
  /\ SetStatus(c, st)
  /\ disturbed' = (disturbed \/ st = "open")
  /\ UNCHANGED <<vars, violation, held>>

(* completeHandler does not look at the current status either.             *)
OfficerCompletes(c) ==
  /\ c \in Live
  /\ SetStatus(c, "completed")
  /\ UNCHANGED <<vars, violation, held, disturbed>>

OfficerDeletes(c) ==
  /\ c \in Live
  /\ SetStatus(c, "deleted")
  /\ UNCHANGED <<vars, violation, held, disturbed>>

-----------------------------------------------------------------------------
Engine ==
  /\ \/ \E r \in Replicas, e \in Events : HandleEvent(r, e) \/ Handler(r, e)
     \/ \E r \in Replicas, j \in Jobs : Failing(r, j)
     \/ \E r \in Replicas, s \in Sagas : Sweep(r, s)
     \/ World
  /\ Release
  /\ UNCHANGED business

Detect(r) == DetectFind(r) \/ DetectCreate(r)
Resolve(r, e) == ResolveFind(r, e) \/ ResolveClose(r, e)
Rollback(r, j) == CompSkip(r, j) \/ CompFind(r, j) \/ CompDelete(r, j)

Officer ==
  \/ CreateViolation \/ DeleteViolation
  \/ \E e \in Events : ResolveViolation(e)
  \/ \E c \in Actions :
       \/ OfficerCreates(c) \/ OfficerCompletes(c) \/ OfficerDeletes(c)
       \/ \E st \in {"open", "in_progress", "completed"} : OfficerUpdates(c, st)

VNext ==
  \/ Engine
  \/ \E r \in Replicas : Detect(r) \/ \E e \in Events : Resolve(r, e)
  \/ \E r \in Replicas, j \in Jobs : Rollback(r, j)
  \/ Officer

VSpec == VInit /\ [][VNext]_vvars

(* What the goroutine of job j does next. *)
BodyOrEngine(r, j) ==
  \/ /\ Failing(r, j) \/ (j \in Events /\ Handler(r, j))
     /\ Release /\ UNCHANGED business
  \/ Rollback(r, j)
  \/ j = Detected /\ Detect(r)
  \/ j \in Events /\ Resolve(r, j)

(* As in SagaEngine: goroutines, the sweeper and time; no officer has to   *)
(* do anything and no event has to be delivered.                           *)
VFairness ==
  /\ \A r \in Replicas, j \in Jobs : WF_vvars(BodyOrEngine(r, j))
  /\ \A s \in Sagas :
       /\ WF_vvars((\E r \in Replicas : Sweep(r, s)) /\ Release /\ UNCHANGED business)
       /\ WF_vvars(Age(s) /\ Release /\ UNCHANGED business)

VFairSpec == VSpec /\ VFairness

-----------------------------------------------------------------------------
(* Properties *)

VTypeOK ==
  /\ violation \in {"none", "open", "resolved", "deleted"}
  /\ ca \in [Actions -> [status : {"none", "open", "in_progress", "completed",
                                   "deleted", "rolled_back"},
                         by : {"nobody", "saga", "officer"}]]
  /\ held \in [Replicas -> [Jobs -> Actions \cup {NotFound, Unset}]]
  /\ disturbed \in BOOLEAN

Automatic == {c \in Actions : ca[c].by = "saga"}

(* The saga never keeps two corrective actions of its own for a violation  *)
(* ("Never create a duplicate corrective action", detect).                 *)
OneAutomaticAction == Cardinality(Live \cap Automatic) <= 1

(* A saga that is past detect knows the corrective action it is about: in  *)
(* Redis and in every goroutine that works on a copy of it, the Payload    *)
(* has the id of a row that exists, so resolve's saga and every            *)
(* compensator can find it - after crashes, redeliveries, panics, sweeps   *)
(* and lost writes of any number of replicas (detect's Payload entry,      *)
(* persist and load).                                                      *)
Knowing(s) == s.step >= 1 => s.payload \in Actions /\ ca[s.payload] # Free

KnowsItsAction ==
  /\ store[V] # Absent => Knowing(store[V])
  /\ \A r \in Replicas, j \in Jobs :
       job[r][j].pc # "idle" => Knowing(job[r][j].s)

(* Tracked(c): a persisted or local saga, or a running body, refers to c. *)
Tracked(c) ==
  \/ store[V] # Absent /\ store[V].payload = c
  \/ \E r \in Replicas, j \in Jobs :
       job[r][j].pc # "idle" /\ (job[r][j].s.payload = c \/ held[r][j] = c)

(* No redelivery after the dedupe window, no crash, no failed compensator, *)
(* no action of an officer's own and none reopened so far.                 *)
Undisturbed ==
  /\ forgets = 0 /\ crashes = 0 /\ panics = {} /\ ~disturbed
  /\ \A c \in Actions : ca[c].by # "officer"

(* An open corrective action the saga created is always reachable from the *)
(* saga's state, so that it will be closed or rolled back: detect, resolve *)
(* and the compensator lose none between them.                             *)
NoOrphanAction ==
  Undisturbed => \A c \in Automatic : ca[c].status = "open" => Tracked(c)

(* An automatically opened corrective action does not stay open for ever:  *)
(* the resolution closes it or the timeout rolls it back, even if the      *)
(* resolution event came too early or never.                               *)
AutoActionSettles ==
  LET Open == \E c \in Automatic : ca[c].status = "open"
  IN  Undisturbed /\ Open ~> ~Undisturbed \/ ~Open

-----------------------------------------------------------------------------
(* What comments of the code claim and the code does not keep *)

(* Once the saga is complete its own corrective action is no longer open   *)
(* ("on resolution it closes the still-open action").                      *)
ClosedWhenCompleted ==
  completed[V] > 0 => \A c \in Automatic : ca[c].status # "open"

(* Compensation deletes only corrective actions the saga created ("only    *)
(* roll back what we created").                                            *)
OnlyOwnRolledBack ==
  \A c \in Actions : ca[c].status = "rolled_back" => ca[c].by = "saga"
=============================================================================

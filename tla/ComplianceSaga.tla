---------------------------- MODULE ComplianceSaga ----------------------------
(***************************************************************************)
(* The ComplianceCheck saga of backend/internal/saga/sagas.go running on   *)
(* SagaEngine: "evaluate" sets a compliance's status from its dates and    *)
(* queues a compliance.alert, "alert" waits for that alert, and the        *)
(* compensator of "evaluate" restores the previous status.  Officers       *)
(* create, edit and manually check the same row.                           *)
(* A row is its status and whether its due date passed without a later     *)
(* review; dates only matter through that verdict.                         *)
(***************************************************************************)
EXTENDS SagaEngine

CONSTANTS
  C,         \* the compliance
  Created,   \* ID of its compliance.created event
  Updates,   \* IDs of its compliance.updated events: bounds the edits
  Alerts,    \* IDs of compliance.alert events: bounds the alerts
  Statuses,  \* statuses an officer may give the row
  MaxChecks, \* bound: manual checks
  Unset      \* nothing held; also the empty value of payload fields

Verdicts == {"compliant", "non_compliant"}
RowStatus == {"draft", "archived", "active"} \cup Verdicts
Row == [status : RowStatus, overdue : BOOLEAN]

ASSUME ComplianceAssumption ==
  /\ Sagas = {C}
  /\ Events = {Created} \cup Updates \cup Alerts
  /\ Created \notin Updates \cup Alerts /\ Updates \cap Alerts = {}
  /\ \A e \in Events : StepOf[e] = IF e \in Alerts THEN 1 ELSE 0
  /\ NSteps[C] = 2
  /\ Statuses \subseteq RowStatus
  /\ Payloads = [before : RowStatus \cup {Unset},
                 status : Verdicts \cup {"exempt", Unset}]
  /\ NoPayload = [before |-> Unset, status |-> Unset]
  /\ MaxChecks \in Nat

(* A row read by an evaluation, and what that one does next with it.       *)
Holding == [next : {"write", "alert"}, row : Row]

ASSUME UnsetAssumption == Unset \notin RowStatus \cup Row \cup Holding

VARIABLES
  row,      \* the compliance's row, Unset before its creation
  outbox,   \* events with an outbox row
  held,     \* replica -> job -> what evaluate holds between its accesses
  check,    \* the manual check in progress, or Unset
  checks,   \* manual checks so far
  created,  \* history: status the row was created with
  had,      \* history: statuses the row has had so far
  compFailed \* history: the compensator could not write

business == <<row, outbox, check, checks, created, had, compFailed>>
cvars == <<vars, business, held>>

CInit ==
  /\ Init
  /\ row = Unset
  /\ outbox = {}
  /\ held = [r \in Replicas |-> [j \in Jobs |-> Unset]]
  /\ check = Unset
  /\ checks = 0
  /\ created = Unset
  /\ had = {}
  /\ compFailed = FALSE

Release ==
  held' = [r \in Replicas |-> [j \in Jobs |->
             IF job'[r][j] = job[r][j] THEN held[r][j] ELSE Unset]]

Hold(r, j, x) == held' = [held EXCEPT ![r][j] = x] /\ UNCHANGED vars

(* evaluateCompliance, and its copy in the compliance module's Check.      *)
Verdict(rw) == IF rw.overdue THEN "non_compliant" ELSE "compliant"
Exempt(rw) == rw.status \in {"draft", "archived"}

(* outbox.Enqueue of a new alert: a row is inserted, the dispatcher (or    *)
(* the immediate publish) sends it from then on.                           *)
EnqueueAlert == \E a \in Alerts \ outbox : outbox' = outbox \cup {a}

-----------------------------------------------------------------------------
(* evaluate *)

InEvaluate(r, e) ==
  e \in Events \ Alerts /\ job[r][e].pc = "act" /\ job[r][e].s.step = 0

(* Load the row; every branch then writes into the payload.  For drafts    *)
(* and archived rows, which end the step here, that is only a reason,      *)
(* which status "exempt" stands for.                                       *)
EvalLoad(r, e) ==
  LET p == job[r][e].s.payload IN
  /\ InEvaluate(r, e)
  /\ held[r][e] = Unset
  /\ \/ ActErr(r, e, p) /\ Release
     \/ ActPanic(r, e) /\ Release
     \/ /\ p # NilPayload /\ Exempt(row)
        /\ ActOk(r, e, IF p = NoPayload THEN [p EXCEPT !.status = "exempt"] ELSE p)
        /\ Release
     \/ /\ p # NilPayload /\ ~Exempt(row)
        /\ Hold(r, e, [next |-> IF Verdict(row) = row.status THEN "alert" ELSE "write",
                       row |-> row])
  /\ UNCHANGED business

(* Mutants of EvalWrite: the verdict is not written; the status to        *)
(* restore is taken when the new one is set already.                       *)
EvalWriteForgets(r, e) ==
  /\ InEvaluate(r, e)
  /\ held[r][e] # Unset /\ held[r][e].next = "write"
  /\ Hold(r, e, [next |-> "alert", row |-> held[r][e].row])
  /\ UNCHANGED business

EvalWriteRecordsNew(r, e) ==
  /\ InEvaluate(r, e)
  /\ held[r][e] # Unset /\ held[r][e].next = "write"
  /\ LET old == held[r][e].row IN
     \/ /\ row' = [row EXCEPT !.status = Verdict(old)]
        /\ had' = had \cup {row'.status}
        /\ Hold(r, e, [next |-> "alert", row |-> old])
     \/ /\ ActErr(r, e, [before |-> Verdict(old), status |-> job[r][e].s.payload.status])
        /\ Release /\ UNCHANGED <<row, had>>
  /\ UNCHANGED <<outbox, check, checks, created, compFailed>>

(* The verdict differs: remember the old status, write the new one.        *)
EvalWrite(r, e) ==
  /\ InEvaluate(r, e)
  /\ held[r][e] # Unset /\ held[r][e].next = "write"
  /\ LET old == held[r][e].row IN
     \/ /\ row' = [row EXCEPT !.status = Verdict(old)]
        /\ had' = had \cup {row'.status}
        /\ Hold(r, e, [next |-> "alert", row |-> old])
     \/ /\ ActErr(r, e, [before |-> old.status, status |-> job[r][e].s.payload.status])
        /\ Release /\ UNCHANGED <<row, had>>
  /\ UNCHANGED <<outbox, check, checks, created, compFailed>>

(* Mutant of EvalAlert: the status is recorded after the write. *)
EvalAlertLate(r, e) ==
  /\ InEvaluate(r, e)
  /\ held[r][e] # Unset /\ held[r][e].next = "alert"
  /\ LET p == [before |-> row.status, status |-> Verdict(held[r][e].row)] IN
     \/ EnqueueAlert /\ ActOk(r, e, p)
     \/ ActErr(r, e, p) /\ UNCHANGED outbox
  /\ Release
  /\ UNCHANGED <<row, had, check, checks, created, compFailed>>

(* Record the outcome and queue an alert on a change or a new compliance.  *)
EvalAlert(r, e) ==
  /\ InEvaluate(r, e)
  /\ held[r][e] # Unset /\ held[r][e].next = "alert"
  /\ LET old == held[r][e].row
         changed == Verdict(old) # old.status
         p == [before |-> IF changed THEN old.status ELSE job[r][e].s.payload.before,
               status |-> Verdict(old)]
     IN IF changed \/ e = Created
        THEN \/ EnqueueAlert /\ ActOk(r, e, p)
             \/ ActErr(r, e, p) /\ UNCHANGED outbox
        ELSE ActOk(r, e, p) /\ UNCHANGED outbox
  /\ Release
  /\ UNCHANGED <<row, had, check, checks, created, compFailed>>

(* alert only stamps the payload.                                          *)
AlertStep(r, e) ==
  /\ e \in Alerts
  /\ job[r][e].pc = "act" /\ job[r][e].s.step = 1
  /\ ActOk(r, e, job[r][e].s.payload) /\ Release
  /\ UNCHANGED business

(* Compensators: none for alert; evaluate's restores the recorded status.  *)
(* Its error is only logged.                                               *)
Restore(r, j) ==
  LET p == job[r][j].s.payload
      recorded == /\ job[r][j].i = 0 /\ p # NilPayload
                  /\ p.before # Unset /\ p.before # p.status
  IN
  /\ job[r][j].pc = "comp"
  /\ \/ /\ recorded
        /\ row' = [row EXCEPT !.status = p.before] /\ had' = had \cup {p.before}
        /\ UNCHANGED compFailed
     \/ recorded /\ compFailed' = TRUE /\ UNCHANGED <<row, had>>
     \/ ~recorded /\ UNCHANGED <<row, had, compFailed>>
  /\ Compensate(r, j) /\ Release
  /\ UNCHANGED <<outbox, check, checks, created>>

-----------------------------------------------------------------------------
(* Officers and the outbox *)

CreateCompliance(rw) ==
  /\ row = Unset
  /\ row' = rw /\ had' = had \cup {rw.status}
  /\ created' = rw.status
  /\ outbox' = outbox \cup {Created}
  /\ UNCHANGED <<vars, held, check, checks, compFailed>>

(* PATCH: any status and date; the event follows the write.                *)
UpdateCompliance(e, rw) ==
  /\ row # Unset
  /\ e \in Updates \ outbox
  /\ row' = rw /\ had' = had \cup {rw.status}
  /\ outbox' = outbox \cup {e}
  /\ UNCHANGED <<vars, held, check, checks, created, compFailed>>

(* POST /compliances/check, one database access at a time.                 *)
CheckLoad ==
  /\ row # Unset
  /\ check = Unset
  /\ checks < MaxChecks
  /\ checks' = checks + 1
  /\ check' = IF Exempt(row) \/ Verdict(row) = row.status THEN Unset
              ELSE [next |-> "write", row |-> row]
  /\ UNCHANGED <<vars, held, row, had, outbox, created, compFailed>>

CheckWrite ==
  /\ check # Unset /\ check.next = "write"
  /\ row' = [row EXCEPT !.status = Verdict(check.row)]
  /\ had' = had \cup {row'.status}
  /\ check' = [check EXCEPT !.next = "alert"]
  /\ UNCHANGED <<vars, held, outbox, checks, created, compFailed>>

CheckAlert ==
  /\ check # Unset /\ check.next = "alert"
  /\ check' = Unset
  /\ EnqueueAlert \/ UNCHANGED outbox
  /\ UNCHANGED <<vars, held, row, had, checks, created, compFailed>>

(* Mutant of Dispatched: an event is published before it has a row. *)
DispatchedEarly(e) ==
  /\ Publish(e)
  /\ UNCHANGED <<business, held>>

(* The immediate publish or a dispatcher cycle.                            *)
Dispatched(e) ==
  /\ e \in outbox
  /\ Publish(e)
  /\ UNCHANGED <<business, held>>

-----------------------------------------------------------------------------
Engine ==
  /\ \/ \E r \in Replicas, e \in Events : HandleEvent(r, e) \/ Handler(r, e)
     \/ \E r \in Replicas, j \in Jobs : Failing(r, j)
     \/ \E r \in Replicas, s \in Sagas : Sweep(r, s)
     \/ World
  /\ Release
  /\ UNCHANGED business

Evaluate(r, e) == EvalLoad(r, e) \/ EvalWrite(r, e) \/ EvalAlert(r, e)

Officer ==
  \/ \E rw \in Row : /\ rw.status \in Statuses
                     /\ \/ CreateCompliance(rw)
                        \/ \E e \in Updates : UpdateCompliance(e, rw)
  \/ CheckLoad \/ CheckWrite \/ CheckAlert

CNext ==
  \/ Engine
  \/ \E r \in Replicas, e \in Events : Evaluate(r, e) \/ AlertStep(r, e)
  \/ \E r \in Replicas, j \in Jobs : Restore(r, j)
  \/ \E e \in Events : Dispatched(e)
  \/ Officer

CSpec == CInit /\ [][CNext]_cvars

-----------------------------------------------------------------------------
(* Properties *)

CTypeOK ==
  /\ row \in Row \cup {Unset}
  /\ outbox \subseteq Events /\ sent \subseteq outbox
  /\ held \in [Replicas -> [Jobs -> Holding \cup {Unset}]]
  /\ check \in Holding \cup {Unset} /\ checks \in 0..MaxChecks
  /\ created \in RowStatus \cup {Unset} /\ had \subseteq RowStatus
  /\ compFailed \in BOOLEAN

Saga0 == store[C]

(* Nothing is under way: every queued event has been delivered everywhere  *)
(* and handled, and no request or handler is running.                      *)
Quiet ==
  /\ row # Unset /\ check = Unset
  /\ outbox = sent
  /\ \A r \in Replicas : seen[r] = sent
  /\ ~InFlight(C)

Unedited == outbox \cap Updates = {}

(* Without officers interfering, a failed ComplianceCheck leaves the row   *)
(* as it was created, and a completed one leaves it with its verdict (fail *)
(* and the compensator of evaluate, in every order of the step's accesses, *)
(* errors included).                                                       *)
AllOrNothing ==
  Quiet /\ Unedited /\ checks = 0 /\ forgets = 0 /\ ~compFailed =>
    /\ failed[C] > 0 => row.status = created
    /\ completed[C] > 0 => row.status = Verdict(row)

(* A compensation never invents a status: what evaluate recorded to be     *)
(* restored, in Redis or in any goroutine's copy of the saga, is a status  *)
(* the row really had, and never draft or archived, which evaluations      *)
(* leave alone.  So it is however officers' edits, manual checks, failing  *)
(* writes, crashes, redeliveries and sweeps interleave on all replicas     *)
(* (before_status of evaluate and its compensator).                        *)
Restorable(p) ==
  p # NilPayload /\ p.before # Unset => p.before \in had \ {"draft", "archived"}

RestoresWhatWas ==
  /\ Saga0 # Absent => Restorable(Saga0.payload)
  /\ \A r \in Replicas, j \in Jobs :
       job[r][j].pc # "idle" => Restorable(job[r][j].s.payload)

(* A saga that reached the alert step did its evaluation: the row then     *)
(* shows the verdict unless it is exempt, whichever of the engine, the     *)
(* manual check and redeliveries wrote it, until the row is edited.        *)
EvaluatedBeforeAlert ==
  Saga0 # Absent /\ Saga0.step = 1 /\ Saga0.status = "active" /\ ~InFlight(C)
      /\ Unedited
    => Exempt(row) \/ row.status = Verdict(row)

-----------------------------------------------------------------------------
(* What comments of the code claim and the code does not keep *)

(* An update is evaluated ("On create/update the engine automatically      *)
(* evaluates the compliance"): when all is quiet the row shows its verdict.*)
UpdateEvaluated == Quiet => Exempt(row) \/ row.status = Verdict(row)

(* A queued alert drives the alert step ("the outbox guarantees delivery   *)
(* and drives the alert step"): no saga is left waiting for one.           *)
AlertDrivesStep == Quiet /\ sent \cap Alerts # {} => Saga0 = Absent

(* Draft and archived rows are left untouched by evaluations.              *)
ExemptUntouched ==
  [][\A r \in Replicas, e \in Events :
       EvalWrite(r, e) \/ CheckWrite => row' = row \/ ~Exempt(row)]_cvars
=============================================================================

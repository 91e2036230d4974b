----------------------------- MODULE SagaEngine -----------------------------
(***************************************************************************)
(* The saga orchestrator of backend/internal/saga/saga.go: every replica   *)
(* runs an Engine that receives bus events, keeps each saga's state in one *)
(* shared Redis key and advances it step by step.  Every Redis access and  *)
(* every step body is one action, so handlers of different events, of      *)
(* different replicas and the timeout sweepers interleave between them.    *)
(*                                                                         *)
(* What a step body and a compensator do to the business tables is left    *)
(* open here (Act and Compensate choose any payload); the modules          *)
(* ViolationSaga and ComplianceSaga fill them in.                          *)
(***************************************************************************)
EXTENDS Naturals, FiniteSets

CONSTANTS
  Replicas,    \* the processes that run an Engine (k8s replicas)
  Sagas,       \* saga instances: one per (definition, entity) pair, sagaID
  Events,      \* events by their stable outbox ID
  SagaOf,      \* event -> the saga instance its subject and entity address
  StepOf,      \* event -> index of the step whose Trigger it satisfies
  NSteps,      \* saga -> len(def.Steps)
  Payloads,    \* values of Saga.Payload
  NoPayload,   \* the empty map of a new saga
  NilPayload,  \* the nil map that loading an empty Payload yields
  Absent,      \* no value under the state key
  Faults,      \* Redis calls that may return an error in this deployment
  MaxCrashes,  \* bound: process crashes
  MaxForgets,  \* bound: dedupe entries dropped (window or capacity)
  MaxCount,    \* bound: the lifecycle counters saturate here
  Timeouts     \* which may pass: timeoutAfter ("sweep"), stateTTL ("ttl")

ASSUME SagaAssumption ==
  /\ SagaOf \in [Events -> Sagas]
  /\ StepOf \in [Events -> Nat]
  /\ NSteps \in [Sagas -> Nat \ {0}]
  /\ NoPayload \in Payloads /\ NilPayload \notin Payloads
  /\ Events \cap Sagas = {}
  /\ Faults \subseteq {"get", "setnx", "set", "del"}
  /\ MaxCrashes \in Nat
  /\ MaxForgets \in Nat
  /\ MaxCount \in Nat \ {0}
  /\ Timeouts \subseteq {"sweep", "ttl"}

(***************************************************************************)
(* The persisted record.  aged says that UpdatedAt lies timeoutAfter (24h) *)
(* or more in the past.  The Payload field is omitted when it is empty:    *)
(* a saga stored with an empty map comes back with a nil one.              *)
(***************************************************************************)
Saga == [step : Nat, status : {"active", "failed"}, aged : BOOLEAN,
         payload : Payloads \cup {NilPayload}]

Stored(s) ==
  [s EXCEPT !.payload = IF @ = NilPayload THEN NoPayload ELSE @]

Loaded(s) ==
  [s EXCEPT !.payload = IF @ = NoPayload THEN NilPayload ELSE @, !.aged = FALSE]

ASSUME AbsentAssumption == Absent \notin Saga

NewSaga == [step |-> 0, status |-> "active", aged |-> FALSE,
            payload |-> NoPayload]

(***************************************************************************)
(* A job is one goroutine's run over one saga: the handler of an event, or *)
(* the sweeper working on the key of a saga.                               *)
(***************************************************************************)
Jobs == Events \cup Sagas

SagaFor(j) == IF j \in Events THEN SagaOf[j] ELSE j

PCs == {"idle", "load", "claim", "act", "persist", "finish",
        "comp", "failset", "faildel"}

Idle == [pc |-> "idle", s |-> NewSaga, i |-> 0]

VARIABLES
  store,      \* Redis: saga -> persisted Saga, or Absent
  sent,       \* events the outbox has published (it may deliver them again)
  seen,       \* replica -> event IDs in the Engine's dedupe map
  job,        \* replica -> job -> [pc, s (local *Saga), i (compensation index)]
  started,    \* saga -> engines' started counter
  completed,  \* saga -> engines' completed counter
  failed,     \* saga -> engines' failed counter
  runs,       \* saga -> step -> successful executions of the step's Action
  crashes, forgets,
  panics      \* why engines have panics: "steps", "payload"

vars == <<store, sent, seen, job, started, completed, failed, runs,
          crashes, forgets, panics>>

counters == <<started, completed, failed, runs>>
env == <<sent, seen, crashes, forgets, panics>>

Init ==
  /\ store = [s \in Sagas |-> Absent]
  /\ sent = {}
  /\ seen = [r \in Replicas |-> {}]
  /\ job = [r \in Replicas |-> [j \in Jobs |-> Idle]]
  /\ started = [s \in Sagas |-> 0]
  /\ completed = [s \in Sagas |-> 0]
  /\ failed = [s \in Sagas |-> 0]
  /\ runs = [s \in Sagas |-> [k \in 0..(NSteps[s] - 1) |-> 0]]
  /\ crashes = 0
  /\ forgets = 0
  /\ panics = {}

InFlight(s) == \E r \in Replicas, j \in Jobs :
                 job[r][j].pc # "idle" /\ SagaFor(j) = s

Inc(n) == IF n < MaxCount THEN n + 1 ELSE n

SetJob(r, j, new) == job' = [job EXCEPT ![r][j] = new]

(* Mutant of Dispatch: the last step is taken for done. *)
DispatchEarly(e, s) ==
  IF s.step < NSteps[SagaOf[e]] - 1
  THEN IF StepOf[e] = s.step THEN "act" ELSE "idle"
  ELSE "finish"

(***************************************************************************)
(* The head of the loop over def.Steps, and the test after it: where a     *)
(* handler of event e goes with the local state s.                         *)
(***************************************************************************)
Dispatch(e, s) ==
  IF s.step < NSteps[SagaOf[e]]
  THEN IF StepOf[e] = s.step THEN "act" ELSE "idle"
  ELSE "finish"

Enter(r, e, s) ==
  SetJob(r, e, IF Dispatch(e, s) = "idle" THEN Idle
               ELSE [pc |-> Dispatch(e, s), s |-> s, i |-> 0])

-----------------------------------------------------------------------------
(* Handling an event *)

(* The outbox publishes e: the immediate publish and each redelivery of    *)
(* the dispatcher make it available to every subscribed replica.           *)
Publish(e) ==
  /\ e \notin sent
  /\ sent' = sent \cup {e}
  /\ UNCHANGED <<store, seen, job, counters, crashes, forgets, panics>>

(* HandleEvent: an ID in the dedupe map is dropped, a new one is recorded  *)
(* before it is processed.                                                 *)
HandleEvent(r, e) ==
  /\ e \in sent
  /\ e \notin seen[r]
  /\ job[r][e].pc = "idle"
  /\ seen' = [seen EXCEPT ![r] = @ \cup {e}]
  /\ SetJob(r, e, [Idle EXCEPT !.pc = "load"])
  /\ UNCHANGED <<store, sent, counters, crashes, forgets, panics>>

(* load: a miss (or a failing GET) may start a saga, only on an event that *)
(* triggers the first step; a hit is a local copy, whatever its status.    *)
Load(r, e) ==
  /\ job[r][e].pc = "load"
  /\ \/ /\ store[SagaOf[e]] # Absent
        /\ Enter(r, e, Loaded(store[SagaOf[e]]))
     \/ /\ store[SagaOf[e]] = Absent \/ "get" \in Faults
        /\ SetJob(r, e, IF StepOf[e] = 0 THEN [Idle EXCEPT !.pc = "claim"]
                        ELSE Idle)
  /\ UNCHANGED <<store, counters, env>>

(* claim: SET NX.  The loser leaves; an error fails open.                  *)
Claim(r, e) ==
  /\ job[r][e].pc = "claim"
  /\ LET s == SagaOf[e] IN
     \/ /\ store[s] = Absent
        /\ store' = [store EXCEPT ![s] = NewSaga]
        /\ started' = [started EXCEPT ![s] = Inc(@)]
        /\ Enter(r, e, NewSaga)
     \/ /\ store[s] # Absent
        /\ SetJob(r, e, Idle)
        /\ UNCHANGED <<store, started>>
     \/ /\ "setnx" \in Faults
        /\ started' = [started EXCEPT ![s] = Inc(@)]
        /\ Enter(r, e, NewSaga)
        /\ UNCHANGED store
  /\ UNCHANGED <<completed, failed, runs, env>>

(* Nothing recovers on a handler's or the sweeper's goroutine: a panic     *)
(* takes the process of r down, and its dedupe map with it.  Deliveries to *)
(* the restarted process count as forgotten ones.                          *)
Panic(r, why) ==
  /\ panics' = panics \cup {why}
  /\ job' = [job EXCEPT ![r] = [j \in Jobs |-> Idle]]
  /\ IF forgets < MaxForgets
     THEN /\ forgets' = forgets + 1
          /\ seen' = [seen EXCEPT ![r] = {}]
     ELSE UNCHANGED <<forgets, seen>>
  /\ UNCHANGED <<sent, crashes>>

(* Every step body writes into Payload; into a nil map that is a panic.    *)
ActPanic(r, e) ==
  /\ job[r][e].pc = "act"
  /\ job[r][e].s.payload = NilPayload
  /\ Panic(r, "payload")
  /\ UNCHANGED <<store, counters>>

(* step.Action succeeds: its side effects are done, Redis does not know.   *)
ActOk(r, e, p) ==
  /\ job[r][e].pc = "act"
  /\ job[r][e].s.payload # NilPayload /\ p \notin {NilPayload, NoPayload}
  /\ runs' = [runs EXCEPT ![SagaOf[e]][job[r][e].s.step] = Inc(@)]
  /\ SetJob(r, e, [job[r][e] EXCEPT !.pc = "persist", !.s.payload = p])
  /\ UNCHANGED <<store, started, completed, failed, env>>

(* Mutant of ActErr: the error of the step is dropped. *)
ActErrIgnored(r, e, p) ==
  /\ job[r][e].pc = "act"
  /\ SetJob(r, e, [job[r][e] EXCEPT !.pc = "persist", !.s.payload = p])
  /\ UNCHANGED <<store, counters, env>>

(* step.Action fails: fail() compensates from this step down.              *)
ActErr(r, e, p) ==
  /\ job[r][e].pc = "act"
  /\ job[r][e].s.payload = NilPayload <=> p = NilPayload
  /\ SetJob(r, e, [job[r][e] EXCEPT !.pc = "comp", !.s.payload = p,
                                    !.i = job[r][e].s.step])
  /\ UNCHANGED <<store, counters, env>>

(* Mutant of Persist: the state is written before CurrentStep is increased. *)
PersistEarly(r, e) ==
  /\ job[r][e].pc = "persist"
  /\ store' = [store EXCEPT ![SagaOf[e]] = [job[r][e].s EXCEPT !.status = "active"]]
  /\ Enter(r, e, [job[r][e].s EXCEPT !.step = @ + 1, !.status = "active"])
  /\ UNCHANGED <<counters, env>>

(* CurrentStep = i + 1 and persist; a failing SET is only logged.  Then    *)
(* the loop goes on with the next step or falls through.                   *)
Persist(r, e) ==
  /\ job[r][e].pc = "persist"
  /\ LET s == [job[r][e].s EXCEPT !.step = @ + 1, !.status = "active"] IN
     /\ \/ store' = [store EXCEPT ![SagaOf[e]] = s]
        \/ "set" \in Faults /\ UNCHANGED store
     /\ Enter(r, e, s)
  /\ UNCHANGED <<counters, env>>

(* All steps done: finish deletes the key (its error is ignored).          *)
Finish(r, e) ==
  /\ job[r][e].pc = "finish"
  /\ \/ store' = [store EXCEPT ![SagaOf[e]] = Absent]
     \/ "del" \in Faults /\ UNCHANGED store
  /\ completed' = [completed EXCEPT ![SagaOf[e]] = Inc(@)]
  /\ SetJob(r, e, Idle)
  /\ UNCHANGED <<started, failed, runs, env>>

-----------------------------------------------------------------------------
(* Failure and timeout *)

(* Mutant of Compensate: the loop does not stop at 0. *)
CompensateBelow(r, j) ==
  /\ job[r][j].pc = "comp"
  /\ SetJob(r, j, IF job[r][j].i > NSteps[SagaFor(j)]
                  THEN [job[r][j] EXCEPT !.pc = "failset"]
                  ELSE [job[r][j] EXCEPT !.i = @ - 1])
  /\ UNCHANGED <<store, counters, env>>

(* One iteration of fail's loop: the compensator of step i, reverse order. *)
Compensate(r, j) ==
  /\ job[r][j].pc = "comp"
  /\ SetJob(r, j, IF job[r][j].i = 0 THEN [job[r][j] EXCEPT !.pc = "failset"]
                  ELSE [job[r][j] EXCEPT !.i = @ - 1])
  /\ UNCHANGED <<store, counters, env>>

(* The failed state is persisted, whatever the key holds by now ...        *)
FailSet(r, j) ==
  /\ job[r][j].pc = "failset"
  /\ \/ store' = [store EXCEPT ![SagaFor(j)] =
                    [Stored(job[r][j].s) EXCEPT !.status = "failed"]]
     \/ "set" \in Faults /\ UNCHANGED store
  /\ SetJob(r, j, [job[r][j] EXCEPT !.pc = "faildel"])
  /\ UNCHANGED <<counters, env>>

(* Mutant of FailDel: the failed state stays under its key. *)
FailDelForgets(r, j) ==
  /\ job[r][j].pc = "faildel"
  /\ failed' = [failed EXCEPT ![SagaFor(j)] = Inc(@)]
  /\ SetJob(r, j, Idle)
  /\ UNCHANGED <<store, started, completed, runs, env>>

(* ... and deleted by the next Redis call.                                 *)
FailDel(r, j) ==
  /\ job[r][j].pc = "faildel"
  /\ \/ store' = [store EXCEPT ![SagaFor(j)] = Absent]
     \/ "del" \in Faults /\ UNCHANGED store
  /\ failed' = [failed EXCEPT ![SagaFor(j)] = Inc(@)]
  /\ SetJob(r, j, Idle)
  /\ UNCHANGED <<started, completed, runs, env>>

(* sweepOnce reaches the key of s: an active saga past its timeout is      *)
(* failed from its current step.  A sweeper works on one key at a time and *)
(* takes no lock.  For a saga that already ran its last step def.Steps is  *)
(* indexed past its end.                                                   *)
Sweep(r, s) ==
  /\ \A t \in Sagas : job[r][t].pc = "idle"
  /\ store[s] # Absent
  /\ store[s].status = "active"
  /\ store[s].aged
  /\ \/ /\ store[s].step < NSteps[s]
        /\ SetJob(r, s, [pc |-> "comp", i |-> store[s].step, s |-> Loaded(store[s])])
        /\ UNCHANGED env
     \/ /\ store[s].step >= NSteps[s]
        /\ Panic(r, "steps")
  /\ UNCHANGED <<store, counters>>

-----------------------------------------------------------------------------
(* Time, memory and processes *)

(* timeoutAfter passes without an update of s.  Handlers run for less than *)
(* a second, so none is in flight for s over that time.                    *)
Age(s) ==
  /\ "sweep" \in Timeouts
  /\ store[s] # Absent
  /\ ~store[s].aged
  /\ ~InFlight(s)
  /\ store' = [store EXCEPT ![s].aged = TRUE]
  /\ UNCHANGED <<job, counters, env>>

(* stateTTL (7 days) passes without a write to the key.                    *)
Expire(s) ==
  /\ "ttl" \in Timeouts
  /\ store[s] # Absent
  /\ store[s].aged
  /\ ~InFlight(s)
  /\ store' = [store EXCEPT ![s] = Absent]
  /\ UNCHANGED <<job, counters, env>>

(* seenEvent drops the oldest entries: past the 10 minute window, or 4096  *)
(* events later.  No handler of the saga runs for that long.               *)
Forget(r, e) ==
  /\ forgets < MaxForgets
  /\ e \in seen[r]
  /\ ~InFlight(SagaOf[e])
  /\ forgets' = forgets + 1
  /\ seen' = [seen EXCEPT ![r] = @ \ {e}]
  /\ UNCHANGED <<store, sent, job, counters, crashes, panics>>

(* A replica dies and restarts: its goroutines and its dedupe map are gone.*)
Crash(r) ==
  /\ crashes < MaxCrashes
  /\ crashes' = crashes + 1
  /\ seen' = [seen EXCEPT ![r] = {}]
  /\ job' = [job EXCEPT ![r] = [j \in Jobs |-> Idle]]
  /\ UNCHANGED <<store, sent, counters, forgets, panics>>

-----------------------------------------------------------------------------
(* Redis accesses of a handler goroutine, around the step bodies. *)
Handler(r, e) == Load(r, e) \/ Claim(r, e) \/ Persist(r, e) \/ Finish(r, e)

Failing(r, j) == FailSet(r, j) \/ FailDel(r, j)

World ==
  \/ \E s \in Sagas : Age(s) \/ Expire(s)
  \/ \E r \in Replicas : Crash(r) \/ \E e \in Events : Forget(r, e)

Body(r, e) ==
  \/ \E p \in Payloads \cup {NilPayload} : ActOk(r, e, p) \/ ActErr(r, e, p)
  \/ ActPanic(r, e)

Next ==
  \/ \E e \in Events : Publish(e)
  \/ \E r \in Replicas, e \in Events :
       HandleEvent(r, e) \/ Handler(r, e) \/ Body(r, e)
  \/ \E r \in Replicas, j \in Jobs : Compensate(r, j) \/ Failing(r, j)
  \/ \E r \in Replicas, s \in Sagas : Sweep(r, s)
  \/ World

Spec == Init /\ [][Next]_vars

(* What the goroutine of job j does next. *)
Goroutine(r, j) ==
  \/ j \in Events /\ (Handler(r, j) \/ Body(r, j))
  \/ Compensate(r, j) \/ Failing(r, j)

(* Running goroutines are scheduled, the sweeper's ticker fires and time   *)
(* passes.  Publishing, delivery, crashes and evictions are not forced.    *)
Fairness ==
  /\ \A r \in Replicas, j \in Jobs : WF_vars(Goroutine(r, j))
  /\ \A s \in Sagas : WF_vars(\E r \in Replicas : Sweep(r, s)) /\ WF_vars(Age(s))

FairSpec == Spec /\ Fairness

-----------------------------------------------------------------------------
(* Properties *)

(* Types of the state; a local or persisted step never exceeds the number  *)
(* of steps of the definition (handleDefinition, persist).                 *)
TypeOK ==
  /\ store \in [Sagas -> Saga \cup {Absent}]
  /\ \A s \in Sagas : store[s] # Absent => store[s].step <= NSteps[s]
  /\ sent \subseteq Events
  /\ seen \in [Replicas -> SUBSET Events]
  /\ job \in [Replicas -> [Jobs -> [pc : PCs, s : Saga, i : Nat]]]
  /\ started \in [Sagas -> Nat]
  /\ completed \in [Sagas -> Nat]
  /\ failed \in [Sagas -> Nat]
  /\ DOMAIN runs = Sagas
  /\ \A s \in Sagas : runs[s] \in [0..(NSteps[s] - 1) -> Nat]
  /\ crashes \in Nat /\ forgets \in Nat /\ panics \subseteq {"steps", "payload"}

(* The steps of a saga execute in the order of its definition: however     *)
(* deliveries, replicas, crashes and Redis errors interleave, no step body *)
(* has run before the one in front of it (loop of handleDefinition).       *)
StepOrder ==
  \A s \in Sagas : \A k \in 1..(NSteps[s] - 1) :
    runs[s][k] > 0 => runs[s][k - 1] > 0

(* A saga is only counted and audited as completed after every one of its  *)
(* step bodies has run (the test after the loop of handleDefinition).      *)
CompletionEarned ==
  \A s \in Sagas : completed[s] > 0 =>
    \A k \in 0..(NSteps[s] - 1) : runs[s][k] > 0

(* With one replica and one event per step the claim and the persisted     *)
(* step make at-least-once delivery harmless even after the dedupe window: *)
(* a step body runs at most once per started saga, and once more for each  *)
(* crash between a body and its persist (HandleEvent, claim, persist) - as *)
(* long as no panic has taken the engine down between the two.             *)
RunsOncePerLife ==
  panics = {} =>
    \A s \in Sagas : \A k \in 0..(NSteps[s] - 1) :
      runs[s][k] <= started[s] + crashes

(* Every saga that enters Redis leaves it again: it completes, fails or is *)
(* reaped by a sweeper, even when its next event never arrives (sweepOnce) *)
(* - unless a panic takes an engine down, which the runs below look at, or *)
(* a crash inside fail leaves the failed state to its TTL.                 *)
EveryLifeEnds ==
  \A s \in Sagas :
    store[s] # Absent ~>
      \/ store[s] = Absent \/ panics # {}
      \/ crashes > 0 /\ store[s] # Absent /\ store[s].status = "failed"

-----------------------------------------------------------------------------
(* What comments of the code claim and the code does not keep *)

(* sweepOnce fails the sagas it reaps; it never takes the engine down.     *)
NoSweepPanic == "steps" \notin panics

(* The engine is safe for concurrent use: handlers that load what another  *)
(* handler has just claimed do not take it down (comment on Engine).       *)
NoPayloadPanic == "payload" \notin panics

(* Of the replicas' sweepers at most one reaps a given saga (comment on    *)
(* sweepOnce).                                                             *)
OneReaper ==
  \A s \in Sagas : \A q, r \in Replicas :
    q # r => job[q][s].pc = "idle" \/ job[r][s].pc = "idle"

(* Redelivery of a start event does not spawn a second saga for the same   *)
(* entity (comment on sagaNamespace).                                      *)
StartedOnce == \A s \in Sagas : started[s] <= 1

(* The lifecycle counters balance: a started saga is completed or failed   *)
(* once (Stats, metrics.SagaCompleted and metrics.SagaFailed).  With one   *)
(* replica and an intact dedupe map only a sweeper that reaps a saga while *)
(* its next event is handled breaks it.                                    *)
EndsOncePerLife ==
  forgets = 0 /\ crashes = 0 =>
    \A s \in Sagas : completed[s] + failed[s] <= started[s]

(* A failed saga does not stay under its key once nobody works on it       *)
(* (comment in fail).                                                      *)
FailedGone ==
  \A s \in Sagas :
    store[s] # Absent /\ store[s].status = "failed" => InFlight(s)
=============================================================================

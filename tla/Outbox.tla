-------------------------------- MODULE Outbox --------------------------------
(***************************************************************************)
(* The transactional outbox of backend/internal/outbox/outbox.go: Enqueue  *)
(* inserts a row and publishes it at once, best effort; one Dispatcher per *)
(* replica polls for unpublished rows under the lock "outbox:dispatcher"   *)
(* (DistLock) and behind its own circuit breaker, delivers them in order   *)
(* of creation and retires them, or counts failures up to a dead letter.   *)
(* Every database, bus and Redis access is one action.                     *)
(*                                                                         *)
(* The bus is bus.go and nats.go of backend/internal/bus: every replica    *)
(* has a client of its own.  A publish is accepted when the client takes   *)
(* it; it reaches the broker later, or is lost with the connection.        *)
(***************************************************************************)
EXTENDS CircuitBreaker, FiniteSets

CONSTANTS
  Replicas,
  Rows,         \* outbox rows, numbers in order of created_at
  BatchSize,
  MaxAttempts,
  Poison,       \* rows whose payload cannot be decrypted
  DbFaults,     \* database calls of the dispatcher that may fail
  Tokens, Free, \* see DistLock
  Flaky,        \* replicas whose connection to the broker may fail
  MaxOverruns,  \* bound: batches that outlast the lock's TTL
  MaxCrashes,   \* bound: crashes
  MaxFaults,    \* bound: database errors
  MaxPublished  \* bound: publications of a row are counted up to here

ASSUME OutboxAssumption ==
  /\ Rows \subseteq Nat
  /\ BatchSize \in Nat \ {0}
  /\ MaxAttempts \in Nat \ {0}
  /\ Poison \subseteq Rows
  /\ DbFaults \subseteq {"query", "record", "mark"}
  /\ Free \notin Tokens
  /\ Flaky \subseteq Replicas
  /\ MaxOverruns \in Nat /\ MaxCrashes \in Nat /\ MaxFaults \in Nat
  /\ MaxPublished \in Nat \ {0}

VARIABLES
  row,        \* row -> [queued, retired (published_at set), dead, attempts]
  published,  \* row -> times a client accepted it, up to MaxPublished
  fails,      \* row -> failed deliveries, up to MaxAttempts
  fast,       \* rows whose Enqueue is about to publish
  disp,       \* replica -> dispatcher goroutine: [pc, todo, snap]
  breaker,    \* replica -> CircuitBreaker
  key, token,   \* the lock
  conn,       \* replica -> state of its bus client
  buffer,     \* replica -> rows its client accepted and the broker lacks
  arrived,    \* rows that reached the broker
  overruns,   \* locks lost to the TTL by a live holder
  crashes,
  faults      \* database errors

lockVars == <<key, token>>
busVars == <<conn, buffer, arrived>>
troubles == <<overruns, crashes, faults>>
vars == <<row, published, fails, fast, disp, breaker, lockVars, busVars,
          troubles>>

Lock == INSTANCE DistLock WITH Clients <- Replicas

(* A client's connection is up, is broken ("down", noticed or not yet) or   *)
(* closed; "local" is the bus within the process, used for good when the    *)
(* broker was unreachable at the start.                                     *)
Conn == {"up", "down", "closed", "local"}
StartConn(r) == IF r \in Flaky THEN {"up", "local"} ELSE {"up"}

DispPC == {"idle", "allow", "query", "deliver", "mark", "record", "dead", "release"}

NewRow == [queued |-> FALSE, retired |-> FALSE, dead |-> FALSE, attempts |-> 0]
IdleDisp == [pc |-> "idle", todo |-> {}, snap |-> [x \in Rows |-> 0]]

Init ==
  /\ row = [x \in Rows |-> NewRow]
  /\ published = [x \in Rows |-> 0]
  /\ fails = [x \in Rows |-> 0]
  /\ fast = {}
  /\ disp = [r \in Replicas |-> IdleDisp]
  /\ breaker = [r \in Replicas |-> NewBreaker]
  /\ Lock!Init
  /\ conn \in [Replicas -> Conn] /\ \A r \in Replicas : conn[r] \in StartConn(r)
  /\ buffer = [r \in Replicas |-> {}]
  /\ arrived = {}
  /\ overruns = 0 /\ crashes = 0 /\ faults = 0

UpTo(n, max) == IF n < max THEN n + 1 ELSE n

(* A database call of the dispatcher fails. *)
Fault(call) ==
  /\ call \in DbFaults /\ faults < MaxFaults
  /\ faults' = faults + 1
  /\ UNCHANGED <<overruns, crashes>>

(* PublishEvent without an error: the event reaches the broker, or stays   *)
(* with a client whose connection is broken; the bus within the process    *)
(* hands it to this replica's subscribers only.                            *)
Publish(r, x) ==
  /\ published' = [published EXCEPT ![x] = UpTo(@, MaxPublished)]
  /\ \/ /\ conn[r] = "up"
        /\ arrived' = arrived \cup {x}
        /\ UNCHANGED <<conn, buffer>>
     \/ /\ conn[r] = "down"
        /\ buffer' = [buffer EXCEPT ![r] = @ \cup {x}]
        /\ UNCHANGED <<conn, arrived>>
     \/ /\ conn[r] = "local"
        /\ UNCHANGED busVars

(* PublishEvent with an error: closed, or reconnecting with a full buffer. *)
Refuses(r) == conn[r] \in {"down", "closed"}

Go(r, pc) == disp' = [disp EXCEPT ![r].pc = pc]

(* The row the loop over pending works on: the oldest of the rest.         *)
Head(r, x) == x \in disp[r].todo /\ \A y \in disp[r].todo : x <= y

(* Next iteration of that loop, or the end of the batch.                   *)
Continue(r, x) ==
  disp' = [disp EXCEPT ![r].todo = @ \ {x},
                       ![r].pc = IF disp[r].todo = {x} THEN "release" ELSE "deliver"]

-----------------------------------------------------------------------------
(* Enqueue *)

(* Insert; rows are created in order. *)
Insert(x) ==
  /\ ~row[x].queued
  /\ \A y \in Rows : y < x => row[y].queued
  /\ row' = [row EXCEPT ![x].queued = TRUE]
  /\ fast' = fast \cup {x}
  /\ UNCHANGED <<published, fails, disp, breaker, lockVars, busVars,
                 troubles>>

(* The immediate publish uses the payload in memory; its error is ignored, *)
(* and a crash of the process may come before it.                          *)
FastPublish(r, x) ==
  /\ x \in fast
  /\ fast' = fast \ {x}
  /\ Publish(r, x) \/ UNCHANGED <<published, busVars>>
  /\ UNCHANGED <<row, fails, disp, breaker, lockVars, troubles>>

-----------------------------------------------------------------------------
(* One cycle of the dispatcher *)

(* WithLock: ErrLocked ends the cycle and changes nothing. *)
Acquire(r) ==
  /\ disp[r].pc = "idle"
  /\ Lock!TryAcquire(r)
  /\ Go(r, "allow")
  /\ UNCHANGED <<row, published, fails, fast, breaker, busVars, troubles>>

(* The breaker is asked once per cycle. *)
AskBreaker(r) ==
  /\ disp[r].pc = "allow"
  /\ breaker' = [breaker EXCEPT ![r] = AfterAllow(@)]
  /\ Go(r, IF Admits(breaker[r]) THEN "query" ELSE "release")
  /\ UNCHANGED <<row, published, fails, fast, lockVars, busVars,
                 troubles>>

(* Mutant of Pending: published rows are fetched again. *)
PendingAll == {x \in Rows : row[x].queued /\ ~row[x].dead}

Pending == {x \in Rows : row[x].queued /\ ~row[x].retired}

Batch == {x \in Pending : Cardinality({y \in Pending : y < x}) < BatchSize}

(* The batch is a copy: attempts are those of this moment. *)
Query(r) ==
  /\ disp[r].pc = "query"
  /\ \/ /\ disp' = [disp EXCEPT ![r] =
                      [pc |-> IF Batch = {} THEN "release" ELSE "deliver",
                       todo |-> Batch, snap |-> [x \in Rows |-> row[x].attempts]]]
        /\ UNCHANGED troubles
     \/ Fault("query") /\ Go(r, "release")
  /\ UNCHANGED <<row, published, fails, fast, breaker, lockVars, busVars>>

(* deliver with its short retries, then the breaker is told.               *)
DeliverOk(r, x) ==
  /\ disp[r].pc = "deliver" /\ Head(r, x)
  /\ x \notin Poison
  /\ Publish(r, x)
  /\ breaker' = [breaker EXCEPT ![r] = AfterSuccess(@)]
  /\ Go(r, "mark")
  /\ UNCHANGED <<row, fails, fast, lockVars, troubles>>

(* Mutant of DeliverErr: the delivery error is dropped. *)
DeliverErrMarks(r, x) ==
  /\ disp[r].pc = "deliver" /\ Head(r, x)
  /\ Refuses(r) \/ x \in Poison
  /\ Go(r, "mark")
  /\ UNCHANGED <<row, published, fails, fast, breaker, lockVars, busVars,
                 troubles>>

DeliverErr(r, x) ==
  /\ disp[r].pc = "deliver" /\ Head(r, x)
  /\ Refuses(r) \/ x \in Poison
  /\ fails' = [fails EXCEPT ![x] = UpTo(@, MaxAttempts)]
  /\ breaker' = [breaker EXCEPT ![r] = AfterFailure(@)]
  /\ Go(r, "record")
  /\ UNCHANGED <<row, published, fast, lockVars, busVars,
                 troubles>>

(* markPublished ignores its error: the row then stays pending. *)
MarkPublished(r, x) ==
  /\ disp[r].pc = "mark" /\ Head(r, x)
  /\ \/ row' = [row EXCEPT ![x].retired = TRUE] /\ UNCHANGED troubles
     \/ Fault("mark") /\ UNCHANGED row
  /\ Continue(r, x)
  /\ UNCHANGED <<published, fails, fast, breaker, lockVars, busVars>>

(* Mutants of RecordFailure: dead-lettered one attempt early; counting on. *)
RecordFailureEarly(r, x) ==
  /\ disp[r].pc = "record" /\ Head(r, x)
  /\ LET n == UpTo(disp[r].snap[x], MaxAttempts) IN
     /\ row' = [row EXCEPT ![x].attempts = n]
     /\ IF n >= MaxAttempts - 1 THEN Go(r, "dead") ELSE Continue(r, x)
  /\ UNCHANGED <<published, fails, fast, breaker, lockVars, busVars,
                 troubles>>

RecordFailureOn(r, x) ==
  /\ disp[r].pc = "record" /\ Head(r, x)
  /\ row' = [row EXCEPT ![x].attempts = disp[r].snap[x] + 1]
  /\ Continue(r, x)
  /\ UNCHANGED <<published, fails, fast, breaker, lockVars, busVars,
                 troubles>>

(* recordFailure increments the copy's attempts and writes that number.    *)
(* The number stops at MaxAttempts: it is only compared with >= there.     *)
RecordFailure(r, x) ==
  /\ disp[r].pc = "record" /\ Head(r, x)
  /\ LET n == UpTo(disp[r].snap[x], MaxAttempts) IN
     /\ \/ row' = [row EXCEPT ![x].attempts = n] /\ UNCHANGED troubles
        \/ Fault("record") /\ UNCHANGED row
     /\ IF n >= MaxAttempts THEN Go(r, "dead") ELSE Continue(r, x)
  /\ UNCHANGED <<published, fails, fast, breaker, lockVars, busVars>>

(* Mutant of DeadLetter: marked dead but left pending. *)
DeadLetterKeeps(r, x) ==
  /\ disp[r].pc = "dead" /\ Head(r, x)
  /\ row' = [row EXCEPT ![x].dead = TRUE]
  /\ Continue(r, x)
  /\ UNCHANGED <<published, fails, fast, breaker, lockVars, busVars,
                 troubles>>

DeadLetter(r, x) ==
  /\ disp[r].pc = "dead" /\ Head(r, x)
  /\ \/ row' = [row EXCEPT ![x].retired = TRUE, ![x].dead = TRUE]
        /\ UNCHANGED troubles
     \/ Fault("mark") /\ UNCHANGED row
  /\ Continue(r, x)
  /\ UNCHANGED <<published, fails, fast, breaker, lockVars, busVars>>

ReleaseLock(r) ==
  /\ disp[r].pc = "release"
  /\ Lock!Release(r)
  /\ disp' = [disp EXCEPT ![r] = IdleDisp]
  /\ UNCHANGED <<row, published, fails, fast, breaker, busVars, troubles>>

-----------------------------------------------------------------------------
(* Environment *)

CoolDown(r) ==
  /\ Cools(breaker[r])
  /\ breaker' = [breaker EXCEPT ![r].cooled = TRUE]
  /\ UNCHANGED <<row, published, fails, fast, disp, lockVars, busVars,
                 troubles>>

(* The TTL of the lock passes, after its holder died or while it is still  *)
(* in the middle of a batch.                                               *)
LockExpiry ==
  /\ Lock!Expire
  /\ \/ (\A r \in Replicas : ~Lock!Owns(r)) /\ UNCHANGED overruns
     \/ /\ \E r \in Replicas : Lock!Owns(r)
        /\ overruns < MaxOverruns
        /\ overruns' = overruns + 1
  /\ UNCHANGED <<row, published, fails, fast, disp, breaker, busVars,
                 crashes, faults>>

Disconnect(r) ==
  /\ r \in Flaky /\ conn[r] = "up"
  /\ conn' = [conn EXCEPT ![r] = "down"]
  /\ UNCHANGED <<row, published, fails, fast, disp, breaker, lockVars, buffer,
                 arrived, troubles>>

(* The client sends what it has kept; what it wrote before it noticed the  *)
(* break is gone.                                                          *)
Reconnect(r) ==
  /\ conn[r] = "down"
  /\ conn' = [conn EXCEPT ![r] = "up"]
  /\ buffer' = [buffer EXCEPT ![r] = {}]
  /\ \E kept \in SUBSET buffer[r] : arrived' = arrived \cup kept
  /\ UNCHANGED <<row, published, fails, fast, disp, breaker, lockVars, troubles>>

(* After MaxReconnects(5) attempts the client is closed for good. *)
GiveUp(r) ==
  /\ conn[r] = "down"
  /\ conn' = [conn EXCEPT ![r] = "closed"]
  /\ buffer' = [buffer EXCEPT ![r] = {}]
  /\ UNCHANGED <<row, published, fails, fast, disp, breaker, lockVars,
                 arrived, troubles>>

(* A replica dies and restarts: its breaker and its bus client are new,    *)
(* its lock is left.                                                       *)
Crash(r) ==
  /\ crashes < MaxCrashes
  /\ crashes' = crashes + 1
  /\ \E c \in StartConn(r) : conn' = [conn EXCEPT ![r] = c]
  /\ buffer' = [buffer EXCEPT ![r] = {}]
  /\ disp' = [disp EXCEPT ![r] = IdleDisp]
  /\ breaker' = [breaker EXCEPT ![r] = NewBreaker]
  /\ Lock!Die(r) \/ (token[r] = Free /\ UNCHANGED lockVars)
  /\ UNCHANGED <<row, published, fails, fast, arrived, overruns, faults>>

-----------------------------------------------------------------------------
OnRow(r, x) ==
  \/ DeliverOk(r, x) \/ DeliverErr(r, x) \/ MarkPublished(r, x)
  \/ RecordFailure(r, x) \/ DeadLetter(r, x)

Dispatch(r) ==
  \/ Acquire(r) \/ AskBreaker(r) \/ Query(r) \/ ReleaseLock(r)
  \/ \E x \in Rows : OnRow(r, x)

Next ==
  \/ \E x \in Rows : Insert(x) \/ \E r \in Replicas : FastPublish(r, x)
  \/ \E r \in Replicas : Dispatch(r) \/ CoolDown(r) \/ Crash(r)
  \/ \E r \in Replicas : Disconnect(r) \/ Reconnect(r) \/ GiveUp(r)
  \/ LockExpiry

Spec == Init /\ [][Next]_vars

(* The poll ticker and its goroutine run, locks expire and breakers cool.  *)
FairSpec ==
  /\ Spec
  /\ \A r \in Replicas : WF_vars(Dispatch(r)) /\ WF_vars(CoolDown(r))
  /\ WF_vars(LockExpiry)

-----------------------------------------------------------------------------
(* Properties *)

TypeOK ==
  /\ row \in [Rows -> [queued : BOOLEAN, retired : BOOLEAN, dead : BOOLEAN,
                       attempts : 0..MaxAttempts]]
  /\ published \in [Rows -> 0..MaxPublished]
  /\ fails \in [Rows -> 0..MaxAttempts]
  /\ fast \subseteq Rows
  /\ disp \in [Replicas -> [pc : DispPC, todo : SUBSET Rows,
                            snap : [Rows -> 0..MaxAttempts]]]
  /\ breaker \in [Replicas -> Breaker]
  /\ Lock!TypeOK
  /\ conn \in [Replicas -> Conn]
  /\ buffer \in [Replicas -> SUBSET Rows]
  /\ arrived \subseteq Rows
  /\ overruns \in Nat /\ crashes \in Nat /\ faults \in Nat

(* A retired row that is not a dead letter was taken by a bus client: no    *)
(* crash, database error or overlap of dispatchers retires an event that   *)
(* nobody took (dispatchBatch).                                            *)
HandedOver ==
  \A x \in Rows : row[x].retired /\ ~row[x].dead => published[x] > 0

(* "re-delivering until acknowledged" (package comment): a retired row that *)
(* is not a dead letter has reached the broker or still will.              *)
AtLeastOnce ==
  \A x \in Rows : row[x].retired /\ ~row[x].dead =>
    x \in arrived \/ \E r \in Replicas : x \in buffer[r]

(* A dead letter really had MaxAttempts failed deliveries: attempts, which *)
(* dispatchers write from their copies, never runs ahead of the failures   *)
(* (recordFailure, deadLetter).                                            *)
DeadLetterEarned ==
  \A x \in Rows : row[x].dead => fails[x] >= MaxAttempts

(* Every queued event is published or dead-lettered in the end, whatever   *)
(* the bus does and whatever rows are ahead of it in the queue             *)
(* (dispatchBatch, recordFailure).                                         *)
EventuallyRetired ==
  \A x \in Rows : row[x].queued ~> row[x].retired

(* A client accepts an event twice, from Enqueue and from the dispatcher;   *)
(* every further time is paid for by a crash, a database error or a batch  *)
(* that outlasted the lock (dispatchBatch, markPublished, WithLock).       *)
Causes == crashes + overruns + faults
PublishedPerCause == \A x \in Rows : published[x] <= 2 + Causes

(* The lock keeps the replicas' batches apart ("only one replica           *)
(* dispatches at a time") except for those that outlasted it.              *)
Dispatching(r) == disp[r].pc \in {"deliver", "mark", "record", "dead"}
OneDispatcher ==
  Cardinality({r \in Replicas : Dispatching(r)}) <= 1 + overruns

(* A dispatcher that comes late with its Release, after its TTL, does not  *)
(* free the lock of the one that took over.                                *)
LockIsSafe == Lock!OwnershipIsSafe

(* The outbox implements its promise.                                      *)
Accepted == {x \in Rows : published[x] > 0}
Promise == INSTANCE Delivery WITH
  status <- [x \in Rows |-> IF row[x].retired THEN "retired"
                            ELSE IF row[x].queued THEN "queued" ELSE "new"],
  accepted <- Accepted,
  delivered <- arrived

ImplementsDelivery == Promise!Spec
=============================================================================

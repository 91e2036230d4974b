----------------------------- MODULE OutboxProofs -----------------------------
(***************************************************************************)
(* Every safety property of Outbox and its refinement of Delivery, for any *)
(* number of rows and replicas, with batches of any size, connections that *)
(* break, any database errors, crashes and expiries of the lock.           *)
(*                                                                         *)
(* Dispatchers decide on copies that may be stale.  IInv says what a copy  *)
(* still guarantees: its attempts are never ahead of the deliveries that   *)
(* failed, a row about to be marked was taken by a client, and a row about *)
(* to be buried has failed MaxAttempts times.  None of this needs the lock.*)
(* What the lock is good for is counted: LockInv relates the batches that  *)
(* run beside each other to the locks lost, Account the deliveries of a    *)
(* row to the crashes, overruns and faults.                                *)
(***************************************************************************)
EXTENDS Outbox, FiniteSetTheorems, TLAPS

RowType == [queued : BOOLEAN, retired : BOOLEAN, dead : BOOLEAN,
            attempts : 0..MaxAttempts]
DispType == [pc : DispPC, todo : SUBSET Rows, snap : [Rows -> 0..MaxAttempts]]

HeadIn(D, x) == x \in D.todo /\ \A y \in D.todo : x <= y

(* What dispatcher state D guarantees of rows rw, failures f and           *)
(* publications p.                                                         *)
DispOK(D, rw, f, p) ==
  /\ \A x \in Rows : D.snap[x] <= f[x]
  /\ \A x \in D.todo : rw[x].queued
  /\ D.pc = "mark" => \A x \in D.todo : HeadIn(D, x) => p[x] > 0
  /\ D.pc = "record" =>
       \A x \in D.todo : HeadIn(D, x) => UpTo(D.snap[x], MaxAttempts) <= f[x]
  /\ D.pc = "dead" => \A x \in D.todo : HeadIn(D, x) => f[x] = MaxAttempts

RowOK(R, f, p) ==
  /\ R.attempts <= f
  /\ R.retired => R.queued
  /\ R.retired /\ ~R.dead => p > 0
  /\ R.dead => f = MaxAttempts

DispInv == \A r \in Replicas : DispOK(disp[r], row, fails, published)
RowInv == \A x \in Rows : RowOK(row[x], fails[x], published[x])
FastInv == \A x \in fast : row[x].queued

RowsOK ==
  /\ row \in [Rows -> RowType]
  /\ published \in [Rows -> 0..MaxPublished]
  /\ fails \in [Rows -> 0..MaxAttempts]
  /\ fast \subseteq Rows
  /\ RowInv /\ FastInv
DispsOK == disp \in [Replicas -> DispType] /\ DispInv
BusOK ==
  /\ conn \in [Replicas -> Conn]
  /\ buffer \in [Replicas -> SUBSET Accepted] /\ arrived \subseteq Accepted
EnvOK ==
  /\ breaker \in [Replicas -> Breaker]
  /\ Lock!TypeOK
  /\ overruns \in Nat /\ crashes \in Nat /\ faults \in Nat

IInv == RowsOK /\ DispsOK /\ EnvOK /\ BusOK

LEMMA IInvImplies == IInv => TypeOK /\ HandedOver /\ DeadLetterEarned
<1> SUFFICES ASSUME IInv PROVE TypeOK /\ HandedOver /\ DeadLetterEarned
  OBVIOUS
<1>1. HandedOver /\ DeadLetterEarned
  BY OutboxAssumption DEF IInv, RowsOK, HandedOver, DeadLetterEarned, RowType, RowInv, RowOK
<1>2. buffer \in [Replicas -> SUBSET Rows] /\ arrived \subseteq Rows
  BY DEF IInv, BusOK, Accepted
<1> QED BY <1>1, <1>2
        DEF IInv, RowsOK, DispsOK, EnvOK, BusOK, TypeOK, RowType, DispType

-----------------------------------------------------------------------------
(* Lemmas on the operators of the model. *)

LEMMA UpToBounds ==
  ASSUME NEW max \in Nat \ {0}, NEW n \in 0..max
  PROVE  /\ UpTo(n, max) \in 0..max
         /\ n <= UpTo(n, max) /\ UpTo(n, max) > 0
         /\ UpTo(n, max) >= max => UpTo(n, max) = max
BY DEF UpTo

LEMMA UpToMonotone ==
  ASSUME NEW max \in Nat \ {0}, NEW m \in 0..max, NEW n \in 0..max, m <= n
  PROVE  UpTo(m, max) <= UpTo(n, max)
BY DEF UpTo

(* The breaker keeps its type.                                             *)
LEMMA BreakerType ==
  /\ NewBreaker \in Breaker
  /\ \A b \in Breaker : AfterAllow(b) \in Breaker /\ AfterSuccess(b) \in Breaker
                        /\ AfterFailure(b) \in Breaker
                        /\ [b EXCEPT !.cooled = TRUE] \in Breaker
<1>1. NewBreaker \in Breaker
  BY DEF NewBreaker, Breaker
<1>2. SUFFICES ASSUME NEW b \in Breaker
               PROVE  AfterAllow(b) \in Breaker /\ AfterSuccess(b) \in Breaker
                      /\ AfterFailure(b) \in Breaker
                      /\ [b EXCEPT !.cooled = TRUE] \in Breaker
  BY <1>1
<1>3. \A c \in Breaker : \A t \in {"closed", "open", "half_open"} :
        Transition(c, t) \in Breaker
  BY DEF Transition, Breaker
<1>4. AfterAllow(b) \in Breaker /\ [b EXCEPT !.cooled = TRUE] \in Breaker
  BY <1>3 DEF AfterAllow, Breaker
<1>5. AfterSuccess(b) \in Breaker
  BY <1>3 DEF AfterSuccess, Breaker
<1>6. AfterFailure(b) \in Breaker
  <2> DEFINE n == IF b.failures < Threshold THEN b.failures + 1 ELSE b.failures
             c == [b EXCEPT !.failures = n]
  <2>1. c \in Breaker
    BY DEF Breaker
  <2> QED BY <2>1, <1>3 DEF AfterFailure
<1> QED BY <1>4, <1>5, <1>6

(* What only ever grows: what a dispatcher's copy was right about stays    *)
(* right.                                                                  *)
Grows ==
  /\ \A x \in Rows : row[x].queued => row'[x].queued
  /\ \A x \in Rows : fails[x] <= fails'[x] /\ fails'[x] \in 0..MaxAttempts
  /\ \A x \in Rows : published[x] > 0 => published'[x] > 0

LEMMA DispGrows ==
  ASSUME RowsOK, Grows, NEW D \in DispType, DispOK(D, row, fails, published)
  PROVE  DispOK(D, row', fails', published')
<1>1. \A x \in Rows : /\ D.snap[x] \in 0..MaxAttempts
                      /\ UpTo(D.snap[x], MaxAttempts) \in 0..MaxAttempts
                      /\ fails[x] \in 0..MaxAttempts
  BY OutboxAssumption DEF DispType, UpTo, RowsOK
<1>2. D.todo \subseteq Rows
  BY DEF DispType
<1>3. \A x \in Rows : D.snap[x] <= fails'[x]
  BY <1>1 DEF DispOK, Grows
<1>4. \A x \in D.todo : row'[x].queued
  BY <1>2 DEF DispOK, Grows
<1>5. D.pc = "mark" => \A x \in D.todo : HeadIn(D, x) => published'[x] > 0
  BY <1>2 DEF DispOK, Grows
<1>6. D.pc = "record" => \A x \in D.todo :
        HeadIn(D, x) => UpTo(D.snap[x], MaxAttempts) <= fails'[x]
  <2>1. ASSUME NEW x \in D.todo, UpTo(D.snap[x], MaxAttempts) <= fails[x]
        PROVE  UpTo(D.snap[x], MaxAttempts) <= fails'[x]
    <3>1. x \in Rows
      BY <1>2
    <3>2. UpTo(D.snap[x], MaxAttempts) \in Nat /\ fails[x] \in Nat
      BY <1>1, <3>1, OutboxAssumption
    <3>3. fails[x] <= fails'[x] /\ fails'[x] \in Nat
      BY <3>1, OutboxAssumption DEF Grows
    <3> QED BY <2>1, <3>2, <3>3
  <2> QED BY <2>1 DEF DispOK
<1>7. D.pc = "dead" => \A x \in D.todo : HeadIn(D, x) => fails'[x] = MaxAttempts
  <2>1. ASSUME NEW x \in D.todo, fails[x] = MaxAttempts
        PROVE  fails'[x] = MaxAttempts
    <3>1. x \in Rows
      BY <1>2
    <3>2. fails[x] <= fails'[x] /\ fails'[x] \in 0..MaxAttempts
      BY <3>1 DEF Grows
    <3> QED BY <2>1, <3>2, OutboxAssumption
  <2> QED BY <2>1 DEF DispOK
<1> QED BY <1>3, <1>4, <1>5, <1>6, <1>7 DEF DispOK

(* One dispatcher moves to new.                                            *)
LEMMA DispsStep ==
  ASSUME RowsOK, DispsOK, Grows, NEW r \in Replicas, NEW new \in DispType,
         disp' = [disp EXCEPT ![r] = new], DispOK(new, row', fails', published')
  PROVE  DispsOK'
<1>1. disp' \in [Replicas -> DispType]
  BY DEF DispsOK
<1>2. ASSUME NEW q \in Replicas
      PROVE  DispOK(disp'[q], row', fails', published')
  BY DispGrows DEF DispsOK, DispInv
<1> QED BY <1>1, <1>2 DEF DispsOK, DispInv

LEMMA DispsSame ==
  ASSUME RowsOK, DispsOK, Grows, UNCHANGED disp
  PROVE  DispsOK'
<1>1. ASSUME NEW q \in Replicas
      PROVE  DispOK(disp'[q], row', fails', published')
  BY DispGrows DEF DispsOK, DispInv
<1> QED BY <1>1 DEF DispsOK, DispInv

LEMMA GrowsSame == RowsOK /\ UNCHANGED <<row, fails, published>> => Grows
BY OutboxAssumption DEF RowsOK, Grows

LEMMA RowsSame == RowsOK /\ UNCHANGED <<row, fails, published, fast>> => RowsOK'
BY DEF RowsOK, RowInv, FastInv

LEMMA TroublesOK ==
  ASSUME EnvOK, UNCHANGED troubles \/ \E call \in DbFaults : Fault(call)
  PROVE  overruns' \in Nat /\ crashes' \in Nat /\ faults' \in Nat
BY DEF EnvOK, troubles, Fault

LEMMA EnvSame ==
  ASSUME EnvOK, UNCHANGED <<breaker, lockVars>>,
         UNCHANGED troubles \/ \E call \in DbFaults : Fault(call)
  PROVE  EnvOK'
BY TroublesOK DEF EnvOK, lockVars, Lock!TypeOK

LEMMA FaultIsKnown == ASSUME NEW call, Fault(call) PROVE \E c \in DbFaults : Fault(c)
BY DEF Fault

LEMMA BusSame == BusOK /\ UNCHANGED <<published, busVars>> => BusOK'
BY DEF BusOK, busVars, Accepted

(* pc changes only. *)
LEMMA GoEffect ==
  ASSUME disp \in [Replicas -> DispType], NEW r \in Replicas, NEW pc \in DispPC,
         Go(r, pc)
  PROVE  LET new == [disp[r] EXCEPT !.pc = pc]
         IN disp' = [disp EXCEPT ![r] = new] /\ new \in DispType
BY DEF Go, DispType

(* The end of the work on a row leaves nothing to know about its head.     *)
LEMMA ContinueEffect ==
  ASSUME RowsOK, DispsOK, Grows, NEW r \in Replicas, NEW x \in Rows, Continue(r, x)
  PROVE  DispsOK'
<1> DEFINE new == [disp[r] EXCEPT !.todo = @ \ {x},
                     !.pc = IF disp[r].todo = {x} THEN "release" ELSE "deliver"]
<1>1. disp[r] \in DispType /\ DispOK(disp[r], row', fails', published')
  BY DispGrows DEF DispsOK, DispInv
<1>2. new \in DispType /\ new.snap = disp[r].snap /\ new.todo \subseteq disp[r].todo
      /\ new.pc \in {"release", "deliver"}
  BY <1>1 DEF DispType, DispPC
<1>3. DispOK(new, row', fails', published')
  BY <1>1, <1>2 DEF DispOK
<1>4. disp' = [disp EXCEPT ![r] = new]
  BY DEF Continue, DispsOK, DispType
<1> QED BY <1>2, <1>3, <1>4, DispsStep

-----------------------------------------------------------------------------
(* The initial state and each action. *)

LEMMA InitIInv == Init => IInv
<1> SUFFICES ASSUME Init PROVE IInv
  OBVIOUS
<1>1. RowsOK
  BY OutboxAssumption DEF Init, RowsOK, RowType, NewRow, RowInv, RowOK, FastInv
<1>2. DispsOK
  BY OutboxAssumption DEF Init, DispsOK, DispInv, DispOK, DispType, DispPC, IdleDisp
<1>3. EnvOK /\ BusOK
  BY BreakerType, OutboxAssumption DEF Init, EnvOK, BusOK, Lock!TypeOK, Lock!Init
<1> QED BY <1>1, <1>2, <1>3 DEF IInv

LEMMA InsertIInv ==
  ASSUME IInv, NEW x \in Rows, Insert(x)
  PROVE  IInv'
<1>1. Grows
  BY OutboxAssumption DEF IInv, RowsOK, Insert, Grows, RowType
<1>2. RowsOK'
  BY DEF IInv, RowsOK, Insert, RowInv, RowOK, FastInv, RowType
<1>3. DispsOK' /\ EnvOK' /\ BusOK'
  BY <1>1, DispsSame, EnvSame, BusSame DEF IInv, Insert
<1> QED BY <1>2, <1>3 DEF IInv

(* Publishing leaves everything about rows that IInv says in place, and    *)
(* what a client holds back was accepted.                                  *)
LEMMA PublishRows ==
  ASSUME RowsOK, BusOK, NEW r \in Replicas, NEW x \in Rows,
         Publish(r, x) \/ UNCHANGED <<published, busVars>>, UNCHANGED <<row, fails>>
  PROVE  /\ Grows
         /\ published' \in [Rows -> 0..MaxPublished] /\ RowInv' /\ BusOK'
         /\ Publish(r, x) => published'[x] > 0
<1>1. /\ published' \in [Rows -> 0..MaxPublished]
      /\ \A y \in Rows : published[y] > 0 => published'[y] > 0
      /\ Publish(r, x) => published'[x] > 0
  <2>1. CASE Publish(r, x)
    BY <2>1, UpToBounds, OutboxAssumption DEF Publish, RowsOK
  <2>2. CASE ~Publish(r, x)
    BY <2>2 DEF RowsOK
  <2> QED BY <2>1, <2>2
<1>2. BusOK'
  <2>1. CASE UNCHANGED <<published, busVars>>
    BY <2>1, BusSame
  <2>2. CASE Publish(r, x)
    <3>1. Accepted \subseteq Accepted' /\ x \in Accepted'
      BY <1>1, <2>2 DEF Accepted
    <3> HIDE DEF Accepted
    <3>2. CASE UNCHANGED busVars
      BY <3>1, <3>2 DEF BusOK, busVars
    <3>3. CASE arrived' = arrived \cup {x} /\ UNCHANGED <<conn, buffer>>
      BY <3>1, <3>3 DEF BusOK
    <3>4. CASE buffer' = [buffer EXCEPT ![r] = @ \cup {x}] /\ UNCHANGED <<conn, arrived>>
      BY <3>1, <3>4 DEF BusOK
    <3> QED BY <2>2, <3>2, <3>3, <3>4 DEF Publish
  <2> QED BY <2>1, <2>2
<1> QED BY <1>1, <1>2, OutboxAssumption DEF Grows, RowsOK, RowInv, RowOK

LEMMA FastPublishIInv ==
  ASSUME IInv, NEW r \in Replicas, NEW x \in Rows, FastPublish(r, x)
  PROVE  IInv'
<1>1. Grows /\ published' \in [Rows -> 0..MaxPublished] /\ RowInv' /\ BusOK'
  BY PublishRows DEF IInv, FastPublish
<1>2. RowsOK'
  BY <1>1 DEF IInv, RowsOK, FastPublish, FastInv
<1>3. DispsOK' /\ EnvOK'
  BY <1>1, DispsSame, EnvSame DEF IInv, FastPublish
<1> QED BY <1>1, <1>2, <1>3 DEF IInv

(* Actions that only move a dispatcher to a state without a claim on rows. *)
LEMMA GoIInv ==
  ASSUME IInv, NEW r \in Replicas,
         NEW pc \in {"idle", "allow", "query", "deliver", "release"},
         Go(r, pc), UNCHANGED <<row, published, fails, fast>>
  PROVE  RowsOK' /\ DispsOK'
<1> DEFINE new == [disp[r] EXCEPT !.pc = pc]
<1>1. RowsOK' /\ Grows
  BY RowsSame, GrowsSame DEF IInv
<1>2. disp' = [disp EXCEPT ![r] = new] /\ new \in DispType
  BY GoEffect DEF IInv, DispsOK, DispPC
<1>3. disp[r] \in DispType /\ DispOK(disp[r], row', fails', published')
  BY <1>1, DispGrows DEF IInv, DispsOK, DispInv
<1>4. new.pc = pc /\ new.todo = disp[r].todo /\ new.snap = disp[r].snap
  BY <1>3 DEF DispType
<1>5. DispOK(new, row', fails', published')
  BY <1>3, <1>4 DEF DispOK
<1> QED BY <1>1, <1>2, <1>5, DispsStep DEF IInv

LEMMA AcquireIInv ==
  ASSUME IInv, NEW r \in Replicas, Acquire(r)
  PROVE  IInv'
<1>1. RowsOK' /\ DispsOK'
  BY GoIInv DEF Acquire
<1>2. EnvOK' /\ BusOK'
  BY BusSame DEF Acquire, IInv, EnvOK, troubles, Lock!TypeOK, Lock!TryAcquire, Lock!Fresh
<1> QED BY <1>1, <1>2 DEF IInv

LEMMA AskBreakerIInv ==
  ASSUME IInv, NEW r \in Replicas, AskBreaker(r)
  PROVE  IInv'
<1>1. RowsOK' /\ DispsOK'
  BY GoIInv DEF AskBreaker
<1>2. EnvOK' /\ BusOK'
  BY BreakerType, BusSame DEF AskBreaker, IInv, EnvOK, troubles, lockVars, Lock!TypeOK
<1> QED BY <1>1, <1>2 DEF IInv

(* The batch is a copy of what the rows are now.                           *)
LEMMA QueryIInv ==
  ASSUME IInv, NEW r \in Replicas, Query(r)
  PROVE  IInv'
<1> DEFINE new == [pc |-> IF Batch = {} THEN "release" ELSE "deliver",
                   todo |-> Batch, snap |-> [x \in Rows |-> row[x].attempts]]
<1>1. RowsOK' /\ EnvOK' /\ BusOK' /\ Grows
  BY RowsSame, EnvSame, FaultIsKnown, BusSame, GrowsSame DEF Query, IInv
<1>2. CASE disp' = [disp EXCEPT ![r] = new]
  <2>1. Batch \subseteq Rows /\ \A x \in Batch : row[x].queued
    BY DEF Batch, Pending
  <2>2. new \in DispType
    BY <2>1 DEF IInv, RowsOK, RowType, DispType, DispPC
  <2>3. new.pc \in {"release", "deliver"} /\ new.todo = Batch
        /\ \A x \in Rows : new.snap[x] = row[x].attempts
    OBVIOUS
  <2>4. \A x \in Rows : row[x].attempts <= fails[x]
    BY DEF IInv, RowsOK, RowInv, RowOK
  <2>5. UNCHANGED <<row, fails, published>>
    BY DEF Query
  <2> HIDE DEF new
  <2>6. DispOK(new, row', fails', published')
    BY <2>1, <2>3, <2>4, <2>5 DEF DispOK
  <2> QED BY <1>1, <1>2, <2>2, <2>6, DispsStep DEF IInv
<1>3. CASE Go(r, "release")
  BY <1>1, <1>3, GoIInv DEF Query, IInv
<1> QED BY <1>2, <1>3 DEF Query

LEMMA DeliverOkIInv ==
  ASSUME IInv, NEW r \in Replicas, NEW x \in Rows, DeliverOk(r, x)
  PROVE  IInv'
<1> DEFINE new == [disp[r] EXCEPT !.pc = "mark"]
<1>1. /\ Grows /\ published' \in [Rows -> 0..MaxPublished] /\ RowInv' /\ BusOK'
      /\ published'[x] > 0
  BY PublishRows DEF IInv, DeliverOk
<1>2. RowsOK'
  BY <1>1 DEF IInv, RowsOK, DeliverOk, FastInv
<1>3. EnvOK'
  BY BreakerType DEF DeliverOk, IInv, EnvOK, troubles, lockVars, Lock!TypeOK
<1>4. disp' = [disp EXCEPT ![r] = new] /\ new \in DispType
  BY GoEffect DEF DeliverOk, IInv, DispsOK, DispPC
<1>5. disp[r] \in DispType /\ DispOK(disp[r], row', fails', published')
  BY <1>1, DispGrows DEF IInv, DispsOK, DispInv
<1>6. new.pc = "mark" /\ new.todo = disp[r].todo /\ new.snap = disp[r].snap
  BY <1>5 DEF DispType
<1>7. \A y \in new.todo : HeadIn(new, y) => y = x
  BY <1>5, <1>6, OutboxAssumption DEF DeliverOk, Head, HeadIn, DispType
<1>8. DispOK(new, row', fails', published')
  BY <1>1, <1>5, <1>6, <1>7 DEF DispOK
<1> QED BY <1>1, <1>2, <1>3, <1>4, <1>8, DispsStep DEF IInv

(* The failure is counted before the dispatcher counts it in the row.      *)
LEMMA DeliverErrIInv ==
  ASSUME IInv, NEW r \in Replicas, NEW x \in Rows, DeliverErr(r, x)
  PROVE  IInv'
<1> DEFINE new == [disp[r] EXCEPT !.pc = "record"]
           D == disp[r]
<1>0. fails' = [fails EXCEPT ![x] = UpTo(@, MaxAttempts)]
      /\ fails \in [Rows -> 0..MaxAttempts] /\ MaxAttempts \in Nat \ {0}
  BY OutboxAssumption DEF DeliverErr, IInv, RowsOK
<1>1. /\ fails' \in [Rows -> 0..MaxAttempts]
      /\ \A y \in Rows : fails[y] <= fails'[y] /\ fails'[y] \in 0..MaxAttempts
      /\ fails'[x] = UpTo(fails[x], MaxAttempts)
  BY <1>0, UpToBounds
<1>2. Grows
  BY <1>1 DEF DeliverErr, Grows
<1>3. ASSUME NEW y \in Rows
      PROVE  RowOK(row[y], fails'[y], published[y])
  <2>1. RowOK(row[y], fails[y], published[y]) /\ row[y].attempts \in 0..MaxAttempts
        /\ fails[y] \in 0..MaxAttempts /\ fails[y] <= fails'[y]
        /\ fails'[y] \in 0..MaxAttempts
    BY <1>1, <1>0 DEF IInv, RowsOK, RowInv, RowType
  <2> QED BY <2>1, <1>0 DEF RowOK
<1>4. RowsOK'
  BY <1>1, <1>3 DEF IInv, RowsOK, DeliverErr, FastInv, RowInv
<1>5. EnvOK' /\ BusOK'
  BY BreakerType, BusSame DEF DeliverErr, IInv, EnvOK, troubles, lockVars, Lock!TypeOK
<1>6. disp' = [disp EXCEPT ![r] = new] /\ new \in DispType
  BY GoEffect DEF DeliverErr, IInv, DispsOK, DispPC
<1>7. D \in DispType /\ DispOK(D, row', fails', published')
      /\ DispOK(D, row, fails, published)
  BY <1>2, DispGrows DEF IInv, DispsOK, DispInv
<1>8. new.pc = "record" /\ new.todo = D.todo /\ new.snap = D.snap
  BY <1>7 DEF DispType
<1>9. \A y \in new.todo : HeadIn(new, y) => y = x
  BY <1>7, <1>8, OutboxAssumption DEF DeliverErr, Head, HeadIn, DispType
<1>10. UpTo(D.snap[x], MaxAttempts) <= fails'[x]
  <2>1. D.snap[x] \in 0..MaxAttempts /\ fails[x] \in 0..MaxAttempts
        /\ D.snap[x] <= fails[x]
    BY <1>0, <1>7 DEF DispOK, DispType
  <2> QED BY <2>1, <1>0, <1>1, UpToMonotone
<1>11. DispOK(new, row', fails', published')
  BY <1>7, <1>8, <1>9, <1>10 DEF DispOK
<1> QED BY <1>2, <1>4, <1>5, <1>6, <1>11, DispsStep DEF IInv

LEMMA MarkPublishedIInv ==
  ASSUME IInv, NEW r \in Replicas, NEW x \in Rows, MarkPublished(r, x)
  PROVE  IInv'
<1>0. EnvOK' /\ BusOK'
  BY EnvSame, FaultIsKnown, BusSame DEF MarkPublished, IInv
<1>1. disp[r].pc = "mark" /\ HeadIn(disp[r], x) /\ disp[r].todo \subseteq Rows
      /\ DispOK(disp[r], row, fails, published)
  BY DEF MarkPublished, Head, HeadIn, IInv, DispsOK, DispType, DispInv
<1>2. row[x].queued /\ published[x] > 0
  BY <1>1 DEF DispOK, HeadIn
<1>3. CASE row' = [row EXCEPT ![x].retired = TRUE]
  <2>1. RowsOK'
    BY <1>2, <1>3 DEF MarkPublished, IInv, RowsOK, RowType, RowInv, RowOK, FastInv
  <2>2. Grows
    BY <1>3, OutboxAssumption DEF MarkPublished, IInv, RowsOK, RowType, Grows
  <2>3. DispsOK' /\ EnvOK'
    BY <2>2, <1>0, ContinueEffect DEF MarkPublished, IInv
  <2> QED BY <1>0, <2>1, <2>3 DEF IInv
<1>4. CASE UNCHANGED row
  BY <1>0, <1>4, RowsSame, GrowsSame, ContinueEffect DEF MarkPublished, IInv
<1> QED BY <1>3, <1>4 DEF MarkPublished

(* The number written comes from a copy; it still counts real failures.    *)
LEMMA RecordFailureIInv ==
  ASSUME IInv, NEW r \in Replicas, NEW x \in Rows, RecordFailure(r, x)
  PROVE  IInv'
<1> DEFINE D == disp[r]
           n == UpTo(D.snap[x], MaxAttempts)
           new == [D EXCEPT !.pc = "dead"]
<1>1. D.pc = "record" /\ HeadIn(D, x) /\ D \in DispType
      /\ DispOK(D, row, fails, published)
  BY DEF RecordFailure, Head, HeadIn, IInv, DispsOK, DispInv
<1>2. n <= fails[x] /\ n \in 0..MaxAttempts /\ fails[x] \in 0..MaxAttempts
      /\ (n >= MaxAttempts => n = MaxAttempts)
  <2>1. n <= fails[x]
    BY <1>1 DEF DispOK, HeadIn
  <2>2. D.snap[x] \in 0..MaxAttempts /\ fails[x] \in 0..MaxAttempts
    BY <1>1 DEF DispType, IInv, RowsOK
  <2> QED BY <2>1, <2>2, UpToBounds, OutboxAssumption
<1>3. RowsOK' /\ Grows /\ UNCHANGED <<fails, published>>
  <2>1. CASE row' = [row EXCEPT ![x].attempts = n]
    <3>1. RowsOK'
      BY <1>2, <2>1 DEF RecordFailure, IInv, RowsOK, RowType, RowInv, RowOK, FastInv
    <3>2. Grows
      BY <2>1, OutboxAssumption DEF RecordFailure, IInv, RowsOK, RowType, Grows
    <3> QED BY <3>1, <3>2 DEF RecordFailure
  <2>2. CASE UNCHANGED row
    BY <2>2, RowsSame, GrowsSame DEF RecordFailure, IInv
  <2> QED BY <2>1, <2>2 DEF RecordFailure
<1>4. EnvOK' /\ BusOK'
  BY EnvSame, FaultIsKnown, BusSame DEF RecordFailure, IInv
<1>5. CASE n >= MaxAttempts /\ Go(r, "dead")
  <2>1. disp' = [disp EXCEPT ![r] = new] /\ new \in DispType
    BY <1>5, GoEffect DEF IInv, DispsOK, DispPC
  <2>2. DispOK(D, row', fails', published')
    BY <1>1, <1>3, DispGrows DEF IInv
  <2>3. new.pc = "dead" /\ new.todo = D.todo /\ new.snap = D.snap
    BY <1>1 DEF DispType
  <2>4. \A y \in new.todo : HeadIn(new, y) => y = x
    BY <1>1, <2>3, OutboxAssumption DEF HeadIn, DispType
  <2>5. fails'[x] = MaxAttempts
    BY <1>2, <1>3, <1>5, OutboxAssumption
  <2>6. DispOK(new, row', fails', published')
    BY <2>2, <2>3, <2>4, <2>5 DEF DispOK
  <2> QED BY <1>3, <1>4, <2>1, <2>6, DispsStep DEF IInv
<1>6. CASE Continue(r, x)
  BY <1>3, <1>4, <1>6, ContinueEffect DEF IInv
<1> QED BY <1>5, <1>6 DEF RecordFailure

LEMMA DeadLetterIInv ==
  ASSUME IInv, NEW r \in Replicas, NEW x \in Rows, DeadLetter(r, x)
  PROVE  IInv'
<1>0. EnvOK' /\ BusOK'
  BY EnvSame, FaultIsKnown, BusSame DEF DeadLetter, IInv
<1>1. disp[r].pc = "dead" /\ HeadIn(disp[r], x) /\ disp[r].todo \subseteq Rows
      /\ DispOK(disp[r], row, fails, published)
  BY DEF DeadLetter, Head, HeadIn, IInv, DispsOK, DispType, DispInv
<1>2. row[x].queued /\ fails[x] = MaxAttempts
  BY <1>1 DEF DispOK, HeadIn
<1>3. CASE row' = [row EXCEPT ![x].retired = TRUE, ![x].dead = TRUE]
  <2> DEFINE R == [row[x] EXCEPT !.retired = TRUE, !.dead = TRUE]
  <2>0. /\ row' = [row EXCEPT ![x] = R]
        /\ R \in RowType /\ R.queued /\ R.dead /\ R.attempts = row[x].attempts
    BY <1>2, <1>3 DEF IInv, RowsOK, RowType
  <2> HIDE DEF R
  <2>1. RowsOK'
    <3>1. RowOK(R, fails[x], published[x])
      BY <1>2, <2>0 DEF RowOK, IInv, RowsOK, RowInv
    <3> QED BY <2>0, <3>1 DEF DeadLetter, IInv, RowsOK, RowInv, FastInv
  <2>2. Grows
    BY <2>0, OutboxAssumption DEF DeadLetter, IInv, RowsOK, Grows
  <2>3. DispsOK' /\ EnvOK'
    BY <2>2, <1>0, ContinueEffect DEF DeadLetter, IInv
  <2> QED BY <1>0, <2>1, <2>3 DEF IInv
<1>4. CASE UNCHANGED row
  BY <1>0, <1>4, RowsSame, GrowsSame, ContinueEffect DEF DeadLetter, IInv
<1> QED BY <1>3, <1>4 DEF DeadLetter

LEMMA IdleDispOK ==
  ASSUME RowsOK, UNCHANGED <<row, fails, published>>
  PROVE  IdleDisp \in DispType /\ DispOK(IdleDisp, row', fails', published')
<1>1. IdleDisp \in DispType /\ IdleDisp.pc = "idle" /\ IdleDisp.todo = {}
      /\ \A x \in Rows : IdleDisp.snap[x] = 0
  BY OutboxAssumption DEF IdleDisp, DispType, DispPC
<1>2. \A x \in Rows : 0 <= fails[x]
  BY OutboxAssumption DEF RowsOK
<1> QED BY <1>1, <1>2 DEF DispOK

LEMMA ReleaseLockIInv ==
  ASSUME IInv, NEW r \in Replicas, ReleaseLock(r)
  PROVE  IInv'
<1>1. RowsOK' /\ Grows
  BY RowsSame, GrowsSame DEF ReleaseLock, IInv
<1>2. DispsOK'
  BY <1>1, IdleDispOK, DispsStep DEF ReleaseLock, IInv
<1>3. EnvOK' /\ BusOK'
  BY BusSame DEF ReleaseLock, IInv, EnvOK, troubles, Lock!TypeOK, Lock!Release
<1> QED BY <1>1, <1>2, <1>3 DEF IInv

(* A client comes to hold less, and what it held arrives or is gone.       *)
LEMMA ClientBusOK ==
  ASSUME BusOK, UNCHANGED published, NEW r \in Replicas, NEW c \in Conn,
         NEW kept \in SUBSET buffer[r], NEW sent \in SUBSET buffer[r],
         conn' = [conn EXCEPT ![r] = c], buffer' = [buffer EXCEPT ![r] = kept],
         arrived' = arrived \cup sent
  PROVE  BusOK'
<1>1. Accepted' = Accepted
  BY DEF Accepted
<1> QED BY <1>1 DEF BusOK

LEMMA CrashIInv ==
  ASSUME IInv, NEW r \in Replicas, Crash(r)
  PROVE  IInv'
<1>1. RowsOK' /\ Grows
  BY RowsSame, GrowsSame DEF Crash, IInv
<1>2. DispsOK'
  BY <1>1, IdleDispOK, DispsStep DEF Crash, IInv
<1>3. EnvOK'
  BY BreakerType DEF Crash, IInv, EnvOK, lockVars, Lock!TypeOK, Lock!Die
<1>4. PICK c \in StartConn(r) : conn' = [conn EXCEPT ![r] = c]
  BY DEF Crash
<1>5. c \in Conn
  BY DEF StartConn, Conn
<1>6. BusOK'
  <2>1. {} \in SUBSET buffer[r] /\ arrived' = arrived \cup {}
    BY DEF Crash
  <2> QED BY <1>4, <1>5, <2>1, ClientBusOK DEF Crash, IInv
<1> QED BY <1>1, <1>2, <1>3, <1>6 DEF IInv

(* The connection of a client breaks, is made again or is given up.        *)
LEMMA ConnIInv ==
  ASSUME IInv, NEW r \in Replicas, Disconnect(r) \/ Reconnect(r) \/ GiveUp(r)
  PROVE  IInv'
<1>1. UNCHANGED <<row, published, fails, fast, disp, breaker, lockVars, troubles>>
  BY DEF Disconnect, Reconnect, GiveUp
<1>2. RowsOK' /\ DispsOK' /\ EnvOK'
  BY <1>1, RowsSame, GrowsSame, DispsSame, EnvSame DEF IInv
<1>3. BusOK /\ buffer[r] \in SUBSET buffer[r] /\ {} \in SUBSET buffer[r]
      /\ {"up", "down", "closed"} \subseteq Conn
  BY DEF IInv, Conn
<1>4. CASE Disconnect(r)
  <2>1. buffer' = [buffer EXCEPT ![r] = buffer[r]] /\ arrived' = arrived \cup {}
    BY <1>3, <1>4 DEF Disconnect, BusOK
  <2> QED BY <1>1, <1>2, <1>3, <1>4, <2>1, ClientBusOK DEF Disconnect, IInv
<1>5. CASE Reconnect(r)
  BY <1>1, <1>2, <1>3, <1>5, ClientBusOK DEF Reconnect, IInv
<1>6. CASE GiveUp(r)
  <2>1. arrived' = arrived \cup {}
    BY <1>6 DEF GiveUp
  <2> QED BY <1>1, <1>2, <1>3, <1>6, <2>1, ClientBusOK DEF GiveUp, IInv
<1> QED BY <1>4, <1>5, <1>6

(* Cooling and expiry do not touch rows, dispatchers or clients.           *)
LEMMA WorldIInv ==
  ASSUME IInv, (\E r \in Replicas : CoolDown(r)) \/ LockExpiry
  PROVE  IInv'
<1>1. RowsOK' /\ DispsOK' /\ BusOK'
  BY RowsSame, GrowsSame, DispsSame, BusSame DEF IInv, CoolDown, LockExpiry
<1>2. ASSUME NEW r \in Replicas, CoolDown(r) PROVE EnvOK'
  BY <1>2, BreakerType DEF CoolDown, IInv, EnvOK, troubles, lockVars, Lock!TypeOK
<1>3. ASSUME LockExpiry PROVE EnvOK'
  BY <1>3 DEF LockExpiry, IInv, EnvOK, Lock!TypeOK, Lock!Expire
<1> QED BY <1>1, <1>2, <1>3 DEF IInv

LEMMA StutterIInv == IInv /\ UNCHANGED vars => IInv'
BY RowsSame, GrowsSame, DispsSame, EnvSame, BusSame
   DEF IInv, vars, lockVars

-----------------------------------------------------------------------------
(* IInv is an invariant of the outbox. *)

LEMMA NextIInv == IInv /\ [Next]_vars => IInv'
<1> SUFFICES ASSUME IInv, [Next]_vars PROVE IInv'
  OBVIOUS
<1>1. CASE \E x \in Rows : Insert(x) \/ \E r \in Replicas : FastPublish(r, x)
  BY <1>1, InsertIInv, FastPublishIInv
<1>2. ASSUME NEW r \in Replicas, Dispatch(r) PROVE IInv'
  <2>1. CASE Acquire(r) \/ AskBreaker(r) \/ Query(r) \/ ReleaseLock(r)
    BY <2>1, AcquireIInv, AskBreakerIInv, QueryIInv, ReleaseLockIInv
  <2>2. CASE \E x \in Rows : OnRow(r, x)
    BY <2>2, DeliverOkIInv, DeliverErrIInv, MarkPublishedIInv, RecordFailureIInv,
       DeadLetterIInv DEF OnRow
  <2> QED BY <1>2, <2>1, <2>2 DEF Dispatch
<1>3. CASE \E r \in Replicas : Crash(r)
  BY <1>3, CrashIInv
<1>4. CASE (\E r \in Replicas : CoolDown(r)) \/ LockExpiry
  BY <1>4, WorldIInv
<1>6. CASE \E r \in Replicas : Disconnect(r) \/ Reconnect(r) \/ GiveUp(r)
  BY <1>6, ConnIInv
<1>5. CASE UNCHANGED vars
  BY <1>5, StutterIInv
<1> QED BY <1>1, <1>2, <1>3, <1>4, <1>5, <1>6 DEF Next

THEOREM Inductive == Spec => []IInv
BY InitIInv, NextIInv, PTL DEF Spec

(* The state of the outbox keeps its types; attempts never pass            *)
(* MaxAttempts (recordFailure, deadLetter).                                *)
THEOREM TypeCorrect == Spec => []TypeOK
BY Inductive, IInvImplies, PTL

(* Whatever overlaps, crashes, breaks or fails, only an event that a bus   *)
(* client accepted is retired as published (deliver, markPublished).       *)
THEOREM RetiredWasAccepted == Spec => []HandedOver
BY Inductive, IInvImplies, PTL

(* Every dead letter had MaxAttempts failed deliveries, although attempts  *)
(* is written from copies that may be stale (recordFailure, deadLetter).   *)
THEOREM DeadLettersAreEarned == Spec => []DeadLetterEarned
BY Inductive, IInvImplies, PTL

-----------------------------------------------------------------------------
(* The outbox implements Delivery: Status, Accepted and arrived are what   *)
(* status, accepted and delivered stand for.                               *)

Status == [x \in Rows |-> IF row[x].retired THEN "retired"
                          ELSE IF row[x].queued THEN "queued" ELSE "new"]

LEMMA InitPromise == Init => Promise!Init
<1> SUFFICES ASSUME Init PROVE Promise!Init
  OBVIOUS
<1>1. Status = [x \in Rows |-> "new"] /\ Accepted = {}
  BY DEF Init, NewRow, Status, Accepted
<1> QED BY <1>1 DEF Init, Promise!Init, Status

LEMMA StatusSame ==
  ASSUME UNCHANGED <<row, published, fails, arrived>>
  PROVE  UNCHANGED Promise!vars
BY DEF Promise!vars, Accepted

LEMMA InsertPromise ==
  ASSUME IInv, NEW x \in Rows, Insert(x)
  PROVE  Promise!Queue(x)
<1>1. Status[x] = "new"
  BY DEF IInv, RowsOK, RowInv, RowOK, Insert, Status
<1>2. Status' = [Status EXCEPT ![x] = "queued"]
  BY DEF IInv, RowsOK, RowType, RowInv, RowOK, Insert, Status
<1> QED BY <1>1, <1>2 DEF Insert, Promise!Queue, Status, busVars, Accepted

LEMMA SendPromise ==
  ASSUME IInv, NEW r \in Replicas, NEW x \in Rows, row[x].queued, Publish(r, x),
         UNCHANGED <<row, fails>>
  PROVE  Promise!Send(x)
<1>1. Status[x] # "new"
  BY DEF Status
<1>2. Accepted' = Accepted \cup {x}
  <2>1. published' = [published EXCEPT ![x] = UpTo(@, MaxPublished)]
        /\ published \in [Rows -> 0..MaxPublished]
    BY DEF Publish, IInv, RowsOK
  <2>2. UpTo(published[x], MaxPublished) > 0
    BY <2>1, UpToBounds, OutboxAssumption
  <2> QED BY <2>1, <2>2 DEF Accepted
<1>3. arrived' \in {arrived, arrived \cup {x}}
  BY DEF Publish, busVars
<1> QED BY <1>1, <1>2, <1>3 DEF Promise!Send, Status

(* A client that reconnects delivers what it was given before.             *)
LEMMA ReconnectPromise ==
  ASSUME IInv, NEW r \in Replicas, Reconnect(r)
  PROVE  Promise!Next
<1>1. PICK kept \in SUBSET buffer[r] : arrived' = arrived \cup kept
  BY DEF Reconnect
<1>2. kept \in SUBSET Accepted
  BY <1>1 DEF IInv, BusOK
<1>3. UNCHANGED <<row, published, fails>>
  BY DEF Reconnect
<1>4. Accepted' = Accepted /\ Status' = Status
  BY <1>3 DEF Accepted, Status
<1>5. Promise!Deliver(kept)
  BY <1>1, <1>3, <1>4 DEF Promise!Deliver, Status
<1> QED BY <1>2, <1>5 DEF Promise!Next

LEMMA FailPromise ==
  ASSUME IInv, NEW r \in Replicas, NEW x \in Rows, DeliverErr(r, x)
  PROVE  Promise!Fail(x)
<1>1. row[x].queued
  BY DEF IInv, DispsOK, DispInv, DispOK, DeliverErr, Head
<1>2. Status[x] # "new"
  BY <1>1 DEF Status
<1> QED BY <1>2 DEF DeliverErr, Promise!Fail, UpTo, Status, Accepted, busVars

LEMMA RetirePromise ==
  ASSUME IInv, NEW x \in Rows, row[x].queued,
         published[x] > 0 \/ fails[x] >= MaxAttempts,
         row' \in [Rows -> RowType], row'[x].retired, row'[x].queued,
         \A y \in Rows : y # x => row'[y] = row[y],
         UNCHANGED <<published, fails, arrived>>
  PROVE  [Promise!Next]_(Promise!vars)
<1>0. Accepted' = Accepted
  BY DEF Accepted
<1>1. CASE row[x].retired
  <2>1. Status' = Status
    BY <1>1 DEF Status
  <2> QED BY <1>0, <2>1 DEF Promise!vars, Status
<1>2. CASE ~row[x].retired
  <2>1. Status[x] = "queued" /\ Status' = [Status EXCEPT ![x] = "retired"]
    BY <1>2 DEF Status
  <2>2. x \in Accepted \/ fails[x] >= MaxAttempts
    BY DEF Accepted
  <2>3. Promise!Retire(x)
    BY <1>0, <2>1, <2>2 DEF Promise!Retire, Status
  <2> QED BY <2>3 DEF Promise!Next
<1> QED BY <1>1, <1>2

LEMMA OnRowPromise ==
  ASSUME IInv, NEW r \in Replicas, NEW x \in Rows, OnRow(r, x)
  PROVE  [Promise!Next]_(Promise!vars)
<1>1. CASE DeliverOk(r, x)
  <2>1. row[x].queued
    BY <1>1 DEF IInv, DispsOK, DispInv, DispOK, DeliverOk, Head
  <2> QED BY <1>1, <2>1, SendPromise DEF DeliverOk, Promise!Next
<1>2. CASE DeliverErr(r, x)
  BY <1>2, FailPromise DEF Promise!Next
<1>3. CASE MarkPublished(r, x)
  <2>1. row[x].queued /\ published[x] > 0
    BY <1>3 DEF IInv, DispsOK, DispInv, DispOK, HeadIn, MarkPublished, Head
  <2>2. CASE UNCHANGED row
    BY <1>3, <2>2, StatusSame DEF MarkPublished, busVars
  <2>3. CASE row' = [row EXCEPT ![x].retired = TRUE]
    <3>1. row' \in [Rows -> RowType] /\ row'[x].retired /\ row'[x].queued
          /\ \A y \in Rows : y # x => row'[y] = row[y]
      BY <2>1, <2>3 DEF IInv, RowsOK, RowType
    <3> QED BY <1>3, <2>1, <3>1, RetirePromise DEF MarkPublished, busVars
  <2> QED BY <1>3, <2>2, <2>3 DEF MarkPublished
<1>4. CASE RecordFailure(r, x)
  <2>1. Status' = Status
    BY <1>4 DEF RecordFailure, IInv, RowsOK, RowType, Status
  <2> QED BY <1>4, <2>1 DEF RecordFailure, Promise!vars, Status, Accepted, busVars
<1>5. CASE DeadLetter(r, x)
  <2>1. row[x].queued /\ fails[x] >= MaxAttempts
    BY <1>5, OutboxAssumption
       DEF IInv, DispsOK, DispInv, DispOK, HeadIn, DeadLetter, Head
  <2>2. CASE UNCHANGED row
    BY <1>5, <2>2, StatusSame DEF DeadLetter, busVars
  <2>3. CASE row' = [row EXCEPT ![x].retired = TRUE, ![x].dead = TRUE]
    <3> DEFINE R == [row[x] EXCEPT !.retired = TRUE, !.dead = TRUE]
    <3>1. row' = [row EXCEPT ![x] = R] /\ R \in RowType /\ R.queued /\ R.retired
      BY <2>1, <2>3 DEF IInv, RowsOK, RowType
    <3> HIDE DEF R
    <3>2. row' \in [Rows -> RowType] /\ row'[x].retired /\ row'[x].queued
          /\ \A y \in Rows : y # x => row'[y] = row[y]
      BY <3>1 DEF IInv, RowsOK
    <3> QED BY <1>5, <2>1, <3>2, RetirePromise DEF DeadLetter, busVars
  <2> QED BY <1>5, <2>2, <2>3 DEF DeadLetter
<1> QED BY <1>1, <1>2, <1>3, <1>4, <1>5 DEF OnRow

LEMMA NextPromise == IInv /\ [Next]_vars => [Promise!Next]_(Promise!vars)
<1> SUFFICES ASSUME IInv, [Next]_vars PROVE [Promise!Next]_(Promise!vars)
  OBVIOUS
<1>1. CASE \E x \in Rows : Insert(x)
  BY <1>1, InsertPromise DEF Promise!Next
<1>2. ASSUME NEW r \in Replicas, NEW x \in Rows, FastPublish(r, x)
      PROVE  [Promise!Next]_(Promise!vars)
  <2>1. row[x].queued
    BY <1>2 DEF FastPublish, IInv, RowsOK, FastInv
  <2>2. CASE Publish(r, x)
    BY <1>2, <2>1, <2>2, SendPromise DEF FastPublish, Promise!Next
  <2>3. CASE UNCHANGED <<published, busVars>>
    BY <1>2, <2>3, StatusSame DEF FastPublish, busVars
  <2> QED BY <1>2, <2>2, <2>3 DEF FastPublish
<1>3. CASE \E r \in Replicas, x \in Rows : OnRow(r, x)
  BY <1>3, OnRowPromise
<1>4. CASE \E r \in Replicas : \/ Acquire(r) \/ AskBreaker(r) \/ Query(r)
                               \/ ReleaseLock(r) \/ CoolDown(r) \/ Crash(r)
  BY <1>4, StatusSame
     DEF Acquire, AskBreaker, Query, ReleaseLock, CoolDown, Crash, busVars
<1>5. CASE LockExpiry \/ UNCHANGED vars \/ \E r \in Replicas : Disconnect(r) \/ GiveUp(r)
  BY <1>5, StatusSame DEF LockExpiry, Disconnect, GiveUp, vars, busVars
<1>6. CASE \E r \in Replicas : Reconnect(r)
  BY <1>6, ReconnectPromise
<1> QED BY <1>1, <1>2, <1>3, <1>4, <1>5, <1>6 DEF Next, Dispatch

(* The outbox implements Delivery: every step, with whatever crash, error, *)
(* broken connection, stale copy or expired lock, is a step of the promise *)
(* or a stutter.                                                           *)
THEOREM OutboxImplementsDelivery == Spec => ImplementsDelivery
BY InitPromise, NextPromise, Inductive, PTL DEF Spec, ImplementsDelivery, Promise!Spec

-----------------------------------------------------------------------------
(* The lock among the dispatchers.  A late Release is harmless because no  *)
(* two replicas ever hold the same token.                                  *)

Distinct == \A c, d \in Replicas : token[c] # Free /\ token[c] = token[d] => c = d

LEMMA NextUsesLock == [Next]_vars => [Lock!Next]_(Lock!vars)
BY DEF vars, lockVars, Next, Dispatch, OnRow, Insert, FastPublish, Acquire,
       AskBreaker, Query, DeliverOk, DeliverErr, MarkPublished, RecordFailure,
       DeadLetter, ReleaseLock, CoolDown, LockExpiry, Disconnect, Reconnect,
       GiveUp, Crash, Lock!Next, Lock!vars

LEMMA LockNextDistinct ==
  Lock!TypeOK /\ Distinct /\ [Lock!Next]_(Lock!vars) => Distinct'
<1> SUFFICES ASSUME Lock!TypeOK, Distinct, [Lock!Next]_(Lock!vars) PROVE Distinct'
  OBVIOUS
<1>1. ASSUME NEW c \in Replicas, Lock!TryAcquire(c) PROVE Distinct'
  BY <1>1 DEF Distinct, Lock!TypeOK, Lock!TryAcquire, Lock!Fresh
<1>2. ASSUME NEW c \in Replicas, Lock!Release(c) \/ Lock!Die(c) PROVE Distinct'
  BY <1>2 DEF Distinct, Lock!TypeOK, Lock!Release, Lock!Die
<1>3. CASE Lock!Expire \/ UNCHANGED Lock!vars
  BY <1>3 DEF Distinct, Lock!Expire, Lock!vars
<1> QED BY <1>1, <1>2, <1>3 DEF Lock!Next

LEMMA LockNextSafe ==
  Lock!TypeOK /\ Distinct /\ [Lock!Next]_(Lock!vars) =>
    [\A c \in Replicas : Lock!Owns(c) /\ ~Lock!Owns(c)' =>
       Lock!Expire \/ token'[c] = Free]_(Lock!vars)
<1> SUFFICES ASSUME Lock!TypeOK, Distinct, [Lock!Next]_(Lock!vars),
                    NEW c \in Replicas, Lock!Owns(c), ~Lock!Owns(c)', ~Lock!Expire
             PROVE  token'[c] = Free \/ UNCHANGED Lock!vars
  OBVIOUS
<1>1. ASSUME NEW d \in Replicas, Lock!TryAcquire(d) PROVE FALSE
  BY <1>1 DEF Lock!TryAcquire, Lock!Owns
<1>2. ASSUME NEW d \in Replicas, Lock!Release(d) \/ Lock!Die(d)
      PROVE  token'[c] = Free
  BY <1>2 DEF Lock!Release, Lock!Die, Lock!Owns, Lock!TypeOK, Distinct
<1> QED BY <1>1, <1>2 DEF Lock!Next

(* Whatever batches outlast the lock and whenever they release it, the     *)
(* lock of a live owner only ends with its own Release or its own TTL      *)
(* (redisLock.Release).                                                    *)
THEOREM LateReleaseIsSafe == Spec => LockIsSafe
<1>1. Init => Distinct
  BY DEF Init, Lock!Init, Distinct
<1>2. IInv => Lock!TypeOK
  BY DEF IInv, EnvOK
<1>3. Spec => []Distinct
  BY <1>1, <1>2, Inductive, NextUsesLock, LockNextDistinct, PTL DEF Spec
<1> QED BY <1>2, <1>3, Inductive, NextUsesLock, LockNextSafe, PTL
        DEF Spec, LockIsSafe, Lock!OwnershipIsSafe

-----------------------------------------------------------------------------
(* OneDispatcher: a replica at work holds a token, and all but one of the  *)
(* tokens held were lost to the TTL.                                       *)

LEMMA OneMore ==
  ASSUME NEW S, IsFiniteSet(S), NEW e, NEW T, T \subseteq S \cup {e}
  PROVE  IsFiniteSet(T) /\ Cardinality(T) <= Cardinality(S) + 1
<1>1. IsFiniteSet(S \cup {e}) /\ Cardinality(S \cup {e}) <= Cardinality(S) + 1
      /\ Cardinality(S) \in Nat
  BY FS_AddElement, FS_CardinalityType
<1> QED BY <1>1, FS_Subset, FS_CardinalityType

LEMMA OneLess ==
  ASSUME NEW S, IsFiniteSet(S), NEW e \in S, NEW T, T \subseteq S \ {e}
  PROVE  IsFiniteSet(T) /\ Cardinality(T) + 1 <= Cardinality(S)
<1>1. IsFiniteSet(S \ {e}) /\ Cardinality(S \ {e}) = Cardinality(S) - 1
      /\ Cardinality(S) \in Nat
  BY FS_RemoveElement, FS_CardinalityType
<1> QED BY <1>1, FS_Subset, FS_CardinalityType

(* Replicas whose lock has expired, or has been taken since.               *)
Late == {r \in Replicas : token[r] # Free /\ token[r] # key}

Working == \A r \in Replicas : disp[r].pc # "idle" => token[r] # Free

LockInv ==
  /\ Distinct /\ Working
  /\ IsFiniteSet(Late) /\ Cardinality(Late) <= overruns

LEMMA InitLockInv == Init => LockInv
<1> SUFFICES ASSUME Init PROVE LockInv
  OBVIOUS
<1>1. Late = {}
  BY DEF Init, Lock!Init, Late
<1> QED BY <1>1, FS_EmptySet DEF Init, Lock!Init, LockInv, Distinct, Working, IdleDisp

LEMMA NextWorking == IInv /\ Working /\ [Next]_vars => Working'
<1> SUFFICES ASSUME IInv, Working, [Next]_vars PROVE Working'
  OBVIOUS
<1>1. disp \in [Replicas -> DispType] /\ token \in [Replicas -> Tokens \cup {Free}]
  BY DEF IInv, DispsOK, EnvOK, Lock!TypeOK
<1>2. ASSUME NEW r \in Replicas, disp[r].pc # "idle", UNCHANGED token,
             \A q \in Replicas : q # r => disp'[q] = disp[q]
      PROVE  Working'
  BY <1>2 DEF Working
<1>3. ASSUME UNCHANGED <<token, disp>> PROVE Working'
  BY <1>3 DEF Working
<1>4. ASSUME NEW r \in Replicas, disp' = [disp EXCEPT ![r] = IdleDisp],
             \A q \in Replicas : q # r => token'[q] = token[q]
      PROVE  Working'
  BY <1>1, <1>4 DEF Working, IdleDisp
<1>5. \A r \in Replicas : \A pc, x :
        Go(r, pc) \/ Continue(r, x) => \A q \in Replicas : q # r => disp'[q] = disp[q]
  BY <1>1 DEF Go, Continue
<1>6. CASE \E x \in Rows : Insert(x) \/ \E r \in Replicas : FastPublish(r, x)
  BY <1>3, <1>6 DEF Insert, FastPublish, lockVars
<1>7. ASSUME NEW r \in Replicas, Acquire(r) PROVE Working'
  <2>1. token'[r] # Free /\ \A q \in Replicas : q # r => token'[q] = token[q]
    BY <1>1, <1>7, OutboxAssumption DEF Acquire, Lock!TryAcquire, Lock!Fresh
  <2>2. \A q \in Replicas : q # r => disp'[q] = disp[q]
    BY <1>5, <1>7 DEF Acquire
  <2> QED BY <2>1, <2>2 DEF Working
<1>8. ASSUME NEW r \in Replicas, AskBreaker(r) \/ Query(r) PROVE Working'
  <2>1. disp[r].pc # "idle" /\ UNCHANGED token
    BY <1>8 DEF AskBreaker, Query, lockVars
  <2>2. \A q \in Replicas : q # r => disp'[q] = disp[q]
    BY <1>1, <1>5, <1>8 DEF AskBreaker, Query
  <2> QED BY <1>2, <2>1, <2>2
<1>9. ASSUME NEW r \in Replicas, NEW x \in Rows, OnRow(r, x) PROVE Working'
  <2>1. disp[r].pc # "idle" /\ UNCHANGED token
    BY <1>9 DEF OnRow, DeliverOk, DeliverErr, MarkPublished, RecordFailure, DeadLetter, lockVars
  <2>2. \A q \in Replicas : q # r => disp'[q] = disp[q]
    BY <1>5, <1>9 DEF OnRow, DeliverOk, DeliverErr, MarkPublished, RecordFailure, DeadLetter
  <2> QED BY <1>2, <2>1, <2>2
<1>10. ASSUME NEW r \in Replicas, ReleaseLock(r) \/ Crash(r) PROVE Working'
  BY <1>1, <1>4, <1>10 DEF ReleaseLock, Crash, Lock!Release, Lock!Die, lockVars
<1>11. CASE \/ LockExpiry \/ UNCHANGED vars
            \/ \E r \in Replicas : \/ CoolDown(r) \/ Disconnect(r)
                                   \/ Reconnect(r) \/ GiveUp(r)
  BY <1>3, <1>11 DEF CoolDown, LockExpiry, Disconnect, Reconnect, GiveUp, Lock!Expire,
     lockVars, vars
<1> QED BY <1>6, <1>7, <1>8, <1>9, <1>10, <1>11 DEF Next, Dispatch

(* Only a TTL that passes on a live owner makes another replica late.      *)
LEMMA LockStepLate ==
  ASSUME Lock!TypeOK, Distinct, [Lock!Next]_(Lock!vars), ~Lock!Expire
  PROVE  Late' \subseteq Late
<1>1. ASSUME NEW c \in Replicas, Lock!TryAcquire(c) PROVE Late' \subseteq Late
  BY <1>1 DEF Lock!TryAcquire, Lock!Fresh, Lock!TypeOK, Late
<1>2. ASSUME NEW c \in Replicas, Lock!Release(c) PROVE Late' \subseteq Late
  BY <1>2 DEF Lock!Release, Lock!TypeOK, Late, Distinct
<1>3. ASSUME NEW c \in Replicas, Lock!Die(c) PROVE Late' \subseteq Late
  BY <1>3 DEF Lock!Die, Lock!TypeOK, Late
<1>4. CASE UNCHANGED Lock!vars
  BY <1>4 DEF Lock!vars, Late
<1> QED BY <1>1, <1>2, <1>3, <1>4 DEF Lock!Next

LEMMA NextLockInv == IInv /\ LockInv /\ [Next]_vars => LockInv'
<1> SUFFICES ASSUME IInv, LockInv, [Next]_vars PROVE LockInv'
  OBVIOUS
<1>1. Lock!TypeOK /\ overruns \in Nat /\ [Lock!Next]_(Lock!vars)
  BY NextUsesLock DEF IInv, EnvOK
<1>2. Distinct' /\ Working'
  BY <1>1, NextWorking, LockNextDistinct DEF LockInv
<1>3. IsFiniteSet(Late') /\ Cardinality(Late') <= overruns'
  <2>1. CASE LockExpiry /\ overruns' = overruns + 1
    <3>1. PICK c \in Replicas : Lock!Owns(c)
      BY <2>1, <1>1 DEF LockExpiry
    <3>2. Late' \subseteq Late \cup {c}
      BY <2>1, <3>1 DEF LockExpiry, Lock!Expire, Lock!Owns, Late, LockInv, Distinct
    <3>3. IsFiniteSet(Late) /\ Cardinality(Late) \in Nat /\ Cardinality(Late) <= overruns
      BY FS_CardinalityType DEF LockInv
    <3>4. IsFiniteSet(Late') /\ Cardinality(Late') <= Cardinality(Late) + 1
      BY <3>2, <3>3, OneMore
    <3> QED BY <1>1, <2>1, <3>3, <3>4, FS_CardinalityType
  <2>2. CASE Late' \subseteq Late /\ overruns' = overruns
    <3>1. IsFiniteSet(Late) /\ Cardinality(Late) \in Nat /\ Cardinality(Late) <= overruns
      BY FS_CardinalityType DEF LockInv
    <3>2. IsFiniteSet(Late') /\ Cardinality(Late') <= Cardinality(Late)
      BY <2>2, <3>1, FS_Subset
    <3> QED BY <1>1, <2>2, <3>1, <3>2, FS_CardinalityType
  <2>3. CASE LockExpiry /\ (\A r \in Replicas : ~Lock!Owns(r)) /\ UNCHANGED overruns
    <3>1. Late' \subseteq Late
      BY <2>3 DEF LockExpiry, Lock!Expire, Lock!Owns, Late
    <3> QED BY <2>2, <2>3, <3>1
  <2>4. CASE ~LockExpiry
    <3>1. UNCHANGED overruns
      BY <2>4 DEF Next, Insert, FastPublish, Dispatch, OnRow, Acquire, AskBreaker, Query,
           DeliverOk, DeliverErr, MarkPublished, RecordFailure, DeadLetter, ReleaseLock,
           CoolDown, Disconnect, Reconnect, GiveUp, Crash, Fault, troubles, vars
    <3>2. CASE Lock!Expire
      <4>1. ~\E r \in Replicas : Acquire(r)
        BY <3>2, OutboxAssumption DEF Acquire, Lock!TryAcquire, Lock!Fresh, Lock!Expire
      <4>2. ~\E r \in Replicas : ReleaseLock(r) \/ (Crash(r) /\ Lock!Die(r))
        BY <1>1, <3>2 DEF ReleaseLock, Lock!Release, Lock!Die, Lock!Expire, Lock!TypeOK
      <4>3. UNCHANGED key
        BY <2>4, <4>1, <4>2 DEF Next, Insert, FastPublish, Dispatch, OnRow, AskBreaker, Query,
             DeliverOk, DeliverErr, MarkPublished, RecordFailure, DeadLetter, CoolDown,
             Disconnect, Reconnect, GiveUp, Crash, lockVars, vars
      <4> QED BY <3>2, <4>3 DEF Lock!Expire
    <3> QED BY <1>1, <2>2, <3>1, <3>2, LockStepLate DEF LockInv
  <2> QED BY <2>1, <2>3, <2>4 DEF LockExpiry
<1> QED BY <1>2, <1>3 DEF LockInv

(* Replicas never work on batches at the same time but for those whose     *)
(* batch outlasted the lock, each of them paid for by an expiry ("only one *)
(* replica dispatches at a time", WithLock, dispatchBatch).                *)
THEOREM OneDispatcherAtATime == Spec => []OneDispatcher
<1>1. IInv /\ LockInv => OneDispatcher
  <2> SUFFICES ASSUME IInv, LockInv PROVE OneDispatcher
    OBVIOUS
  <2> DEFINE busy == {r \in Replicas : Dispatching(r)}
  <2>1. overruns \in Nat /\ IsFiniteSet(Late) /\ Cardinality(Late) <= overruns
        /\ Cardinality(Late) \in Nat
    BY FS_CardinalityType DEF IInv, EnvOK, LockInv
  <2>2. \A r \in busy : r \in Late \/ token[r] = key
    BY DEF LockInv, Working, Dispatching, Late
  <2>3. \E e : busy \subseteq Late \cup {e}
    <3>1. CASE \E e \in busy : token[e] = key
      <4>1. PICK e \in busy : token[e] = key
        BY <3>1
      <4>2. \A r \in busy : token[r] # Free
        BY DEF LockInv, Working, Dispatching
      <4> QED BY <2>2, <4>1, <4>2 DEF LockInv, Distinct
    <3>2. CASE ~\E e \in busy : token[e] = key
      BY <2>2, <3>2
    <3> QED BY <3>1, <3>2
  <2>4. IsFiniteSet(busy) /\ Cardinality(busy) <= Cardinality(Late) + 1
    BY <2>1, <2>3, OneMore
  <2>5. Cardinality(busy) \in Nat
    BY <2>4, FS_CardinalityType
  <2> HIDE DEF busy
  <2>6. Cardinality(busy) <= 1 + overruns
    BY <2>1, <2>4, <2>5
  <2> QED BY <2>6 DEF OneDispatcher, busy
<1>2. Spec => []LockInv
  BY InitLockInv, NextLockInv, Inductive, PTL DEF Spec
<1> QED BY <1>1, <1>2, Inductive, PTL

-----------------------------------------------------------------------------
(* PublishedPerCause: what is still allowed to be published of row x is    *)
(* an account.  Enqueue's own publish, every dispatcher that may come to   *)
(* deliver x, and the next one to take the lock each hold one entry; only  *)
(* a crash, an overrun or a fault opens a new one.                         *)

Marking(r, x) == disp[r].pc = "mark" /\ Head(r, x)

MayPublish(r, x) ==
  \/ disp[r].pc \in {"allow", "query"} /\ ~row[x].retired
  \/ x \in disp[r].todo /\ ~Marking(r, x)

Publishers(x) == {r \in Replicas : MayPublish(r, x)}

(* The owner of the lock is going to deliver x or is about to retire it.   *)
Covered(x) == \E r \in Replicas : Lock!Owns(r) /\ (MayPublish(r, x) \/ Marking(r, x))

AtOnce(x) == IF x \in fast \/ ~row[x].queued THEN 1 ELSE 0
NextOwner(x) == IF row[x].retired \/ Covered(x) THEN 0 ELSE 1

Spent(x) == published[x] + AtOnce(x) + NextOwner(x)

Account(x) ==
  /\ IsFiniteSet(Publishers(x))
  /\ Spent(x) + Cardinality(Publishers(x)) <= 2 + Causes

LEMMA SpentType ==
  ASSUME IInv, IInv', NEW x \in Rows
  PROVE  /\ published[x] \in Nat /\ AtOnce(x) \in {0, 1} /\ NextOwner(x) \in {0, 1}
         /\ Spent(x) \in Nat /\ Causes \in Nat
         /\ published'[x] \in Nat /\ AtOnce(x)' \in {0, 1} /\ NextOwner(x)' \in {0, 1}
         /\ Spent(x)' \in Nat /\ Causes' \in Nat
<1>6. /\ overruns \in Nat /\ crashes \in Nat /\ faults \in Nat
      /\ overruns' \in Nat /\ crashes' \in Nat /\ faults' \in Nat
  BY DEF IInv, EnvOK
<1>7. \A a, b, c \in Nat : a + b + c \in Nat
  OBVIOUS
<1>1. Causes \in Nat /\ Causes' \in Nat
  BY <1>6, <1>7, Zenon DEF Causes
<1>4. 0..MaxPublished \subseteq Nat
  OBVIOUS
<1>5. published \in [Rows -> 0..MaxPublished] /\ published' \in [Rows -> 0..MaxPublished]
  BY DEF IInv, RowsOK
<1>3. published[x] \in Nat /\ published'[x] \in Nat
  BY <1>4, <1>5
<1>2. /\ AtOnce(x) \in {0, 1} /\ NextOwner(x) \in {0, 1}
      /\ AtOnce(x)' \in {0, 1} /\ NextOwner(x)' \in {0, 1}
  BY DEF AtOnce, NextOwner
<1> QED BY <1>1, <1>2, <1>3 DEF Spent

(* Three ways to keep the account: nobody joins and what is spent is       *)
(* covered; a publisher leaves and its entry is used; the next owner joins.*)
LEMMA AccountKept ==
  ASSUME IInv, IInv', NEW x \in Rows, Account(x), Publishers(x)' \subseteq Publishers(x),
         Spent(x)' + Causes <= Spent(x) + Causes'
  PROVE  Account(x)'
<1> DEFINE P == Publishers(x)
           n == Cardinality(P)
           m == Cardinality(Publishers(x)')
<1>1. IsFiniteSet(P) /\ n \in Nat /\ Spent(x) + n <= 2 + Causes
  BY FS_CardinalityType DEF Account
<1>2. IsFiniteSet(Publishers(x)') /\ m \in Nat /\ m <= n
  BY <1>1, FS_Subset, FS_CardinalityType
<1>3. /\ Spent(x) \in Nat /\ Causes \in Nat
      /\ Spent(x)' \in Nat /\ Causes' \in Nat
  BY SpentType
<1> HIDE DEF m, n
<1>4. Spent(x)' + m <= 2 + Causes'
  BY <1>1, <1>2, <1>3
<1> QED BY <1>2, <1>4 DEF Account, m

LEMMA AccountLeaves ==
  ASSUME IInv, IInv', NEW x \in Rows, Account(x), NEW r \in Publishers(x),
         Publishers(x)' \subseteq Publishers(x) \ {r},
         Spent(x)' <= Spent(x) + 1, Causes <= Causes'
  PROVE  Account(x)'
<1> DEFINE P == Publishers(x)
           n == Cardinality(P)
           m == Cardinality(Publishers(x)')
<1>1. IsFiniteSet(P) /\ n \in Nat /\ Spent(x) + n <= 2 + Causes
  BY FS_CardinalityType DEF Account
<1>2. IsFiniteSet(Publishers(x)') /\ m \in Nat /\ m + 1 <= n
  BY <1>1, OneLess, FS_CardinalityType
<1>3. /\ Spent(x) \in Nat /\ Causes \in Nat
      /\ Spent(x)' \in Nat /\ Causes' \in Nat
  BY SpentType
<1> HIDE DEF m, n
<1>4. Spent(x)' + m <= 2 + Causes'
  BY <1>1, <1>2, <1>3
<1> QED BY <1>2, <1>4 DEF Account, m

LEMMA AccountJoins ==
  ASSUME IInv, IInv', NEW x \in Rows, Account(x), NEW r,
         Publishers(x)' \subseteq Publishers(x) \cup {r},
         Spent(x)' + 1 <= Spent(x), Causes <= Causes'
  PROVE  Account(x)'
<1> DEFINE P == Publishers(x)
           n == Cardinality(P)
           m == Cardinality(Publishers(x)')
<1>1. IsFiniteSet(P) /\ n \in Nat /\ Spent(x) + n <= 2 + Causes
  BY FS_CardinalityType DEF Account
<1>2. IsFiniteSet(Publishers(x)') /\ m \in Nat /\ m <= n + 1
  BY <1>1, OneMore, FS_CardinalityType
<1>3. /\ Spent(x) \in Nat /\ Causes \in Nat
      /\ Spent(x)' \in Nat /\ Causes' \in Nat
  BY SpentType
<1> HIDE DEF m, n
<1>4. Spent(x)' + m <= 2 + Causes'
  BY <1>1, <1>2, <1>3
<1> QED BY <1>2, <1>4 DEF Account, m

LEMMA CausesGrow ==
  ASSUME EnvOK
  PROVE  /\ UNCHANGED troubles => Causes' = Causes
         /\ \A call : Fault(call) => Causes' = Causes + 1
         /\ Causes \in Nat
BY DEF EnvOK, Causes, troubles, Fault

LEMMA OthersPublish ==
  ASSUME NEW x \in Rows, NEW r \in Replicas,
         \A q \in Replicas : q # r => disp'[q] = disp[q],
         row[x].retired => row'[x].retired, MayPublish(r, x)' => MayPublish(r, x)
  PROVE  Publishers(x)' \subseteq Publishers(x)
<1>1. \A q \in Replicas : q # r => (MayPublish(q, x)' => MayPublish(q, x))
  BY DEF MayPublish, Marking, Head
<1> QED BY <1>1 DEF Publishers

LEMMA HeadIsOne ==
  ASSUME IInv, NEW r \in Replicas, NEW x, NEW y, Head(r, x), Head(r, y)
  PROVE  x = y
<1>1. disp[r].todo \subseteq Nat
  BY OutboxAssumption DEF IInv, DispsOK, DispType
<1> QED BY <1>1 DEF Head

(* One dispatcher moves on without publishing row x.                       *)
LEMMA DispatcherMoves ==
  ASSUME IInv, IInv', NEW x \in Rows, Account(x), NEW r \in Replicas,
         \A q \in Replicas : q # r => disp'[q] = disp[q],
         row[x].retired => row'[x].retired, AtOnce(x)' = AtOnce(x),
         published'[x] = published[x], UNCHANGED <<key, token>>, Causes <= Causes',
         MayPublish(r, x)' => MayPublish(r, x),
         Marking(r, x) => row'[x].retired \/ Marking(r, x)'
  PROVE  Account(x)'
<1>1. \A q \in Replicas : q # r => /\ MayPublish(q, x)' => MayPublish(q, x)
                                   /\ Marking(q, x)' <=> Marking(q, x)
                                   /\ MayPublish(q, x) => row'[x].retired \/ MayPublish(q, x)'
  BY DEF MayPublish, Marking, Head
<1>2. Publishers(x)' \subseteq Publishers(x)
  BY <1>1 DEF Publishers
<1>3. /\ published[x] \in Nat /\ AtOnce(x) \in {0, 1} /\ NextOwner(x) \in {0, 1}
      /\ NextOwner(x)' \in {0, 1} /\ Causes \in Nat /\ Causes' \in Nat
  BY SpentType
<1>4. CASE NextOwner(x)' <= NextOwner(x)
  <2>1. Spent(x)' <= Spent(x) /\ Spent(x) \in Nat /\ Spent(x)' \in Nat
    BY <1>3, <1>4, SpentType DEF Spent
  <2> QED BY <1>2, <1>3, <2>1, AccountKept
<1>5. CASE r \in Publishers(x) /\ ~MayPublish(r, x)'
  <2>1. Spent(x)' <= Spent(x) + 1
    BY <1>3 DEF Spent
  <2>2. Publishers(x)' \subseteq Publishers(x) \ {r}
    BY <1>2, <1>5 DEF Publishers
  <2> QED BY <1>5, <2>1, <2>2, AccountLeaves
<1>6. CASE ~row'[x].retired /\ (MayPublish(r, x) => MayPublish(r, x)')
  <2>1. Covered(x) => Covered(x)'
    BY <1>1, <1>6 DEF Covered, Lock!Owns
  <2> QED BY <1>4, <1>6, <2>1 DEF NextOwner
<1>7. CASE row'[x].retired
  BY <1>3, <1>4, <1>7 DEF NextOwner
<1> QED BY <1>5, <1>6, <1>7 DEF Publishers

(* Nobody who holds or asks for the lock moves.                            *)
LEMMA RowMoves ==
  ASSUME IInv, IInv', NEW x \in Rows, Account(x), row'[x].retired = row[x].retired,
         published'[x] \in Nat, published'[x] + AtOnce(x)' <= published[x] + AtOnce(x),
         UNCHANGED <<disp, key, token>>, Causes' = Causes
  PROVE  Account(x)'
<1>1. \A r \in Replicas : /\ MayPublish(r, x)' <=> MayPublish(r, x)
                          /\ Marking(r, x)' <=> Marking(r, x)
  BY DEF MayPublish, Marking, Head
<1>2. Publishers(x)' \subseteq Publishers(x) /\ (Covered(x)' <=> Covered(x))
  BY <1>1 DEF Publishers, Covered, Lock!Owns
<1>3. NextOwner(x)' = NextOwner(x)
  BY <1>2 DEF NextOwner
<1>4. Spent(x)' <= Spent(x)
  BY <1>3, SpentType DEF Spent
<1> QED BY <1>2, <1>4, SpentType, AccountKept

LEMMA InsertAccount ==
  ASSUME IInv, IInv', NEW x \in Rows, Account(x), NEW y \in Rows, Insert(y)
  PROVE  Account(x)'
<1>1. UNCHANGED <<disp, key, token>> /\ Causes' = Causes
  BY DEF Insert, lockVars, troubles, Causes
<1>2. row \in [Rows -> RowType] /\ published[x] \in Nat
  BY SpentType DEF IInv, RowsOK
<1>3. row'[x].retired = row[x].retired /\ published' = published
  BY <1>2 DEF Insert, RowType
<1>4. AtOnce(x)' = AtOnce(x)
  BY <1>2 DEF Insert, AtOnce, RowType
<1> QED BY <1>1, <1>2, <1>3, <1>4, SpentType, RowMoves

LEMMA EnqueueAccount ==
  ASSUME IInv, IInv', NEW x \in Rows, Account(x), NEW y \in Rows, NEW r \in Replicas,
         FastPublish(r, y)
  PROVE  Account(x)'
<1>1. UNCHANGED <<disp, key, token>> /\ Causes' = Causes
  BY DEF FastPublish, lockVars, troubles, Causes
<1>2. published \in [Rows -> 0..MaxPublished]
      /\ published'[x] \in Nat /\ published[x] \in Nat
  BY SpentType DEF IInv, RowsOK
<1>3. row' = row /\ row[y].queued /\ y \in fast /\ fast' = fast \ {y}
  BY DEF FastPublish, IInv, RowsOK, FastInv
<1>4. CASE x = y
  <2>1. AtOnce(x) = 1 /\ AtOnce(x)' = 0
    BY <1>3, <1>4 DEF AtOnce
  <2>2. published'[x] <= published[x] + 1
    BY <1>2, <1>4, OutboxAssumption DEF FastPublish, Publish, UpTo
  <2> QED BY <1>1, <1>2, <1>3, <2>1, <2>2, RowMoves
<1>5. CASE x # y
  <2>1. AtOnce(x)' = AtOnce(x) /\ published'[x] = published[x]
    BY <1>2, <1>3, <1>5 DEF AtOnce, FastPublish, Publish
  <2> QED BY <1>1, <1>2, <1>3, <2>1, SpentType, RowMoves
<1> QED BY <1>4, <1>5

LEMMA AcquireAccount ==
  ASSUME IInv, IInv', NEW x \in Rows, Account(x), NEW r \in Replicas, Acquire(r)
  PROVE  Account(x)'
<1>1. /\ disp \in [Replicas -> DispType] /\ token \in [Replicas -> Tokens \cup {Free}]
      /\ UNCHANGED <<row, published, fast>> /\ Causes' = Causes
  BY DEF IInv, DispsOK, EnvOK, Lock!TypeOK, Acquire, troubles, Causes
<1>2. disp'[r] = [disp[r] EXCEPT !.pc = "allow"] /\ disp[r].pc = "idle"
      /\ \A q \in Replicas : q # r => disp'[q] = disp[q]
  BY <1>1 DEF Acquire, Go
<1>3. disp'[r].pc = "allow" /\ disp'[r].todo = disp[r].todo
  BY <1>1, <1>2 DEF DispType
<1>4. \A q \in Replicas : q # r => (MayPublish(q, x)' <=> MayPublish(q, x))
  BY <1>1, <1>2 DEF MayPublish, Marking, Head
<1>5. MayPublish(r, x)' <=> MayPublish(r, x) \/ ~row[x].retired
  BY <1>1, <1>2, <1>3 DEF MayPublish, Marking
<1>6. AtOnce(x)' = AtOnce(x)
  BY <1>1 DEF AtOnce
<1>7. CASE row[x].retired
  <2>1. NextOwner(x)' = NextOwner(x) /\ Publishers(x)' \subseteq Publishers(x)
    BY <1>1, <1>4, <1>5, <1>7 DEF NextOwner, Publishers
  <2> QED BY <1>1, <1>6, <2>1, SpentType, AccountKept DEF Spent
<1>8. CASE ~row[x].retired
  <2>1. ~Covered(x)
    BY DEF Acquire, Lock!TryAcquire, Covered, Lock!Owns
  <2>2. Lock!Owns(r)'
    BY <1>1, OutboxAssumption DEF Acquire, Lock!TryAcquire, Lock!Fresh, Lock!Owns
  <2>3. NextOwner(x) = 1 /\ NextOwner(x)' = 0
    BY <1>1, <1>5, <1>8, <2>1, <2>2 DEF NextOwner, Covered
  <2>4. Publishers(x)' \subseteq Publishers(x) \cup {r}
    BY <1>4 DEF Publishers
  <2> QED BY <1>1, <1>6, <2>3, <2>4, SpentType, AccountJoins DEF Spent
<1> QED BY <1>7, <1>8

LEMMA BatchAccount ==
  ASSUME IInv, IInv', NEW x \in Rows, Account(x), NEW r \in Replicas, AskBreaker(r) \/ Query(r)
  PROVE  Account(x)'
<1> DEFINE D == disp[r]
           new == [pc |-> IF Batch = {} THEN "release" ELSE "deliver",
                   todo |-> Batch, snap |-> [y \in Rows |-> row[y].attempts]]
<1>1. /\ D \in DispType /\ D.pc \in {"allow", "query"}
      /\ disp \in [Replicas -> DispType]
      /\ UNCHANGED <<row, published, fast, key, token>>
  BY DEF IInv, DispsOK, AskBreaker, Query, lockVars
<1>2. \/ \E pc \in {"query", "release"} : disp' = [disp EXCEPT ![r] = [D EXCEPT !.pc = pc]]
      \/ D.pc = "query" /\ disp' = [disp EXCEPT ![r] = new]
  BY <1>1 DEF AskBreaker, Query, Go
<1>3. \A q \in Replicas : q # r => disp'[q] = disp[q]
  BY <1>1, <1>2
<1>4. AtOnce(x)' = AtOnce(x)
  BY <1>1 DEF AtOnce
<1>5. MayPublish(r, x)' => MayPublish(r, x)
  <2>1. ASSUME NEW pc \in {"query", "release"}, disp' = [disp EXCEPT ![r] = [D EXCEPT !.pc = pc]]
        PROVE  MayPublish(r, x)' => MayPublish(r, x)
    <3>1. disp'[r].todo = D.todo /\ disp'[r].pc = pc
      BY <1>1, <2>1 DEF DispType
    <3> QED BY <1>1, <3>1 DEF MayPublish, Marking
  <2>2. ASSUME D.pc = "query", disp' = [disp EXCEPT ![r] = new]
        PROVE  MayPublish(r, x)' => MayPublish(r, x)
    <3>1. disp'[r].todo = Batch /\ disp'[r].pc \in {"release", "deliver"}
      BY <1>1, <2>2
    <3>2. x \in Batch => ~row[x].retired
      BY DEF Batch, Pending
    <3> QED BY <2>2, <3>1, <3>2 DEF MayPublish
  <2> QED BY <1>2, <2>1, <2>2
<1>6. ~Marking(r, x)
  BY <1>1 DEF Marking
<1>7. Causes <= Causes'
  <2>1. UNCHANGED troubles \/ Fault("query")
    BY DEF AskBreaker, Query
  <2> QED BY <2>1, CausesGrow DEF IInv
<1> QED BY <1>1, <1>3, <1>4, <1>5, <1>6, <1>7, DispatcherMoves

(* A delivery uses the dispatcher's entry, anything else on a row at most  *)
(* gives it back; a row that was delivered is retired.                     *)
LEMMA DeliverAccount ==
  ASSUME IInv, IInv', NEW x \in Rows, Account(x), NEW r \in Replicas, NEW y \in Rows,
         DeliverOk(r, y)
  PROVE  Account(x)'
<1> DEFINE D == disp[r]
<1>1. /\ D \in DispType /\ D.pc = "deliver" /\ Head(r, y)
      /\ disp \in [Replicas -> DispType] /\ published \in [Rows -> 0..MaxPublished]
      /\ UNCHANGED <<row, fast, key, token>> /\ Causes \in Nat /\ Causes' = Causes
  BY SpentType DEF IInv, DispsOK, RowsOK, DeliverOk, lockVars, troubles, Causes
<1>2. disp'[r].pc = "mark" /\ disp'[r].todo = D.todo
      /\ \A q \in Replicas : q # r => disp'[q] = disp[q]
  BY <1>1 DEF DeliverOk, Go, DispType
<1>3. AtOnce(x)' = AtOnce(x)
  BY <1>1 DEF AtOnce
<1>4. \A z : Head(r, z)' <=> Head(r, z)
  BY <1>2 DEF Head
<1>5. CASE x # y
  <2>1. published'[x] = published[x]
    BY <1>1, <1>5 DEF DeliverOk, Publish
  <2>2. MayPublish(r, x)' => MayPublish(r, x)
    BY <1>1, <1>2 DEF MayPublish, Marking
  <2> QED BY <1>1, <1>2, <1>3, <2>1, <2>2, DispatcherMoves DEF Marking
<1>6. CASE x = y
  <2>1. MayPublish(r, x) /\ Marking(r, x)' /\ ~MayPublish(r, x)'
    BY <1>1, <1>2, <1>4, <1>6 DEF MayPublish, Marking, Head
  <2>2. \A q \in Replicas : q # r => /\ MayPublish(q, x)' <=> MayPublish(q, x)
                                     /\ Marking(q, x)' <=> Marking(q, x)
    BY <1>1, <1>2 DEF MayPublish, Marking, Head
  <2>3. Publishers(x)' \subseteq Publishers(x) \ {r} /\ r \in Publishers(x)
    BY <2>1, <2>2 DEF Publishers
  <2>4. Covered(x) => Covered(x)'
    BY <1>1, <2>1, <2>2 DEF Covered, Lock!Owns
  <2>5. NextOwner(x)' <= NextOwner(x)
    BY <1>1, <2>4 DEF NextOwner
  <2>6. published'[x] <= published[x] + 1
    BY <1>1, <1>6, OutboxAssumption DEF DeliverOk, Publish, UpTo
  <2>7. Spent(x)' <= Spent(x) + 1
    BY <1>3, <2>5, <2>6, SpentType DEF Spent
  <2> QED BY <1>1, <2>3, <2>7, AccountLeaves
<1> QED BY <1>5, <1>6

(* A marking that fails leaves the row to the next owner.                  *)
LEMMA SettleAccount ==
  ASSUME IInv, IInv', NEW x \in Rows, Account(x), NEW r \in Replicas, NEW y \in Rows,
         DeliverErr(r, y) \/ MarkPublished(r, y) \/ RecordFailure(r, y) \/ DeadLetter(r, y)
  PROVE  Account(x)'
<1> DEFINE D == disp[r]
<1>1. /\ D \in DispType /\ Head(r, y) /\ disp \in [Replicas -> DispType]
      /\ row \in [Rows -> RowType]
      /\ UNCHANGED <<published, fast, key, token>>
  BY DEF IInv, DispsOK, RowsOK, DeliverErr, MarkPublished, RecordFailure, DeadLetter,
         lockVars
<1>2. (\E pc \in {"record", "dead"} : Go(r, pc)) \/ Continue(r, y)
  BY DEF DeliverErr, MarkPublished, RecordFailure, DeadLetter
<1>3. /\ disp'[r].todo = D.todo \/ disp'[r].todo = D.todo \ {y}
      /\ disp'[r].pc \in {"record", "dead", "release", "deliver"}
      /\ \A q \in Replicas : q # r => disp'[q] = disp[q]
  BY <1>1, <1>2 DEF Go, Continue, DispType
<1>4. /\ row[x].retired => row'[x].retired
      /\ row'[x].queued = row[x].queued
  BY <1>1 DEF DeliverErr, MarkPublished, RecordFailure, DeadLetter, RowType
<1>5. AtOnce(x)' = AtOnce(x)
  BY <1>1, <1>4 DEF AtOnce
<1>6. MarkPublished(r, y) => D.pc = "mark" /\ Continue(r, y)
  BY DEF MarkPublished
<1>7. MayPublish(r, x)' => MayPublish(r, x)
  <2>1. CASE ~MarkPublished(r, y)
    <3>1. D.pc # "mark"
      BY <2>1 DEF DeliverErr, RecordFailure, DeadLetter
    <3> QED BY <1>1, <1>3, <3>1 DEF MayPublish, Marking
  <2>2. CASE MarkPublished(r, y)
    <3>1. disp'[r].todo = D.todo \ {y}
      BY <1>1, <1>6, <2>2 DEF Continue, DispType
    <3>2. Marking(r, x) => x = y
      BY <1>1, HeadIsOne DEF Marking
    <3> QED BY <1>3, <3>1, <3>2 DEF MayPublish
  <2> QED BY <2>1, <2>2
<1>8. Marking(r, x) => x = y /\ MarkPublished(r, y)
  BY <1>1, HeadIsOne DEF Marking, DeliverErr, RecordFailure, DeadLetter
<1>9. CASE Marking(r, x) => row'[x].retired
  <2>1. UNCHANGED troubles \/ Fault("mark") \/ Fault("record")
    BY DEF DeliverErr, MarkPublished, RecordFailure, DeadLetter
  <2>2. Causes <= Causes'
    BY <2>1, CausesGrow DEF IInv
  <2> QED BY <1>1, <1>3, <1>4, <1>5, <1>7, <1>9, <2>2, DispatcherMoves
<1>10. CASE Marking(r, x) /\ ~row'[x].retired
  <2>1. Fault("mark")
    BY <1>1, <1>8, <1>10 DEF MarkPublished, RowType
  <2>2. Causes' = Causes + 1
    BY <2>1, CausesGrow DEF IInv
  <2>3. Publishers(x)' \subseteq Publishers(x)
    BY <1>1, <1>3, <1>4, <1>7, OthersPublish
  <2>4. Spent(x)' <= Spent(x) + 1
    BY <1>1, <1>5, SpentType DEF Spent
  <2> QED BY <2>2, <2>3, <2>4, SpentType, AccountKept
<1> QED BY <1>9, <1>10

(* Who releases the lock will not publish; its successor may.              *)
LEMMA ReleaseAccount ==
  ASSUME IInv, IInv', Distinct, NEW x \in Rows, Account(x), NEW r \in Replicas, ReleaseLock(r)
  PROVE  Account(x)'
<1>1. /\ disp \in [Replicas -> DispType] /\ token \in [Replicas -> Tokens \cup {Free}]
      /\ UNCHANGED <<row, published, fast>> /\ Causes' = Causes
  BY DEF IInv, DispsOK, EnvOK, Lock!TypeOK, ReleaseLock, troubles, Causes
<1>2. disp[r].pc = "release" /\ disp'[r].pc = "idle" /\ disp'[r].todo = {}
      /\ \A q \in Replicas : q # r => disp'[q] = disp[q]
  BY <1>1 DEF ReleaseLock, IdleDisp
<1>3. /\ ~MayPublish(r, x)' /\ ~Marking(r, x)
      /\ \A q \in Replicas : q # r => /\ MayPublish(q, x)' <=> MayPublish(q, x)
                                      /\ Marking(q, x)' <=> Marking(q, x)
  BY <1>1, <1>2 DEF MayPublish, Marking, Head
<1>4. AtOnce(x)' = AtOnce(x)
  BY <1>1 DEF AtOnce
<1>5. CASE r \in Publishers(x)
  <2>1. Publishers(x)' \subseteq Publishers(x) \ {r}
    BY <1>3 DEF Publishers
  <2>2. Spent(x)' <= Spent(x) + 1
    BY <1>1, <1>4, SpentType DEF Spent
  <2> QED BY <1>1, <1>5, <2>1, <2>2, SpentType, AccountLeaves
<1>6. CASE r \notin Publishers(x)
  <2>1. \A q \in Replicas : q # r => (Lock!Owns(q) => Lock!Owns(q)')
    BY <1>1 DEF ReleaseLock, Lock!Release, Lock!Owns, Distinct
  <2>2. Covered(x) => Covered(x)'
    BY <1>3, <1>6, <2>1 DEF Covered, Publishers
  <2>3. NextOwner(x)' <= NextOwner(x)
    BY <1>1, <2>2 DEF NextOwner
  <2>4. Publishers(x)' \subseteq Publishers(x)
    BY <1>3 DEF Publishers
  <2> QED BY <1>1, <1>4, <2>3, <2>4, SpentType, AccountKept DEF Spent
<1> QED BY <1>5, <1>6

LEMMA CrashAccount ==
  ASSUME IInv, IInv', NEW x \in Rows, Account(x), NEW r \in Replicas, Crash(r)
  PROVE  Account(x)'
<1>1. /\ disp \in [Replicas -> DispType]
      /\ UNCHANGED <<row, published, fast>> /\ Causes' = Causes + 1
  BY DEF IInv, DispsOK, EnvOK, Crash, Causes
<1>2. disp'[r].pc = "idle" /\ disp'[r].todo = {}
      /\ \A q \in Replicas : q # r => disp'[q] = disp[q]
  BY <1>1 DEF Crash, IdleDisp
<1>3. Publishers(x)' \subseteq Publishers(x)
  BY <1>1, <1>2 DEF Publishers, MayPublish, Marking, Head
<1>4. AtOnce(x)' = AtOnce(x)
  BY <1>1 DEF AtOnce
<1>5. Spent(x)' <= Spent(x) + 1
  BY <1>1, <1>4, SpentType DEF Spent
<1> QED BY <1>1, <1>3, <1>5, SpentType, AccountKept

LEMMA ExpiryAccount ==
  ASSUME IInv, IInv', NEW x \in Rows, Account(x), LockExpiry
  PROVE  Account(x)'
<1>1. UNCHANGED <<row, published, fast, disp, crashes, faults>>
  BY DEF LockExpiry
<1>2. Publishers(x)' \subseteq Publishers(x) /\ AtOnce(x)' = AtOnce(x)
  BY <1>1 DEF Publishers, MayPublish, Marking, Head, AtOnce
<1>3. CASE overruns' = overruns + 1
  <2>1. Spent(x)' <= Spent(x) + 1
    BY <1>1, <1>2, SpentType DEF Spent
  <2>2. Causes' = Causes + 1
    BY <1>1, <1>3 DEF IInv, EnvOK, Causes
  <2> QED BY <1>2, <2>1, <2>2, SpentType, AccountKept
<1>4. CASE (\A r \in Replicas : ~Lock!Owns(r)) /\ UNCHANGED overruns
  <2>1. NextOwner(x)' <= NextOwner(x)
    BY <1>1, <1>4 DEF NextOwner, Covered
  <2>2. Causes' = Causes
    BY <1>1, <1>4 DEF Causes
  <2> QED BY <1>1, <1>2, <2>1, <2>2, SpentType, AccountKept DEF Spent
<1> QED BY <1>3, <1>4 DEF LockExpiry

LEMMA NextAccount ==
  ASSUME IInv, IInv', Distinct, [Next]_vars, NEW x \in Rows, Account(x)
  PROVE  Account(x)'
<1>0. CASE \E y \in Rows : Insert(y)
  BY <1>0, InsertAccount
<1>1. CASE \E y \in Rows, r \in Replicas : FastPublish(r, y)
  BY <1>1, EnqueueAccount
<1>2. ASSUME NEW r \in Replicas, Dispatch(r) PROVE Account(x)'
  <2>1. CASE Acquire(r) \/ AskBreaker(r) \/ Query(r) \/ ReleaseLock(r)
    BY <2>1, AcquireAccount, BatchAccount, ReleaseAccount
  <2>2. ASSUME NEW y \in Rows, OnRow(r, y) PROVE Account(x)'
    BY <2>2, DeliverAccount, SettleAccount DEF OnRow
  <2> QED BY <1>2, <2>1, <2>2 DEF Dispatch
<1>3. CASE \E r \in Replicas : Crash(r)
  BY <1>3, CrashAccount
<1>4. CASE LockExpiry
  BY <1>4, ExpiryAccount
<1>5. CASE \/ UNCHANGED vars
           \/ \E r \in Replicas : \/ CoolDown(r) \/ Disconnect(r)
                                  \/ Reconnect(r) \/ GiveUp(r)
  <2>1. UNCHANGED <<row, published, fast, disp, key, token>> /\ Causes' = Causes
    BY <1>5 DEF CoolDown, Disconnect, Reconnect, GiveUp, vars, lockVars, troubles, Causes
  <2>2. AtOnce(x)' = AtOnce(x)
    BY <2>1 DEF AtOnce
  <2> QED BY <2>1, <2>2, SpentType, RowMoves
<1> QED BY <1>0, <1>1, <1>2, <1>3, <1>4, <1>5 DEF Next

(* A client accepts an event twice at most, once from Enqueue and once from *)
(* the dispatcher, and once more for every crash, every database error and *)
(* every batch that outlasted the lock (dispatchBatch, markPublished,      *)
(* WithLock).                                                              *)
THEOREM PublicationsArePaidFor == Spec => []PublishedPerCause
<1> DEFINE Accounts == \A x \in Rows : Account(x)
<1>1. Init => Accounts
  <2> SUFFICES ASSUME Init, NEW x \in Rows PROVE Account(x)
    OBVIOUS
  <2>1. Publishers(x) = {}
    BY DEF Init, Publishers, MayPublish, IdleDisp
  <2>2. published[x] = 0 /\ AtOnce(x) \in {0, 1} /\ NextOwner(x) \in {0, 1}
        /\ Causes = 0
    BY DEF Init, AtOnce, NextOwner, Causes
  <2>3. Spent(x) <= 2 /\ Spent(x) \in Nat
    BY <2>2 DEF Spent
  <2> QED BY <2>1, <2>2, <2>3, FS_EmptySet DEF Account
<1>3. IInv /\ IInv' /\ LockInv /\ Accounts /\ [Next]_vars => Accounts'
  BY NextAccount DEF LockInv
<1>4. IInv /\ Accounts => PublishedPerCause
  <2> SUFFICES ASSUME IInv, NEW x \in Rows, Account(x)
               PROVE  published[x] <= 2 + Causes
    BY DEF PublishedPerCause
  <2>1. published[x] \in Nat /\ Causes \in Nat
    BY OutboxAssumption DEF IInv, RowsOK, EnvOK, Causes
  <2>2. AtOnce(x) \in {0, 1} /\ NextOwner(x) \in {0, 1} /\ Cardinality(Publishers(x)) \in Nat
    BY FS_CardinalityType DEF AtOnce, NextOwner, Account
  <2> QED BY <2>1, <2>2 DEF Account, Spent
<1>5. Spec => []LockInv
  BY InitLockInv, NextLockInv, Inductive, PTL DEF Spec
<1> QED BY <1>1, <1>3, <1>4, <1>5, Inductive, PTL DEF Spec
=============================================================================

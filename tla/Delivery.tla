------------------------------- MODULE Delivery -------------------------------
(***************************************************************************)
(* What the outbox keeps for its events (backend/internal/outbox/          *)
(* outbox.go): a queued event is retired only after a bus client accepted  *)
(* it, or after MaxAttempts failed deliveries; a retired event stays       *)
(* retired, and only what was accepted is delivered.  What was accepted    *)
(* may be lost on the way: nothing acknowledges it.                        *)
(***************************************************************************)
EXTENDS Naturals

CONSTANTS Rows, MaxAttempts

VARIABLES
  status,     \* row -> new, queued or retired
  accepted,   \* rows that a bus client took at least once
  delivered,  \* rows that reached the broker at least once
  fails       \* row -> failed deliveries, counted up to MaxAttempts

vars == <<status, accepted, delivered, fails>>

Init ==
  /\ status = [x \in Rows |-> "new"]
  /\ accepted = {}
  /\ delivered = {}
  /\ fails = [x \in Rows |-> 0]

Queue(x) ==
  /\ status[x] = "new"
  /\ status' = [status EXCEPT ![x] = "queued"]
  /\ UNCHANGED <<accepted, delivered, fails>>

(* An event may be sent again, even after its retirement. *)
Send(x) ==
  /\ status[x] # "new"
  /\ accepted' = accepted \cup {x}
  /\ delivered' \in {delivered, delivered \cup {x}}
  /\ UNCHANGED <<status, fails>>

(* What was held back is delivered, or some of it. *)
Deliver(S) ==
  /\ delivered' = delivered \cup S
  /\ UNCHANGED <<status, accepted, fails>>

Fail(x) ==
  /\ status[x] # "new"
  /\ fails' = [fails EXCEPT ![x] = IF @ < MaxAttempts THEN @ + 1 ELSE @]
  /\ UNCHANGED <<status, accepted, delivered>>

Retire(x) ==
  /\ status[x] = "queued"
  /\ x \in accepted \/ fails[x] >= MaxAttempts
  /\ status' = [status EXCEPT ![x] = "retired"]
  /\ UNCHANGED <<accepted, delivered, fails>>

Next ==
  \/ \E x \in Rows : Queue(x) \/ Send(x) \/ Fail(x) \/ Retire(x)
  \/ \E S \in SUBSET accepted : Deliver(S)

Spec == Init /\ [][Next]_vars
=============================================================================

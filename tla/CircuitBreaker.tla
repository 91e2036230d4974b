---------------------------- MODULE CircuitBreaker ----------------------------
(***************************************************************************)
(* The circuit breaker of backend/internal/resilience/resilience.go as     *)
(* operators on its record; each runs under the breaker's mutex.           *)
(* cooled stands for "Cooldown has passed since openedAt".                 *)
(***************************************************************************)
EXTENDS Naturals

CONSTANT Threshold   \* FailureThreshold

ASSUME ThresholdAssumption == Threshold \in Nat \ {0}

Breaker == [state : {"closed", "open", "half_open"}, failures : Nat,
            cooled : BOOLEAN]

NewBreaker == [state |-> "closed", failures |-> 0, cooled |-> FALSE]

(* transition: opening restarts the cooldown. *)
Transition(b, to) ==
  [b EXCEPT !.state = to, !.cooled = FALSE]

(* Allow admits every call but those of an open breaker that still cools.  *)
Admits(b) == b.state # "open" \/ b.cooled

AfterAllow(b) ==
  IF b.state = "open" /\ b.cooled THEN Transition(b, "half_open") ELSE b

(* Mutants of AfterSuccess: the count is kept; every success closes.       *)
AfterSuccessKeeps(b) ==
  IF b.state = "half_open" THEN Transition(b, "closed") ELSE b

AfterSuccessCloses(b) == [Transition(b, "closed") EXCEPT !.failures = 0]

(* Success resets the count in every state but closes only from half-open. *)
AfterSuccess(b) ==
  [(IF b.state = "half_open" THEN Transition(b, "closed") ELSE b)
     EXCEPT !.failures = 0]

(* Failure counts in every state; it opens from half-open at once, from    *)
(* closed at the threshold.  The count stops here at the threshold: Failure *)
(* is the only reader and compares with >=.                                *)
AfterFailure(b) ==
  LET n == IF b.failures < Threshold THEN b.failures + 1 ELSE b.failures
      c == [b EXCEPT !.failures = n]
  IN IF b.state = "half_open" \/ (b.state = "closed" /\ n >= Threshold)
     THEN Transition(c, "open") ELSE c

Cools(b) == b.state = "open" /\ ~b.cooled
=============================================================================

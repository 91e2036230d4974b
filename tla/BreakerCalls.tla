----------------------------- MODULE BreakerCalls -----------------------------
(***************************************************************************)
(* Concurrent callers of CircuitBreaker.Execute (resilience.go): each asks *)
(* Allow, runs its call without holding the mutex, and reports the result  *)
(* to whatever state the breaker has reached by then.                      *)
(***************************************************************************)
EXTENDS CircuitBreaker, FiniteSets

CONSTANT Callers

VARIABLES
  breaker,   \* the CircuitBreaker
  calling    \* callers between Allow and Success or Failure

callsVars == <<breaker, calling>>

CallsInit == breaker = NewBreaker /\ calling = {}

(* Execute up to the call; a refused caller returns ErrOpen. *)
Begin(c) ==
  /\ c \notin calling
  /\ Admits(breaker)
  /\ breaker' = AfterAllow(breaker)
  /\ calling' = calling \cup {c}

Succeed(c) ==
  /\ c \in calling
  /\ breaker' = AfterSuccess(breaker)
  /\ calling' = calling \ {c}

Fail(c) ==
  /\ c \in calling
  /\ breaker' = AfterFailure(breaker)
  /\ calling' = calling \ {c}

CoolDown ==
  /\ Cools(breaker)
  /\ breaker' = [breaker EXCEPT !.cooled = TRUE]
  /\ UNCHANGED calling

CallsNext == CoolDown \/ \E c \in Callers : Begin(c) \/ Succeed(c) \/ Fail(c)

CallsSpec == CallsInit /\ [][CallsNext]_callsVars

-----------------------------------------------------------------------------
(* Properties *)

CallsTypeOK == breaker \in Breaker /\ calling \subseteq Callers

(* A closed breaker has seen fewer than Threshold failures since the last  *)
(* success, whatever results of older calls came in while it was open or   *)
(* half-open: it never stays closed over the threshold, and closing leaves *)
(* no old failures behind (Success, Failure).                              *)
ClosedBelowThreshold == breaker.state = "closed" => breaker.failures < Threshold

(* An open breaker opens the way only to a probe and only after its        *)
(* cooldown: no late result of an older call closes it (Allow, Success).   *)
OpenUntilCooled ==
  [][breaker.state = "open" /\ breaker'.state # "open"
       => breaker.cooled /\ breaker'.state = "half_open"]_callsVars

-----------------------------------------------------------------------------
(* What a comment of the code claims and the code does not keep *)

(* The breaker probes "with a single trial call" while half-open.          *)
SingleTrial == breaker.state = "half_open" => Cardinality(calling) <= 1
=============================================================================

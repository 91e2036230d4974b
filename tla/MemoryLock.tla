------------------------------ MODULE MemoryLock ------------------------------
(***************************************************************************)
(* The in-process lock of backend/internal/lock/lock.go on one key.  An    *)
(* expired entry stays in the maps until somebody reclaims or releases it, *)
(* where Redis drops the key; behind the interface both are DistLock.      *)
(***************************************************************************)
EXTENDS Naturals, FiniteSets

CONSTANTS Clients, Tokens, Free

ASSUME FreeAssumption ==
  Free \notin Tokens /\ Free \notin [token : Tokens, expired : BOOLEAN]

VARIABLES
  held,     \* held and expiry: [token, expired], or Free without an entry
  token    \* client -> token WithLock holds, or Free

lockVars == <<held, token>>

LockInit ==
  /\ held = Free
  /\ token = [c \in Clients |-> Free]

(* randomToken: never a token still around. *)
Fresh == {t \in Tokens : /\ held # Free => held.token # t
                        /\ \A c \in Clients : token[c] # t}

(* A live entry is ErrLocked; an expired one is replaced. *)
TryAcquire(c) ==
  /\ token[c] = Free
  /\ held # Free => held.expired
  /\ \E t \in Fresh :
       /\ held' = [token |-> t, expired |-> FALSE]
       /\ token' = [token EXCEPT ![c] = t]

(* Mutant of Release: delete without compare. *)
ReleaseBlindly(c) ==
  /\ token[c] # Free
  /\ held' = Free
  /\ token' = [token EXCEPT ![c] = Free]

(* Release looks at the token only, not at the expiry. *)
Release(c) ==
  /\ token[c] # Free
  /\ held' = IF held # Free /\ held.token = token[c] THEN Free ELSE held
  /\ token' = [token EXCEPT ![c] = Free]

(* Now passes the entry's expiry. *)
Expire ==
  /\ held # Free /\ ~held.expired
  /\ held' = [held EXCEPT !.expired = TRUE]
  /\ UNCHANGED token

LockNext == Expire \/ \E c \in Clients : TryAcquire(c) \/ Release(c)

LockSpec == LockInit /\ [][LockNext]_lockVars

-----------------------------------------------------------------------------
(* Properties *)

LockTypeOK ==
  /\ held \in [token : Tokens, expired : BOOLEAN] \cup {Free}
  /\ token \in [Clients -> Tokens \cup {Free}]

Redis == INSTANCE DistLock WITH
  key <- IF held = Free \/ held.expired THEN Free ELSE held.token

(* The in-process lock implements the distributed one: reclaiming lazily   *)
(* is indistinguishable from Redis dropping the key at the TTL.            *)
ImplementsDistLock == Redis!Spec
=============================================================================

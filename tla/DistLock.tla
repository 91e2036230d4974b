------------------------------- MODULE DistLock -------------------------------
(***************************************************************************)
(* The distributed lock of backend/internal/lock/lock.go on one key: SET   *)
(* NX with a TTL to acquire, compare-and-delete to release.  Each Redis    *)
(* command is atomic.  The holder's function may outlive the TTL, and a    *)
(* holder may die without releasing.                                       *)
(***************************************************************************)
EXTENDS Naturals, FiniteSets

CONSTANTS
  Clients,   \* processes that call WithLock
  Tokens,    \* values of randomToken
  Free       \* no value under the lock key; no token held

VARIABLES
  key,     \* token stored under the lock key, or Free
  token     \* client -> token WithLock holds, or Free

vars == <<key, token>>

Init ==
  /\ key = Free
  /\ token = [c \in Clients |-> Free]

(* randomToken: 128 random bits never repeat a token still around. *)
Fresh == {t \in Tokens : t # key /\ \A c \in Clients : token[c] # t}

(* Mutant of TryAcquire: SET without NX. *)
TryAcquireAlways(c) ==
  /\ token[c] = Free
  /\ \E t \in Fresh :
       /\ key' = t
       /\ token' = [token EXCEPT ![c] = t]

(* TryAcquire; a taken key is ErrLocked and changes nothing. *)
TryAcquire(c) ==
  /\ token[c] = Free
  /\ key = Free
  /\ \E t \in Fresh :
       /\ key' = t
       /\ token' = [token EXCEPT ![c] = t]

(* Mutant of Release: delete without compare. *)
ReleaseBlindly(c) ==
  /\ token[c] # Free
  /\ key' = Free
  /\ token' = [token EXCEPT ![c] = Free]

(* Release deletes the key only if it still holds our token. *)
Release(c) ==
  /\ token[c] # Free
  /\ key' = IF key = token[c] THEN Free ELSE key
  /\ token' = [token EXCEPT ![c] = Free]

(* The TTL passes, whether or not the holder is still at work. *)
Expire ==
  /\ key # Free
  /\ key' = Free
  /\ UNCHANGED token

(* The holder's process dies: Release is never called. *)
Die(c) ==
  /\ token[c] # Free
  /\ token' = [token EXCEPT ![c] = Free]
  /\ UNCHANGED key

Next == Expire \/ \E c \in Clients : TryAcquire(c) \/ Release(c) \/ Die(c)

Spec == Init /\ [][Next]_vars

-----------------------------------------------------------------------------
(* Properties *)

TypeOK ==
  /\ key \in Tokens \cup {Free}
  /\ token \in [Clients -> Tokens \cup {Free}]

(* A client owns the lock while the key holds its token. *)
Owns(c) == key # Free /\ token[c] = key

(* At most one client owns the lock, through any sequence of expiries,     *)
(* re-acquisitions and late releases.                                      *)
OneOwner == \A c, d \in Clients : Owns(c) /\ Owns(d) => c = d

(* Only its own release or the expiry of its TTL ends a client's ownership:*)
(* the late Release of an expired holder does not free its successor's     *)
(* lock ("prevents releasing someone else's lock").                        *)
OwnershipIsSafe ==
  [][\A c \in Clients : Owns(c) /\ ~Owns(c)' =>
       Expire \/ token'[c] = Free]_vars
=============================================================================

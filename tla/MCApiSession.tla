---------------------------- MODULE MCApiSession ----------------------------
(* Two users; the first signs in up to twice. *)
EXTENDS ApiSession, TLC

CONSTANTS alice, bob, a1, a2, b1

MCOwner == (a1 :> alice) @@ (a2 :> alice) @@ (b1 :> bob)
=============================================================================

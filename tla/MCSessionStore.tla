---------------------------- MODULE MCSessionStore ----------------------------
(***************************************************************************)
(* SessionStore for TLC: two sessions of one user, two threads.  All kinds *)
(* of requests come for one session; the other is made and deleted beside  *)
(* it, which changes the index that they share.                            *)
(***************************************************************************)
EXTENDS SessionStore, TLC

CONSTANTS a, b

MCSessions == {a, b}
MCAsked == (a :> Kinds) @@ (b :> {"create", "delete"})

Symmetry == Permutations(Requests)

=============================================================================

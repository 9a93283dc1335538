------------------------------ MODULE MCChatPage ------------------------------
(***************************************************************************)
(* ChatPage for TLC.                                                       *)
(***************************************************************************)
EXTENDS ChatPage, TLC

Symmetry == Permutations(Sessions) \cup Permutations(Calls)

=============================================================================

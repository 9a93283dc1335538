----------------------------- MODULE MCTaskTracking -----------------------------
(***************************************************************************)
(* TaskTracking for TLC.                                                   *)
(***************************************************************************)
EXTENDS TaskTracking, TLC

Symmetry == Permutations(Tasks) \cup Permutations(Repeats) \cup Permutations(Streams) \cup Permutations(Viewers \ Streams)

=============================================================================

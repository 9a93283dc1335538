---------------------------- MODULE MCSnapshotSync ----------------------------
(***************************************************************************)
(* SnapshotSync for TLC.                                                   *)
(***************************************************************************)
EXTENDS SnapshotSync, TLC

Symmetry == Permutations(Workers)

=============================================================================

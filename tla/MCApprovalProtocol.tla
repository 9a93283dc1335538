-------------------------- MODULE MCApprovalProtocol --------------------------
(***************************************************************************)
(* ApprovalProtocol for TLC.  Requests are interchangeable, and approvals  *)
(* too when none or all of their calls are streamed.                       *)
(***************************************************************************)
EXTENDS ApprovalProtocol, TLC

Symmetry == Permutations(Requests) \cup Permutations(Approvals)

=============================================================================

--------------------------- MODULE ApprovalLiveness ---------------------------
(***************************************************************************)
(* What the approval protocol does in the end.                             *)
(*                                                                         *)
(* ApprovalProtocol with fairness.  Its Crash is, as a relation between    *)
(* states, also what the only request does when it answers, so "no crash   *)
(* any more" cannot be said of its variables: calm says it.  Until it is   *)
(* set every step of the protocol may happen, crashes included.            *)
(***************************************************************************)
EXTENDS ApprovalProtocol

VARIABLE calm   \* the process does not crash any more

fairVars == <<vars, calm>>

FairInit == Init /\ calm = FALSE

CalmDown == ~calm /\ calm' = TRUE /\ UNCHANGED vars

Work ==
    \/ \E r \in Requests : Arrive(r) \/ Serve(r)
    \/ \E a \in Approvals : TtlElapses(a)

FairNext ==
    \/ Work /\ UNCHANGED calm
    \/ ~calm /\ Crash /\ UNCHANGED calm
    \/ CalmDown

\* A request that has arrived is served to its end (a thread of the worker
\* pool runs on; the agent and DBAAS calls have timeouts), and clients keep
\* asking for the session while its lock is free again and again (the page
\* reloads it).  Nobody owes a message or a decision.
Live ==
    /\ \A r \in Requests : WF_fairVars(Serve(r) /\ UNCHANGED calm)
    /\ SF_fairVars((\E r \in Requests : ReceiveQuery(r)) /\ UNCHANGED calm)
    /\ WF_fairVars(CalmDown)

FairSpec == FairInit /\ [][FairNext]_fairVars /\ Live

-----------------------------------------------------------------------------
(* Properties                                                               *)

\* The run lock is always given back, so the session never stays busy.
LockGivenBack == [](lock # NoRequest => <>(lock = NoRequest))

\* A pending approval whose TTL ran out does not stay pending.
OverdueExpires == \A a \in Approvals : Overdue(a) ~> status[a] = "expired"

=============================================================================

------------------------------ MODULE DbaasTasks ------------------------------
(***************************************************************************)
(* What a client of DBAAS may rely on about its asynchronous tasks: a task *)
(* is accepted once, runs, and ends once, for good.  Task tracking builds  *)
(* on it and the store implements it.                                      *)
(***************************************************************************)

CONSTANT Tasks

VARIABLE remote     \* [Tasks -> {"none", "running", "succeeded", "failed"}]

Init == remote = [t \in Tasks |-> "none"]

Accept(t) ==
    /\ remote[t] = "none"
    /\ remote' = [remote EXCEPT ![t] = "running"]

End(t) ==
    /\ remote[t] = "running"
    /\ \E result \in {"succeeded", "failed"} : remote' = [remote EXCEPT ![t] = result]

Next == \E t \in Tasks : Accept(t) \/ End(t)

Spec == Init /\ [][Next]_remote

=============================================================================

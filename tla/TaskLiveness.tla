----------------------------- MODULE TaskLiveness -----------------------------
(***************************************************************************)
(* What task tracking does in the end.                                     *)
(*                                                                         *)
(* TaskTracking with fairness.  A crash or a browser that goes away is, as *)
(* a relation between states, also what a stream does when it ends by      *)
(* itself, so "no trouble any more" cannot be said of its variables: calm  *)
(* says it.  Until it is set every step may happen.                        *)
(***************************************************************************)
EXTENDS TaskTracking

VARIABLE calm   \* no crash, no unanswered read, no dropped stream any more

fairVars == <<vars, calm>>

FairInit == Init /\ calm = FALSE

CalmDown == ~calm /\ calm' = TRUE /\ UNCHANGED vars

FairNext ==
    \/ Work /\ UNCHANGED calm
    \/ ~calm /\ Trouble /\ UNCHANGED calm
    \/ CalmDown

\* The stream wants the lock for a notice.
Due(v) == pc[v] = "notice" /\ pending[v] # {}

\* A run and a viewer that have begun go on; DBAAS ends its tasks; the page
\* reopens the stream while it shows a task that has not ended or was not
\* reported (app.js, hasTaskEventWork); a stream
\* that tries for the lock round after round does not find it held every time
\* (a chat run ends, and the next waits for a user).
Live ==
    /\ WF_fairVars(RunStep /\ UNCHANGED calm)
    /\ \A t \in Tasks : WF_fairVars(Finish(t) /\ UNCHANGED calm)
    /\ \A v \in Viewers : WF_fairVars(Follow(v) /\ UNCHANGED calm)
    /\ \A v \in Streams :
          /\ WF_fairVars(OpenStream(v) /\ UNCHANGED calm)
          /\ []<>Due(v) => []<><<TakeNotice(v) /\ UNCHANGED calm>>_fairVars
    /\ WF_fairVars(CalmDown)

FairSpec == FairInit /\ [][FairNext]_fairVars /\ Live

-----------------------------------------------------------------------------
(* Properties                                                               *)

\* Every recorded task is in the end recorded as ended and reported, for good.
TasksReported == <>[](\A t \in Recorded : task[t] \in Final /\ noticed[t])

=============================================================================

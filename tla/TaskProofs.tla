------------------------------ MODULE TaskProofs ------------------------------
(***************************************************************************)
(* TaskTracking proved for every number of tasks, viewers and outcomes:    *)
(* its types, that what is recorded as ended has ended so, and that        *)
(* nothing is reported while a run is on or a recorded task has not ended. *)
(***************************************************************************)
EXTENDS TaskTracking, TLAPS

-----------------------------------------------------------------------------
(* The inductive invariant                                                  *)

AllEnded == \A t \in Recorded : remote[t] \in Final

\* The run, its calls and what DBAAS knows of them.
RunInv ==
  /\ run = "before" => \A t \in Tasks : tool[t] = "todo" /\ task[t] = "absent"
  /\ run = "on" => lock = Resumed
  /\ run = "over" => \A t \in Tasks : tool[t] \in {"todo", "done"}

RemoteInv ==
  \A t \in Tasks :
    /\ tool[t] \in {"todo", "begun"} => remote[t] = "none"
    /\ tool[t] \in {"sent", "recorded"} \/ task[t] # "absent" => remote[t] # "none"

\* What a viewer holds was recorded, and what it holds as ended has ended so.
SeenInv ==
  \A v \in Viewers, t \in Tasks :
    /\ seen[v][t].status # "absent" => task[t] # "absent"
    /\ seen[v][t].status \in Final => seen[v][t].status = remote[t]
    /\ t \in todo[v] => seen[v][t].status # "absent"

AnswerInv ==
  \A v \in Viewers :
    /\ pc[v] \in {"store", "sync"} => answer[v].of \in Tasks
    /\ pc[v] = "sync" => answer[v].status \in Final
    /\ answer[v].of \in Tasks =>
         /\ task[answer[v].of] # "absent" /\ answer[v].status # "absent"
         /\ answer[v].status \in Final => answer[v].status = remote[answer[v].of]

\* Only what has ended is, or is held as, reported; and a viewer that holds a
\* task as ended stores no other answer.
ReportedInv ==
  /\ \A t \in Tasks : noticed[t] => task[t] \in Final
  /\ \A v \in Viewers, t \in Tasks : seen[v][t].noticed => seen[v][t].status \in Final
  /\ \A v \in Viewers :
       pc[v] = "store" /\ seen[v][answer[v].of].status \in Final => answer[v].status \in Final

\* Who reports holds the lock, everything recorded has ended, and what is left
\* to mark is held as ended.
MarkInv ==
  \A v \in Viewers : pc[v] = "mark" =>
    /\ lock = v /\ AllEnded
    /\ \A t \in todo[v] : seen[v][t].status \in Final

IInv == RunInv /\ RemoteInv /\ SeenInv /\ AnswerInv /\ RecordedOutcome /\ ReportedInv /\ MarkInv

-----------------------------------------------------------------------------
(* Helpers                                                                  *)

LEMMA ListedType == ASSUME StoredOK PROVE Listed \in [Tasks -> Records]
  BY DEF StoredOK, Listed, Records

LEMMA NothingType ==
  /\ NothingSeen \in [Tasks -> Records] /\ NoAnswer \in Answers
  /\ \A t \in Tasks : NothingSeen[t].status = "absent" /\ NothingSeen[t].noticed = FALSE
  /\ NoAnswer.of = NoTask /\ NoAnswer.of \notin Tasks
  BY OwnersAssumption DEF NothingSeen, NoAnswer, Records, Answers, TaskStates

\* What is kept of a listing is of the listing or nothing.
LEMMA KeptIs ==
  ASSUME NEW v \in Viewers, NEW list \in [Tasks -> Records], NEW some
  PROVE  /\ Kept(v, list, some) \in [Tasks -> Records]
         /\ \A t \in Tasks : Kept(v, list, some)[t] \in {list[t], NothingSeen[t]}
         /\ \A t \in Tasks \cap some : Kept(v, list, some)[t] = list[t]
  BY NothingType DEF Kept

LEMMA RecordChange ==
  ASSUME NEW r \in Records, NEW s \in TaskStates
  PROVE  /\ [r EXCEPT !.status = s] \in Records
         /\ [r EXCEPT !.status = s].status = s /\ [r EXCEPT !.status = s].noticed = r.noticed
  BY DEF Records

LEMMA AppendType ==
  ASSUME StoredOK, NEW t \in Tasks, NEW rec \in Records, AppendTask(t, rec)
  PROVE  /\ task' \in [Tasks -> TaskStates] /\ noticed' \in [Tasks -> BOOLEAN]
         /\ task'[t] = rec.status /\ noticed'[t] = rec.noticed
         /\ \A u \in Tasks \ {t} : task'[u] = task[u] /\ noticed'[u] = noticed[u]
  BY DEF StoredOK, AppendTask, Records

LEMMA GoToType ==
  ASSUME ViewerOK, NEW v \in Viewers, NEW p \in Points, GoTo(v, p)
  PROVE  /\ pc' \in [Viewers -> Points] /\ pc'[v] = p
         /\ \A u \in Viewers \ {v} : pc'[u] = pc[u]
  BY DEF ViewerOK, GoTo

LEMMA SubsetTypes ==
  ASSUME StoredOK, NEW list
  PROVE  Known(list) \subseteq Tasks /\ Ended(list) \subseteq Tasks /\ Silent(list) \subseteq Tasks
  BY DEF Known, Ended, Silent

\* A viewer that leaves holds nothing.
LEMMA LeaveIs ==
  ASSUME ViewerOK, NEW v \in Viewers, Leave(v)
  PROVE  /\ ViewerOK'
         /\ pc'[v] = "off" /\ seen'[v] = NothingSeen /\ todo'[v] = {} /\ answer'[v] = NoAnswer
         /\ \A u \in Viewers \ {v} :
              pc'[u] = pc[u] /\ seen'[u] = seen[u] /\ todo'[u] = todo[u] /\ answer'[u] = answer[u]
         /\ lock' = IF lock = v THEN NoOne ELSE lock
  BY NothingType DEF ViewerOK, Leave, GoTo, Points

-----------------------------------------------------------------------------
(* Types                                                                    *)

LEMMA Init0 == Init => TypeOK /\ IInv
<1> SUFFICES ASSUME Init PROVE TypeOK /\ IInv
  OBVIOUS
<1>1. TypeOK
  BY NothingType
     DEF Init, TypeOK, StoredOK, ProgramOK, ViewerOK, TaskStates, OperationStates, RemoteStates,
         ToolPoints, Points
<1>2. RunInv /\ RemoteInv /\ RecordedOutcome
  BY DEF Init, RunInv, RemoteInv, RecordedOutcome, Final
<1>3. SeenInv
  BY NothingType DEF Init, SeenInv, Final
<1>4. AnswerInv
  BY NothingType DEF Init, AnswerInv
<1>5. ReportedInv /\ MarkInv
  BY NothingType DEF Init, ReportedInv, MarkInv, Final
<1> QED
  BY <1>1, <1>2, <1>3, <1>4, <1>5 DEF IInv

LEMMA TypeStep == TypeOK /\ IInv /\ [Next]_vars => TypeOK'
<1> SUFFICES ASSUME TypeOK, IInv, [Next]_vars PROVE TypeOK'
  OBVIOUS
<1> USE DEF TypeOK, again
<1>1. CASE BeginRun
  BY <1>1 DEF BeginRun, StoredOK, ProgramOK, ViewerOK, stored, viewer
<1>2. CASE EndRun \/ RunFails
  BY <1>2 DEF EndRun, RunFails, StoredOK, ProgramOK, ViewerOK, stored, viewer
<1>26. ASSUME NEW r \in Repeats, Again(r)
       PROVE  TypeOK'
  BY <1>26
     DEF Again, RepeatDecision, ResumeAgain, Refused, StoredOK, ProgramOK, ViewerOK, stored, viewer
<1>3. ASSUME NEW t \in Tasks, StartOperation(t)
      PROVE  TypeOK'
  BY <1>3 DEF StartOperation, StoredOK, ProgramOK, ViewerOK, stored, viewer, OperationStates,
              ToolPoints
<1>4. ASSUME NEW t \in Tasks, SendCreate(t)
      PROVE  TypeOK'
  BY <1>4 DEF SendCreate, StoredOK, ProgramOK, ViewerOK, stored, viewer, RemoteStates, ToolPoints
<1>5. ASSUME NEW t \in Tasks, CreateFails(t)
      PROVE  TypeOK'
  BY <1>5 DEF CreateFails, StoredOK, ProgramOK, ViewerOK, stored, viewer, OperationStates,
              ToolPoints
<1>6. ASSUME NEW t \in Tasks, CreateTaskRecord(t)
      PROVE  TypeOK'
  <2>1. [status |-> "open", noticed |-> FALSE] \in Records
    BY DEF Records, TaskStates
  <2> QED
    BY <1>6, <2>1, AppendType
       DEF CreateTaskRecord, StoredOK, ProgramOK, ViewerOK, viewer, ToolPoints
<1>7. ASSUME NEW t \in Tasks, CompleteOperation(t)
      PROVE  TypeOK'
  BY <1>7 DEF CompleteOperation, StoredOK, ProgramOK, ViewerOK, stored, viewer, OperationStates,
              ToolPoints
<1>8. ASSUME NEW t \in Tasks, ToolRaises(t)
      PROVE  TypeOK'
  BY <1>8 DEF ToolRaises, StoredOK, ProgramOK, ViewerOK, stored, viewer, ToolPoints
<1>9. ASSUME NEW t \in Tasks, Finish(t)
      PROVE  TypeOK'
  BY <1>9, OutcomesAssumption
     DEF Finish, StoredOK, ProgramOK, ViewerOK, stored, program, viewer, RemoteStates, Final
<1>10. ASSUME NEW v \in Viewers, OpenStream(v)
       PROVE  TypeOK'
  BY <1>10, SubsetTypes
     DEF OpenStream, GoTo, StoredOK, ProgramOK, ViewerOK, stored, program, Points
<1>11. ASSUME NEW v \in Viewers, ListTasks(v)
       PROVE  TypeOK'
  <2>1. Kept(v, Listed, Known(Listed) \ Ended(Listed)) \in [Tasks -> Records]
    BY ListedType, KeptIs
  <2> QED
    BY <1>11, <2>1, SubsetTypes
       DEF ListTasks, GoTo, StoredOK, ProgramOK, ViewerOK, stored, program, Points
<1>12. ASSUME NEW v \in Viewers, NEW t \in Tasks, CallTaskTool(v, t)
       PROVE  TypeOK'
  <2>1. Kept(v, Listed, {t}) \in [Tasks -> Records]
    BY ListedType, KeptIs
  <2> QED
    BY <1>12, <2>1 DEF CallTaskTool, GoTo, StoredOK, ProgramOK, ViewerOK, stored, program, Points
<1>13. ASSUME NEW v \in Viewers, NEW t \in Tasks, FetchTask(v, t)
       PROVE  TypeOK'
  <2>1. (IF remote[t] = "running" THEN "open" ELSE remote[t]) \in TaskStates
    BY <1>13 DEF FetchTask, IInv, SeenInv, RemoteInv, StoredOK, RemoteStates, TaskStates, Final
  <2> QED
    BY <1>13, <2>1
       DEF FetchTask, GoTo, StoredOK, ProgramOK, ViewerOK, stored, program, Points, Answers
<1>14. ASSUME NEW v \in Viewers, NEW t \in Tasks, FetchFails(v, t)
       PROVE  TypeOK'
  BY <1>14
     DEF FetchFails, GoTo, StoredOK, ProgramOK, ViewerOK, stored, program, Points, Answers,
         Records, TaskStates
<1>15. ASSUME NEW v \in Viewers, StoreAnswer(v)
       PROVE  TypeOK'
  <2> DEFINE t == answer[v].of
             rec == [seen[v][t] EXCEPT !.status = answer[v].status]
  <2>1. t \in Tasks /\ rec \in Records
    <3>1. t \in Tasks
      BY <1>15 DEF StoreAnswer, IInv, AnswerInv
    <3>2. seen[v][t] \in Records /\ answer[v].status \in TaskStates
      BY <3>1 DEF ViewerOK, Answers
    <3> QED
      BY <3>1, <3>2, RecordChange
  <2>2. [seen[v] EXCEPT ![t] = rec] \in [Tasks -> Records]
    BY <2>1 DEF ViewerOK
  <2>3. /\ Kept(v, [seen[v] EXCEPT ![t] = rec], todo[v]) \in [Tasks -> Records]
        /\ Kept(v, seen[v], todo[v]) \in [Tasks -> Records]
    BY <2>2, KeptIs DEF ViewerOK
  <2>4. ViewerOK'
    <3>1. pc' \in [Viewers -> Points]
      BY <1>15 DEF StoreAnswer, GoTo, ViewerOK, Points
    <3>2. answer' \in [Viewers -> Answers]
      BY <1>15, NothingType DEF StoreAnswer, ViewerOK
    <3>3. seen' \in [Viewers -> [Tasks -> Records]]
      <4>1. \/ seen' = [seen EXCEPT ![v] = Kept(v, [seen[v] EXCEPT ![t] = rec], todo[v])]
            \/ seen' = [seen EXCEPT ![v] = Kept(v, seen[v], todo[v])]
        BY <1>15 DEF StoreAnswer
      <4> HIDE DEF rec, t
      <4> QED
        BY <2>3, <4>1 DEF ViewerOK
    <3> QED
      BY <1>15, <3>1, <3>2, <3>3 DEF StoreAnswer, ViewerOK
  <2>5. StoredOK'
    BY <1>15, <2>1, AppendType DEF StoreAnswer, StoredOK, stored
  <2> QED
    BY <1>15, <2>4, <2>5 DEF StoreAnswer, ProgramOK, program
<1>16. ASSUME NEW v \in Viewers, SyncOperation(v)
       PROVE  TypeOK'
  <2>1. answer[v].of \in Tasks /\ answer[v].status \in OperationStates
    BY <1>16 DEF SyncOperation, IInv, AnswerInv, OperationStates
  <2> QED
    BY <1>16, <2>1, NothingType
       DEF SyncOperation, GoTo, StoredOK, ProgramOK, ViewerOK, stored, program, Points
<1>17. ASSUME NEW v \in Viewers, EndRound(v)
       PROVE  TypeOK'
  <2>1. CASE v \in Streams
    <3>1. /\ pending' = [pending EXCEPT ![v] =
                @ \cup Silent(seen[v]) \cup (unfinished[v] \cap Ended(seen[v]))]
          /\ unfinished' = [unfinished EXCEPT ![v] = Known(seen[v]) \ Ended(seen[v])]
          /\ seen' = [seen EXCEPT ![v] = NothingSeen] /\ GoTo(v, "notice")
          /\ UNCHANGED <<stored, operation, remote, program, lock, todo, answer>>
      BY <1>17, <2>1 DEF EndRound
    <3>2. pending' \in [Viewers -> SUBSET Tasks] /\ unfinished' \in [Viewers -> SUBSET Tasks]
      BY <3>1, SubsetTypes DEF ViewerOK
    <3>3. pc' \in [Viewers -> Points] /\ seen' \in [Viewers -> [Tasks -> Records]]
      BY <3>1, NothingType DEF GoTo, ViewerOK, Points
    <3> QED
      BY <3>1, <3>2, <3>3 DEF StoredOK, ProgramOK, ViewerOK, stored, program
  <2>2. CASE v \notin Streams
    BY <1>17, <2>2, LeaveIs DEF EndRound, StoredOK, ProgramOK, stored, program
  <2> QED
    BY <2>1, <2>2
<1>18. ASSUME NEW v \in Viewers, SkipNotice(v)
       PROVE  TypeOK'
  BY <1>18 DEF SkipNotice, GoTo, StoredOK, ProgramOK, ViewerOK, stored, program, Points
<1>19. ASSUME NEW v \in Viewers, TakeNotice(v)
       PROVE  TypeOK'
  <2>1. pending' \in [Viewers -> SUBSET Tasks]
    BY <1>19 DEF TakeNotice, ViewerOK
  <2>2. seen' \in [Viewers -> [Tasks -> Records]] /\ todo' \in [Viewers -> SUBSET Tasks]
    <3>1. CASE UNCHANGED <<seen, todo>>
      BY <3>1 DEF ViewerOK
    <3>2. CASE seen' = [seen EXCEPT ![v] = Listed] /\ todo' = [todo EXCEPT ![v] = Silent(Listed)]
      <4>1. Listed \in [Tasks -> Records] /\ Silent(Listed) \in SUBSET Tasks
        BY ListedType, SubsetTypes
      <4> QED
        BY <3>2, <4>1 DEF ViewerOK
    <3> QED
      BY <1>19, <3>1, <3>2 DEF TakeNotice
  <2>3. pc' \in [Viewers -> Points] /\ lock' \in Viewers \cup {NoOne, Resumed}
    BY <1>19 DEF TakeNotice, GoTo, ViewerOK, ProgramOK, Points
  <2> QED
    BY <1>19, <2>1, <2>2, <2>3 DEF TakeNotice, StoredOK, ProgramOK, ViewerOK, stored, program
<1>20. ASSUME NEW v \in Viewers, NEW t \in Tasks, MarkTask(v, t)
       PROVE  TypeOK'
  <2>1. [status |-> seen[v][t].status, noticed |-> TRUE] \in Records
    BY DEF ViewerOK, Records
  <2>2. StoredOK'
    BY <1>20, <2>1, AppendType DEF MarkTask, StoredOK
  <2> QED
    BY <1>20, <2>2 DEF MarkTask, ProgramOK, ViewerOK, program
<1>21. ASSUME NEW v \in Viewers, WriteNotice(v)
       PROVE  TypeOK'
  BY <1>21, NothingType
     DEF WriteNotice, GoTo, StoredOK, ProgramOK, ViewerOK, stored, program, Points
<1>22. ASSUME NEW v \in Viewers, Turn(v)
       PROVE  TypeOK'
  <2>1. CASE Leave(v)
    BY <1>22, <2>1, LeaveIs DEF Turn, StoredOK, ProgramOK, stored, program
  <2>2. CASE GoTo(v, "list") /\ UNCHANGED <<lock, seen, todo, answer, unfinished, pending>>
    BY <1>22, <2>2 DEF Turn, GoTo, StoredOK, ProgramOK, ViewerOK, stored, program, Points
  <2> QED
    BY <1>22, <2>1, <2>2 DEF Turn
<1>23. ASSUME NEW v \in Viewers, Disconnect(v)
       PROVE  TypeOK'
  BY <1>23, LeaveIs DEF Disconnect, StoredOK, ProgramOK, stored, program
<1>24. CASE Crash
  BY <1>24, NothingType
     DEF Crash, StoredOK, ProgramOK, ViewerOK, stored, Points, ToolPoints
<1>25. CASE UNCHANGED vars
  BY <1>25 DEF vars, StoredOK, ProgramOK, ViewerOK, stored, program, viewer
<1> QED
  BY <1>1, <1>2, <1>3, <1>4, <1>5, <1>6, <1>7, <1>8, <1>9, <1>10, <1>11, <1>12, <1>13, <1>14,
     <1>15, <1>16, <1>17, <1>18, <1>19, <1>20, <1>21, <1>22, <1>23, <1>24, <1>25, <1>26
     DEF Next, Work, Trouble, RunStep, Follow

-----------------------------------------------------------------------------
(* What no step takes back                                                  *)

Grown ==
  \A t \in Tasks :
    /\ task[t] # "absent" => task'[t] # "absent"
    /\ remote[t] \in Final => remote'[t] = remote[t]

\* What the three steps append that write a task's record.
LEMMA Appended ==
  ASSUME TypeOK, IInv, NEW v \in Viewers
  PROVE  /\ pc[v] = "store" => /\ answer[v].of \in Tasks /\ task[answer[v].of] # "absent"
                               /\ answer[v].status # "absent"
                               /\ answer[v].status \in Final => answer[v].status = remote[answer[v].of]
         /\ \A t \in todo[v] :
              /\ seen[v][t].status # "absent" /\ task[t] # "absent"
              /\ seen[v][t].status \in Final => seen[v][t].status = remote[t]
  BY DEF TypeOK, ViewerOK, IInv, AnswerInv, SeenInv

LEMMA StoreIs ==
  ASSUME TypeOK, IInv, NEW v \in Viewers, StoreAnswer(v)
  PROVE  /\ answer[v].of \in Tasks
         /\ \/ /\ task'[answer[v].of] = answer[v].status
               /\ noticed'[answer[v].of] = seen[v][answer[v].of].noticed
               /\ \A u \in Tasks \ {answer[v].of} : task'[u] = task[u] /\ noticed'[u] = noticed[u]
            \/ UNCHANGED stored
         /\ UNCHANGED <<operation, remote, lock, program, todo, unfinished, pending>>
         /\ \A u \in Viewers \ {v} : seen'[u] = seen[u] /\ answer'[u] = answer[u] /\ pc'[u] = pc[u]
<1> DEFINE t == answer[v].of
           rec == [seen[v][t] EXCEPT !.status = answer[v].status]
<1>1. t \in Tasks
  BY Appended DEF StoreAnswer
<1>2. seen[v][t] \in Records /\ answer[v].status \in TaskStates
  BY <1>1 DEF TypeOK, ViewerOK, Answers
<1>3. rec \in Records /\ rec.status = answer[v].status /\ rec.noticed = seen[v][t].noticed
  BY <1>2, RecordChange
<1>4. AppendTask(t, rec) \/ UNCHANGED stored
  BY DEF StoreAnswer
<1>5. AppendTask(t, rec) =>
        /\ task'[t] = rec.status /\ noticed'[t] = rec.noticed
        /\ \A u \in Tasks \ {t} : task'[u] = task[u] /\ noticed'[u] = noticed[u]
  <2> HIDE DEF rec
  <2> QED
    BY <1>1, <1>3, AppendType DEF TypeOK
<1>6. \A u \in Viewers \ {v} : seen'[u] = seen[u] /\ answer'[u] = answer[u] /\ pc'[u] = pc[u]
  BY DEF StoreAnswer, GoTo, TypeOK, ViewerOK
<1>7. UNCHANGED <<operation, remote, lock, program, todo, unfinished, pending>>
  BY DEF StoreAnswer
<1> HIDE DEF rec
<1> QED
  BY <1>1, <1>3, <1>4, <1>5, <1>6, <1>7

LEMMA MarkIs ==
  ASSUME TypeOK, IInv, NEW v \in Viewers, NEW t \in Tasks, MarkTask(v, t)
  PROVE  /\ task'[t] = seen[v][t].status /\ noticed'[t]
         /\ \A u \in Tasks \ {t} : task'[u] = task[u] /\ noticed'[u] = noticed[u]
<1>1. [status |-> seen[v][t].status, noticed |-> TRUE] \in Records
  BY DEF TypeOK, ViewerOK, Records
<1> QED
  BY <1>1, AppendType DEF MarkTask, TypeOK

LEMMA Grows == TypeOK /\ IInv /\ [Next]_vars => Grown
<1> SUFFICES ASSUME TypeOK, IInv, [Next]_vars PROVE Grown
  OBVIOUS
<1>1. CASE UNCHANGED <<task, remote>>
  BY <1>1 DEF Grown
<1>2. ASSUME NEW t \in Tasks, SendCreate(t)
      PROVE  Grown
  BY <1>2 DEF SendCreate, Grown, stored, IInv, RemoteInv, TypeOK, StoredOK, Final
<1>3. ASSUME NEW t \in Tasks, CreateTaskRecord(t)
      PROVE  Grown
  BY <1>3 DEF CreateTaskRecord, AppendTask, Grown, TypeOK, StoredOK
<1>4. ASSUME NEW t \in Tasks, Finish(t)
      PROVE  Grown
  BY <1>4 DEF Finish, stored, Grown, TypeOK, StoredOK, Final
<1>5. ASSUME NEW v \in Viewers, StoreAnswer(v)
      PROVE  Grown
  <2>1. answer[v].of \in Tasks /\ answer[v].status # "absent"
    BY <1>5, Appended DEF StoreAnswer
  <2>2. \/ /\ task'[answer[v].of] = answer[v].status
           /\ \A u \in Tasks \ {answer[v].of} : task'[u] = task[u]
        \/ task' = task
    BY <1>5, StoreIs DEF stored
  <2>3. remote' = remote
    BY <1>5 DEF StoreAnswer
  <2> QED
    BY <2>1, <2>2, <2>3 DEF Grown
<1>6. ASSUME NEW v \in Viewers, NEW t \in Tasks, MarkTask(v, t)
      PROVE  Grown
  <2>1. task'[t] = seen[v][t].status /\ \A u \in Tasks \ {t} : task'[u] = task[u]
    BY <1>6, MarkIs
  <2>2. seen[v][t].status # "absent" /\ remote' = remote
    BY <1>6, Appended DEF MarkTask
  <2> QED
    BY <2>1, <2>2 DEF Grown
<1>7. CASE RunStep \/ \E r \in Repeats : Again(r)
  BY <1>1, <1>2, <1>3, <1>7
     DEF RunStep, BeginRun, EndRun, RunFails, Again,
         RepeatDecision, ResumeAgain, Refused, StartOperation, CreateFails, CompleteOperation, ToolRaises, stored
<1>8. ASSUME NEW v \in Viewers, Follow(v)
      PROVE  Grown
  BY <1>1, <1>5, <1>6, <1>8
     DEF Follow, ListTasks, FetchTask, SyncOperation, EndRound, SkipNotice, TakeNotice, WriteNotice,
         Turn, stored
<1>9. CASE Trouble
  BY <1>1, <1>9 DEF Trouble, Crash, Disconnect, FetchFails, stored
<1> QED
  BY <1>1, <1>4, <1>7, <1>8, <1>9
     DEF Next, Work, OpenStream, ListTasks, CallTaskTool, vars, stored

-----------------------------------------------------------------------------
(* Each part of the invariant is kept                                       *)

\* A task that is written was recorded before, unless the run records it.
LEMMA Written ==
  TypeOK /\ IInv /\ [Next]_vars =>
    \A t \in Tasks : task'[t] # "absent" => task[t] # "absent" \/ CreateTaskRecord(t)
<1> SUFFICES ASSUME TypeOK, IInv, [Next]_vars, NEW t \in Tasks,
                    task'[t] # "absent", task[t] = "absent"
             PROVE  CreateTaskRecord(t)
  OBVIOUS
<1>1. task' # task
  OBVIOUS
<1>2. ASSUME NEW v \in Viewers, StoreAnswer(v)
      PROVE  FALSE
  <2>1. answer[v].of \in Tasks /\ task[answer[v].of] # "absent"
    BY <1>2, Appended DEF StoreAnswer
  <2>2. (\A u \in Tasks \ {answer[v].of} : task'[u] = task[u]) \/ task' = task
    BY <1>2, StoreIs DEF stored
  <2> QED
    BY <2>1, <2>2
<1>3. ASSUME NEW v \in Viewers, NEW u \in Tasks, MarkTask(v, u)
      PROVE  FALSE
  <2>1. \A w \in Tasks \ {u} : task'[w] = task[w]
    BY <1>3, MarkIs
  <2>2. task[u] # "absent"
    BY <1>3, Appended DEF MarkTask
  <2> QED
    BY <2>1, <2>2
<1>4. PICK u \in Tasks : CreateTaskRecord(u)
  BY <1>1, <1>2, <1>3
     DEF Next, Work, Trouble, RunStep, Follow, BeginRun, EndRun, RunFails, Again,
         RepeatDecision, ResumeAgain, Refused, StartOperation, SendCreate,
         CreateFails, CompleteOperation, ToolRaises, Finish, OpenStream, ListTasks, CallTaskTool,
         FetchTask, FetchFails, SyncOperation, EndRound, SkipNotice, TakeNotice, WriteNotice, Turn,
         Disconnect, Crash, vars, stored
<1>5. u = t
  BY <1>4 DEF CreateTaskRecord, AppendTask, TypeOK, StoredOK
<1> QED
  BY <1>4, <1>5

LEMMA RunInvStep == TypeOK /\ IInv /\ [Next]_vars => RunInv'
<1> SUFFICES ASSUME TypeOK, IInv, [Next]_vars PROVE RunInv'
  OBVIOUS
<1>0. /\ RunInv /\ tool \in [Tasks -> ToolPoints] /\ NoOne # Resumed
      /\ \A v \in Viewers : v # NoOne /\ v # Resumed
  BY OwnersAssumption DEF IInv, TypeOK, ProgramOK
<1>1. run = "before" => \A t \in Tasks : task'[t] = "absent" \/ CreateTaskRecord(t)
  BY <1>0, Written DEF RunInv
<1>2. run = "before" => \A t \in Tasks : task'[t] = "absent"
  BY <1>0, <1>1 DEF RunInv, CreateTaskRecord
<1>3. CASE UNCHANGED program /\ (lock' = lock \/ run # "on")
  BY <1>0, <1>2, <1>3 DEF RunInv, program
<1>4. CASE RunStep \/ \E r \in Repeats : Again(r)
  BY <1>0, <1>2, <1>4
     DEF RunStep, BeginRun, EndRun, RunFails, Again,
         RepeatDecision, ResumeAgain, Refused, StartOperation, SendCreate, CreateFails, CreateTaskRecord,
         CompleteOperation, ToolRaises, RunInv
<1>5. CASE Crash
  BY <1>0, <1>2, <1>5 DEF Crash, RunInv
<1>6. ASSUME NEW v \in Viewers
      PROVE  /\ Leave(v) => (lock' = lock \/ run # "on")
             /\ pc[v] = "mark" => run # "on"
  BY <1>0 DEF Leave, RunInv, IInv, MarkInv
<1>7. ASSUME NEW v \in Viewers, Follow(v)
      PROVE  UNCHANGED program /\ (lock' = lock \/ run # "on")
  BY <1>0, <1>6, <1>7
     DEF RunInv, Follow, ListTasks, FetchTask, MarkTask, StoreAnswer, SyncOperation, EndRound,
         SkipNotice, TakeNotice, WriteNotice, Turn
<1> QED
  BY <1>0, <1>3, <1>4, <1>5, <1>6, <1>7
     DEF Next, Work, Trouble, Finish, OpenStream, ListTasks, CallTaskTool, Disconnect, FetchFails,
         vars, RunInv

LEMMA RemoteInvStep == TypeOK /\ IInv /\ [Next]_vars => RemoteInv'
<1> SUFFICES ASSUME TypeOK, IInv, [Next]_vars PROVE RemoteInv'
  OBVIOUS
<1>0. RemoteInv /\ tool \in [Tasks -> ToolPoints] /\ remote \in [Tasks -> RemoteStates]
  BY DEF IInv, TypeOK, ProgramOK, StoredOK
<1>1. \A t \in Tasks : task'[t] # "absent" => remote[t] # "none"
  BY <1>0, Written DEF RemoteInv, CreateTaskRecord
<1>2. CASE UNCHANGED <<tool, remote>>
  BY <1>0, <1>1, <1>2 DEF RemoteInv
<1>3. CASE RunStep \/ \E r \in Repeats : Again(r)
  BY <1>0, <1>1, <1>3
     DEF RunStep, BeginRun, EndRun, RunFails, Again,
         RepeatDecision, ResumeAgain, Refused, StartOperation, SendCreate, CreateFails, CreateTaskRecord,
         CompleteOperation, ToolRaises, RemoteInv
<1>4. ASSUME NEW t \in Tasks, Finish(t)
      PROVE  RemoteInv'
  BY <1>0, <1>1, <1>4, OutcomesAssumption DEF Finish, program, RemoteInv
<1>5. CASE Crash
  BY <1>0, <1>1, <1>5 DEF Crash, RemoteInv
<1>6. ASSUME NEW v \in Viewers, Follow(v)
      PROVE  UNCHANGED <<tool, remote>>
  BY <1>6 DEF Follow, ListTasks, FetchTask, MarkTask, StoreAnswer, SyncOperation, EndRound,
              SkipNotice, TakeNotice, WriteNotice, Turn, program
<1> QED
  BY <1>2, <1>3, <1>4, <1>5, <1>6
     DEF Next, Work, Trouble, OpenStream, ListTasks, CallTaskTool, Disconnect, FetchFails, vars,
         program

LEMMA OutcomeStep == TypeOK /\ IInv /\ [Next]_vars => RecordedOutcome'
<1> SUFFICES ASSUME TypeOK, IInv, [Next]_vars PROVE RecordedOutcome'
  OBVIOUS
<1>0. /\ RecordedOutcome /\ Grown /\ operation \in [Tasks -> OperationStates]
      /\ task \in [Tasks -> TaskStates] /\ noticed \in [Tasks -> BOOLEAN]
  BY Grows DEF IInv, TypeOK, StoredOK
<1>1. CASE UNCHANGED <<task, operation>>
  BY <1>0, <1>1 DEF RecordedOutcome, Grown
<1>2. ASSUME NEW t \in Tasks, CreateTaskRecord(t)
      PROVE  RecordedOutcome'
  BY <1>0, <1>2 DEF CreateTaskRecord, AppendTask, RecordedOutcome, Grown, Final
<1>3. CASE RunStep \/ \E r \in Repeats : Again(r)
  BY <1>0, <1>1, <1>2, <1>3
     DEF RunStep, BeginRun, EndRun, RunFails, Again,
         RepeatDecision, ResumeAgain, Refused, StartOperation, SendCreate, CreateFails, CompleteOperation,
         ToolRaises, RecordedOutcome, Grown, Final, stored
<1>4. ASSUME NEW v \in Viewers, StoreAnswer(v)
      PROVE  RecordedOutcome'
  <2>1. /\ answer[v].of \in Tasks /\ operation' = operation
        /\ answer[v].status \in Final => answer[v].status = remote[answer[v].of]
    BY <1>4, Appended DEF StoreAnswer
  <2>2. \/ /\ task'[answer[v].of] = answer[v].status
           /\ \A u \in Tasks \ {answer[v].of} : task'[u] = task[u]
        \/ task' = task
    BY <1>4, StoreIs DEF stored
  <2> QED
    BY <1>0, <2>1, <2>2 DEF RecordedOutcome, Grown
<1>5. ASSUME NEW v \in Viewers, NEW t \in Tasks, MarkTask(v, t)
      PROVE  RecordedOutcome'
  <2>1. task'[t] = seen[v][t].status /\ \A u \in Tasks \ {t} : task'[u] = task[u]
    BY <1>5, MarkIs
  <2>2. (seen[v][t].status \in Final => seen[v][t].status = remote[t]) /\ operation' = operation
    BY <1>5, Appended DEF MarkTask
  <2> QED
    BY <1>0, <2>1, <2>2 DEF RecordedOutcome, Grown
<1>6. ASSUME NEW v \in Viewers, SyncOperation(v)
      PROVE  RecordedOutcome'
  <2>1. answer[v].of \in Tasks /\ answer[v].status = remote[answer[v].of]
    BY <1>6 DEF SyncOperation, IInv, AnswerInv
  <2> QED
    BY <1>0, <1>6, <2>1 DEF SyncOperation, RecordedOutcome, Grown, stored
<1>7. ASSUME NEW v \in Viewers, Follow(v)
      PROVE  RecordedOutcome'
  BY <1>1, <1>4, <1>5, <1>6, <1>7
     DEF Follow, ListTasks, FetchTask, EndRound, SkipNotice, TakeNotice, WriteNotice, Turn, stored
<1> QED
  BY <1>1, <1>3, <1>7
     DEF Next, Work, Trouble, Finish, OpenStream, ListTasks, CallTaskTool, Disconnect, FetchFails,
         Crash, vars, stored

\* What a viewer holds after it has listed.
LEMMA ListedSound ==
  ASSUME TypeOK, IInv, NEW v \in Viewers, NEW some, NEW t \in Tasks
  PROVE  LET k == Kept(v, Listed, some)[t] IN
         /\ k.status # "absent" => task[t] # "absent"
         /\ k.status \in Final => k.status = remote[t]
         /\ k.noticed => noticed[t]
         /\ t \in some /\ task[t] # "absent" => k.status # "absent"
<1>1. Listed \in [Tasks -> Records] /\ Listed[t] = [status |-> task[t], noticed |-> noticed[t]]
  BY ListedType DEF Listed, TypeOK
<1>2. /\ Kept(v, Listed, some)[t] \in {Listed[t], NothingSeen[t]}
      /\ t \in some => Kept(v, Listed, some)[t] = Listed[t]
  BY <1>1, KeptIs
<1>3. NothingSeen[t].status = "absent" /\ ~NothingSeen[t].noticed /\ "absent" \notin Final
  BY NothingType DEF Final
<1> QED
  BY <1>1, <1>2, <1>3 DEF IInv, RecordedOutcome

LEMMA StoreKeeps ==
  ASSUME TypeOK, IInv, NEW v \in Viewers, StoreAnswer(v), NEW t \in Tasks
  PROVE  /\ \/ seen'[v][t] = seen[v][t]
            \/ seen'[v][t] = NothingSeen[t] /\ t \notin todo[v]
            \/ /\ t = answer[v].of /\ seen'[v][t].status = answer[v].status
               /\ seen'[v][t].noticed = seen[v][t].noticed
         /\ seen'[v] \in [Tasks -> Records]
<1> DEFINE u == answer[v].of
           rec == [seen[v][u] EXCEPT !.status = answer[v].status]
           list == [seen[v] EXCEPT ![u] = rec]
<1>1. u \in Tasks
  BY Appended DEF StoreAnswer
<1>2. seen[v] \in [Tasks -> Records] /\ seen[v][u] \in Records /\ answer[v].status \in TaskStates
  BY <1>1 DEF TypeOK, ViewerOK, Answers
<1>3. rec \in Records /\ rec.status = answer[v].status /\ rec.noticed = seen[v][u].noticed
  BY <1>2, RecordChange
<1>4. seen'[v] = Kept(v, list, todo[v]) \/ seen'[v] = Kept(v, seen[v], todo[v])
  BY DEF StoreAnswer, TypeOK, ViewerOK
<1> HIDE DEF rec
<1>5. list \in [Tasks -> Records] /\ list[t] = IF t = u THEN rec ELSE seen[v][t]
  BY <1>2, <1>3
<1> HIDE DEF list, u
<1>6. ASSUME NEW l \in [Tasks -> Records], seen'[v] = Kept(v, l, todo[v])
      PROVE  /\ seen'[v][t] \in {l[t], NothingSeen[t]} /\ (t \in todo[v] => seen'[v][t] = l[t])
             /\ seen'[v] \in [Tasks -> Records]
  BY <1>6, KeptIs
<1>7. CASE seen'[v] = Kept(v, list, todo[v])
  BY <1>3, <1>5, <1>6, <1>7 DEF u
<1>8. CASE seen'[v] = Kept(v, seen[v], todo[v])
  BY <1>2, <1>6, <1>8
<1> QED
  BY <1>4, <1>7, <1>8

\* What StoreAnswer appends is not marked as reported, unless it says nothing new.
LEMMA StoreUnmarked ==
  ASSUME TypeOK, IInv, NEW v \in Viewers, StoreAnswer(v)
  PROVE  UNCHANGED stored \/ ~seen[v][answer[v].of].noticed
<1> DEFINE t == answer[v].of
           rec == [seen[v][t] EXCEPT !.status = answer[v].status]
<1>1. SUFFICES ASSUME seen[v][t].noticed PROVE rec = seen[v][t] /\ rec.status \in Final
  BY DEF StoreAnswer
<1>2. t \in Tasks /\ (answer[v].status \in Final => answer[v].status = remote[t])
  BY Appended DEF StoreAnswer
<1>3. seen[v][t].status \in Final /\ answer[v].status \in Final
  BY <1>1, <1>2 DEF StoreAnswer, IInv, ReportedInv
<1>4. seen[v][t].status = answer[v].status
  BY <1>2, <1>3 DEF IInv, SeenInv
<1>5. seen[v][t] \in Records
  BY <1>2 DEF TypeOK, ViewerOK
<1> QED
  BY <1>3, <1>4, <1>5 DEF Records

LEMMA NoticedStep ==
  ASSUME TypeOK, IInv, [Next]_vars
  PROVE  \A t \in Tasks :
           /\ noticed'[t] => task'[t] \in Final
           /\ noticed'[t] /\ ~noticed[t] => \E v \in Viewers : pc[v] = "mark"
<1>0. /\ noticed \in [Tasks -> BOOLEAN] /\ \A t \in Tasks : noticed[t] => task[t] \in Final
      /\ task \in [Tasks -> TaskStates]
  BY DEF IInv, ReportedInv, TypeOK, StoredOK
<1>1. CASE UNCHANGED stored
  BY <1>0, <1>1 DEF stored
<1>2. ASSUME NEW t \in Tasks, CreateTaskRecord(t)
      PROVE  \A u \in Tasks :
               noticed'[u] => u # t /\ noticed[u] /\ task'[u] = task[u]
  BY <1>0, <1>2 DEF CreateTaskRecord, AppendTask
<1>3. ASSUME NEW v \in Viewers, StoreAnswer(v), ~seen[v][answer[v].of].noticed
      PROVE  \A u \in Tasks : noticed'[u] => noticed[u] /\ task'[u] \in Final
  <2>1. \/ /\ noticed'[answer[v].of] = seen[v][answer[v].of].noticed
           /\ \A u \in Tasks \ {answer[v].of} : task'[u] = task[u] /\ noticed'[u] = noticed[u]
        \/ UNCHANGED stored
    BY <1>3, StoreIs
  <2> QED
    BY <1>0, <1>3, <2>1 DEF stored
<1>4. ASSUME NEW v \in Viewers, NEW t \in Tasks, MarkTask(v, t)
      PROVE  /\ \A u \in Tasks : noticed'[u] => task'[u] \in Final
             /\ pc[v] = "mark"
  <2>1. pc[v] = "mark" /\ seen[v][t].status \in Final
    BY <1>4 DEF MarkTask, IInv, MarkInv
  <2> QED
    BY <1>0, <1>4, <2>1, MarkIs
<1>5. ASSUME NEW v \in Viewers, Follow(v), ~(UNCHANGED stored)
      PROVE  StoreAnswer(v) \/ \E t \in Tasks : MarkTask(v, t)
  BY <1>5 DEF Follow, ListTasks, FetchTask, SyncOperation, EndRound, SkipNotice, TakeNotice,
     WriteNotice, Turn
<1>6. ASSUME ~(UNCHANGED stored)
      PROVE  \/ \E t \in Tasks : CreateTaskRecord(t)
             \/ \E v \in Viewers : StoreAnswer(v) \/ \E t \in Tasks : MarkTask(v, t)
  BY <1>5, <1>6
     DEF Next, Work, Trouble, RunStep, Again, RepeatDecision, ResumeAgain, Refused, BeginRun,
         EndRun, RunFails, StartOperation, SendCreate, CreateFails, CompleteOperation, ToolRaises,
         Finish, OpenStream, ListTasks, CallTaskTool, Disconnect, FetchFails, Crash, vars
<1> QED
  BY <1>0, <1>1, <1>2, <1>3, <1>4, <1>6, StoreUnmarked

\* A viewer changes its own listing only.
LEMMA SeenNoticedFrame ==
  ASSUME IInv, NEW v \in Viewers, \A u \in Viewers \ {v} : seen'[u] = seen[u],
         \A t \in Tasks : seen'[v][t].noticed => seen'[v][t].status \in Final
  PROVE  \A u \in Viewers, t \in Tasks : seen'[u][t].noticed => seen'[u][t].status \in Final
<1>1. \A u \in Viewers, t \in Tasks : seen[u][t].noticed => seen[u][t].status \in Final
  BY DEF IInv, ReportedInv
<1> QED
  BY <1>1

LEMMA SeenNoticedStep ==
  ASSUME TypeOK, IInv, [Next]_vars
  PROVE  \A v \in Viewers, t \in Tasks : seen'[v][t].noticed => seen'[v][t].status \in Final
<1> DEFINE Goal == \A v \in Viewers, t \in Tasks : seen'[v][t].noticed => seen'[v][t].status \in Final
<1>0. /\ seen \in [Viewers -> [Tasks -> Records]]
      /\ \A v \in Viewers, t \in Tasks : seen[v][t].noticed => seen[v][t].status \in Final
      /\ \A t \in Tasks : noticed[t] => task[t] \in Final
      /\ \A t \in Tasks : Listed[t].status = task[t] /\ Listed[t].noticed = noticed[t]
      /\ \A t \in Tasks : ~NothingSeen[t].noticed
  BY NothingType DEF IInv, ReportedInv, TypeOK, ViewerOK, Listed
<1>1. CASE UNCHANGED seen
  BY <1>0, <1>1
<1>2. ASSUME NEW v \in Viewers, NEW some, seen' = [seen EXCEPT ![v] = Kept(v, Listed, some)]
      PROVE  Goal
  <2>1. \A t \in Tasks : Kept(v, Listed, some)[t] \in {Listed[t], NothingSeen[t]}
    BY ListedType, KeptIs DEF TypeOK
  <2>2. seen'[v] = Kept(v, Listed, some) /\ \A u \in Viewers \ {v} : seen'[u] = seen[u]
    BY <1>0, <1>2
  <2>3. \A t \in Tasks : seen'[v][t].noticed => seen'[v][t].status \in Final
    BY <1>0, <2>1, <2>2
  <2> QED
    BY <2>2, <2>3, SeenNoticedFrame
<1>3. ASSUME NEW v \in Viewers, seen' = [seen EXCEPT ![v] = NothingSeen]
      PROVE  Goal
  BY <1>0, <1>3, SeenNoticedFrame
<1>4. ASSUME NEW v \in Viewers, StoreAnswer(v)
      PROVE  Goal
  <2>1. \A u \in Viewers \ {v} : seen'[u] = seen[u]
    BY <1>4, StoreIs
  <2>2. ASSUME NEW t \in Tasks, seen'[v][t].noticed
        PROVE  seen'[v][t].status \in Final
    <3>1. CASE seen'[v][t] = seen[v][t]
      BY <1>0, <2>2, <3>1
    <3>2. CASE t = answer[v].of /\ seen'[v][t].status = answer[v].status /\ seen[v][t].noticed
      <4>1. seen[v][answer[v].of].status \in Final
        BY <1>0, <3>2
      <4> QED
        BY <1>4, <3>2, <4>1 DEF StoreAnswer, IInv, ReportedInv
    <3> QED
      BY <1>0, <1>4, <2>2, <3>1, <3>2, StoreKeeps
  <2> QED
    BY <2>1, <2>2, SeenNoticedFrame
<1>5. ASSUME NEW v \in Viewers, TakeNotice(v)
      PROVE  Goal
  <2>1. CASE UNCHANGED seen
    BY <1>1, <2>1
  <2>2. CASE seen' = [seen EXCEPT ![v] = Listed]
    <3>1. seen'[v] = Listed /\ \A u \in Viewers \ {v} : seen'[u] = seen[u]
      BY <1>0, <2>2
    <3> QED
      BY <1>0, <3>1, SeenNoticedFrame
  <2> QED
    BY <1>5, <2>1, <2>2 DEF TakeNotice
<1>6. ASSUME NEW v \in Viewers, Leave(v)
      PROVE  Goal
  BY <1>3, <1>6 DEF Leave
<1>7. CASE Crash
  BY <1>0, <1>7 DEF Crash
<1>8. ASSUME NEW v \in Viewers, NEW t \in Tasks, CallTaskTool(v, t)
      PROVE  Goal
  BY <1>2, <1>8 DEF CallTaskTool
<1>9. ASSUME NEW v \in Viewers, ListTasks(v) \/ WriteNotice(v) \/ EndRound(v) \/ Turn(v) \/ Disconnect(v)
      PROVE  Goal
  BY <1>1, <1>2, <1>3, <1>6, <1>9 DEF ListTasks, WriteNotice, EndRound, Turn, Disconnect
<1>10. CASE RunStep \/ (\E r \in Repeats : Again(r)) \/ UNCHANGED vars \/ \E t \in Tasks : Finish(t)
  BY <1>1, <1>10
     DEF RunStep, BeginRun, EndRun, RunFails, Again, RepeatDecision, ResumeAgain, Refused,
         StartOperation, SendCreate, CreateFails, CreateTaskRecord, CompleteOperation, ToolRaises,
         Finish, vars, viewer
<1>11. ASSUME NEW v \in Viewers, Follow(v)
       PROVE  Goal
  BY <1>1, <1>4, <1>5, <1>9, <1>11 DEF Follow, FetchTask, MarkTask, SyncOperation, SkipNotice
<1>12. ASSUME NEW v \in Viewers, OpenStream(v) \/ \E t \in Tasks : FetchFails(v, t)
       PROVE  Goal
  BY <1>1, <1>12 DEF OpenStream, FetchFails
<1>13. CASE Work
  BY <1>8, <1>9, <1>10, <1>11, <1>12, <1>13 DEF Work
<1>14. CASE Trouble
  BY <1>7, <1>9, <1>12, <1>14 DEF Trouble
<1> QED
  BY <1>10, <1>13, <1>14 DEF Next

LEMMA AnswerFreshStep ==
  ASSUME TypeOK, IInv, [Next]_vars
  PROVE  \A v \in Viewers :
           pc'[v] = "store" /\ seen'[v][answer'[v].of].status \in Final => answer'[v].status \in Final
<1> SUFFICES ASSUME NEW v \in Viewers, pc'[v] = "store", seen'[v][answer'[v].of].status \in Final
             PROVE  answer'[v].status \in Final
  OBVIOUS
<1>0. pc \in [Viewers -> Points] /\ answer \in [Viewers -> Answers] /\ remote \in [Tasks -> RemoteStates]
  BY DEF TypeOK, ViewerOK, StoredOK
<1>1. CASE pc[v] = "store" /\ answer'[v] = answer[v] /\ seen'[v] = seen[v]
  BY <1>1 DEF IInv, ReportedInv
<1>2. ASSUME NEW t \in Tasks, FetchTask(v, t)
      PROVE  answer'[v].status \in Final
  <2>1. /\ answer'[v].of = t
        /\ answer'[v].status = IF remote[t] = "running" THEN "open" ELSE remote[t]
    BY <1>0, <1>2 DEF FetchTask
  <2>2. seen[v][t].status \in Final
    BY <1>2, <2>1 DEF FetchTask
  <2>3. remote[t] \in Final
    BY <2>2 DEF IInv, SeenInv
  <2> QED
    BY <2>1, <2>3 DEF Final
<1>3. ASSUME NEW t \in Tasks, FetchFails(v, t)
      PROVE  answer'[v].status \in Final
  <2>1. /\ answer'[v].of = t
        /\ seen[v][t].status \in Final => answer'[v].status = seen[v][t].status
    BY <1>0, <1>3 DEF FetchFails
  <2> QED
    BY <1>3, <2>1 DEF FetchFails
<1>4. ASSUME NEW u \in Viewers, Follow(u)
      PROVE  \/ pc[v] = "store" /\ answer'[v] = answer[v] /\ seen'[v] = seen[v]
             \/ \E t \in Tasks : FetchTask(v, t)
  <2>1. CASE u # v
    BY <1>0, <1>4, <2>1
       DEF Follow, GoTo, Leave, ListTasks, FetchTask, MarkTask, StoreAnswer, SyncOperation, EndRound,
           SkipNotice, TakeNotice, WriteNotice, Turn, TypeOK, ViewerOK
  <2>2. CASE u = v
    BY <1>0, <1>4, <2>2
       DEF Follow, GoTo, Leave, ListTasks, MarkTask, StoreAnswer, SyncOperation, EndRound,
           SkipNotice, TakeNotice, WriteNotice, Turn, TypeOK, ViewerOK
  <2> QED
    BY <2>1, <2>2
<1>5. ASSUME NEW u \in Viewers, OpenStream(u) \/ ListTasks(u) \/ Disconnect(u)
      PROVE  pc[v] = "store" /\ answer'[v] = answer[v] /\ seen'[v] = seen[v]
  BY <1>0, <1>5 DEF GoTo, Leave, OpenStream, ListTasks, Disconnect, TypeOK, ViewerOK
<1>6. ASSUME NEW u \in Viewers, NEW t \in Tasks, CallTaskTool(u, t)
      PROVE  pc[v] = "store" /\ answer'[v] = answer[v] /\ seen'[v] = seen[v]
  BY <1>0, <1>6 DEF GoTo, CallTaskTool, TypeOK, ViewerOK
<1>7. ASSUME NEW u \in Viewers, NEW t \in Tasks, FetchFails(u, t)
      PROVE  \/ pc[v] = "store" /\ answer'[v] = answer[v] /\ seen'[v] = seen[v]
             \/ FetchFails(v, t)
  BY <1>0, <1>7 DEF GoTo, FetchFails, TypeOK, ViewerOK
<1>8. CASE Crash
  BY <1>8 DEF Crash
<1>9. CASE RunStep \/ (\E r \in Repeats : Again(r)) \/ UNCHANGED vars \/ \E t \in Tasks : Finish(t)
  BY <1>1, <1>9
     DEF RunStep, BeginRun, EndRun, RunFails, Again, RepeatDecision, ResumeAgain, Refused,
         StartOperation, SendCreate, CreateFails, CreateTaskRecord, CompleteOperation, ToolRaises,
         Finish, vars, viewer
<1> QED
  BY <1>1, <1>2, <1>3, <1>4, <1>5, <1>6, <1>7, <1>8, <1>9 DEF Next, Work, Trouble

LEMMA ReportedStep == TypeOK /\ IInv /\ [Next]_vars => ReportedInv'
  BY NoticedStep, SeenNoticedStep, AnswerFreshStep DEF ReportedInv

\* While a viewer reports, nothing is recorded and nothing goes back.
LEMMA EndedStays ==
  ASSUME TypeOK, IInv, [Next]_vars, AllEnded, run # "on"
  PROVE  AllEnded'
<1>1. Grown
  BY Grows
<1>2. \A t \in Tasks : tool[t] \in {"todo", "done"}
  BY DEF IInv, RunInv, TypeOK, ProgramOK
<1>3. \A t \in Tasks : task'[t] # "absent" => task[t] # "absent"
  BY <1>2, Written DEF CreateTaskRecord
<1> QED
  BY <1>1, <1>3 DEF AllEnded, Recorded, Grown

LEMMA MarkStep == TypeOK /\ IInv /\ [Next]_vars => MarkInv'
<1> SUFFICES ASSUME TypeOK, IInv, [Next]_vars, NEW v \in Viewers, pc'[v] = "mark"
             PROVE  lock' = v /\ AllEnded' /\ \A t \in todo'[v] : seen'[v][t].status \in Final
  BY DEF MarkInv
<1>0. /\ pc \in [Viewers -> Points] /\ seen \in [Viewers -> [Tasks -> Records]]
      /\ todo \in [Viewers -> SUBSET Tasks] /\ v # NoOne /\ v # Resumed
      /\ run = "on" => lock = Resumed
  BY OwnersAssumption DEF TypeOK, ViewerOK, IInv, RunInv
<1>1. CASE pc[v] = "mark" /\ lock' = lock /\ seen'[v] = seen[v] /\ todo'[v] \subseteq todo[v]
  <2>1. lock = v /\ AllEnded /\ \A t \in todo[v] : seen[v][t].status \in Final
    BY <1>1 DEF IInv, MarkInv
  <2> QED
    BY <1>0, <1>1, <2>1, EndedStays
<1>2. ASSUME TakeNotice(v), pc[v] # "mark"
      PROVE  lock' = v /\ AllEnded' /\ \A t \in todo'[v] : seen'[v][t].status \in Final
  <2>1. /\ lock = NoOne /\ lock' = v /\ GroupEnded(Listed)
        /\ seen'[v] = Listed /\ todo'[v] = Silent(Listed)
    BY <1>0, <1>2 DEF TakeNotice, GoTo
  <2>2. \A t \in Tasks : Listed[t].status = task[t]
    BY DEF Listed
  <2>3. \A t \in Tasks : task[t] # "absent" => task[t] \in Final
    BY <2>1, <2>2 DEF GroupEnded, Known, Ended
  <2>4. AllEnded
    BY <2>3 DEF AllEnded, Recorded, IInv, RecordedOutcome
  <2>5. run # "on"
    BY <1>0, <2>1, OwnersAssumption
  <2> QED
    BY <2>1, <2>2, <2>4, <2>5, EndedStays DEF Silent, Ended
\* Who reports keeps the lock: the others find it held.
<1>3. ASSUME pc[v] = "mark"
      PROVE  lock = v /\ run # "on" /\ \A u \in Viewers \ {v} : lock # u /\ pc[u] # "mark"
  BY <1>0, <1>3 DEF IInv, MarkInv
<1>4. ASSUME NEW u \in Viewers, Follow(u)
      PROVE  \/ pc[v] = "mark" /\ lock' = lock /\ seen'[v] = seen[v] /\ todo'[v] \subseteq todo[v]
             \/ TakeNotice(v) /\ pc[v] # "mark"
  <2>1. CASE u # v
    BY <1>0, <1>3, <1>4, <2>1
       DEF Follow, GoTo, Leave, ListTasks, FetchTask, MarkTask, StoreAnswer, SyncOperation, EndRound,
           SkipNotice, TakeNotice, WriteNotice, Turn
  <2>2. CASE u = v
    BY <1>0, <1>4, <2>2
       DEF Follow, GoTo, Leave, ListTasks, FetchTask, MarkTask, StoreAnswer, SyncOperation, EndRound,
           SkipNotice, TakeNotice, WriteNotice, Turn
  <2> QED
    BY <2>1, <2>2
<1>5. ASSUME NEW u \in Viewers,
             OpenStream(u) \/ ListTasks(u) \/ Disconnect(u) \/ \E t \in Tasks : FetchFails(u, t)
      PROVE  pc[v] = "mark" /\ lock' = lock /\ seen'[v] = seen[v] /\ todo'[v] \subseteq todo[v]
  BY <1>0, <1>3, <1>5 DEF GoTo, Leave, OpenStream, ListTasks, Disconnect, FetchFails
<1>6. ASSUME NEW u \in Viewers, NEW t \in Tasks, CallTaskTool(u, t)
      PROVE  FALSE
  BY <1>0, <1>3, <1>6 DEF GoTo, CallTaskTool
<1>7. CASE Crash
  BY <1>7 DEF Crash
<1>8. CASE RunStep \/ (\E r \in Repeats : Again(r)) \/ UNCHANGED vars \/ \E t \in Tasks : Finish(t)
  <2>1. pc' = pc /\ seen' = seen /\ todo' = todo
    BY <1>8
       DEF RunStep, BeginRun, EndRun, RunFails, Again, RepeatDecision, ResumeAgain, Refused,
           StartOperation, SendCreate, CreateFails, CreateTaskRecord, CompleteOperation, ToolRaises,
           Finish, vars, viewer
  <2>2. lock = v /\ run # "on"
    BY <1>3, <2>1
  <2>3. lock' = lock
    BY <1>0, <1>8, <2>2
       DEF RunStep, BeginRun, EndRun, RunFails, Again, RepeatDecision, ResumeAgain, Refused,
           StartOperation, SendCreate, CreateFails, CreateTaskRecord, CompleteOperation, ToolRaises,
           Finish, vars
  <2> QED
    BY <1>1, <2>1, <2>3
<1> QED
  BY <1>1, <1>2, <1>4, <1>5, <1>6, <1>7, <1>8 DEF Next, Work, Trouble

\* What a viewer holds stays right as others go on.
LEMMA SeenFrame ==
  ASSUME TypeOK, IInv, Grown, NEW v \in Viewers,
         \A u \in Viewers \ {v} : seen'[u] = seen[u] /\ todo'[u] \subseteq todo[u],
         \A t \in Tasks :
           /\ seen'[v][t].status # "absent" => task'[t] # "absent"
           /\ seen'[v][t].status \in Final => seen'[v][t].status = remote'[t]
           /\ t \in todo'[v] => seen'[v][t].status # "absent"
  PROVE  SeenInv'
<1>1. ASSUME NEW u \in Viewers \ {v}, NEW t \in Tasks
      PROVE  /\ seen'[u][t].status # "absent" => task'[t] # "absent"
             /\ seen'[u][t].status \in Final => seen'[u][t].status = remote'[t]
             /\ t \in todo'[u] => seen'[u][t].status # "absent"
  BY <1>1 DEF Grown, IInv, SeenInv
<1> QED
  BY <1>1 DEF SeenInv

LEMMA SeenSame ==
  ASSUME IInv, Grown, UNCHANGED seen, \A v \in Viewers : todo'[v] \subseteq todo[v]
  PROVE  SeenInv'
  BY DEF Grown, IInv, SeenInv

\* A viewer that holds nothing holds nothing wrong.
LEMMA SeenNothing ==
  ASSUME TypeOK, IInv, Grown, NEW v \in Viewers, seen'[v] = NothingSeen, todo'[v] = {},
         \A u \in Viewers \ {v} : seen'[u] = seen[u] /\ todo'[u] = todo[u]
  PROVE  SeenInv'
<1>1. \A t \in Tasks : NothingSeen[t].status = "absent" /\ "absent" \notin Final
  BY NothingType DEF Final
<1> QED
  BY <1>1, SeenFrame

LEMMA SeenStep == TypeOK /\ IInv /\ [Next]_vars => SeenInv'
<1> SUFFICES ASSUME TypeOK, IInv, [Next]_vars PROVE SeenInv'
  OBVIOUS
<1>0. /\ Grown /\ seen \in [Viewers -> [Tasks -> Records]] /\ todo \in [Viewers -> SUBSET Tasks]
      /\ task \in [Tasks -> TaskStates]
  BY Grows DEF TypeOK, ViewerOK, StoredOK
<1>1. CASE UNCHANGED <<seen, todo>>
  BY <1>0, <1>1, SeenSame
<1>2. ASSUME NEW v \in Viewers, NEW some \in SUBSET Recorded, UNCHANGED <<task, remote>>,
             seen' = [seen EXCEPT ![v] = Kept(v, Listed, some)], todo' = [todo EXCEPT ![v] = some]
      PROVE  SeenInv'
  <2>1. \A u \in Viewers \ {v} : seen'[u] = seen[u] /\ todo'[u] \subseteq todo[u]
    BY <1>0, <1>2
  <2>2. seen'[v] = Kept(v, Listed, some) /\ todo'[v] = some
    BY <1>0, <1>2
  <2>3. \A t \in some : t \in Tasks /\ task[t] # "absent"
    BY DEF Recorded
  <2> QED
    BY <1>0, <1>2, <2>1, <2>2, <2>3, ListedSound, SeenFrame
<1>3. Known(Listed) \ Ended(Listed) \in SUBSET Recorded
  BY DEF Known, Recorded, Listed
<1>4. ASSUME NEW v \in Viewers, ListTasks(v)
      PROVE  SeenInv'
  BY <1>2, <1>3, <1>4 DEF ListTasks, stored
<1>5. ASSUME NEW v \in Viewers, NEW t \in Tasks, CallTaskTool(v, t)
      PROVE  SeenInv'
  <2>1. {t} \in SUBSET Recorded
    BY <1>5 DEF CallTaskTool, Recorded
  <2> QED
    BY <1>2, <1>5, <2>1 DEF CallTaskTool, stored
<1>6. ASSUME NEW v \in Viewers, NEW t \in Tasks, FetchTask(v, t) \/ FetchFails(v, t) \/ MarkTask(v, t)
      PROVE  SeenInv'
  <2>1. todo' = [todo EXCEPT ![v] = @ \ {t}] /\ UNCHANGED seen
    BY <1>6 DEF FetchTask, FetchFails, MarkTask
  <2>2. \A u \in Viewers : todo'[u] \subseteq todo[u]
    BY <1>0, <2>1
  <2> QED
    BY <1>0, <2>1, <2>2, SeenSame
<1>7. ASSUME NEW v \in Viewers, StoreAnswer(v)
      PROVE  SeenInv'
  <2>1. /\ answer[v].of \in Tasks /\ task[answer[v].of] # "absent" /\ answer[v].status # "absent"
        /\ answer[v].status \in Final => answer[v].status = remote[answer[v].of]
    BY <1>7, Appended DEF StoreAnswer
  <2>2. \A t \in Tasks :
          \/ seen'[v][t] = seen[v][t]
          \/ seen'[v][t] = NothingSeen[t] /\ t \notin todo[v]
          \/ t = answer[v].of /\ seen'[v][t].status = answer[v].status
    BY <1>7, StoreKeeps
  <2>3. todo' = todo /\ \A u \in Viewers \ {v} : seen'[u] = seen[u] /\ todo'[u] \subseteq todo[u]
    BY <1>7, StoreIs DEF StoreAnswer
  <2>4. \A t \in Tasks : NothingSeen[t].status = "absent" /\ "absent" \notin Final
    BY NothingType DEF Final
  <2>5. \A t \in Tasks :
          /\ seen[v][t].status # "absent" => task[t] # "absent"
          /\ seen[v][t].status \in Final => seen[v][t].status = remote[t]
          /\ t \in todo[v] => seen[v][t].status # "absent"
    BY DEF IInv, SeenInv
  <2>6. ASSUME NEW t \in Tasks
        PROVE  /\ seen'[v][t].status # "absent" => task'[t] # "absent"
               /\ seen'[v][t].status \in Final => seen'[v][t].status = remote'[t]
               /\ t \in todo'[v] => seen'[v][t].status # "absent"
    BY <1>0, <2>1, <2>2, <2>3, <2>4, <2>5 DEF Grown
  <2> QED
    BY <1>0, <2>3, <2>6, SeenFrame
<1>8. ASSUME NEW v \in Viewers, Leave(v)
      PROVE  SeenInv'
  <2>1. /\ seen'[v] = NothingSeen /\ todo'[v] = {}
        /\ \A u \in Viewers \ {v} : seen'[u] = seen[u] /\ todo'[u] = todo[u]
    BY <1>8, LeaveIs DEF TypeOK
  <2> QED
    BY <1>0, <2>1, SeenNothing
<1>9. ASSUME NEW v \in Viewers, todo[v] = {}, UNCHANGED todo, seen' = [seen EXCEPT ![v] = NothingSeen]
      PROVE  SeenInv'
  <2>1. /\ seen'[v] = NothingSeen /\ todo'[v] = {}
        /\ \A u \in Viewers \ {v} : seen'[u] = seen[u] /\ todo'[u] = todo[u]
    BY <1>0, <1>9
  <2> QED
    BY <1>0, <2>1, SeenNothing
<1>10. ASSUME NEW v \in Viewers, TakeNotice(v)
       PROVE  SeenInv'
  <2>1. CASE UNCHANGED <<seen, todo>>
    BY <1>1, <2>1
  <2>2. CASE seen' = [seen EXCEPT ![v] = Listed] /\ todo' = [todo EXCEPT ![v] = Silent(Listed)]
    <3>1. UNCHANGED <<task, remote>>
      BY <1>10 DEF TakeNotice, stored
    <3>2. /\ \A u \in Viewers \ {v} : seen'[u] = seen[u] /\ todo'[u] \subseteq todo[u]
          /\ seen'[v] = Listed /\ todo'[v] = Silent(Listed)
      BY <1>0, <2>2
    <3>3. \A t \in Tasks :
                          /\ Listed[t].status = task[t]
                          /\ t \in Silent(Listed) => task[t] # "absent"
                          /\ task[t] \in Final => task[t] = remote[t]
      BY DEF Listed, Silent, Ended, Final, IInv, RecordedOutcome
    <3>4. \A t \in Tasks :
                          /\ seen'[v][t].status # "absent" => task'[t] # "absent"
                          /\ seen'[v][t].status \in Final => seen'[v][t].status = remote'[t]
                          /\ t \in todo'[v] => seen'[v][t].status # "absent"
      BY <3>1, <3>2, <3>3
    <3> QED
      BY <1>0, <3>2, <3>4, SeenFrame
  <2> QED
    BY <1>10, <2>1, <2>2 DEF TakeNotice
<1>11. CASE Crash
  <2>1. \A v \in Viewers, t \in Tasks : seen'[v][t].status = "absent" /\ todo'[v] = {}
    BY <1>11, NothingType DEF Crash
  <2> QED
    BY <2>1 DEF SeenInv, Final
<1>12. ASSUME NEW v \in Viewers, Follow(v)
       PROVE  SeenInv'
  BY <1>1, <1>4, <1>6, <1>7, <1>8, <1>9, <1>10, <1>12
     DEF Follow, SyncOperation, EndRound, SkipNotice, WriteNotice, Turn
<1> QED
  BY <1>1, <1>4, <1>5, <1>6, <1>8, <1>11, <1>12
     DEF Next, Work, Trouble, RunStep, BeginRun, EndRun, RunFails, Again,
         RepeatDecision, ResumeAgain, Refused, StartOperation, SendCreate, CreateFails,
         CreateTaskRecord, CompleteOperation, ToolRaises, Finish, OpenStream, ListTasks, Disconnect,
         vars, viewer

LEMMA AnswerFrame ==
  ASSUME TypeOK, IInv, Grown, NEW v \in Viewers,
         \A u \in Viewers \ {v} : pc'[u] = pc[u] /\ answer'[u] = answer[u],
         pc'[v] \in {"store", "sync"} => answer'[v].of \in Tasks,
         pc'[v] = "sync" => answer'[v].status \in Final,
         answer'[v].of \in Tasks =>
           /\ task'[answer'[v].of] # "absent" /\ answer'[v].status # "absent"
           /\ answer'[v].status \in Final => answer'[v].status = remote'[answer'[v].of]
  PROVE  AnswerInv'
<1>1. ASSUME NEW u \in Viewers \ {v}
      PROVE  /\ pc'[u] \in {"store", "sync"} => answer'[u].of \in Tasks
             /\ pc'[u] = "sync" => answer'[u].status \in Final
             /\ answer'[u].of \in Tasks =>
                  /\ task'[answer'[u].of] # "absent" /\ answer'[u].status # "absent"
                  /\ answer'[u].status \in Final => answer'[u].status = remote'[answer'[u].of]
  BY <1>1 DEF Grown, IInv, AnswerInv
<1> QED
  BY <1>1 DEF AnswerInv

LEMMA AnswerStep == TypeOK /\ IInv /\ [Next]_vars => AnswerInv'
<1> SUFFICES ASSUME TypeOK, IInv, [Next]_vars PROVE AnswerInv'
  OBVIOUS
<1>0. /\ Grown /\ pc \in [Viewers -> Points] /\ answer \in [Viewers -> Answers]
      /\ task \in [Tasks -> TaskStates] /\ remote \in [Tasks -> RemoteStates]
  BY Grows DEF TypeOK, ViewerOK, StoredOK
<1>1. CASE UNCHANGED <<pc, answer>>
  BY <1>0, <1>1 DEF Grown, IInv, AnswerInv
\* The viewer goes where no answer is due.
<1>2. ASSUME NEW v \in Viewers, NEW p \in Points \ {"store", "sync"}, GoTo(v, p),
             UNCHANGED answer \/ answer' = [answer EXCEPT ![v] = NoAnswer]
      PROVE  AnswerInv'
  <2>1. \A u \in Viewers \ {v} : pc'[u] = pc[u] /\ answer'[u] = answer[u]
    BY <1>0, <1>2 DEF GoTo
  <2>2. pc'[v] = p /\ (answer'[v] = answer[v] \/ answer'[v] = NoAnswer)
    BY <1>0, <1>2 DEF GoTo
  <2>3. answer[v].of \in Tasks =>
          /\ task[answer[v].of] # "absent" /\ answer[v].status # "absent"
          /\ answer[v].status \in Final => answer[v].status = remote[answer[v].of]
    BY DEF IInv, AnswerInv
  <2>4. CASE answer'[v] = NoAnswer
    BY <1>0, <2>1, <2>2, <2>4, NothingType, AnswerFrame
  <2>5. CASE answer'[v] = answer[v]
    <3>1. answer[v].of \in Tasks =>
            /\ task'[answer[v].of] # "absent"
            /\ answer[v].status \in Final => answer[v].status = remote'[answer[v].of]
      BY <1>0, <2>3 DEF Grown
    <3> QED
      BY <1>0, <2>1, <2>2, <2>3, <2>5, <3>1, AnswerFrame
  <2> QED
    BY <2>2, <2>4, <2>5
<1>3. ASSUME NEW v \in Viewers, NEW t \in Tasks, NEW s \in TaskStates, s # "absent",
             s \in Final => s = remote[t], task[t] # "absent",
             answer' = [answer EXCEPT ![v] = [of |-> t, status |-> s]], GoTo(v, "store")
      PROVE  AnswerInv'
  <2>1. \A u \in Viewers \ {v} : pc'[u] = pc[u] /\ answer'[u] = answer[u]
    BY <1>0, <1>3 DEF GoTo
  <2>2. pc'[v] = "store" /\ answer'[v].of = t /\ answer'[v].status = s
    BY <1>0, <1>3 DEF GoTo
  <2>3. task'[t] # "absent" /\ (s \in Final => s = remote'[t])
    BY <1>0, <1>3 DEF Grown
  <2> QED
    BY <1>0, <1>3, <2>1, <2>2, <2>3, AnswerFrame
<1>4. ASSUME NEW v \in Viewers, NEW t \in Tasks, FetchTask(v, t)
      PROVE  AnswerInv'
  <2>1. task[t] # "absent" /\ remote[t] # "none" /\ t \in todo[v]
    BY <1>4, Appended DEF FetchTask, IInv, RemoteInv
  <2> DEFINE s == IF remote[t] = "running" THEN "open" ELSE remote[t]
  <2>2. s \in TaskStates /\ s # "absent" /\ (s \in Final => s = remote[t])
    BY <1>0, <2>1 DEF RemoteStates, TaskStates, Final
  <2>3. answer' = [answer EXCEPT ![v] = [of |-> t, status |-> s]] /\ GoTo(v, "store")
    BY <1>4 DEF FetchTask
  <2> HIDE DEF s
  <2> QED
    BY <1>3, <2>1, <2>2, <2>3
<1>5. ASSUME NEW v \in Viewers, NEW t \in Tasks, FetchFails(v, t)
      PROVE  AnswerInv'
  <2> DEFINE s == IF seen[v][t].status \in Final THEN seen[v][t].status ELSE "open"
  <2>1. task[t] # "absent"
    BY <1>5, Appended DEF FetchFails
  <2>2. s \in TaskStates /\ s # "absent" /\ (s \in Final => s = remote[t])
    BY DEF IInv, SeenInv, TaskStates, Final
  <2>3. answer' = [answer EXCEPT ![v] = [of |-> t, status |-> s]] /\ GoTo(v, "store")
    BY <1>5 DEF FetchFails
  <2> HIDE DEF s
  <2> QED
    BY <1>3, <2>1, <2>2, <2>3
<1>6. ASSUME NEW v \in Viewers, StoreAnswer(v)
      PROVE  AnswerInv'
  <2>1. /\ answer[v].of \in Tasks /\ task[answer[v].of] # "absent" /\ answer[v].status # "absent"
        /\ answer[v].status \in Final => answer[v].status = remote[answer[v].of]
    BY <1>6, Appended DEF StoreAnswer
  <2>2. CASE GoTo(v, "fetch") /\ answer' = [answer EXCEPT ![v] = NoAnswer]
    <3>1. "fetch" \in Points \ {"store", "sync"}
      BY DEF Points
    <3> QED
      BY <1>2, <2>2, <3>1
  <2>3. CASE answer[v].status \in Final /\ GoTo(v, "sync") /\ UNCHANGED answer
    <3>1. /\ \A u \in Viewers \ {v} : pc'[u] = pc[u] /\ answer'[u] = answer[u]
          /\ pc'[v] = "sync" /\ answer'[v] = answer[v]
      BY <1>0, <2>3 DEF GoTo
    <3>2. task'[answer[v].of] # "absent" /\ answer[v].status = remote'[answer[v].of]
      BY <1>0, <2>1, <2>3 DEF Grown
    <3> QED
      BY <1>0, <2>1, <2>3, <3>1, <3>2, AnswerFrame
  <2>4. [seen[v][answer[v].of] EXCEPT !.status = answer[v].status].status = answer[v].status
    <3>1. seen[v][answer[v].of] \in Records /\ answer[v].status \in TaskStates
      BY <1>0, <2>1 DEF TypeOK, ViewerOK, Answers
    <3> QED
      BY <3>1, RecordChange
  <2> QED
    BY <1>6, <2>2, <2>3, <2>4 DEF StoreAnswer
<1>7. ASSUME NEW v \in Viewers, Leave(v)
      PROVE  AnswerInv'
  <2>1. /\ pc'[v] = "off" /\ answer'[v] = NoAnswer
        /\ \A u \in Viewers \ {v} : pc'[u] = pc[u] /\ answer'[u] = answer[u]
    BY <1>7, LeaveIs DEF TypeOK
  <2> QED
    BY <1>0, <2>1, NothingType, AnswerFrame
<1>8. {"list", "fetch", "notice", "mark", "turn"} \subseteq Points \ {"store", "sync"}
  BY DEF Points
<1>9. ASSUME NEW v \in Viewers,
             \/ OpenStream(v) \/ ListTasks(v) \/ SyncOperation(v) \/ EndRound(v) \/ SkipNotice(v)
             \/ TakeNotice(v) \/ WriteNotice(v) \/ Turn(v)
      PROVE  AnswerInv'
  BY <1>2, <1>7, <1>8, <1>9
     DEF OpenStream, ListTasks, SyncOperation, EndRound, SkipNotice, TakeNotice, WriteNotice, Turn
<1>10. ASSUME NEW v \in Viewers, NEW t \in Tasks, CallTaskTool(v, t)
       PROVE  AnswerInv'
  BY <1>2, <1>8, <1>10 DEF CallTaskTool
<1>11. CASE Crash
  <2>1. \A v \in Viewers : pc'[v] = "off" /\ answer'[v] = NoAnswer
    BY <1>11 DEF Crash
  <2> QED
    BY <2>1, NothingType DEF AnswerInv
<1>12. ASSUME NEW v \in Viewers, Follow(v)
       PROVE  AnswerInv'
  BY <1>1, <1>4, <1>6, <1>9, <1>12 DEF Follow, MarkTask
<1> QED
  BY <1>1, <1>5, <1>7, <1>9, <1>10, <1>11, <1>12
     DEF Next, Work, Trouble, RunStep, BeginRun, EndRun, RunFails, Again,
         RepeatDecision, ResumeAgain, Refused, StartOperation, SendCreate, CreateFails,
         CreateTaskRecord, CompleteOperation, ToolRaises, Finish, Disconnect, vars, viewer

-----------------------------------------------------------------------------

LEMMA Inductive == Spec => [](TypeOK /\ IInv)
<1>1. TypeOK /\ IInv /\ [Next]_vars => IInv'
  BY RunInvStep, RemoteInvStep, SeenStep, AnswerStep, OutcomeStep, ReportedStep,
     MarkStep DEF IInv
<1> QED
  BY Init0, TypeStep, <1>1, PTL DEF Spec

\* Every variable keeps its type: above all, no viewer stores a status of DBAAS
\* that a task record does not know (map_dbaas_task_status).
THEOREM TypeCorrect == Spec => []TypeOK
  BY Inductive, PTL

\* Whatever stale copies viewers append, a task recorded as ended, and its
\* operation, have ended that way (task_service.py, _append_if_visible_changed).
THEOREM OutcomeCorrect == Spec => []RecordedOutcome
<1>1. IInv => RecordedOutcome
  BY DEF IInv
<1> QED
  BY <1>1, Inductive, PTL

\* However many streams look for ended tasks and however often the run is resumed,
\* nothing is reported while a run is on or before DBAAS has ended every recorded
\* task (routes_tasks.py:149-181).
THEOREM NoticeLast == Spec => NoticeAfterAll
<1>1. ASSUME TypeOK, IInv, [Next]_vars,
             \/ \E t \in Tasks : ~noticed[t] /\ noticed'[t]
             \/ \E v \in Viewers : pc[v] = "mark" /\ pc'[v] = "turn"
      PROVE  run # "on" /\ \A t \in Recorded : remote[t] \in Final
  <2>1. PICK v \in Viewers : pc[v] = "mark"
    BY <1>1, NoticedStep
  <2> QED
    BY <1>1, <2>1, OwnersAssumption DEF IInv, MarkInv, RunInv, AllEnded
<1> QED
  BY <1>1, Inductive, PTL DEF Spec, NoticeAfterAll

\* Task tracking works with a DBAAS that keeps the contract of DbaasTasks and
\* does no more, the contract the store implements (MockProofs): no step of the
\* run, of a viewer or of a crash has DBAAS accept or end a task twice.
Dbaas == INSTANCE DbaasTasks

THEOREM WithinContract == Spec => Dbaas!Spec
<1>1. Init => Dbaas!Init
  BY DEF Init, Dbaas!Init
<1>2. ASSUME TypeOK, IInv, Next
      PROVE  Dbaas!Next \/ UNCHANGED remote
  <2>1. ASSUME NEW t \in Tasks, SendCreate(t) PROVE Dbaas!Next
    BY <1>2, <2>1 DEF SendCreate, IInv, RemoteInv, Dbaas!Next, Dbaas!Accept
  <2>2. ASSUME NEW t \in Tasks, Finish(t) PROVE Dbaas!Next
    BY <2>2, OutcomesAssumption DEF Finish, Dbaas!Next, Dbaas!End
  <2>3. CASE RunStep \/ \E r \in Repeats : Again(r)
    BY <2>1, <2>3 DEF RunStep, BeginRun, EndRun, RunFails, Again,
         RepeatDecision, ResumeAgain, Refused, StartOperation, CreateFails, CreateTaskRecord,
         CompleteOperation, ToolRaises
  <2>4. ASSUME NEW v \in Viewers, OpenStream(v) \/ ListTasks(v) \/ Follow(v) PROVE UNCHANGED remote
    BY <2>4 DEF Follow, OpenStream, ListTasks, FetchTask, MarkTask, StoreAnswer, SyncOperation,
         EndRound, SkipNotice, TakeNotice, WriteNotice, Turn
  <2>5. ASSUME NEW v \in Viewers, NEW t \in Tasks, CallTaskTool(v, t) PROVE UNCHANGED remote
    BY <2>5 DEF CallTaskTool
  <2>6. CASE Trouble
    BY <2>6 DEF Trouble, Crash, Disconnect, FetchFails
  <2> QED
    BY <1>2, <2>2, <2>3, <2>4, <2>5, <2>6 DEF Next, Work
<1>3. UNCHANGED vars => UNCHANGED remote
  BY DEF vars
<1> QED
  BY <1>1, <1>2, <1>3, Inductive, PTL DEF Spec, Dbaas!Spec

=============================================================================

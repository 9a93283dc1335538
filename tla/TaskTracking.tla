----------------------------- MODULE TaskTracking -----------------------------
(***************************************************************************)
(* The asynchronous DBAAS tasks of one approval, from their creation by    *)
(* the approved run to the one message that reports their outcome.         *)
(*                                                                         *)
(* The run (write_tools.py) creates the tasks under the session's run      *)
(* lock.  A run that failed is resumed by a repeated decision, which looks *)
(* for the failure, and for operations, before it takes the lock: several  *)
(* that saw none run one after the other.                                  *)
(*                                                                         *)
(* Viewers follow the tasks: a page that lists the tasks                   *)
(* (get_session_tasks) and an event stream (stream_session_task_events)    *)
(* take no lock to refresh a task, the agent's get_dbaas_task_tool works   *)
(* under the lock of its own chat run.  A viewer lists the records, asks   *)
(* DBAAS about one task at a time and appends a copy of the record it      *)
(* listed, so what it writes may be stale.  A stream also writes the       *)
(* terminal notice, under the run lock, once the whole group has ended.    *)
(*                                                                         *)
(* tasks.jsonl and operations.jsonl survive a crash; viewers, run and lock *)
(* do not.  A canceled task is treated like a failed one.                  *)
(***************************************************************************)
CONSTANTS
    Tasks,      \* the runs' tool calls, with one task and one operation each
    Repeats,    \* repeated decisions that may be under way at once
    Viewers,    \* task refreshes that may be under way at once
    Streams,    \* the viewers that are event streams
    Outcomes,   \* how DBAAS may end a task
    NoTask,
    NoOne,      \* owner of the free run lock
    Resumed     \* owner of the run lock during the approved run

ASSUME ViewersAssumption == Streams \subseteq Viewers
ASSUME OwnersAssumption  ==
    NoTask \notin Tasks /\ NoOne # Resumed /\ {NoOne, Resumed} \cap Viewers = {}
ASSUME OutcomesAssumption == Outcomes \subseteq {"succeeded", "failed"}

VARIABLES
    \* Durable: the latest records folded from tasks.jsonl and operations.jsonl
    task,       \* [Tasks -> TaskStates]
    noticed,    \* [Tasks -> BOOLEAN], terminal_notice_emitted
    operation,  \* [Tasks -> OperationStates]
    retry,      \* resume_failed is set and no operation is recorded
    \* DBAAS
    remote,     \* [Tasks -> RemoteStates], what DBAAS made of the call
    \* In memory
    lock,       \* owner of the session's run lock
    run,        \* the approved run: before, on or over
    tool,       \* [Tasks -> ToolPoints], the run's tool calls
    waiting,    \* the repeated decisions that look for the lock next
    pc,         \* [Viewers -> Points]
    seen,       \* [Viewers -> [Tasks -> Records]], the records a viewer holds
    todo,       \* [Viewers -> SUBSET Tasks], still to refresh or to mark
    answer,     \* [Viewers -> Answers], DBAAS's answer being stored
    unfinished, \* [Viewers -> SUBSET Tasks], as of the stream's last round
    pending     \* [Viewers -> SUBSET Tasks], pending_terminal_task_ids

stored  == <<task, noticed>>
again   == <<retry, waiting>>
program == <<run, tool, again>>
viewer  == <<pc, seen, todo, answer, unfinished, pending>>
vars    == <<stored, operation, remote, lock, program, viewer>>

Final        == {"succeeded", "failed"}
RemoteStates == {"none", "running"} \cup Final
TaskStates   == {"absent", "open"} \cup Final    \* open: created, running, refresh_failed
OperationStates == {"none", "started", "task_created", "no_task"} \cup Final
ToolPoints   == {"todo", "begun", "sent", "recorded", "done"}
Points       == {"off", "list", "fetch", "store", "sync", "notice", "mark", "turn"}
Records      == [status : TaskStates, noticed : BOOLEAN]
Answers      == [of : Tasks \cup {NoTask}, status : TaskStates]

NothingSeen == [t \in Tasks |-> [status |-> "absent", noticed |-> FALSE]]
NoAnswer    == [of |-> NoTask, status |-> "absent"]

StoredOK ==
    /\ task \in [Tasks -> TaskStates] /\ noticed \in [Tasks -> BOOLEAN]
    /\ operation \in [Tasks -> OperationStates]
    /\ remote \in [Tasks -> RemoteStates]

ProgramOK ==
    /\ lock \in Viewers \cup {NoOne, Resumed}
    /\ run \in {"before", "on", "over"} /\ tool \in [Tasks -> ToolPoints]
    /\ retry \in BOOLEAN /\ waiting \subseteq Repeats

ViewerOK ==
    /\ pc \in [Viewers -> Points]
    /\ seen \in [Viewers -> [Tasks -> Records]]
    /\ answer \in [Viewers -> Answers]
    /\ todo \in [Viewers -> SUBSET Tasks]
    /\ unfinished \in [Viewers -> SUBSET Tasks] /\ pending \in [Viewers -> SUBSET Tasks]

TypeOK == StoredOK /\ ProgramOK /\ ViewerOK

Init ==
    /\ task = [t \in Tasks |-> "absent"] /\ noticed = [t \in Tasks |-> FALSE]
    /\ operation = [t \in Tasks |-> "none"]
    /\ remote = [t \in Tasks |-> "none"]
    /\ lock = NoOne /\ run = "before" /\ tool = [t \in Tasks |-> "todo"]
    /\ retry = FALSE /\ waiting = {}
    /\ pc = [v \in Viewers |-> "off"]
    /\ seen = [v \in Viewers |-> NothingSeen]
    /\ todo = [v \in Viewers |-> {}] /\ answer = [v \in Viewers |-> NoAnswer]
    /\ unfinished = [v \in Viewers |-> {}] /\ pending = [v \in Viewers |-> {}]

-----------------------------------------------------------------------------
(* Helpers                                                                  *)

Recorded == {t \in Tasks : task[t] # "absent"}
Listed   == [t \in Tasks |-> [status |-> task[t], noticed |-> noticed[t]]]

\* What a refresh keeps of a listing: a page needs what it will refresh, a
\* stream the whole listing.
Kept(v, list, some) ==
    [t \in Tasks |-> IF v \in Streams \/ t \in some THEN list[t] ELSE NothingSeen[t]]

Known(list) == {t \in Tasks : list[t].status # "absent"}

\* Faulty: an end is a success.
EndedWell(list) == {t \in Tasks : list[t].status = "succeeded"}

\* is_terminal_task_status, and the ended tasks nobody was told about.
Ended(list)  == {t \in Tasks : list[t].status \in Final}
Silent(list) == {t \in Ended(list) : ~list[t].noticed}

\* append_task: the last line of an id wins.
AppendTask(t, rec) ==
    /\ task' = [task EXCEPT ![t] = rec.status]
    /\ noticed' = [noticed EXCEPT ![t] = rec.noticed]

GoTo(v, point) == pc' = [pc EXCEPT ![v] = point]

\* A request ends, and with it what it held.
Leave(v) ==
    /\ GoTo(v, "off")
    /\ lock' = IF lock = v THEN NoOne ELSE lock
    /\ seen' = [seen EXCEPT ![v] = NothingSeen]
    /\ todo' = [todo EXCEPT ![v] = {}]
    /\ answer' = [answer EXCEPT ![v] = NoAnswer]
    /\ unfinished' = [unfinished EXCEPT ![v] = {}]
    /\ pending' = [pending EXCEPT ![v] = {}]

-----------------------------------------------------------------------------
(* The approved run                                                         *)

\* The first decision.
BeginRun ==
    /\ run = "before" /\ lock = NoOne
    /\ run' = "on" /\ lock' = Resumed
    /\ UNCHANGED <<stored, operation, remote, tool, again, viewer>>

\* A repeated decision up to the lock: the approval that decide read says that
\* its run failed, and _handle_terminal_decision finds no operation.
\* Operations only become more, so the two looks are one step.
RepeatDecision(r) ==
    /\ r \notin waiting
    /\ retry
    /\ waiting' = waiting \cup {r}
    /\ UNCHANGED <<stored, operation, remote, lock, run, tool, retry, viewer>>

\* _resume_terminal takes the lock and resumes; nothing is looked at again.
\* A call of an earlier run is found by its id and not made again; one without
\* an id that is made again is another member of Tasks.
ResumeAgain(r) ==
    /\ r \in waiting /\ lock = NoOne
    /\ run' = "on" /\ lock' = Resumed
    /\ waiting' = waiting \ {r}
    /\ UNCHANGED <<stored, operation, remote, tool, retry, viewer>>

\* 409, session_run_locked.
Refused(r) ==
    /\ r \in waiting /\ lock # NoOne
    /\ waiting' = waiting \ {r}
    /\ UNCHANGED <<stored, operation, remote, lock, run, tool, retry, viewer>>

StartOperation(t) ==
    /\ run = "on" /\ tool[t] = "todo"
    /\ operation' = [operation EXCEPT ![t] = "started"]
    /\ tool' = [tool EXCEPT ![t] = "begun"]
    /\ retry' = FALSE
    /\ UNCHANGED <<stored, remote, lock, run, waiting, viewer>>

SendCreate(t) ==
    /\ tool[t] = "begun"
    /\ remote' = [remote EXCEPT ![t] = "running"]
    /\ tool' = [tool EXCEPT ![t] = "sent"]
    /\ UNCHANGED <<stored, operation, lock, run, again, viewer>>

\* A conflict, a refusal, an answer without a task id, or no answer in time:
\* the operation is failed or timeout and, whatever DBAAS did, there is no
\* task record.
CreateFails(t) ==
    /\ tool[t] \in {"begun", "sent"}
    /\ operation' = [operation EXCEPT ![t] = "no_task"]
    /\ tool' = [tool EXCEPT ![t] = "done"]
    /\ UNCHANGED <<stored, remote, lock, run, again, viewer>>

CreateTaskRecord(t) ==
    /\ tool[t] = "sent"
    /\ AppendTask(t, [status |-> "open", noticed |-> FALSE])
    /\ tool' = [tool EXCEPT ![t] = "recorded"]
    /\ UNCHANGED <<operation, remote, lock, run, again, viewer>>

\* complete_operation appends the tool's own record of the operation.
CompleteOperation(t) ==
    /\ tool[t] = "recorded"
    /\ operation' = [operation EXCEPT ![t] = "task_created"]
    /\ tool' = [tool EXCEPT ![t] = "done"]
    /\ UNCHANGED <<stored, remote, lock, run, again, viewer>>

\* The agent has made the calls it wanted; a record that says failed is cleared.
EndRun ==
    /\ run = "on"
    /\ \A t \in Tasks : tool[t] \in {"todo", "done"}
    /\ run' = "over" /\ lock' = NoOne /\ retry' = FALSE
    /\ UNCHANGED <<stored, operation, remote, tool, waiting, viewer>>

\* The model or the checkpoint fails: a failed record is appended, then the
\* lock is given back.
RunFails ==
    /\ run = "on"
    /\ \A t \in Tasks : tool[t] \in {"todo", "done"}
    /\ run' = "over" /\ lock' = NoOne
    /\ retry' = \A t \in Tasks : operation[t] = "none"
    /\ UNCHANGED <<stored, operation, remote, tool, waiting, viewer>>

\* So does an exception that a tool does not catch, once the calls made beside
\* it have returned.
ToolRaises(t) ==
    /\ run = "on" /\ tool[t] \in {"begun", "sent", "recorded"}
    /\ \A u \in Tasks \ {t} : tool[u] \in {"todo", "done"}
    /\ tool' = [tool EXCEPT ![t] = "done"]
    /\ run' = "over" /\ lock' = NoOne
    /\ UNCHANGED <<stored, operation, remote, again, viewer>>

\* DBAAS ends the task.
Finish(t) ==
    /\ remote[t] = "running"
    /\ \E result \in Outcomes : remote' = [remote EXCEPT ![t] = result]
    /\ UNCHANGED <<stored, operation, lock, program, viewer>>

-----------------------------------------------------------------------------
(* Refreshing tasks                                                         *)

\* The event stream lists the records once before its first round.
OpenStream(v) ==
    /\ pc[v] = "off" /\ v \in Streams
    /\ unfinished' = [unfinished EXCEPT ![v] = Known(Listed) \ Ended(Listed)]
    /\ pending' = [pending EXCEPT ![v] = Silent(Listed)]
    /\ GoTo(v, "list")
    /\ UNCHANGED <<stored, operation, remote, lock, program, seen, todo, answer>>

\* list_tasks_with_lazy_refresh: one listing, then every task of it that had
\* not ended.
ListTasks(v) ==
    /\ pc[v] = (IF v \in Streams THEN "list" ELSE "off")
    /\ seen' = [seen EXCEPT ![v] = Kept(v, Listed, Known(Listed) \ Ended(Listed))]
    /\ todo' = [todo EXCEPT ![v] = Known(Listed) \ Ended(Listed)]
    /\ GoTo(v, "fetch")
    /\ UNCHANGED <<stored, operation, remote, lock, program, answer, unfinished,
                   pending>>

\* get_dbaas_task_tool, inside a chat run: one task, ended or not.
CallTaskTool(v, t) ==
    /\ pc[v] = "off" /\ v \notin Streams
    /\ task[t] # "absent"
    /\ lock = NoOne /\ lock' = v
    /\ seen' = [seen EXCEPT ![v] = Kept(v, Listed, {t})]
    /\ todo' = [todo EXCEPT ![v] = {t}]
    /\ GoTo(v, "fetch")
    /\ UNCHANGED <<stored, operation, remote, program, answer, unfinished, pending>>

\* Faulty: DBAAS's own word for the status is kept.
FetchUnmapped(v, t) ==
    /\ pc[v] = "fetch" /\ t \in todo[v]
    /\ answer' = [answer EXCEPT ![v] = [of |-> t, status |->
                     IF remote[t] = "running" THEN "open"
                     ELSE IF remote[t] = "succeeded" THEN "SUCCESS" ELSE remote[t]]]
    /\ todo' = [todo EXCEPT ![v] = @ \ {t}]
    /\ GoTo(v, "store")
    /\ UNCHANGED <<stored, operation, remote, lock, program, seen, unfinished, pending>>

\* get_task, its status mapped by map_dbaas_task_status.
FetchTask(v, t) ==
    /\ pc[v] = "fetch" /\ t \in todo[v]
    /\ answer' = [answer EXCEPT ![v] = [of |-> t, status |->
                     IF remote[t] = "running" THEN "open" ELSE remote[t]]]
    /\ todo' = [todo EXCEPT ![v] = @ \ {t}]
    /\ GoTo(v, "store")
    /\ UNCHANGED <<stored, operation, remote, lock, program, seen, unfinished, pending>>

\* Faulty: a read that failed is taken for a task that failed.
FetchFailsHard(v, t) ==
    /\ pc[v] = "fetch" /\ t \in todo[v]
    /\ answer' = [answer EXCEPT ![v] = [of |-> t, status |-> "failed"]]
    /\ todo' = [todo EXCEPT ![v] = @ \ {t}]
    /\ GoTo(v, "store")
    /\ UNCHANGED <<stored, operation, remote, lock, program, seen, unfinished, pending>>

\* DBAAS does not answer: an ended task stays as it is.
FetchFails(v, t) ==
    /\ pc[v] = "fetch" /\ t \in todo[v]
    /\ answer' = [answer EXCEPT ![v] = [of |-> t, status |->
                     IF seen[v][t].status \in Final THEN seen[v][t].status ELSE "open"]]
    /\ todo' = [todo EXCEPT ![v] = @ \ {t}]
    /\ GoTo(v, "store")
    /\ UNCHANGED <<stored, operation, remote, lock, program, seen, unfinished, pending>>

\* _append_if_visible_changed: a copy of the record the viewer listed, with
\* the new status, is appended when it differs from that copy: in its status
\* or, while the task is open, in what DBAAS says or in the kind of open.
StoreAnswer(v) ==
    /\ pc[v] = "store"
    /\ LET t   == answer[v].of
           rec == [seen[v][t] EXCEPT !.status = answer[v].status]
       IN  \/ /\ ~(rec = seen[v][t] /\ rec.status \in Final)
              /\ AppendTask(t, rec)
              /\ seen' = [seen EXCEPT ![v] = Kept(v, [@ EXCEPT ![t] = rec], todo[v])]
              /\ IF rec.status \in Final
                 THEN GoTo(v, "sync") /\ UNCHANGED answer
                 ELSE GoTo(v, "fetch") /\ answer' = [answer EXCEPT ![v] = NoAnswer]
           \/ /\ rec = seen[v][t]
              /\ seen' = [seen EXCEPT ![v] = Kept(v, @, todo[v])]
              /\ answer' = [answer EXCEPT ![v] = NoAnswer]
              /\ GoTo(v, "fetch")
              /\ UNCHANGED stored
    /\ UNCHANGED <<operation, remote, lock, program, todo, unfinished, pending>>

\* _sync_terminal_operation_status: a second append, to the operation's log.
SyncOperation(v) ==
    /\ pc[v] = "sync"
    /\ operation' = [operation EXCEPT ![answer[v].of] = answer[v].status]
    /\ answer' = [answer EXCEPT ![v] = NoAnswer]
    /\ GoTo(v, "fetch")
    /\ UNCHANGED <<stored, remote, lock, program, seen, todo, unfinished, pending>>

\* A page or a tool answers; a stream looks for tasks to report.
EndRound(v) ==
    /\ pc[v] = "fetch" /\ todo[v] = {}
    /\ IF v \in Streams
       THEN /\ pending' = [pending EXCEPT ![v] =
                  @ \cup Silent(seen[v]) \cup (unfinished[v] \cap Ended(seen[v]))]
            /\ unfinished' = [unfinished EXCEPT ![v] = Known(seen[v]) \ Ended(seen[v])]
            /\ seen' = [seen EXCEPT ![v] = NothingSeen]
            /\ GoTo(v, "notice")
            /\ UNCHANGED <<lock, todo, answer>>
       ELSE Leave(v)
    /\ UNCHANGED <<stored, operation, remote, program>>

-----------------------------------------------------------------------------
(* The terminal notice                                                      *)

\* Faulty: one ended task speaks for its group.
SomeEnded(list) == Silent(list) # {}

\* The group is reported when all its tasks ended and one was not reported.
GroupEnded(list) == Known(list) = Ended(list) /\ Silent(list) # {}

\* Nothing to report, or the run lock is held: the next round tries again.
SkipNotice(v) ==
    /\ pc[v] = "notice"
    /\ pending[v] = {} \/ lock # NoOne
    /\ GoTo(v, "turn")
    /\ UNCHANGED <<stored, operation, remote, lock, program, seen, todo, answer,
                   unfinished, pending>>

\* Under the lock the records are read again.
TakeNotice(v) ==
    /\ pc[v] = "notice"
    /\ pending[v] # {} /\ lock = NoOne
    /\ pending' = [pending EXCEPT ![v] = @ \cap Silent(Listed)]
    /\ IF pending[v] \cap Silent(Listed) # {} /\ GroupEnded(Listed)
       THEN /\ lock' = v
            /\ seen' = [seen EXCEPT ![v] = Listed]
            /\ todo' = [todo EXCEPT ![v] = Silent(Listed)]
            /\ GoTo(v, "mark")
       ELSE GoTo(v, "turn") /\ UNCHANGED <<lock, seen, todo>>
    /\ UNCHANGED <<stored, operation, remote, program, answer, unfinished>>

\* mark_terminal_notice_emitted: copies of the listed records, flag set.
MarkTask(v, t) ==
    /\ pc[v] = "mark" /\ t \in todo[v]
    /\ AppendTask(t, [status |-> seen[v][t].status, noticed |-> TRUE])
    /\ todo' = [todo EXCEPT ![v] = @ \ {t}]
    /\ UNCHANGED <<operation, remote, lock, program, pc, seen, answer, unfinished,
                   pending>>

\* append_system_message, then the lock is given back.
WriteNotice(v) ==
    /\ pc[v] = "mark" /\ todo[v] = {}
    /\ pending' = [pending EXCEPT ![v] = @ \ Known(seen[v])]
    /\ seen' = [seen EXCEPT ![v] = NothingSeen]
    /\ lock' = NoOne
    /\ GoTo(v, "turn")
    /\ UNCHANGED <<stored, operation, remote, program, todo, answer, unfinished>>

\* Another round while a task has not ended or a report is due.
Turn(v) ==
    /\ pc[v] = "turn"
    /\ IF unfinished[v] = {} /\ pending[v] = {}
       THEN Leave(v)
       ELSE GoTo(v, "list") /\ UNCHANGED <<lock, seen, todo, answer, unfinished, pending>>
    /\ UNCHANGED <<stored, operation, remote, program>>

\* The browser goes away; seen between rounds.
Disconnect(v) ==
    /\ pc[v] \in {"list", "turn"}
    /\ Leave(v)
    /\ UNCHANGED <<stored, operation, remote, program>>

-----------------------------------------------------------------------------

\* The process dies: a run that was on is over, its calls where they were.
Crash ==
    /\ run = "on" \/ (\E v \in Viewers : pc[v] # "off") \/ waiting # {}
    /\ run' = IF run = "on" THEN "over" ELSE run
    /\ tool' = [t \in Tasks |-> IF tool[t] = "todo" THEN "todo" ELSE "done"]
    /\ lock' = NoOne
    /\ waiting' = {}
    /\ pc' = [v \in Viewers |-> "off"]
    /\ seen' = [v \in Viewers |-> NothingSeen]
    /\ todo' = [v \in Viewers |-> {}]
    /\ answer' = [v \in Viewers |-> NoAnswer]
    /\ unfinished' = [v \in Viewers |-> {}]
    /\ pending' = [v \in Viewers |-> {}]
    /\ UNCHANGED <<stored, operation, remote, retry>>

RunStep ==
    \/ BeginRun \/ EndRun \/ RunFails
    \/ \E t \in Tasks :
          \/ StartOperation(t) \/ SendCreate(t) \/ CreateFails(t)
          \/ CreateTaskRecord(t) \/ CompleteOperation(t) \/ ToolRaises(t)

Again(r) == RepeatDecision(r) \/ ResumeAgain(r) \/ Refused(r)

\* What a viewer does once it is open.
Follow(v) ==
    \/ (v \in Streams /\ ListTasks(v))
    \/ \E t \in Tasks : FetchTask(v, t) \/ MarkTask(v, t)
    \/ StoreAnswer(v) \/ SyncOperation(v) \/ EndRound(v)
    \/ SkipNotice(v) \/ TakeNotice(v) \/ WriteNotice(v) \/ Turn(v)

Work ==
    \/ RunStep
    \/ \E r \in Repeats : Again(r)
    \/ \E t \in Tasks : Finish(t)
    \/ \E v \in Viewers :
          \/ OpenStream(v) \/ (v \notin Streams /\ ListTasks(v))
          \/ Follow(v)
          \/ \E t \in Tasks : CallTaskTool(v, t)

Trouble ==
    \/ Crash
    \/ \E v \in Viewers : Disconnect(v) \/ \E t \in Tasks : FetchFails(v, t)

Next == Work \/ Trouble

Spec == Init /\ [][Next]_vars

-----------------------------------------------------------------------------
(* Properties                                                               *)

\* A task becomes reported, and a notice is written, only while no run is on
\* and DBAAS has ended every recorded task, although viewers append stale copies
\* beside it: no report while a sibling runs or may still be created by the run.
\* It does not say that the group stays as reported: the code resumes a run
\* that failed on the word of a look before the lock (approval_service.py:404-407
\* and 455), so a later run may add to a group that was reported, which then is
\* reported once more.
NoticeAfterAll ==
    [][ (\E t \in Tasks : ~noticed[t] /\ noticed'[t])
          \/ (\E v \in Viewers : pc[v] = "mark" /\ pc'[v] = "turn") =>
        run # "on" /\ \A t \in Recorded : remote[t] \in Final ]_vars

\* What is recorded as ended is how DBAAS ended it, in the task and in its
\* operation, although viewers overwrite each other with stale copies.
RecordedOutcome ==
    \A t \in Tasks :
        /\ task[t] \in Final => task[t] = remote[t]
        /\ operation[t] \in Final => operation[t] = remote[t]

\* Said by the documentation and not kept by the code.
\* "when a task reaches its end, its operation's status follows": once nobody
\* is refreshing and the run is over
OperationFollows ==
    run = "over" /\ (\A v \in Viewers : pc[v] = "off") =>
        \A t \in Tasks : task[t] \in Final => operation[t] = task[t]

=============================================================================

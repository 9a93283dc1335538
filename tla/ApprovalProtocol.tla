--------------------------- MODULE ApprovalProtocol ---------------------------
(***************************************************************************)
(* Human confirmation of DBAAS writes in one session of the AI agent.      *)
(*                                                                         *)
(* A chat message runs the DeepAgent on the session's thread.  When the    *)
(* agent wants a write tool the run pauses and an approval record is       *)
(* created; a later decision (or the TTL) resumes the thread, and only     *)
(* then does the tool call DBAAS.  Three kinds of request do this, each in *)
(* a worker thread of its own: a message (routes_chat.py), a decision      *)
(* (approval_service.decide) and a query that sweeps expired approvals     *)
(* (expire_pending_approvals_for_query).                                   *)
(*                                                                         *)
(* Requests interleave between any two reads or appends; most of a request *)
(* runs under the session's non-blocking run lock, but a decision on an    *)
(* already decided approval reads, and may append, without it.  The        *)
(* process may crash at any step: files and the thread's checkpoint stay,  *)
(* the lock and the requests are gone.                                     *)
(*                                                                         *)
(* An approval and the one tool call its pause holds share an identifier,  *)
(* and different calls have different targets.  Batches are not modelled.  *)
(***************************************************************************)
EXTENDS Integers, FiniteSets

CONSTANTS
    Requests,     \* worker threads that serve requests on this session
    Approvals,    \* approval ids; also the ids of the tool calls they hold
    StreamCalls,  \* calls whose pause came through /messages/stream
    NoRequest,
    NoApproval,
    WriteCap,     \* the history counter writes saturates here
    NoticeCap     \* and notices here

ASSUME SentinelAssumption == NoRequest \notin Requests /\ NoApproval \notin Approvals
ASSUME StreamAssumption   == StreamCalls \subseteq Approvals
ASSUME CapAssumption      == WriteCap \in Nat /\ NoticeCap \in Nat

VARIABLES
    \* Durable: the latest approval records, folded from approvals.jsonl
    status,         \* [Approvals -> Statuses]
    resumeFailed,   \* [Approvals -> BOOLEAN]
    noticed,        \* [Approvals -> BOOLEAN], task_creation_notice_emitted
    elapsed,        \* approvals whose expires_at has passed
    \* Durable: the DeepAgent checkpoint, operations.jsonl and tasks.jsonl
    thread,         \* where the session's DeepAgent thread stands
    op,             \* op[a][c]: latest operation of approval a for call c
    hasTask,        \* approvals one of whose operations has a task record
    \* In memory: the run lock and the requests
    lock,
    pc, kind, target, decision,
    copy,           \* the ApprovalRecord object the request holds
    todo,           \* approvals its expiration sweep has not looked at
    nextCall,       \* the call its agent run paused on
    \* History
    writes,         \* writes[a][c]: DBAAS writes sent for call c in the name of a
    notices,        \* [Approvals -> 0..NoticeCap], task creation notices
    resumeTrouble   \* approvals whose resume failed at least once

records == <<status, resumeFailed, noticed>>
agent   == <<thread, op, hasTask>>
local   == <<pc, kind, target, decision, copy, todo, nextCall>>
history == <<writes, notices, resumeTrouble>>
vars    == <<records, elapsed, agent, lock, local, history>>

Decisions == {"approved", "rejected"}
Terminal  == Decisions \cup {"expired"}
Statuses  == Terminal \cup {"none", "pending"}
OpStates  == {"none", "started", "completed", "unknown"}
Copies    == [status : Statuses, resumeFailed : BOOLEAN, noticed : BOOLEAN]
Kinds     == {"none", "message", "query", "decision"}

NoCopy     == [status |-> "none", resumeFailed |-> FALSE, noticed |-> FALSE]
IdleThread == [at |-> "idle", call |-> NoApproval]
Threads    == {IdleThread} \cup [at : {"paused", "tools"}, call : Approvals]

\* Program points at which a request holds the run lock.
RunPoints == {"sweep", "admit", "agent", "resume", "tool", "write", "respond",
              "recorded", "failed", "returned", "create"}
\* Program points that only a request on a decided or expired approval reaches.
ResumePoints == {"resume", "tool", "write", "respond", "recorded", "failed", "returned"}
\* Reached with the lock (first decision) and without it (a repeated one).
SharedPoints == {"terminal", "notice", "mark", "follow"}
\* Program points of a request that works on one approval.
TargetPoints == ResumePoints \cup {"lock", "cleanup", "retry", "terminal", "notice", "mark"}
Points    == RunPoints \cup SharedPoints \cup {"idle", "lock", "cleanup", "retry"}

RecordsOK ==
    /\ status \in [Approvals -> Statuses]
    /\ resumeFailed \in [Approvals -> BOOLEAN]
    /\ noticed \in [Approvals -> BOOLEAN]

AgentOK ==
    /\ thread \in Threads
    /\ op \in [Approvals -> [Approvals -> OpStates]]
    /\ hasTask \in SUBSET Approvals

LocalOK ==
    /\ pc \in [Requests -> Points]
    /\ kind \in [Requests -> Kinds]
    /\ target \in [Requests -> Approvals \cup {NoApproval}]
    /\ decision \in [Requests -> Decisions \cup {"none"}]
    /\ copy \in [Requests -> Copies]
    /\ todo \in [Requests -> SUBSET Approvals]
    /\ nextCall \in [Requests -> Approvals \cup {NoApproval}]
    /\ \A r \in Requests : pc[r] \in TargetPoints => target[r] # NoApproval

HistoryOK ==
    /\ writes \in [Approvals -> [Approvals -> 0..WriteCap]]
    /\ notices \in [Approvals -> 0..NoticeCap]
    /\ resumeTrouble \in SUBSET Approvals

TypeOK ==
    /\ RecordsOK /\ AgentOK /\ LocalOK /\ HistoryOK
    /\ elapsed \in SUBSET Approvals
    /\ lock \in Requests \cup {NoRequest}

Init ==
    /\ status = [a \in Approvals |-> "none"]
    /\ resumeFailed = [a \in Approvals |-> FALSE]
    /\ noticed = [a \in Approvals |-> FALSE]
    /\ elapsed = {}
    /\ thread = IdleThread
    /\ op = [a \in Approvals |-> [c \in Approvals |-> "none"]]
    /\ hasTask = {}
    /\ lock = NoRequest
    /\ pc = [r \in Requests |-> "idle"]
    /\ kind = [r \in Requests |-> "none"]
    /\ target = [r \in Requests |-> NoApproval]
    /\ decision = [r \in Requests |-> "none"]
    /\ copy = [r \in Requests |-> NoCopy]
    /\ todo = [r \in Requests |-> {}]
    /\ nextCall = [r \in Requests |-> NoApproval]
    /\ writes = [a \in Approvals |-> [c \in Approvals |-> 0]]
    /\ notices = [a \in Approvals |-> 0]
    /\ resumeTrouble = {}

-----------------------------------------------------------------------------
(* Helpers                                                                  *)

Bump(n, cap) == IF n < cap THEN n + 1 ELSE n

\* Faulty: the lock is taken over from whoever holds it.
TakeRunLock(r) == lock' = r

\* SessionLocks.acquire_run_lock: never blocks; a request that finds the lock
\* held answers 409 instead.
AcquireRunLock(r) == lock = NoRequest /\ lock' = r

\* Faulty: a path out of the with-block that keeps the lock.
KeepRunLock(r) == lock' = lock

\* The with-block's exit.  A request that never took the lock releases nothing.
ReleaseRunLock(r) == lock' = IF lock = r THEN NoRequest ELSE lock

GoTo(r, point) == pc' = [pc EXCEPT ![r] = point]

\* _find_approval: the latest record of a, as the request's own object.
Latest(a) == [status |-> status[a], resumeFailed |-> resumeFailed[a],
              noticed |-> noticed[a]]

\* append_approval: the last line of an id wins, whatever record it carries.
AppendApproval(a, rec) ==
    /\ status' = [status EXCEPT ![a] = rec.status]
    /\ resumeFailed' = [resumeFailed EXCEPT ![a] = rec.resumeFailed]
    /\ noticed' = [noticed EXCEPT ![a] = rec.noticed]

\* The request answers and forgets what it held.
Answer(r) ==
    /\ GoTo(r, "idle")
    /\ ReleaseRunLock(r)
    /\ kind' = [kind EXCEPT ![r] = "none"]
    /\ target' = [target EXCEPT ![r] = NoApproval]
    /\ decision' = [decision EXCEPT ![r] = "none"]
    /\ copy' = [copy EXCEPT ![r] = NoCopy]
    /\ todo' = [todo EXCEPT ![r] = {}]
    /\ nextCall' = [nextCall EXCEPT ![r] = NoApproval]

\* Faulty: an open approval is not looked for.
NoneIsPending == FALSE

HasPending  == \E a \in Approvals : status[a] = "pending"
Uncleared(a) == status[a] = "expired" /\ resumeFailed[a]
Overdue(a)   == status[a] = "pending" /\ a \in elapsed

\* Faulty: only what is already marked expired is cleaned.
NeedsRetryOnly == \E a \in Approvals : Uncleared(a)

\* _needs_expiration_cleanup
NeedsCleanup == \E a \in Approvals : Overdue(a) \/ Uncleared(a)

\* find_all_by_approval
HasOperation(a) == \E c \in Approvals : op[a][c] # "none"

\* _find_interrupted_tool_call_id: matched by tool name and arguments among
\* the approval's own calls.  The streaming route records no id.
KnownId(a, c) == a = c /\ c \notin StreamCalls

\* Faulty: an operation without a result never matches, id or not.
FindFinished(a, c) == IF op[a][c] = "started" THEN "none" ELSE op[a][c]

\* find_existing: by tool call id whatever the status; else by approval and
\* target, which only an operation that has a result can match.
FindExisting(a, c) ==
    IF KnownId(a, c) \/ op[a][c] # "started" THEN op[a][c] ELSE "none"

\* The cleanup of an expired approval: rejects, stays silent, and neither
\* persists a reply nor opens another approval.
IsCleanup(r) == copy[r].status = "expired"

\* Faulty: whatever the user did not reject is approved.
ResumeUnlessRejected(r) == IF copy[r].status = "rejected" THEN "reject" ELSE "approve"

\* What the thread is told: an expired approval is resumed as rejected.
ResumeDecision(r) == IF copy[r].status = "approved" THEN "approve" ELSE "reject"

\* A tool call nothing has been recorded about.
Fresh(c) ==
    /\ status[c] = "none" /\ thread.call # c
    /\ \A a \in Approvals : op[a][c] = "none"

-----------------------------------------------------------------------------
(* Arrivals                                                                 *)

\* send_message and stream_message: 409 when the lock is held, no state change.
ReceiveMessage(r) ==
    /\ pc[r] = "idle"
    /\ AcquireRunLock(r)
    /\ GoTo(r, "sweep")
    /\ kind' = [kind EXCEPT ![r] = "message"]
    /\ todo' = [todo EXCEPT ![r] = {a \in Approvals : status[a] # "none"}]
    /\ UNCHANGED <<records, elapsed, agent, target, decision, copy, nextCall, history>>

\* expire_pending_approvals_for_query: skipped without need or with the lock
\* held; the need is checked again under the lock.
ReceiveQuery(r) ==
    /\ pc[r] = "idle"
    /\ NeedsCleanup
    /\ AcquireRunLock(r)
    /\ GoTo(r, "sweep")
    /\ kind' = [kind EXCEPT ![r] = "query"]
    /\ todo' = [todo EXCEPT ![r] = {a \in Approvals : status[a] # "none"}]
    /\ UNCHANGED <<records, elapsed, agent, target, decision, copy, nextCall, history>>

\* decide up to the first branch: the approval is read without the run lock.
\* An expired and cleaned approval answers 409 at once.
ReceiveDecision(r, a, d) ==
    /\ pc[r] = "idle"
    /\ status[a] # "none"
    /\ status[a] = "expired" => resumeFailed[a]
    /\ kind' = [kind EXCEPT ![r] = "decision"]
    /\ target' = [target EXCEPT ![r] = a]
    /\ decision' = [decision EXCEPT ![r] = d]
    /\ copy' = [copy EXCEPT ![r] = Latest(a)]
    /\ GoTo(r, CASE status[a] = "pending" -> "lock"
                 [] status[a] = "expired" -> "cleanup"
                 [] OTHER -> "terminal")
    /\ UNCHANGED <<records, elapsed, agent, lock, todo, nextCall, history>>

-----------------------------------------------------------------------------
(* The expiration sweep and the admission of a message                      *)

\* Faulty: the expired record does not say that the pause is still there.
ExpireAsCleared(a) == [status |-> "expired", resumeFailed |-> FALSE, noticed |-> noticed[a]]

\* _mark_expired: the expired record, marked as not cleaned yet, is appended
\* before the thread is resumed.
ExpireRecord(a) == [status |-> "expired", resumeFailed |-> TRUE, noticed |-> noticed[a]]

SweepExpire(r, a) ==
    /\ pc[r] = "sweep" /\ a \in todo[r]
    /\ Overdue(a)
    /\ AppendApproval(a, ExpireRecord(a))
    /\ target' = [target EXCEPT ![r] = a]
    /\ copy' = [copy EXCEPT ![r] = ExpireRecord(a)]
    /\ todo' = [todo EXCEPT ![r] = @ \ {a}]
    /\ GoTo(r, "resume")
    /\ UNCHANGED <<elapsed, agent, lock, kind, decision, nextCall, history>>

SweepRetry(r, a) ==
    /\ pc[r] = "sweep" /\ a \in todo[r]
    /\ Uncleared(a)
    /\ target' = [target EXCEPT ![r] = a]
    /\ copy' = [copy EXCEPT ![r] = Latest(a)]
    /\ todo' = [todo EXCEPT ![r] = @ \ {a}]
    /\ GoTo(r, "resume")
    /\ UNCHANGED <<records, elapsed, agent, lock, kind, decision, nextCall, history>>

SweepSkip(r, a) ==
    /\ pc[r] = "sweep" /\ a \in todo[r]
    /\ ~Overdue(a) /\ ~Uncleared(a)
    /\ todo' = [todo EXCEPT ![r] = @ \ {a}]
    /\ UNCHANGED <<records, elapsed, agent, lock, pc, kind, target, decision, copy,
                   nextCall, history>>

SweepDone(r) ==
    /\ pc[r] = "sweep" /\ todo[r] = {}
    /\ \/ kind[r] = "query" /\ Answer(r)
       \/ /\ kind[r] = "message"
          /\ GoTo(r, "admit")
          /\ target' = [target EXCEPT ![r] = NoApproval]
          /\ copy' = [copy EXCEPT ![r] = NoCopy]
          /\ UNCHANGED <<lock, kind, decision, todo, nextCall>>
    /\ UNCHANGED <<records, elapsed, agent, history>>

\* routes_chat._assert_no_pending_approval: 409 before the message is stored.
RefuseMessage(r) ==
    /\ pc[r] = "admit"
    /\ HasPending \/ \E a \in Approvals : Uncleared(a)
    /\ Answer(r)
    /\ UNCHANGED <<records, elapsed, agent, history>>

\* append_user_message; the agent is invoked with the new input.
AdmitMessage(r) ==
    /\ pc[r] = "admit"
    /\ ~HasPending /\ \A a \in Approvals : ~Uncleared(a)
    /\ GoTo(r, "agent")
    /\ UNCHANGED <<records, elapsed, agent, lock, kind, target, decision, copy,
                   todo, nextCall, history>>

-----------------------------------------------------------------------------
(* Decisions                                                                *)

\* Faulty: resumes with the record read before the lock was taken.
CleanupWithoutReread(r) ==
    /\ pc[r] = "cleanup"
    /\ lock = NoRequest
    /\ lock' = r
    /\ GoTo(r, "resume")
    /\ UNCHANGED <<records, elapsed, agent, kind, target, decision, copy, todo,
                   nextCall, history>>

\* _resume_expired_cleanup_with_lock: re-reads under the lock; the answer is
\* 409 approval_expired (or session_run_locked) in every case.
CleanupExpired(r) ==
    /\ pc[r] = "cleanup"
    /\ IF lock = NoRequest /\ Uncleared(target[r])
       THEN /\ AcquireRunLock(r)
            /\ copy' = [copy EXCEPT ![r] = Latest(target[r])]
            /\ GoTo(r, "resume")
            /\ UNCHANGED <<kind, target, decision, todo, nextCall>>
       ELSE Answer(r)
    /\ UNCHANGED <<records, elapsed, agent, history>>

\* decide finds the run lock held: 409 session_run_locked.
DecisionLocked(r) ==
    /\ pc[r] \in {"lock", "retry"}
    /\ lock # NoRequest
    /\ Answer(r)
    /\ UNCHANGED <<records, elapsed, agent, history>>

\* Under the lock the approval has been decided or expired meanwhile.
DecideRaced(r) ==
    /\ pc[r] = "lock"
    /\ status[target[r]] \in Terminal
    /\ \/ /\ status[target[r]] \in Decisions
          /\ AcquireRunLock(r)
          /\ copy' = [copy EXCEPT ![r] = Latest(target[r])]
          /\ GoTo(r, "terminal")
          /\ UNCHANGED <<kind, target, decision, todo, nextCall>>
       \/ /\ Uncleared(target[r])
          /\ AcquireRunLock(r)
          /\ copy' = [copy EXCEPT ![r] = Latest(target[r])]
          /\ GoTo(r, "resume")
          /\ UNCHANGED <<kind, target, decision, todo, nextCall>>
       \/ /\ lock = NoRequest
          /\ status[target[r]] = "expired" /\ ~resumeFailed[target[r]]
          /\ Answer(r)
    /\ UNCHANGED <<records, elapsed, agent, history>>

\* The TTL ran out between the page and the click.
DecideExpired(r) ==
    /\ pc[r] = "lock"
    /\ Overdue(target[r])
    /\ AcquireRunLock(r)
    /\ AppendApproval(target[r], ExpireRecord(target[r]))
    /\ copy' = [copy EXCEPT ![r] = ExpireRecord(target[r])]
    /\ GoTo(r, "resume")
    /\ UNCHANGED <<elapsed, agent, kind, target, decision, todo, nextCall, history>>

\* _assert_no_task_conflicts: the session already runs a task of that kind on
\* that target; 409, the approval stays pending.
DecideConflict(r) ==
    /\ pc[r] = "lock"
    /\ lock = NoRequest
    /\ status[target[r]] = "pending" /\ ~Overdue(target[r])
    /\ decision[r] = "approved"
    /\ Answer(r)
    /\ UNCHANGED <<records, elapsed, agent, history>>

\* Faulty: stores the word of the resume payload, not of the API.
PayloadRecord(r) ==
    [status |-> IF decision[r] = "approved" THEN "approve" ELSE "reject",
     resumeFailed |-> FALSE, noticed |-> noticed[target[r]]]

DecidedRecord(r) ==
    [status |-> decision[r], resumeFailed |-> FALSE, noticed |-> noticed[target[r]]]

\* The one first decision: the record is appended before the thread resumes.
DecidePending(r) ==
    /\ pc[r] = "lock"
    /\ status[target[r]] = "pending" /\ ~Overdue(target[r])
    /\ AcquireRunLock(r)
    /\ AppendApproval(target[r], DecidedRecord(r))
    /\ copy' = [copy EXCEPT ![r] = DecidedRecord(r)]
    /\ GoTo(r, "resume")
    /\ UNCHANGED <<elapsed, agent, kind, target, decision, todo, nextCall, history>>

\* _handle_terminal_decision: decision_conflict.
TerminalConflict(r) ==
    /\ pc[r] = "terminal"
    /\ decision[r] # copy[r].status
    /\ Answer(r)
    /\ UNCHANGED <<records, elapsed, agent, history>>

\* The failed resume of an approval without operations is tried again: at
\* once by a request that holds the lock, else through _resume_terminal.
TerminalRetry(r) ==
    /\ pc[r] = "terminal"
    /\ decision[r] = copy[r].status
    /\ copy[r].resumeFailed /\ ~HasOperation(target[r])
    /\ GoTo(r, IF lock = r THEN "resume" ELSE "retry")
    /\ UNCHANGED <<records, elapsed, agent, lock, kind, target, decision, copy,
                   todo, nextCall, history>>

\* _resume_terminal takes the lock and resumes with the record it read before.
ResumeTerminal(r) ==
    /\ pc[r] = "retry"
    /\ AcquireRunLock(r)
    /\ GoTo(r, "resume")
    /\ UNCHANGED <<records, elapsed, agent, kind, target, decision, copy, todo,
                   nextCall, history>>

\* _emit_task_creation_notice_if_needed decides on the record the request holds.
WantsNotice(r) ==
    copy[r].status = "approved" /\ target[r] \in hasTask /\ ~copy[r].noticed

TerminalReport(r) ==
    /\ pc[r] = "terminal"
    /\ decision[r] = copy[r].status
    /\ ~(copy[r].resumeFailed /\ ~HasOperation(target[r]))
    /\ IF WantsNotice(r)
       THEN GoTo(r, "notice") /\ UNCHANGED <<lock, kind, target, decision, copy, todo, nextCall>>
       ELSE Answer(r)
    /\ UNCHANGED <<records, elapsed, agent, history>>

-----------------------------------------------------------------------------
(* resume_approval: the DeepAgent thread and the write tool                 *)

\* The runtime fails before the thread moves (model, network, checkpoint).
ResumeUnreachable(r) ==
    /\ pc[r] = "resume"
    /\ GoTo(r, "failed")
    /\ UNCHANGED <<records, elapsed, agent, lock, kind, target, decision, copy,
                   todo, nextCall, history>>

\* Command(resume=...) answers whatever pause the thread now holds.
ResumePaused(r) ==
    /\ pc[r] = "resume"
    /\ thread.at = "paused"
    /\ IF ResumeDecision(r) = "approve"
       THEN thread' = [thread EXCEPT !.at = "tools"] /\ GoTo(r, "tool")
       ELSE thread' = IdleThread /\ GoTo(r, "agent")
    /\ UNCHANGED <<records, elapsed, op, hasTask, lock, kind, target, decision,
                   copy, todo, nextCall, history>>

\* No pause left: an unfinished tool node runs again, else only the model does.
ResumeUnpaused(r) ==
    /\ pc[r] = "resume"
    /\ thread.at # "paused"
    /\ GoTo(r, IF thread.at = "tools" THEN "tool" ELSE "agent")
    /\ UNCHANGED <<records, elapsed, agent, lock, kind, target, decision, copy,
                   todo, nextCall, history>>

\* A stored result is returned; a started operation becomes unknown.
ReturnExisting(r) ==
    /\ pc[r] = "tool"
    /\ LET a == target[r]
           c == thread.call
       IN  /\ FindExisting(a, c) # "none"
           /\ op' = [op EXCEPT ![a][c] = IF @ = "started" THEN "unknown" ELSE @]
    /\ thread' = IdleThread
    /\ GoTo(r, "agent")
    /\ UNCHANGED <<records, elapsed, hasTask, lock, kind, target, decision, copy,
                   todo, nextCall, history>>

StartOperation(r) ==
    /\ pc[r] = "tool"
    /\ FindExisting(target[r], thread.call) = "none"
    /\ op' = [op EXCEPT ![target[r]][thread.call] = "started"]
    /\ GoTo(r, "write")
    /\ UNCHANGED <<records, elapsed, thread, hasTask, lock, kind, target, decision,
                   copy, todo, nextCall, history>>

SendWrite(r) ==
    /\ pc[r] = "write"
    /\ writes' = [writes EXCEPT ![target[r]][thread.call] = Bump(@, WriteCap)]
    /\ GoTo(r, "respond")
    /\ UNCHANGED <<records, elapsed, agent, lock, kind, target, decision, copy,
                   todo, nextCall, notices, resumeTrouble>>

\* An asynchronous action records its task before its operation completes.
CreateTaskRecord(r) ==
    /\ pc[r] = "respond"
    /\ hasTask' = hasTask \cup {target[r]}
    /\ GoTo(r, "recorded")
    /\ UNCHANGED <<records, elapsed, thread, op, lock, kind, target, decision, copy,
                   todo, nextCall, history>>

\* complete_operation: succeeded, failed, timeout or task_created.  At "write"
\* the call was refused before it was sent (task conflict, failed read).
CompleteOperation(r) ==
    /\ pc[r] \in {"write", "respond", "recorded"}
    /\ op' = [op EXCEPT ![target[r]][thread.call] = "completed"]
    /\ thread' = IdleThread
    /\ GoTo(r, "agent")
    /\ UNCHANGED <<records, elapsed, hasTask, lock, kind, target, decision, copy,
                   todo, nextCall, history>>

\* An exception the tool does not catch: the operation stays started and the
\* thread's tool node unfinished.
ToolRaises(r) ==
    /\ pc[r] \in {"write", "respond", "recorded"}
    /\ GoTo(r, "failed")
    /\ UNCHANGED <<records, elapsed, agent, lock, kind, target, decision, copy,
                   todo, nextCall, history>>

-----------------------------------------------------------------------------
(* The model's turn, for a message (generate_reply, stream_reply) and after  *)
(* a resume                                                                  *)

\* A message ends with the assistant's reply; a resume goes on to its records.
AgentAnswers(r) ==
    /\ pc[r] = "agent"
    /\ thread' = IdleThread
    /\ IF target[r] = NoApproval
       THEN Answer(r)
       ELSE GoTo(r, "returned") /\ UNCHANGED <<lock, kind, target, decision, copy, todo, nextCall>>
    /\ UNCHANGED <<records, elapsed, op, hasTask, history>>

\* The agent pauses before write call c.  Only a message streams.
AgentPauses(r, c) ==
    /\ pc[r] = "agent"
    /\ Fresh(c)
    /\ target[r] # NoApproval => c \notin StreamCalls
    /\ thread' = [at |-> "paused", call |-> c]
    /\ nextCall' = [nextCall EXCEPT ![r] = c]
    /\ GoTo(r, IF target[r] = NoApproval THEN "follow" ELSE "returned")
    /\ UNCHANGED <<records, elapsed, op, hasTask, lock, kind, target, decision,
                   copy, todo, history>>

\* The run fails or its stream is dropped, before or after the thread moved.
AgentFails(r) ==
    /\ pc[r] = "agent"
    /\ thread' \in {thread, IdleThread}
    /\ IF target[r] = NoApproval
       THEN Answer(r)
       ELSE GoTo(r, "failed") /\ UNCHANGED <<lock, kind, target, decision, copy, todo, nextCall>>
    /\ UNCHANGED <<records, elapsed, op, hasTask, history>>

-----------------------------------------------------------------------------
(* _resume_decided after the runtime returned                               *)

\* A sweep goes on with its next approval; a decision is answered.
CleanupDone(r) ==
    IF kind[r] = "decision"
    THEN Answer(r)
    ELSE /\ GoTo(r, "sweep")
         /\ target' = [target EXCEPT ![r] = NoApproval]
         /\ copy' = [copy EXCEPT ![r] = NoCopy]
         /\ nextCall' = [nextCall EXCEPT ![r] = NoApproval]
         /\ UNCHANGED <<lock, kind, decision, todo>>

\* The except branch appends the request's own record, marked as failed.  Only
\* the cleanup of an expired approval swallows the exception.
RecordFailure(r) ==
    /\ pc[r] = "failed"
    /\ AppendApproval(target[r], [copy[r] EXCEPT !.resumeFailed = TRUE])
    /\ resumeTrouble' = resumeTrouble \cup {target[r]}
    /\ IF IsCleanup(r) THEN CleanupDone(r) ELSE Answer(r)
    /\ UNCHANGED <<elapsed, agent, writes, notices>>

\* The cleared record is appended only over a failed one.
RecordSuccess(r) ==
    /\ pc[r] = "returned"
    /\ LET cleared == [copy[r] EXCEPT !.resumeFailed = FALSE]
       IN  /\ IF copy[r].resumeFailed
              THEN AppendApproval(target[r], cleared)
              ELSE UNCHANGED records
           /\ IF IsCleanup(r)
              THEN CleanupDone(r)
              ELSE /\ copy' = [copy EXCEPT ![r] = cleared]
                   /\ GoTo(r, IF WantsNotice(r) THEN "notice" ELSE "follow")
                   /\ UNCHANGED <<lock, kind, target, decision, todo, nextCall>>
    /\ UNCHANGED <<elapsed, agent, history>>

\* _emit_task_creation_notice_if_needed: the message first, ...
EmitNotice(r) ==
    /\ pc[r] = "notice"
    /\ notices' = [notices EXCEPT ![target[r]] = Bump(@, NoticeCap)]
    /\ GoTo(r, "mark")
    /\ UNCHANGED <<records, elapsed, agent, lock, kind, target, decision, copy,
                   todo, nextCall, writes, resumeTrouble>>

\* ... then the request's own record with the flag set.
MarkNotice(r) ==
    /\ pc[r] = "mark"
    /\ AppendApproval(target[r], [copy[r] EXCEPT !.noticed = TRUE])
    /\ copy' = [copy EXCEPT ![r].noticed = TRUE]
    /\ GoTo(r, "follow")
    /\ UNCHANGED <<elapsed, agent, lock, kind, target, decision, todo, nextCall, history>>

\* create_approval looks for a pending approval ...  The request ends here
\* when the agent did not pause, when an approval is open, or when no proposal
\* can be built (unknown action, required role): the thread then stays paused.
CheckNoPending(r) ==
    /\ pc[r] = "follow"
    /\ \/ /\ nextCall[r] # NoApproval /\ ~HasPending
          /\ GoTo(r, "create")
          /\ UNCHANGED <<lock, kind, target, decision, copy, todo, nextCall>>
       \/ Answer(r)
    /\ UNCHANGED <<records, elapsed, agent, history>>

\* ... builds its proposal and appends the record.
CreateApproval(r) ==
    /\ pc[r] = "create"
    /\ AppendApproval(nextCall[r], [status |-> "pending", resumeFailed |-> FALSE,
                                noticed |-> FALSE])
    /\ Answer(r)
    /\ UNCHANGED <<elapsed, agent, history>>

-----------------------------------------------------------------------------
(* Time and crashes                                                         *)

TtlElapses(a) ==
    /\ status[a] = "pending" /\ a \notin elapsed
    /\ elapsed' = elapsed \cup {a}
    /\ UNCHANGED <<records, agent, lock, local, history>>

\* The process dies and restarts; nothing is repaired at start-up.
Crash ==
    /\ ~\A r \in Requests : pc[r] = "idle"
    /\ lock' = NoRequest
    /\ pc' = [r \in Requests |-> "idle"]
    /\ kind' = [r \in Requests |-> "none"]
    /\ target' = [r \in Requests |-> NoApproval]
    /\ decision' = [r \in Requests |-> "none"]
    /\ copy' = [r \in Requests |-> NoCopy]
    /\ todo' = [r \in Requests |-> {}]
    /\ nextCall' = [r \in Requests |-> NoApproval]
    /\ UNCHANGED <<records, elapsed, agent, history>>

Arrive(r) ==
    \/ ReceiveMessage(r)
    \/ ReceiveQuery(r)
    \/ \E a \in Approvals, d \in Decisions : ReceiveDecision(r, a, d)

Sweep(r) ==
    \/ \E a \in Approvals : SweepExpire(r, a) \/ SweepRetry(r, a) \/ SweepSkip(r, a)
    \/ SweepDone(r) \/ RefuseMessage(r) \/ AdmitMessage(r)

Decide(r) ==
    \/ CleanupExpired(r) \/ DecisionLocked(r) \/ DecideRaced(r) \/ DecideExpired(r)
    \/ DecideConflict(r) \/ DecidePending(r) \/ TerminalConflict(r)
    \/ TerminalRetry(r) \/ ResumeTerminal(r) \/ TerminalReport(r)

Run(r) ==
    \/ ResumeUnreachable(r) \/ ResumePaused(r) \/ ResumeUnpaused(r)
    \/ ReturnExisting(r) \/ StartOperation(r) \/ SendWrite(r)
    \/ CreateTaskRecord(r) \/ CompleteOperation(r) \/ ToolRaises(r)
    \/ AgentAnswers(r) \/ AgentFails(r)
    \/ \E c \in Approvals : AgentPauses(r, c)

Record(r) ==
    \/ RecordFailure(r) \/ RecordSuccess(r) \/ EmitNotice(r) \/ MarkNotice(r)
    \/ CheckNoPending(r) \/ CreateApproval(r)

\* What a request does once it has arrived.
Serve(r) == Sweep(r) \/ Decide(r) \/ Run(r) \/ Record(r)

Next ==
    \/ \E r \in Requests : Arrive(r) \/ Serve(r)
    \/ \E a \in Approvals : TtlElapses(a)
    \/ Crash

Spec == Init /\ [][Next]_vars

-----------------------------------------------------------------------------
(* Properties                                                               *)

\* Two requests never run the agent or write approval records of a run at the
\* same time: the run lock covers the sweep, the resume, the tool and the
\* creation of the next approval.
RunExclusive ==
    \A r, s \in Requests : pc[r] \in RunPoints /\ pc[s] \in RunPoints => r = s

\* At most one approval of the session waits for a decision, although two
\* code paths create them and the check and the append are separate steps.
AtMostOnePending ==
    \A a, b \in Approvals : status[a] = "pending" /\ status[b] = "pending" => a = b

\* While an approval is pending the agent is paused at its call: nothing else
\* (a message, another approval's resume) has moved the thread.  As long as no
\* resume has failed.
PendingKeepsPause ==
    resumeTrouble = {} =>
        \A a \in Approvals :
            status[a] = "pending" => thread = [at |-> "paused", call |-> a]

\* As long as no resume has failed, a DBAAS write is sent only for the call of
\* an approved approval and in that approval's name: none for a rejected, an
\* expired or an undecided one, whatever crashed or raced.
ConfirmedWrites ==
    resumeTrouble = {} =>
        \A a, c \in Approvals :
            writes[a][c] > 0 => a = c /\ status[c] = "approved"

\* A call whose tool call id was recorded is written at most once in its own
\* approval's name, through failed and repeated resumes and crashes between
\* the operation record, the write and the result.
OwnWriteOnce ==
    \A a \in Approvals \ StreamCalls : writes[a][a] <= 1

\* An expired approval that no longer blocks the session has no pause left:
\* nobody can resume the expired call.
ExpiredPauseCleared ==
    \A a \in Approvals :
        status[a] = "expired" /\ ~resumeFailed[a]
            => thread # [at |-> "paused", call |-> a]

\* The records implement the abstract life cycle: one open approval, decided
\* once, never reopened or changed by a stale copy; a cleaned expiry is final.
Lifecycle == INSTANCE ApprovalLifecycle
    WITH state <- status, uncleared <- {a \in Approvals : Uncleared(a)}
LifecycleSpec == Lifecycle!Spec

\* Said by the documentation and not kept by the code.
\* "all write operations are confirmed by a human before DBAAS is called"
ConfirmationFirst ==
    \A a, c \in Approvals : writes[a][c] > 0 => status[c] = "approved"

\* "an operation found started returns an unknown status, the write interface is
\* not retried": also for a call whose pause came through the stream
StartedNotRetried == \A a \in Approvals : writes[a][a] <= 1

-----------------------------------------------------------------------------
(* Inductive invariant                                                      *)

\* A request inside its run holds the lock; a holder is inside its run; only
\* the holder carries the call of a fresh pause, which has no record yet.
LockHeld ==
    \A r \in Requests :
        /\ pc[r] \in RunPoints => lock = r
        /\ lock = r => pc[r] \in RunPoints \cup SharedPoints
        /\ nextCall[r] # NoApproval => lock = r /\ status[nextCall[r]] = "none"
        /\ pc[r] = "create" => nextCall[r] # NoApproval /\ ~HasPending

\* A request that works on an approval holds a copy of it whose status is the
\* stored one: a decided or expired status never changes, so the copy may be
\* stale in its flags but not in its status.
\* The flags of an expired approval are not stale either: its cleanup runs
\* under the lock and re-read the record there.
Resuming(r) ==
    pc[r] \in ResumePoints \/ (pc[r] = "agent" /\ target[r] # NoApproval)

CopyAgrees ==
    \A r \in Requests :
        /\ Resuming(r) \/ pc[r] \in {"terminal", "retry", "notice", "mark"} =>
              /\ copy[r].status = status[target[r]]
              /\ status[target[r]] \in Terminal
        /\ pc[r] \in {"terminal", "retry"} => copy[r].status \in Decisions
        /\ pc[r] \in {"notice", "mark"} => copy[r].status = "approved"
        /\ Resuming(r) /\ copy[r].status = "expired" =>
              copy[r].resumeFailed /\ resumeFailed[target[r]]
        /\ pc[r] = "admit" => target[r] = NoApproval
        /\ pc[r] = "lock" => decision[r] \in Decisions

\* An operation record precedes the write it stands for, and the write that is
\* about to be sent for a known call is the first one.
WriteRecorded ==
    /\ \A a, c \in Approvals : writes[a][c] > 0 => op[a][c] # "none"
    /\ \A r \in Requests :
        /\ pc[r] \in {"tool", "write"} => thread.at = "tools"
        /\ pc[r] = "write" =>
              /\ op[target[r]][thread.call] # "none"
              /\ KnownId(target[r], thread.call) => writes[target[r]][thread.call] = 0

\* Once a resume has been answered, the thread does not stand at the pause of
\* the approval it was for.
PauseMoved ==
    \A r \in Requests :
        Resuming(r) /\ pc[r] \notin {"resume", "failed"}
            => thread # [at |-> "paused", call |-> target[r]]

\* A run that may still open the next approval.
MayOpen(r) ==
    \/ pc[r] = "agent" /\ target[r] = NoApproval
    \/ Resuming(r) /\ copy[r].status \in Decisions
    \/ pc[r] \in {"notice", "mark", "follow", "create"} /\ nextCall[r] # NoApproval

\* What holds as long as no resume has failed.  A decided approval is not up
\* for a retry; while an expired pause is uncleared nothing is pending and no
\* tool is unfinished.
CalmRecords ==
    /\ \A a \in Approvals : status[a] \in Decisions => ~resumeFailed[a]
    /\ (\E a \in Approvals : Uncleared(a)) => ~HasPending /\ thread.at # "tools"

\* The agent runs only when nothing is pending; a decided approval resumes its
\* own pause, a tool runs for the approved call of its own approval, and a
\* fresh pause stays the thread's until its record is created.
CalmRun(r) ==
    /\ (Resuming(r) \/ pc[r] \in {"terminal", "notice", "mark"})
          /\ copy[r].status \in Decisions => ~copy[r].resumeFailed
    /\ pc[r] # "retry"
    /\ Resuming(r) \/ pc[r] = "agent" => ~HasPending
    /\ MayOpen(r) => \A a \in Approvals : ~Uncleared(a)
    /\ pc[r] = "resume" /\ copy[r].status \in Decisions =>
          thread = [at |-> "paused", call |-> target[r]]
    /\ pc[r] \in {"tool", "write", "respond", "recorded"} =>
          copy[r].status = "approved" /\ thread = [at |-> "tools", call |-> target[r]]
    /\ nextCall[r] # NoApproval =>
          /\ thread = [at |-> "paused", call |-> nextCall[r]]
          /\ pc[r] \in {"returned", "notice", "mark", "follow", "create"}

Undisturbed == resumeTrouble = {} => CalmRecords /\ \A r \in Requests : CalmRun(r)

\* The invariant in four layers: each is inductive given those above it.
RecordsInv == TypeOK /\ LockHeld /\ CopyAgrees /\ AtMostOnePending
WritesInv  == WriteRecorded /\ OwnWriteOnce
PauseInv   == PauseMoved /\ ExpiredPauseCleared
CalmInv    == Undisturbed /\ PendingKeepsPause /\ ConfirmedWrites

IInv == RecordsInv /\ WritesInv /\ PauseInv /\ CalmInv

=============================================================================

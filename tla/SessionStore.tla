----------------------------- MODULE SessionStore -----------------------------
(***************************************************************************)
(* The sessions of one user as files: every session has a directory with   *)
(* meta.json and the logs of its messages, approvals, operations and       *)
(* tasks, the user has one index.json, and the agent keeps the session's   *)
(* thread in its checkpoint database.                                      *)
(*                                                                         *)
(* Requests run in a thread pool.  A turn, a decision, an archive, a       *)
(* deletion and the notice of the task stream hold the session's run lock. *)
(* A restore, a refresh of the tasks and the receipt of a decision made    *)
(* twice do not, and nobody locks index.json.  A decision that takes up a  *)
(* failed resume looks at its session and approval first and takes the     *)
(* lock then.  A request is the list of steps it has still to take;        *)
(* between two of them the others run, and the process may die.  meta.json *)
(* and index.json are written in place: opening the file empties it, and   *)
(* readers of an empty file fail.                                          *)
(***************************************************************************)
EXTENDS Naturals, Sequences

CONSTANTS Sessions,     \* ids, never drawn twice
          Requests,     \* the threads of the pool
          Asked,        \* [Sessions -> SUBSET Kinds], the requests looked at
          NoOne

ASSUME NoOneAssumption == NoOne \notin Requests

VARIABLES
    meta,       \* [Sessions -> MetaFiles]
    logs,       \* [Sessions -> BOOLEAN], the directory has a log in it
    index,      \* [file : IndexFiles, shown : Listing]
    checkpoint, \* [Sessions -> BOOLEAN], the agent knows the thread
    unfinished, \* [Sessions -> BOOLEAN], an approval waits or the end of a task is not recorded
    runLock,    \* [Sessions -> Requests \cup {NoOne}]
    op,         \* [Requests -> Ops]
    \* History
    created,    \* SUBSET Sessions, ids that were drawn
    ran,        \* SUBSET Sessions, those the agent has run in
    calm        \* nobody has died writing, no two have written at a time

files == <<meta, logs, index>>
past  == <<created, ran>>
vars  == <<files, checkpoint, unfinished, runLock, op, past, calm>>

Status     == {"active", "archived"}
MetaFiles  == {"none", "empty", "torn"} \cup Status
IndexFiles == {"none", "empty", "torn", "kept"}
Listing    == [Sessions -> {"none"} \cup Status]
NoListing  == [s \in Sessions |-> "none"]

SaveSteps == <<"openMeta", "fillMeta", "getIndex", "openIndex", "fillIndex">>

\* A message: ensure_active_session, the message, the new meta.
Appending == <<"load", "append">> \o SaveSteps

\* The steps of the handlers.  A get that only leads to the check is left out;
\* so is the answer, which gets everything again.
ArchiveSteps == <<"check", "get">> \o SaveSteps
RestoreSteps == <<"get">> \o SaveSteps
TurnSteps    == Appending \o <<"run">>
NoticeSteps  == <<"find", "append", "get", "append">> \o SaveSteps
ReceiptSteps == Appending \o <<"append">>
DeleteSteps  == <<"check", "get", "forget", "get", "getIndex", "openIndex",
                  "fillIndex", "remove", "scan", "unlink">>

\* decide: the approval still waits, or its expiry is to be carried out (the
\* sweep of a turn is taken for a request before it).  resume: the approval was
\* decided and its resume failed; what this request knows of the session and
\* the approval it read before it had the lock.  receipt: it was decided and
\* carried out, and its tasks were not announced.
Handlers == [create |-> SaveSteps, archive |-> ArchiveSteps, restore |-> RestoreSteps,
             turn |-> TurnSteps, decide |-> <<"find", "append", "run">>, resume |-> <<"run">>,
             notice |-> NoticeSteps, refresh |-> <<"get", "append">>, receipt |-> ReceiptSteps,
             delete |-> DeleteSteps]

\* Faulty: the directory goes before the thread; unfinished work is not looked
\* for; a restore is not shown in the index.
ScriptFilesFirst == [Handlers EXCEPT !.delete =
    <<"check", "get", "getIndex", "openIndex", "fillIndex", "remove", "forget", "scan", "unlink">>]
ScriptUnchecked  == [Handlers EXCEPT !.delete = Tail(@)]
ScriptUnindexed  == [Handlers EXCEPT !.restore = <<"get", "openMeta", "fillMeta">>]

Script == Handlers

Kinds == DOMAIN Script

ASSUME AskedAssumption == Asked \in [Sessions -> SUBSET Kinds]

\* Faulty: an archive does without the run lock.
LockedFewer == {"turn", "decide", "resume", "notice", "delete"}

\* The handlers that hold the run lock.
Locked == {"turn", "decide", "resume", "archive", "notice", "delete"}

\* What follows a run: messages (of a compression, an answer or an error, of
\* the tasks that were made; several are taken for one), and then a mark or a
\* new approval; nothing when the reader of a stream has gone.  A resume first
\* records that it failed or went well.
Record  == <<"append">>
Answers == {<<>>, Record, Appending, Appending \o Record}

AfterRun == [turn |-> Answers, decide |-> Answers, resume |-> {Record \o x : x \in Answers}]

\* put: the status a request will save.  read: the index as it read it.
NoOp == [kind |-> "none", at |-> NoOne, put |-> "active", read |-> NoListing, todo |-> <<>>]

Idle(r)     == op[r].todo = <<>>
At(r, step) == ~Idle(r) /\ Head(op[r].todo) = step
Readable(f) == f \in Status \cup {"kept"}

\* A request has begun to write and has not finished.
Writing(r) ==
    /\ ~Idle(r)
    /\ \/ Head(op[r].todo) \in {"fillMeta", "openIndex", "fillIndex", "remove", "scan", "unlink"}
       \/ Head(op[r].todo) = "getIndex" /\ op[r].kind # "delete"

OneWrites == \A r \in Requests : Writing(r) => \A q \in Requests \ {r} : ~Writing(q)

\* The request goes on with some steps, or ends and gives back its lock.
Becomes(r, new) ==
    /\ op' = [op EXCEPT ![r] = IF new.todo = <<>> THEN NoOp ELSE new]
    /\ runLock' = [s \in Sessions |->
                      IF new.todo = <<>> /\ runLock[s] = r THEN NoOne ELSE runLock[s]]
    /\ calm' = (calm /\ OneWrites')

Advance(r)    == Becomes(r, [op[r] EXCEPT !.todo = Tail(@)])
EndRequest(r) == Becomes(r, NoOp)

-----------------------------------------------------------------------------
(* Requests                                                                 *)

\* A thread takes a request; when the run lock is held the answer is 409.  What
\* is about an approval or a task comes after the run that made it.
Start(r, kind, s) ==
    /\ Idle(r) /\ kind \in Asked[s]
    /\ (kind = "create") = (s \notin created)
    /\ kind \in {"decide", "resume", "notice", "refresh", "receipt"} => s \in ran
    /\ kind \in Locked => runLock[s] = NoOne
    /\ runLock' = IF kind \in Locked THEN [runLock EXCEPT ![s] = r] ELSE runLock
    /\ op' = [op EXCEPT ![r] = [NoOp EXCEPT !.kind = kind, !.at = s, !.todo = Script[kind]]]
    /\ created' = created \cup {s}
    /\ UNCHANGED <<files, checkpoint, unfinished, ran, calm>>

\* get_session: 404 without a meta file, an exception with a broken one.
Get(r) ==
    LET s == op[r].at IN
    /\ At(r, "get")
    /\ IF ~Readable(meta[s]) THEN EndRequest(r)
       ELSE Becomes(r, [op[r] EXCEPT
                !.put = CASE op[r].kind = "archive" -> "archived"
                          [] op[r].kind = "restore" -> "active"
                          [] OTHER                  -> meta[s],
                !.todo = Tail(@)])
    /\ UNCHANGED <<files, checkpoint, unfinished, past>>

\* ensure_active_session, which restores an archived session.
Load(r) ==
    LET s == op[r].at IN
    /\ At(r, "load")
    /\ IF ~Readable(meta[s]) THEN EndRequest(r)
       ELSE Becomes(r, [op[r] EXCEPT
                !.put = "active",
                !.todo = IF meta[s] = "archived" THEN SaveSteps \o <<"get">> \o Tail(@)
                         ELSE Tail(@)])
    /\ UNCHANGED <<files, checkpoint, unfinished, past>>

\* _assert_no_unfinished_items, which may also see a stale copy of a task.
Check(r) ==
    /\ At(r, "check")
    /\ EndRequest(r) \/ (~unfinished[op[r].at] /\ Advance(r))
    /\ UNCHANGED <<files, checkpoint, unfinished, past>>

\* What is looked up under the lock: a decision's approval, which may no longer
\* wait; the tasks of a notice.  Without a directory there are none; behind a
\* deletion others may have made one again, with a log in it.
Find(r) ==
    LET s == op[r].at IN
    /\ At(r, "find")
    /\ \/ EndRequest(r)
       \/ (meta[s] # "none" \/ logs[s]) /\ Advance(r)
    /\ UNCHANGED <<files, checkpoint, unfinished, past>>

\* A line for one of the logs, which makes the directory when it has to.
AppendTo(r) ==
    /\ At(r, "append")
    /\ logs' = [logs EXCEPT ![op[r].at] = TRUE]
    /\ Advance(r)
    /\ UNCHANGED <<meta, index, checkpoint, unfinished, past>>

\* The agent runs, or fails before it does: the thread is written, tools
\* record what they do, and a pause or tasks may be left.
Run(r) ==
    LET s == op[r].at IN
    /\ At(r, "run")
    /\ \E wrote, recorded, left \in BOOLEAN :
          /\ checkpoint' = [checkpoint EXCEPT ![s] = @ \/ wrote]
          /\ unfinished' = [unfinished EXCEPT ![s] = @ \/ (wrote /\ left)]
          /\ logs' = [logs EXCEPT ![s] = @ \/ (wrote /\ recorded)]
          /\ ran' = IF wrote THEN ran \cup {s} ELSE ran
    /\ \E rest \in AfterRun[op[r].kind] : Becomes(r, [op[r] EXCEPT !.todo = rest])
    /\ UNCHANGED <<meta, index, created>>

\* delete_thread_checkpoint, or the 503 when it fails.
Forget(r) ==
    /\ At(r, "forget")
    /\ \/ /\ checkpoint' = [checkpoint EXCEPT ![op[r].at] = FALSE]
          /\ Advance(r)
       \/ /\ EndRequest(r) /\ UNCHANGED checkpoint
    /\ UNCHANGED <<files, unfinished, past>>

-----------------------------------------------------------------------------
(* Files                                                                    *)

OpenMeta(r) ==
    /\ At(r, "openMeta")
    /\ meta' = [meta EXCEPT ![op[r].at] = "empty"]
    /\ Advance(r)
    /\ UNCHANGED <<logs, index, checkpoint, unfinished, past>>

\* What is in a file after a write: the text, or a mixture when somebody else
\* has filled it since it was opened.
Filled(before, text, torn) == IF before = "empty" THEN {text} ELSE {text, torn}

FillMeta(r) ==
    LET s == op[r].at IN
    /\ At(r, "fillMeta")
    /\ \E new \in Filled(meta[s], op[r].put, "torn") : meta' = [meta EXCEPT ![s] = new]
    /\ Advance(r)
    /\ UNCHANGED <<logs, index, checkpoint, unfinished, past>>

\* The file that was opened has been deleted: nobody will see what is written.
Spill(r) ==
    /\ At(r, "spill")
    /\ Advance(r)
    /\ UNCHANGED <<files, checkpoint, unfinished, past>>

\* IndexStore.load
GetIndex(r) ==
    /\ At(r, "getIndex")
    /\ IF index.file \in {"empty", "torn"} THEN EndRequest(r)
       ELSE Becomes(r, [op[r] EXCEPT !.read = index.shown, !.todo = Tail(@)])
    /\ UNCHANGED <<files, checkpoint, unfinished, past>>

OpenIndex(r) ==
    /\ At(r, "openIndex")
    /\ index' = [file |-> "empty", shown |-> NoListing]
    /\ Advance(r)
    /\ UNCHANGED <<meta, logs, checkpoint, unfinished, past>>

\* Faulty: a deleted session is only marked.
NewIndexMarked(r) ==
    [op[r].read EXCEPT ![op[r].at] = IF op[r].kind = "delete" THEN "deleted" ELSE op[r].put]

\* upsert_index_item and remove_index_item
NewIndex(r) ==
    [op[r].read EXCEPT ![op[r].at] = IF op[r].kind = "delete" THEN "none" ELSE op[r].put]

FillIndex(r) ==
    /\ At(r, "fillIndex")
    /\ index' \in Filled(IF index.file = "empty" THEN "empty" ELSE "other",
                         [file |-> "kept", shown |-> NewIndex(r)],
                         [file |-> "torn", shown |-> NoListing])
    /\ Becomes(r, [op[r] EXCEPT !.put = "active", !.read = NoListing, !.todo = Tail(@)])
    /\ UNCHANGED <<meta, logs, checkpoint, unfinished, past>>

\* Others who hold a deleted file open write for nothing.
Spilled(step, who) ==
    [q \in Requests |->
        IF q \in who /\ At(q, step) THEN [op[q] EXCEPT !.todo = <<"spill">> \o Tail(@)] ELSE op[q]]

\* delete_session_directory
Remove(r) ==
    LET s == op[r].at IN
    /\ At(r, "remove")
    /\ meta' = [meta EXCEPT ![s] = "none"]
    /\ logs' = [logs EXCEPT ![s] = FALSE]
    /\ op' = [Spilled("fillMeta", {q \in Requests : op[q].at = s})
                 EXCEPT ![r].todo = Tail(@)]
    /\ calm' = (calm /\ OneWrites')
    /\ UNCHANGED <<index, checkpoint, unfinished, runLock, past>>

\* _delete_empty_user_sessions_root looks for directories of sessions.
Scan(r) ==
    /\ At(r, "scan")
    /\ IF \E s \in Sessions : meta[s] # "none" \/ logs[s] THEN EndRequest(r) ELSE Advance(r)
    /\ UNCHANGED <<files, checkpoint, unfinished, past>>

Unlink(r) ==
    /\ At(r, "unlink")
    /\ index' = [file |-> "none", shown |-> NoListing]
    /\ op' = [Spilled("fillIndex", Requests) EXCEPT ![r] = NoOp]
    /\ runLock' = [s \in Sessions |-> IF runLock[s] = r THEN NoOne ELSE runLock[s]]
    /\ calm' = (calm /\ OneWrites')
    /\ UNCHANGED <<meta, logs, checkpoint, unfinished, past>>

-----------------------------------------------------------------------------

\* A decision or the end of a task.
Settle(s) ==
    /\ unfinished[s]
    /\ unfinished' = [unfinished EXCEPT ![s] = FALSE]
    /\ UNCHANGED <<files, checkpoint, runLock, op, past, calm>>

\* The process dies, and with it its locks.  The files stay as they are; one
\* that was opened and not filled is as good as torn.
Crash ==
    /\ ~\A r \in Requests : Idle(r)
    /\ op' = [r \in Requests |-> NoOp]
    /\ runLock' = [s \in Sessions |-> NoOne]
    /\ meta' = [s \in Sessions |-> IF meta[s] = "empty" THEN "torn" ELSE meta[s]]
    /\ index' = IF index.file = "empty" THEN [index EXCEPT !.file = "torn"] ELSE index
    /\ calm' = (calm /\ \A r \in Requests : ~Writing(r))
    /\ UNCHANGED <<logs, checkpoint, unfinished, past>>

Init ==
    /\ meta = [s \in Sessions |-> "none"] /\ logs = [s \in Sessions |-> FALSE]
    /\ index = [file |-> "none", shown |-> NoListing]
    /\ checkpoint = [s \in Sessions |-> FALSE] /\ unfinished = [s \in Sessions |-> FALSE]
    /\ runLock = [s \in Sessions |-> NoOne]
    /\ op = [r \in Requests |-> NoOp]
    /\ created = {} /\ ran = {} /\ calm = TRUE

Step(r) ==
    \/ Get(r) \/ Load(r) \/ Check(r) \/ Find(r) \/ AppendTo(r) \/ Run(r) \/ Forget(r)
    \/ OpenMeta(r) \/ FillMeta(r) \/ Spill(r)
    \/ GetIndex(r) \/ OpenIndex(r) \/ FillIndex(r)
    \/ Remove(r) \/ Scan(r) \/ Unlink(r)

Next ==
    \/ \E r \in Requests : Step(r) \/ \E kind \in Kinds, s \in Sessions : Start(r, kind, s)
    \/ \E s \in Sessions : Settle(s)
    \/ Crash

Spec == Init /\ [][Next]_vars

-----------------------------------------------------------------------------
(* Properties                                                               *)

Steps == {"get", "load", "check", "find", "append", "run", "forget", "openMeta", "fillMeta", "spill",
          "getIndex", "openIndex", "fillIndex", "remove", "scan", "unlink"}

Ops == [kind : Kinds \cup {"none"}, at : Sessions \cup {NoOne}, put : Status,
        read : Listing, todo : Seq(Steps)]

FilesOK ==
    /\ meta \in [Sessions -> MetaFiles] /\ logs \in [Sessions -> BOOLEAN]
    /\ index \in [file : IndexFiles, shown : Listing]

WorkOK ==
    /\ checkpoint \in [Sessions -> BOOLEAN] /\ unfinished \in [Sessions -> BOOLEAN]
    /\ created \in SUBSET Sessions /\ ran \in SUBSET Sessions /\ calm \in BOOLEAN

OpsOK ==
    /\ runLock \in [Sessions -> Requests \cup {NoOne}]
    /\ op \in [Requests -> Ops]

TypeOK == FilesOK /\ WorkOK /\ OpsOK

\* As long as nobody dies while writing and no two write at a time, the index
\* shows every session with its status, whatever happens between the writes
\* (PHASE1.md:285, 292: every change of a session updates its entry).
IndexFollows ==
    calm /\ (\A r \in Requests : ~Writing(r)) =>
        /\ index.file \in {"none", "kept"}
        /\ index.shown = meta

\* Nothing leaves the agent a thread whose session is gone (PHASE1.md:300),
\* neither a deletion that fails or dies half way nor what overlaps with it, but
\* a decision that takes up a failed resume: it read its session and approval
\* before it had the lock, and runs the agent although a deletion came between;
\* and one that finds, under the lock, the failure such a one recorded.
Orphan(s) == checkpoint[s] /\ meta[s] = "none"

NoOrphanThread ==
    [][\A s \in Sessions :
          Orphan(s)' /\ ~Orphan(s) =>
              \E r \in Requests : op[r].at = s /\ op[r].kind \in {"resume", "decide"}
                                    /\ At(r, "run") /\ op'[r] # op[r]]_vars

\* A pending approval or an open task never loses its thread to a deletion:
\* the check is made under the run lock that everything that runs the agent needs.
UnfinishedKeepsThread == \A s \in Sessions : unfinished[s] => checkpoint[s]

\* A session that was deleted comes back only by a request that holds no run
\* lock and has looked at it before: a restore, or the receipt of a decision
\* made twice.
BackBehindTheLock ==
    [][\A s \in Sessions :
          meta[s] = "none" /\ meta'[s] # "none" =>
              \E r \in Requests : op[r].at = s /\ op[r].kind \in {"create", "restore", "receipt"}
                                    /\ op'[r] # op[r]]_vars

=============================================================================

# Formal model of the DBAAS AI agent

TLA+ specifications of `src/ai-agent` (a FastAPI service in which a LangGraph
DeepAgent manages database services for a user, and the page that uses it) and
of `src/mock-server`, the DBAAS it talks to. The modules are checked with TLC on
small instances; all the safety properties they check, and two refinements, are
also proved with TLAPS for every value of the constants. Liveness is only
model-checked.

`PROJECT.json` holds the machine-readable part: which definition translates
which lines (`map`), the runs, a faulty variant of the code for every checked
property (`mutants`), the hazards and the theorems.

## 1. Inventory of the system

### How it works, in one paragraph

A user's session is a directory of files (`meta.json`, `messages.jsonl`,
`approvals.jsonl`, `operations.jsonl`, `tasks.jsonl`) and a LangGraph thread in
a SQLite checkpoint. A message runs the agent on that thread. The agent's write
tools interrupt: the run pauses and the route records a *pending approval*.
A decision of the user, or the TTL, resumes the thread with "approve" or
"reject"; only an approved tool calls DBAAS. It keeps an *operation* record
around the call and a *task* record for the asynchronous work DBAAS starts.
Pages and event streams refresh the tasks and, when all tasks of an approval
have ended, one of them writes a message that says so. Beside that, read tools
answer from per-user snapshots of DBAAS data which requests and a background
loop refresh.

### Components

| Component | State | Operations | Hard behaviour |
|---|---|---|---|
| **Run lock** (`sessions/run_lock.py`) | set of locked session keys, in memory | non-blocking acquire, release | must be released on every way out of a request, a streaming one included; gone after a crash |
| **Session append logs** (`append_log_store.py`, `approval_store.py`, `repository.py`) | JSONL files; the last line of an id wins | append under a file lock, fold on read | one append is atomic, a read followed by an append is not |
| **Approval service** (`operations/approval_service.py`, `routes_approvals.py`) | approval records | create, decide, repeat a decision, expire, clean up, retry, creation notice | decided records are handled outside the lock; the record is copied before the run and appended after it |
| **Chat routes** (`routes_chat.py`) | - | message, streamed message | sweep, refusal, run, next approval, in one locked section; a client may drop the stream |
| **Agent runtime** (`agent/runtime.py`) | checkpoint of the thread | start, stream, resume, look for a pause | a resume names no approval: it answers whatever pause the thread holds |
| **Operation service** (`operation_service.py`) | operation records | start, find existing, complete, mark unknown | idempotence of the write depends on the look-up |
| **Write tools and client** (`dbaas/write_tools.py`, `write_client.py`) | - | one write per approved call, task look-up | exceptions and crashes between the write and its records |
| **Task service, task routes** (`task_service.py`, `routes_tasks.py`) | task records | create, lazy and forced refresh, event stream, terminal notice | refreshes take no lock and append stale copies |
| **Session service** (`sessions/service.py`, `repository.py`, `index_store.py`, `routes_sessions.py`) | `meta.json`, `messages.jsonl`, `index.json`, directories | create, archive, restore, delete, append message | files rewritten in place; a restore, a refresh and the creation notice of a decision made twice take no lock; a resume reads before it takes it; delete spans checkpoint and files |
| **Snapshots** (`dbaas/*_sync.py`, `*_query.py`) | a data file and a meta file per scope | TTL check, refresh, stale fallback | two files replaced one after the other |
| **Background sync and leases** (`dbaas/background.py`) | lease per user | renew, prewarm, expire and delete | expiry races renewal and refresh |
| **Metric series** (`metric_*.py`) | a data file and a meta file per series | refresh latest values and spans of time, clean up | the cleanup lists, reads and deletes without a lock what others refresh |
| **Mock DBAAS** (`mock-server/app/store/json_store.py`, `api/services.py`) | services, hosts, backups, tasks, all in memory | prechecks, changes of size, upgrades, backups, worker threads, restart | a task's record, thread and units change in different sections of different threads; a check and its change are two requests |
| **Identity and roles** (`dbaas/auth.py`, `identity/`, `mock-server/app/auth.py` and its routes) | - (who owns a service never changes) | headers of an identity, of a background job, of a user whose snapshot is renewed; who they are for the server | each route decides in its own way what it shows |
| **Targets, proposals, registry** | none | pure functions of tool arguments | matching of targets decides conflicts and idempotence |
| **Frontend** (`ai-agent/frontend/app.js`) | the session shown, its tasks, what it waits for | opens, creates and deletes sessions, sends messages, decides, follows the task stream | replies overtake each other and nothing is given up; what it repeats is what makes the system progress |

Configuration, logging, read tools, prompt and model set-up keep no state that
changes; seed and catalogue generators are offline scripts, of which
the mock store relies on a few facts.

### How they interact

- *Calls*: routes → approval service → runtime → (through LangGraph) write tool →
  write client and operation/task service. All of it happens in one worker
  thread per request.
- *Shared files*: the approval, operation and task logs, read and appended by
  several requests at once.
- *Shared lock*: a message, a first decision, a resume, an expiry sweep, a
  cleanup, an archive, a deletion and the terminal notice each hold the session's
  run lock; reading records, repeating a decision, refreshing tasks and restoring
  a session do not.
- *Requests to DBAAS*: write tools, the task service and the synchronizers; DBAAS
  works on a task in a thread of its own and is asked about it.
- *The page* calls the routes, and each of its handlers goes on when its reply
  comes, in any order.
- *Callbacks*: the streaming route hands its lock to a generator that the
  server drives, and which may be closed at any yield.

### What makes each of them correct

- Approvals: at most one is pending in a session; it is decided once; an expired
  one takes its pause with it; a stale copy never reopens or changes a decision.
- Writes: DBAAS is called only for a call the user approved; once per call.
- Lock: always given back.
- Tasks: the recorded outcome is DBAAS's; a group is reported when all of it has
  ended; every group is reported in the end.
- Sessions: `index.json` agrees with the directories; no thread outlives its
  session, and no deletion takes a thread that is needed.
- Snapshots and series: data and meta belong together; nobody is served data
  that are out of time; the cleanup takes nothing that is in use.
- Mock store: every task ends once; its pieces agree; units hold what an upgrade
  brought; a checked change fits; its routes agree on who sees what.
- Page: it shows one session, follows what it shows, and never stays locked.

## 2. Plan

| | Modules | State |
|---|---|---|
| M1 | `ApprovalProtocol` (run lock, approval service, chat routes, runtime, operation service, write tools), `ApprovalLifecycle` (abstract), `ApprovalLiveness`, `MCApprovalProtocol`, `ApprovalTypeProofs`, `ApprovalRecordProofs`, `ApprovalRunProofs` | built, checked, safety and refinement proved |
| M2 | `TaskTracking` (task service, task routes, the tools' records, DBAAS's tasks), `TaskLiveness`, `MCTaskTracking`, `TaskProofs` | built, checked, safety proved |
| M3 | `SessionStore` (session service, repository, index, routes), `MCSessionStore`, `SessionProofs` | built, checked, proved |
| M4, M5 | `SnapshotSync` (five snapshot synchronizers, their queries, leases and loops; metric series and their cleanup), `MCSnapshotSync`, `SnapshotProofs` | built, checked, proved |
| M6 | `DbaasTasks` (abstract), `DbaasAccess` (headers, users, who is shown what), `MockStore` (the mock DBAAS), `MCMockStore`, `MockProofs` | built, checked; safety and refinement proved |
| M7 | `ChatPage` (`frontend/app.js`), `MCChatPage`, `PageProofs` | built, checked, proved |

The order follows what a fault would cost: an unapproved or repeated write
first, a wrong report next, then stale reads, lost sessions, the service behind
it all and the page before it. `OperationTargets`, pure operators for conflict
keys and target matching, was planned and not written: section 12 says why.

How the modules join:

- `ApprovalProtocol` and `TaskTracking` share the run lock and the tools'
  records. The first looks at what a run may write and ignores what becomes of a
  task; the second starts from an approved run and ignores how it was approved.
  That a failed resume is taken up again is in both: in the first the requests
  that do it, in the second the further runs of the approval.
- `DbaasTasks` stands between `TaskTracking` and `MockStore`: the DBAAS of the
  first does what the contract allows (`WithinContract`), and the store keeps the
  contract (`ContractImplemented`).
- `MockStore` EXTENDS `DbaasAccess`: every request carries headers that the agent
  can send, and the store's answers depend on whom the server takes them for.
- `SessionStore` has every user of the run lock, with what each does to the
  session's files and its thread and not what it decides: whether an approval
  waits or a task is open is one Boolean (`unfinished`). `ChatPage` takes the whole service as a source
  of arbitrary answers.

## 3. `ApprovalProtocol`

One session, the requests that work on it, and any number of approvals.

| Model | Code |
|---|---|
| `status`, `resumeFailed`, `noticed` | the latest `ApprovalRecord` of each id in `approvals.jsonl`: `status`, whether `last_error` marks a failed resume, `task_creation_notice_emitted` |
| `elapsed` | the approvals whose `expires_at` has passed |
| `thread` | the checkpoint: idle, paused at a tool call, or in the tools node (approved but not finished) |
| `op[a][c]`, `hasTask` | operation and task records made in the name of approval `a` for tool call `c` |
| `lock` | `SessionRunLock` |
| `pc`, `kind`, `target`, `decision`, `copy`, `todo`, `nextCall` | the worker thread of a request and its local variables; `copy` is the `ApprovalRecord` object it read |
| `writes`, `notices`, `resumeTrouble` | history, only read by properties |

A call and the approval made for it share an identifier, so `op[a][c]` with
`a # c` is a write of `c` made while the request worked for `a`.

An action is a step between two points where another request can come between:
a read or an append of a log, taking the lock, a step of the graph, a request
to DBAAS. The actions fall in five groups, the disjuncts of `Serve` and `Next`:

- *Arrive*: `ReceiveMessage`, `ReceiveQuery`, `ReceiveDecision` (the route, up
  to taking the lock or to leaving without it).
- *Sweep*: `expire_pending_approvals_for_query` and the sweep of a message, one
  approval per step, with the read that only clears a failed expiry and the
  refusal of a message while an approval is open.
- *Decide*: `decide` inside the lock, the re-read after it (`DecideRaced`),
  expiry, target conflict, first decision, and the branches of a repeated
  decision that run without the lock and take it for a retry.
- *Run*: the graph. `ResumePaused`/`ResumeUnpaused` is `Command(resume=...)`,
  which answers the pause the thread *has*; then look-up, operation record,
  DBAAS write, task record, completed operation; then answer, next pause or
  failure of the agent.
- *Record*: what is written after the run: failure or success, creation notice,
  the next approval.

and, at any time, `TtlElapses` and `Crash`. LangGraph (`thread`) is not in the
repository: it is modelled from how `runtime.py` uses it, and its definitions
are marked external.

`ApprovalLifecycle` is the abstract specification: what one approval promises,
whoever works on it. It is created pending, decided once or expired, a resume
of it may fail and be cleared, and a cleaned expiry is final. The protocol
implements it with the identity on the record variables (`LifecycleSpec`).

### Properties

- `AtMostOnePending`: two code paths check for a pending approval and append one
  later.
- `RunExclusive`: sweep, resume, tool and creation of two requests never overlap.
- `ConfirmedWrites` and `PendingKeepsPause`: as long as no resume has failed,
  every write is of an approved call and in its own approval's name, and a
  pending approval's call is the one the thread is paused at. The condition is
  needed: see `ConfirmationFirst` below.
- `OwnWriteOnce`: a call with a recorded tool call id is written at most once in
  its own approval's name, through retries, repeated decisions and crashes.
- `ExpiredPauseCleared`: an expired approval that no longer blocks its session
  left no pause behind.
- `LockGivenBack`, `OverdueExpires` (in `ApprovalLiveness`): the lock is always
  given back, and an overdue approval is expired in the end.
- `IInv`: the inductive invariant of the proofs, checked here first.

## 4. `TaskTracking`

The tasks of one approval: the approved run that creates them (one task and one
operation per tool call), further runs when it failed and the decision is
repeated, DBAAS ending the tasks, and *viewers* that follow them. A
viewer in `Streams` is an event stream; another is a page listing or the
agent's task tool.

| Model | Code |
|---|---|
| `task`, `noticed` | the latest `TaskRecord`: status and `terminal_notice_emitted` |
| `operation` | the latest `OperationRecord` of the call |
| `remote` | DBAAS's own task |
| `lock`, `run`, `tool` | the run lock, whether a run of the approval is on, and the runs' tool calls |
| `retry`, `waiting` | what a repeated decision looks for (the approval says its resume failed, and no operation is recorded), and the repeated decisions that found it and have yet to take the lock |
| `pc`, `seen`, `todo`, `answer`, `unfinished`, `pending` | a viewer: the records it listed, the tasks it has yet to ask about or mark, DBAAS's answer, and the two sets the stream keeps between rounds |

A run begins by the first decision (`BeginRun`) or by a repeated one, whose look
(`RepeatDecision`) and lock (`ResumeAgain`, `Refused`) are two steps, as in
approval_service.py:404-407 and 455: nothing is looked at again, so of two that
saw the failure the second runs after the first, be the first one's tasks created,
ended and reported by then. A run's actions are `StartOperation`, `SendCreate`,
`CreateFails`, `CreateTaskRecord` and `CompleteOperation`, and it is over by
`EndRun`, `RunFails` or `ToolRaises`. DBAAS's action is `Finish`; a viewer's round is `OpenStream` or `ListTasks` or
`CallTaskTool`, then per task `FetchTask` or `FetchFails`, `StoreAnswer`
(append of the listed copy with the new status) and `SyncOperation`, then
`EndRound`, the notice (`TakeNotice` or `SkipNotice`, `MarkTask`,
`WriteNotice`) and `Turn`. `Disconnect` and `Crash` come at any time.

What an open task says of itself (created, running, refresh_failed) is one status,
`"open"`: nothing here tells them apart, and a copy that differs in them only may
be appended or not.

Properties: `NoticeAfterAll` (a group is reported only while no run is on and
after DBAAS ended every recorded task; not that the group stays as it was
reported: a later run may add a task, and the group is then reported again),
`RecordedOutcome` (a recorded end is the one
DBAAS gave), `TasksReported` in
`TaskLiveness` (in the end everything recorded has ended and is
marked as reported, for good).

## 5. `SnapshotSync`

One snapshot: a data file and a meta file that vouches for it until its
`expires_at`. `kind`, chosen in `Init`, says whose protocol runs, and its guards
are the only places where they differ:

| `kind` | Code | Lock | Refreshed by | Deleted |
|---|---|---|---|---|
| `"user"` | `service_sync.py`, `service_query.py`, `background.py` | per user | prewarms, the loop, queries with `refresh`, queries that find nothing | when the user's lease ran out |
| `"admin"` | the same code | none | the loop, queries with `refresh` | never |
| `"lazy"` | `host_`, `backup_`, `cluster_`, `network_segment_sync.py` and their queries | one per kind, or per user for backups | the query that finds no fresh snapshot, queries with `refresh`, the hosts' loop | never |
| `"latest"` | `metric_sync.py`, `metric_query.py` | per metric | the query that finds no fresh values | by the cleanup |
| `"history"` | `metric_history.py`, `metric_query.py` | none | the query that finds no fresh values of its span | by the cleanup |

| Model | Code |
|---|---|
| `data`, `meta` | the two files; fetches are numbered, 0 is no file |
| `fetched`, `expired` | answers DBAAS gave; fetches whose `expires_at` passed |
| `lock` | the `threading.Lock` of the refresh |
| `leased`, `idle`, `prewarm` | the user's entry in `_leases`, its age, a queued `_prewarm_user` |
| `pc`, `job`, `current`, `got`, `view` | a thread: why it refreshes, the meta it found fresh, its fetch, and the fetch of the meta that vouched for the query it serves |
| `now` | what had expired when the cleanup took the time |
| `torn`, `touched` | history: a failure, crash or cleanup came between the two files; a refresh has written since the cleanup began |

A refresh is `BeginRefresh`, `FetchSucceeds`, `ReplaceData`, `ReplaceMeta`; when
anything fails, `KeepFresh` (services go by what they noted before the fetch,
the lazy kinds look again) or `DropData` and `WriteUnavailable`; and
`WriteMetaFails` when that cannot be written either. `LockTimesOut` and
`FindRefreshed` are the early returns. A query is `QueryFresh`, `QueryMissing`
or `QueryRefreshed`, what the refresh's end leads to (`AfterRefresh`), and
`RunJq`, which takes no lock. `Tick` is one turn of the background loop,
`DeleteData` and `DeleteMeta` what it does for an idle user.

A series deletes its old pair before it asks (`BeginSeries`, `PurgeMeta`), has
nothing to fall back on (`SeriesFails`) and removes both files when one cannot
be written (`DropData`, `DropMeta`). The cleanup is `BeginSweep` (the time and
the list of files), `SweepRead` (one meta file, which may be gone by then),
`SweepData`, `SweepMeta` and, last, `SweepOrphans`, each a step of its own
between any steps of a refresh.

Properties: `Paired` (whatever refreshes, deletions, a cleanup and failed
fetches met, once they are over the data file is there exactly when the meta
file vouches for it, and both are of one fetch), `ServedInTime` (when a query
turns to the data file, the data themselves are not out of time, whichever meta
it looked at), `NeverBack` (nor are they replaced by older ones before jq reads
them), `SweepSpares` (the cleanup, which works on what it read before, takes a
usable series away only when a refresh wrote while it was on its way).
`NoLockNeeded` is the documentation's claim for the platform's snapshot.

The first three hold for the guarded kinds only. What the two others do: two
queries of one span of time delete each other's files, and may leave older data
under a newer meta, as administrators' queries may for the platform. The cleanup
may also delete data between a refresh's two replacements; the fresh meta file
then vouches for nothing until the next query or cleanup looks (`torn`).

## 6. `SessionStore`

Two or more sessions of one user, file by file.

| Model | Code |
|---|---|
| `meta` | `meta.json` of each session: absent, empty (opened and not yet filled), torn, or saying "active" or "archived" |
| `logs` | whether the session's directory has one of its logs in it: messages, approvals, operations, tasks |
| `index` | the user's `index.json` and what it shows |
| `checkpoint` | whether the agent's database knows the session's thread |
| `unfinished` | what `_assert_no_unfinished_items` looks for |
| `runLock` | `SessionRunLock` of each session |
| `op` | a request in the thread pool: its kind, session, the status it will save, the index it read, and `todo`, the steps it has still to take |
| `created`, `ran`, `calm` | history |

`Handlers` lists the steps of each handler as the code takes them:

| Kind | Code | Run lock |
|---|---|---|
| `create`, `archive`, `restore`, `delete` | `routes_sessions.py`, `sessions/service.py` | archive, delete |
| `turn` | `routes_chat.py`: the message, the run, what follows it | yes |
| `decide` | `decide` on an approval that waits, or an expiry that a decision, a query or a turn carries out: the approval is read again under the lock | yes |
| `resume` | `_resume_terminal`: session and approval are those read before the lock | yes |
| `receipt` | the creation notice when a decision is made twice (approval_service.py:426-431, 688) | no |
| `notice` | the terminal notice (routes_tasks.py:149-199): tasks read again, marks, then the message | yes |
| `refresh` | a listing of tasks or a round of the event stream, which appends what changed | no |

Each step is an action: `Get` (`get_session`), `Load` (`ensure_active_session`,
which saves a restored session first), `Check`, `Find` (what is read again under
the lock), `AppendTo` (a line of a log), `Run`, `Forget`
(`delete_thread_checkpoint`), `OpenMeta`, `FillMeta`, `GetIndex`, `OpenIndex`,
`FillIndex`, `Remove`, `Scan`, `Unlink`. `AfterRun` says what follows a run:
nothing, messages, a new approval or a mark. Files are rewritten in place, so
opening one empties it, a reader may meet it empty, two writers may mix, and a
crash leaves it torn; who holds a file open that is deleted writes to nobody
(`Spill`). `Settle` is a decision or the end of a task, `Crash` comes at any time.

The list is shorter than the code in three places: several messages written one
after the other under the lock are one, since each does to the files what the one
before did; so are the groups of a terminal notice; and the sweep of a turn is a
`decide` before it.

Properties: `IndexFollows` (as long as nobody dies while writing and no two
write at once, the index shows every session with its status), `NoOrphanThread`
(nothing makes a thread outlive its session, not a deletion that fails half way
nor what overlaps with it, but the run of a decision on a failed resume),
`UnfinishedKeepsThread` (a pending approval or an open task never loses its thread
to a deletion), `BackBehindTheLock` (a deleted session comes back only by a restore
or a receipt: the requests that write `meta.json`, hold no run lock and had looked
at it before).

The exceptions are what the code allows. `_resume_terminal` loads nothing after it
has the lock, and the deletion's check does not count a failed resume of an
approved or rejected approval as unfinished: a deletion may run to its end between
the two, and the resume then writes checkpoints, and a log with the failure in it,
for a session that is gone (against PHASE1.md:300). A decision that waited
for the lock may find that failure and resume once more. PHASE7.md:1963 says a
restore needs no lock because it loses no approval, task or thread, and alone it
does not; beside a deletion it brings the session back without them. So does a
receipt, which also saves the status it had read. The terminal notice does not: it
takes the run lock, finds no tasks after a deletion, and is written, or not, before
one. Two rewrites of the index at once lose an entry, and one torn meta file
makes the user's list of sessions fail; `calm` marks where that begins.

## 7. `DbaasTasks`, `DbaasAccess` and `MockStore`

`DbaasTasks` is what a client of DBAAS may rely on: a task is accepted once,
runs, and ends once, for good.

`DbaasAccess` holds what decides who sees what, as pure operators. `Headers` are
all headers that the agent can send: those of an identity (`IdentityHeaders`), of
its background jobs (`SystemHeaders`) and of a user whose snapshot it renews
(`UserHeaders`). `CurrentUser` is what the server makes of them, and each route
has its own operator, because each decides in its own way: by the service's user
and owner account (`MayUse`, `MetricServices`), by the filters of a list
(`ServicesListed`, `UserServices`), by the owner that a backup record carries
(`BackupMatchesUser`), by comparing the two accounts itself (`HistoryShown`), or
for administrators only (`PlatformShown`, to be compared with the agent's own
`PlatformQueried`).

`MockStore` is the store that keeps the contract:

| Model | Code |
|---|---|
| `size`, `image` | a unit's cpu and volumes; its image, with which the version goes |
| `allocated`, `used` | the hosts' `cpuAllocatedCores` and `usedGB` as last summed up |
| `task`, `backup` | `_tasks` (kind, status, service, the units and image of an upgrade) and the backup records a task has made |
| `worker`, `position` | the task's thread: to be started, on, over; the unit it turns to next |
| `gone` | history: what a wiped task said last |

A section under the store's one lock is one action. `Precheck` is what the two
checks answer; `UpdateResources` and `UpdateStorage` change all units of a child
service; `CreateUpgrade` and `CreateBackup` record a task, `StartWorker` starts
its thread after the section, `UpgradeUnit`, `FinishTask` and `FailTask` are the
thread's sections; `Restart` goes back to the seed. Between any two of them
other requests and threads run. Reading changes nothing: what a client is shown of
a task (`TaskShown`), of backup records (`BackupsShown`) and of what runs on a
target (`BackupHints`) is an operator over the state. The `child_service` of the
code also has a version, which no upgrade changes (units take the image's version,
json_store.py:2407), so that the same next patches are offered after it; versions
are left out. The hints' list is cut to 20 records for display, their being there
is modelled.

Properties: `TasksAgree` (task, records and thread tell one story, although they
are written in different sections), `UnitsHoldAnUpgrade` (a unit holds the image
of an upgrade that has come to it, whatever overlaps or fails), `SizesSpeakForAll`
(the first unit of a child service, which answers for the others, speaks for
them, and the disks are summed up), `CheckedFits` (a change a check finds nothing
against fits its hosts if nothing comes between), `HintsFollowTasks` (whoever may
use a service, and nobody else, is told of running backups on it, exactly while
they run), `SeenAlike` (six routes decide in as many ways who is shown a task, the
service, metrics and backup records that belong to it, and they agree for every
header that the agent can send), `DbaasSpec` (the refinement) and
`TasksEnd` (every task ends unless a restart wipes it).

What they do not say, because the code does not do it: a check and its change are
two requests and nothing looks again; the check of a change to both volumes looks
at each alone although they share a disk (hence the condition in `CheckedFits`);
`update_service_resources` sums nothing up, so `allocated` is out of date until
the next change of a volume; the sum of a disk adds the volumes to a `usedGB`
that already has them in it; two upgrades of one child service interleave unit by
unit, so that after both succeeded the units may hold different images.

## 8. `ChatPage`

The page has one thread. A handler runs to its first `await` and goes on when its
reply comes; an action is one such stretch.

| Model | Code (`frontend/app.js`) |
|---|---|
| `auth`, `listed`, `current`, `detail` | `state.auth`, `sessions`, `currentSessionId`, `currentSession` with its pending approval and the answer being typed |
| `panel`, `watch`, `timers` | `currentTasks` (a session's are due, or ended and reported), the session whose event stream is open, renewals due in three seconds |
| `sending`, `deciding`, `booting` | `sending`, `decidingApprovalIds`, `bootstrapping`: what disables buttons |
| `op` | the handlers under way: whose `finally` is due, the session they are for, the requests still to make |
| `astray` | history: the last reload of tasks failed |

Actions are the user's (`Open`, `ClickDelete`, `NewSession`, `ClickDecision`,
`ClickOverdue`, `Send`, `LogIn`, `SwitchUser`), the replies (`GotSessions`,
`GotSession`, `GotTasks`, `GotDetail`, `Created`, `Deleted`, `Decided`,
`TurnOver`, and `TurnFails`, `DecisionFails`, `Fails`), and the stream's
(`TaskChanged`, `NoticeCame`, `StreamEnded`, `TimerFires`). The service is not
constrained: a reply may be old, of any content, and overtake others.

Properties: `PanelFollows` (detail and tasks are of the session shown, and tasks
that are due are followed by a stream, a timer or a reload that is coming) and
`ComesFree` (what the page waits for is under way on every way out).
`PanelFollows` has a condition: when the reload of the tasks fails after a
session was opened, `loadSession` leaves the tasks that are shown, which may be
another session's (against PHASE7.md:3177). Other habits of the page that the
model shows and no property forbids: the session shown is that of the last reply,
not of the last click; a reply that comes after `switchUser` sets it although
nobody is logged in, and an old turn's `finally` clears the flag of a new one; a
session whose request fails leaves the old one with an empty panel and no stream;
after a broken stream the tasks are not fetched again, only followed.

## 9. The runs

| Run | Instance | Shows |
|---|---|---|
| `approval_safety` | 2 requests, 2 approvals, symmetric; `WriteCap` 2, `NoticeCap` 0 | every safety property of section 3 and the refinement |
| `approval_live` | `ApprovalLiveness`, 2 requests, 1 approval, no symmetry | the lock is given back, an overdue approval is expired |
| `approval_confirmation` | as `approval_safety` | finding 1 |
| `approval_stream_retry` | as `approval_safety`, both calls streamed | finding 2 |
| `task_safety` | 2 tasks, 2 repeated decisions, a stream and a page, symmetric tasks and repeats; 1 outcome | `NoticeAfterAll` |
| `task_live` | `TaskLiveness`, 1 task, 1 repeated decision, both outcomes | `RecordedOutcome`, `TasksReported` |
| `task_operation` | 1 task, 1 repeated decision, both outcomes | finding 3 |
| `snapshot_safety` | kinds `"user"`, `"lazy"`, `"latest"`, `"history"`, 2 symmetric threads and the loop, 3 fetches | `Paired`, `ServedInTime`, `NeverBack`, `SweepSpares` |
| `snapshot_admin` | kind `"admin"`, the same threads and fetches | finding 4 |
| `session_store` | 2 sessions, 2 symmetric requests; all ten kinds of requests for one session, create and delete for the other; 1.99 million states | the properties of section 6 |
| `mock_store` | 2 services with one child service each, 3 units on 2 hosts, 3 users, one of them named "admin"; one is the user of the first service and the owner account of the second; requests by the two who have services, 2 tasks, 2 new images, a seed backup that runs | the properties of section 7, `TasksEnd` under fairness |
| `page_safety` | 2 sessions, 2 handlers under way, 2 timers, symmetric | the properties of section 8 |

Every passing run but the two liveness runs also checks its module's `TypeOK`.

### Bounds

- *Two requests*: one in its locked section and one arriving, sweeping, or
  repeating a decision outside the lock. Every race in the code is between the
  holder and one outsider, or two outsiders. The proofs cover any number.
- *Two approvals*: the one a request works for and the one whose pause it may
  hit by mistake. One is enough for the liveness run, where the other could only
  keep requests busy.
- `WriteCap` 2 tells "once" from "more than once"; in runs that do not look at
  the write counter or the notice counter the cap is lower, which only merges
  histories. The counters never feed a guard.
- `StreamCalls` is empty in `approval_safety`: `OwnWriteOnce` is about the other
  calls, and `approval_stream_retry` shows what happens to streamed ones. The
  theorems hold for every value of it.
- *Two tasks* of an approval make a group in which one has ended and the other
  has not, or is not yet recorded; a stream and a page are the two kinds of
  viewer, and either may append a stale copy over the other's. *Two repeated
  decisions* see the same failure; the second one's run may begin when the first
  one's task was reported. `task_safety` uses one outcome: its
  properties do not tell outcomes apart, and `task_live` uses both.
- *Two threads and the loop* are a holder of the refresh lock, one that waits
  for it, and a query that reads without it. *Three fetches*: the data file's,
  the one being written, and one that makes either out of date. A prewarm is
  queued at most once at a time, but the next may be queued while one runs.
- *Two sessions and two requests*: the index has an entry to lose beside the one
  that changes, and each race in the code is between two writers, or a writer
  and a reader. Every request runs through all its steps, and the number of
  requests one after the other is not bounded. `Asked` bounds what is asked of
  which session: the sessions share the index only, and the second one's changes
  of it are those of `Asked`. The theorems hold for every value of it.
- *Three units*: a child service that spans two hosts, so that a check looks at
  more than one, and a unit of another service beside it, so that the units of a
  host change and are summed up together. Capacities and changes are chosen
  so that each change fits in some states and not in others. *Three users*:
  one who sees the second service as its owner account and the first as its user,
  one who may use the second only, and a name that no administrator may bear, who
  has nothing; requests are made by the first two, and what is shown is asked for
  the headers of all, as user, as administrator and as the agent. *Two tasks* overlap;
  ids are not drawn twice, so a restart leaves fewer for later.
- *Two handlers* of the page are enough for one reply to overtake another; a
  third only repeats what two do, and the proofs cover any number. `TimerCap`
  bounds the renewals due at once.

### Fairness

`approval_live` and `task_live` check a module that extends the component with a
variable `calm`: until it is set anything may happen, afterwards no crash (and, for
tasks, no dropped stream and no unanswered read). It must be a variable. A
crash while one request is under way makes the same change to the component's
variables as that request answering, so a formula that forbids crash *steps*
would forbid the answer too and leave next to no behaviour to check.

`ApprovalLiveness`: a request that was accepted goes on (weak fairness of its
steps: it is a thread of the worker pool, its calls have timeouts and every
exception ends it), and a query that could take the lock again and again does
so (strong fairness: the lock is non-blocking, a query that finds it held leaves
without sweeping; the page loads the session and its approvals again and
again; if nobody ever asks, nothing expires, since the code has no timer).
Nothing is assumed of messages, decisions or the clock.

`TaskLiveness`: weak fairness of a run that is on (none that a repeated decision
comes), of DBAAS ending a task, of a viewer's
own steps, and of the page opening a stream again (`app.js` does, three seconds
after a stream ended, while it shows a task that has not ended or was not
reported). A stream that tries for the lock round after round does not find it
held every time: a chat run ends, and the next one waits for a user. Strong
fairness of taking the lock would not say that, because a lock that is held
exactly at each attempt is not free at any of them. Before `calm`, reads fail,
streams drop and the process crashes any number of times; if DBAAS never
answered again, nothing could be reported.

`MockStore`'s `FairSpec`: weak fairness of each task's `Work`. `_start_task_worker`
starts a thread in the request that recorded the task, and the thread goes on
until it has ended its task: it sleeps a bounded time, waits for nothing but the
store's lock, which every section gives back, and an exception ends the task too.
That the thread cannot be started at all (an exception at json_store.py:437 would
leave the task running) is excluded by this fairness. No fairness is assumed of
requests or restarts.

## 10. What is proved

Every safety property of the passing runs, for every value of the constants that
satisfies the assumptions below. Each proof has an inductive invariant and one lemma or step
per action that can disturb a part of it.

### The approval protocol

For every set of requests, approvals and streamed calls and every cap, from
`SentinelAssumption` (the two "none" values are outside their sets),
`StreamAssumption` (`StreamCalls \subseteq Approvals`) and `CapAssumption`
(the caps are naturals).

| Theorem | Statement |
|---|---|
| `TypeCorrect` | `Spec => []TypeOK` |
| `Exclusion` | `Spec => []RunExclusive` |
| `OnePending` | `Spec => []AtMostOnePending` |
| `LifecycleImplemented` | `Spec => LifecycleSpec` |
| `InvariantCorrect` | `Spec => []IInv` |
| `WriteOnce`, `ExpiryCleared`, `WritesConfirmed`, `PendingPaused` | the four properties of section 3 |

None of the safety properties is inductive: each depends on who holds the lock
and on how old a request's copy is. `IInv` is built in four layers, each
proved with the help of the ones before:

1. `RecordsInv`: a request at a locked program point owns the lock (`LockHeld`),
   and the copy of an approval it works on has the stored *status*
   (`CopyAgrees`): decided and expired are final, so a copy may be stale in its
   flags only, and not even there if the approval is expired, because a cleanup
   re-reads the record under the lock. From it: `OnePending`, `Exclusion` and
   the refinement.
2. `WritesInv`: every write was preceded by an operation record, which the
   look-up finds unless the call was streamed, so the write about to be sent
   for such a call is its first. From it: `WriteOnce`.
3. `PauseInv`: once a resume was answered, the thread no longer stands at the
   pause of the approval it was for. From it: `ExpiryCleared`.
4. `CalmInv`: until a resume fails, thread, records and the running request tell
   one story: whose pause it is, and which approval opened it. From it:
   `WritesConfirmed` and `PendingPaused`.

`ApprovalTypeProofs` proves the type invariant, `ApprovalRecordProofs` the first
layer and the refinement, `ApprovalRunProofs` the others. Each layer has one
lemma per action that can disturb it.

### Task tracking (`TaskProofs`)

From `ViewersAssumption`, `OwnersAssumption`, `OutcomesAssumption`, for any set of
repeated decisions. `TypeCorrect`, `OutcomeCorrect` (`RecordedOutcome`),
`NoticeLast` (`NoticeAfterAll`) and `WithinContract` (the DBAAS of the model is
`DbaasTasks`). `NoticeAfterAll` alone is not inductive: a viewer may have decided
to mark tasks from a listing it made long ago. `IInv` adds what such copies are
worth: a run holds the lock and leaves no call half made (`RunInv`), DBAAS
knows every task that is recorded (`RemoteInv`), what a viewer holds as ended did
end that way, be it listed (`SeenInv`) or answered (`AnswerInv`) or recorded
(`RecordedOutcome`), what is or is held as reported has ended (`ReportedInv`), and
who marks tasks holds the lock, with everything that is recorded at an end
(`MarkInv`). Nothing in it says that there is one run: what keeps a run and a
report apart is the lock alone, so it holds for any number of runs.

### Snapshots and series (`SnapshotProofs`)

From `ThreadsAssumption`, `KindsAssumption`, `FetchAssumption`. `TypeCorrect`,
`InvariantCorrect`, `PairCorrect` (`Paired`), `NeverGoesBack` (`NeverBack`),
`InTimeServed` (`ServedInTime`), `SweepCorrect` (`SweepSpares`). The invariant:
the lock is held by exactly the thread that is inside a refresh or a deletion
(`LockKept`); which points a kind may be at (`KindFits`); what waits to be written
is the last fetch (`Counted`); what the holder knows of the files (`Written`); the
data file is never behind what vouches or will vouch for it (`Ahead`), which is
what makes a stale meta harmless; the pair is whole, or what the cleanup has left
of it so far (`AllWhole`); and what the cleanup found out holds until a refresh
writes (`Swept`).

### Sessions (`SessionProofs`)

From `NoOneAssumption`, for any sessions, requests and value of `Asked`. `InvariantCorrect`,
`TypeCorrect`, `NoOrphan` (`NoOrphanThread`), `ThreadKept`
(`UnfinishedKeepsThread`), `BackByOthers` (`BackBehindTheLock`), `IndexCorrect`
(`IndexFollows`). A request's steps
are a list, so the invariant says what may still be in it (`Fits`), that who needs
the run lock has it to the last step (`Kept`), and what a request past its check
or load may rely on (`Found`: a turn's session is there, a deletion's has nothing
unfinished and, further on, no thread). `Found` rests on the order in a list:
whoever under the lock comes to a step that needs the session has a step before it
that looks for the session (`Looks`), but for decisions, whose run needs nothing.
`UnfinishedKeepsThread` is part of the invariant, since each makes the other
inductive; the two action properties follow from it step by step.

`IndexFollows` says something only between the writes, so its invariant has to
say how things stand inside one. `IndexInv` holds as long as it is calm (nobody
died while writing, no two wrote at once): a write once begun goes on in the
order the code has, and no step of it comes without the one before (`Ordered`);
at most one request writes (`OneWrites`); while none does, the index is whole and
shows what is there (`InStep`); and for each step of the one that writes, `Half`
says which file is open and that the index, or the copy of it that the request
read and will write back, is right for every *other* session (`Agrees`). The read
of the index is not stale for exactly this reason: whoever else would have changed
it meanwhile would have been a second writer, and that ends the calm.

### The mock store (`MockProofs`)

From `OwnersAssumption` (who owns a service is a user or nobody),
`SeedAssumption` (what the loader checks and the generator produces: finitely
many units, each in one child service; units of one child service on different
hosts, and of one size), `ClientsAssumption`, `HostsAssumption` and
`ChangesAssumption`. `TypeCorrect`, `InvariantCorrect`, `PlacesCorrect`,
`AgreementCorrect` (`TasksAgree`), `ImagesCorrect` (`UnitsHoldAnUpgrade`),
`SizesCorrect` (`SizesSpeakForAll`), `ChecksCorrect` (`CheckedFits`),
`HintsCorrect` (`HintsFollowTasks`), `ViewsCorrect` (`SeenAlike`),
`ContractImplemented` (`DbaasSpec`).

- `Told` strengthens `TasksAgree` with what a task that is not there looks like:
  no records, no thread, first position; and only a task that is gone is
  remembered.
- `Placed`: what a task is about belongs to the service it names. With it, that
  the six routes agree is a fact about the headers alone (`RoutesAgree`): an owner
  account sees by one route what it sees by another, because each of them accepts
  the service's user and its owner account, if only by looking twice.
- `CheckedFits` compares sums over the units of a host before and after a change.
  A check looks at one unit: that the others add nothing rests on `Spread`, which
  puts at most one unit of a child service on a host (`OneOnHost`); what one
  changed unit does to a sum is `HostSum`. The sums are the library's folds, and
  what a fold yields for *every* finite set would need induction over sets with
  an operator as parameter. The proof looks for the smallest set of units for
  which a lemma fails instead (`SmallestSubset`): the strict subsets of a finite
  set are well founded, which the library proves about a relation, and from that
  set one unit can be taken (`SumsUpSome`, `SumWithout`, `SumSame`).

Two theorems have no property of a run, since they are about `DbaasAccess` alone.
`SnapshotsAlike`: whoever renews a shared snapshot fetches the same for it - the
loop in the agent's name and every administrator the whole platform, a user the
same own services from a list, filtered or not, and from the details of the user;
`SnapshotSync` takes that for granted. `PlatformGuarded`: whom the agent lets look
at hosts, clusters and network segments is let in by the server, and nobody else,
but for an administrator who is named "admin": the agent lets him pass and the
server turns him away.

### The page (`PageProofs`)

From `NoneAssumption` and `TimerAssumption`. `TypeCorrect`, `OneSessionShown`
(`PanelFollows`), `NeverLocked` (`ComesFree`). A handler that is to load a session
knows which (`Ready`); what the page waits for is owned by exactly the handlers
whose `finally` is due, and a draft by the turn that types it (`Freed`); the open
stream is of the session shown, and work that nobody follows is about to be loaded
(`Follows`).

### Only model-checked

The liveness properties `LockGivenBack`, `OverdueExpires`, `TasksReported` and
`TasksEnd` (fairness and ENABLED are outside the proof system), and the
disagreements below, which are behaviours that TLC exhibits.

## 11. Where code and documents disagree

Each has a run in which TLC finds the behaviour.

1. `ConfirmationFirst` (PHASE7.md:494, every write is confirmed first). After a
   failed resume a message is admitted and may pause on a second call; the
   repeated decision on the first approval then approves that pause.
2. `StartedNotRetried` (PHASE7.md:1751, a started operation is not retried).
   Approvals of the streaming route carry no tool call id, so the look-up does
   not recognise a started operation.
3. `OperationFollows` (PHASE7.md:3111). Task and operation are two appends; a
   crash between them leaves the operation open for good.
4. `NoLockNeeded` (PHASE5.md:140, the background sync is the only writer of the
   platform's snapshot, which needs no lock). An administrator's query with
   `refresh` is a second writer. When it fails between the loop's two
   replacements it removes the data, and the loop's meta file then vouches for
   nothing until the next round; when both succeed, older data may end under the
   newer meta.

Others were met while modelling and have no run of their own:

- The creation notice may be written twice (PHASE7.md:1440): two repeated
  decisions test the mark on their own copies (approval_service.py:685).
- The terminal notice may be written twice (PHASE7.md:1570): a refresh appends
  its old copy over the mark (task_service.py:173), and the group is reported
  again. The tasks are also marked before the message is written, against
  PHASE7.md:1569, so a crash between the two loses it (routes_tasks.py:192).
- A restore, or a decision made twice, beside a deletion (PHASE7.md:1963), and the
  thread of a deleted session that a repeated decision writes (PHASE1.md:300):
  section 6.
- A group that was reported may get a further task from a run that a repeated
  decision starts later (approval_service.py:404-407, 455), and is reported
  again (PHASE7.md:1570): section 4.
- Another session's tasks after a failed reload (PHASE7.md:3177): section 8.
- After the event stream breaks, the page opens it again but does not fetch the
  tasks (PHASE7.md:1532): a task whose end was reported elsewhere meanwhile is
  shown as running, and the stream is opened again every three seconds.

## 12. Abstractions and limits

- *One tool call per approval, distinct targets per call.* Batches of a run
  share their approval (`TaskTracking` has them); conflicts between tasks of
  different approvals on one target are a nondeterministic refusal.
- *LangGraph* is external: a pause is durable, a resume answers the current
  pause, a run that fails after the tools node started may be resumed there.
- *A dropped stream* is a failure of the agent's run at any of its steps. That a
  stream whose generator was never started gives the lock back depends on
  CPython finalising it at once, which the model takes for granted.
- *Contents* (texts, roles, arguments, URLs, SSE frames, log lines) are left
  out; that a request is by the session's owner is taken for granted, and
  `DbaasAccess` looks at what DBAAS then makes of that owner.
- *Canceled* tasks are treated like failed ones. A call that raises may be
  marked unknown by two code paths at once; `TaskTracking` models one.
- *One approval's group of tasks.* Groups of other approvals are independent but
  for the lock, and another holder of it is a viewer that fails to take it.
- *Files* are atomic per append, as the file lock makes them; disk errors are
  modelled for snapshots only, and there not those of a removal.
- *Snapshots*: a fetch and the `expires_at` computed right after it are one
  step; temporary files and file names made from user names are left out; the
  loop runs for every lazy kind, although only hosts have one. When the pair it
  found was whole but for a lost data file, a failed write of the meta file keeps
  the old meta for hosts, clusters and network segments; backups drop the data
  there. The model does the former.
- *Sessions*: removing a directory is one step, and so is an append; disk errors
  other than a crash are left out. One user: users share no file and no lock.
- *Mock store*: memory follows the cpu and is left out, as are `platformAuto` and
  fields that are only stored and shown. An upgrade takes one unit of a child
  service or all of them, where a request may list any. The generator, and no check
  of the loader, sees to it that each host has one disk and that the units of a
  child service are alike and on different hosts: what is shown or proved of the
  store is for seeds as it makes them.
- *Page*: the service may answer anything, so what is shown to hold does not
  depend on it. Rendering, texts, the order of lists and the events of a
  message's stream before the last are left out; one approval of a session is
  decided at a time, so decisions are kept by session and not by approval. A
  bootstrap that fails shows the page as it is, where the code opens the login form
  (app.js:1752-1755); no property depends on it.

### Not modelled

- *Targets, proposals and the action registry*: pure matching of dictionaries and
  texts. A model would repeat the code and be checked against itself; what their
  answers decide is a nondeterministic refusal or match in `ApprovalProtocol` and
  `TaskTracking`.
- *Read tools, configuration, logging, prompt and model set-up, context
  compression*: no state whose order of changes matters here.
- *What jq computes and what the metric catalogue holds*: data.
- *The background loops' start, stop and clean-up of temporary files.*
- *The mock server's* generated metric values, capability texts and read-only
  routes, and the names and numbers that the generators draw.

------------------------------- MODULE ChatPage -------------------------------
(***************************************************************************)
(* The page of the chat (frontend/app.js): which session it shows, with    *)
(* which tasks, and what it waits for.                                     *)
(*                                                                         *)
(* The page has one thread.  A handler runs up to its first await, and     *)
(* goes on when the reply has come; between the two everything else may    *)
(* happen, and replies come in any order.  Nothing that is under way is    *)
(* given up, except the event stream of the tasks: it is aborted, and a    *)
(* new one opened, as the shown session changes.                           *)
(*                                                                         *)
(* The service may answer anything: sessions and approvals also come and   *)
(* go by other pages, by time and by the agent, and a reply may be older   *)
(* than what the page knows.  Texts, their order and their rendering are   *)
(* left out; so are the events of a message's stream before its last one.  *)
(***************************************************************************)
EXTENDS Naturals, Sequences

CONSTANTS Sessions,     \* of one user, who may leave and come back
          Calls,        \* handlers that may be under way at once
          None,
          TimerCap      \* so many renewals of the subscription may be due at once

ASSUME NoneAssumption  == None \notin Sessions \cup Calls
ASSUME TimerAssumption == TimerCap \in Nat \ {0}

VARIABLES
    auth,       \* somebody is logged in
    listed,     \* SUBSET Sessions, the side bar
    current,    \* the session shown, or None
    detail,     \* what of it is shown
    panel,      \* [Sessions -> TaskStates], the tasks shown
    watch,      \* the session whose task events are subscribed to, or None
    timers,     \* renewals of the subscription, due within three seconds
    sending, deciding, booting,
    op,         \* [Calls -> Ops], the handlers under way
    \* History
    astray      \* the last reload of the tasks failed

view   == <<listed, current, detail>>
tasks  == <<panel, watch, timers>>
flags  == <<sending, deciding, booting>>
vars   == <<auth, view, tasks, flags, op, astray>>

\* due: a task has not ended, or its end has not been reported.
TaskStates == {"none", "due", "noticed"}
Details    == [of : Sessions \cup {None}, asks : BOOLEAN, draft : Calls \cup {None}]

\* The requests a handler has still to make; it waits for the reply to the first.
Plans == {<<>>, <<"sessions">>, <<"session", "tasks">>, <<"tasks">>, <<"detail">>,
          <<"create", "sessions">>, <<"delete">>, <<"decide", "sessions">>, <<"turn">>}

\* kind: whose finally is due.  then: what follows on the list of sessions.
Ops == [kind : {"none", "plain", "boot", "send", "decide", "settle"},
        at : Sessions \cup {None}, load : Sessions \cup {None},
        todo : Plans, then : {"end", "load", "first", "current"}]

Idle     == [kind |-> "none", at |-> None, load |-> None, todo |-> <<>>, then |-> "end"]
NoDetail == [of |-> None, asks |-> FALSE, draft |-> None]
NoTasks  == [s \in Sessions |-> "none"]

-----------------------------------------------------------------------------
(* Helpers                                                                  *)

Free(c)        == op[c].kind = "none"
Waits(c, req)  == ~Free(c) /\ Head(op[c].todo) = req

\* hasTaskEventWork
Work(p) == \E s \in Sessions : p[s] = "due"

\* syncTaskEventSubscription: with work to follow, the present session is
\* subscribed to, and no other.
Synced(p, s) == IF s = None \/ ~Work(p) THEN None ELSE s

\* loadSession, up to its request: another session's tasks go at once.
Load(s) ==
    IF current = s THEN UNCHANGED <<panel, watch>> ELSE panel' = NoTasks /\ watch' = None

Loading(o, s) == [o EXCEPT !.load = s, !.todo = <<"session", "tasks">>, !.then = "end"]

Begin(c, o) == Free(c) /\ op' = [op EXCEPT ![c] = o]

Proceed(c, o) == op' = [op EXCEPT ![c] = o] /\ UNCHANGED flags

\* Faulty: a decision that could not be made keeps its button.
FinishDecided(c) ==
    /\ op' = [op EXCEPT ![c] = Idle]
    /\ sending' = (sending /\ op[c].kind # "send")
    /\ deciding' = IF op[c].kind = "decide" THEN deciding \ {op[c].at} ELSE deciding
    /\ booting' = (booting /\ op[c].kind # "boot")

\* A handler comes to its end, and to its finally.
Finish(c) ==
    /\ op' = [op EXCEPT ![c] = Idle]
    /\ sending' = (sending /\ op[c].kind # "send")
    /\ deciding' = IF op[c].kind \in {"decide", "settle"} THEN deciding \ {op[c].at} ELSE deciding
    /\ booting' = (booting /\ op[c].kind # "boot")

\* The message is shown at once, and an answer that call c is typing.
Drafted(c) == [detail EXCEPT !.draft = c]

\* The typing of call c ends.
Undrafted(c) == IF detail.draft = c THEN None ELSE detail.draft

-----------------------------------------------------------------------------
(* The user                                                                 *)

Open(c, s) ==
    /\ auth /\ s \in listed
    /\ Begin(c, Loading([Idle EXCEPT !.kind = "plain"], s))
    /\ Load(s)
    /\ UNCHANGED <<auth, view, timers, flags, astray>>

\* Confirmed; the list has the button for every session.
ClickDelete(c, s) ==
    /\ auth /\ s \in listed
    /\ Begin(c, [Idle EXCEPT !.kind = "plain", !.at = s, !.todo = <<"delete">>])
    /\ UNCHANGED <<auth, view, tasks, flags, astray>>

NewSession(c) ==
    /\ auth /\ ~booting
    /\ Begin(c, [Idle EXCEPT !.kind = "plain", !.todo = <<"create", "sessions">>, !.then = "load"])
    /\ UNCHANGED <<auth, view, tasks, flags, astray>>

\* handleApprovalDecision, up to its request.
ClickDecision(c) ==
    /\ detail.asks /\ current \notin deciding
    /\ Begin(c, [Idle EXCEPT !.kind = "decide", !.at = current, !.todo = <<"decide", "sessions">>])
    /\ deciding' = deciding \cup {current}
    /\ UNCHANGED <<auth, view, tasks, sending, booting, astray>>

\* reconcileCurrentSession
Reconciling == [Idle EXCEPT !.kind = "plain", !.todo = <<"sessions">>, !.then = "current"]

\* The approval is past its expires_at by the page's clock: no decision is sent.
ClickOverdue(c) ==
    /\ detail.asks
    /\ Begin(c, Reconciling)
    /\ UNCHANGED <<auth, view, tasks, flags, astray>>

\* sendMessage, up to its request.
Send(c) ==
    /\ current # None /\ ~sending
    /\ ~booting /\ ~detail.asks /\ deciding = {}
    /\ Begin(c, [Idle EXCEPT !.kind = "send", !.at = current, !.todo = <<"turn">>])
    /\ detail' = Drafted(c)
    /\ sending' = TRUE
    /\ UNCHANGED <<auth, listed, current, tasks, deciding, booting, astray>>

\* Requests under way are not given up, and decisions still count as made.
SwitchUser ==
    /\ auth
    /\ auth' = FALSE
    /\ listed' = {} /\ current' = None /\ detail' = NoDetail
    /\ panel' = NoTasks /\ watch' = None
    /\ sending' = FALSE /\ booting' = FALSE
    /\ UNCHANGED <<timers, deciding, op, astray>>

\* initializeAfterLogin
LogIn(c) ==
    /\ ~auth
    /\ auth' = TRUE /\ booting' = TRUE
    /\ Begin(c, [Idle EXCEPT !.kind = "boot", !.todo = <<"sessions">>, !.then = "first"])
    /\ UNCHANGED <<view, tasks, sending, deciding, astray>>

-----------------------------------------------------------------------------
(* Replies                                                                  *)

\* fetchSessions, and what its caller goes on with.
GotSessions(c) ==
    LET o == op[c] IN
    /\ Waits(c, "sessions")
    /\ listed' \in SUBSET Sessions
    /\ \/ /\ o.then = "end" \/ (o.then = "current" /\ current = None)
          /\ Finish(c)
          /\ UNCHANGED <<current, detail, panel, watch>>
       \/ /\ o.then = "load"
          /\ Load(o.load) /\ Proceed(c, Loading(o, o.load))
          /\ UNCHANGED <<current, detail>>
       \/ /\ o.then = "first"
          /\ IF listed' = {}
             THEN /\ Proceed(c, [o EXCEPT !.todo = <<"create", "sessions">>, !.then = "load"])
                  /\ UNCHANGED <<panel, watch>>
             ELSE \E s \in listed' : Load(s) /\ Proceed(c, Loading(o, s))
          /\ UNCHANGED <<current, detail>>
       \/ /\ o.then = "current" /\ current # None
          /\ IF current \in listed'
             THEN Proceed(c, Loading(o, current)) /\ UNCHANGED <<current, detail>>
             ELSE current' = None /\ detail' = NoDetail /\ Finish(c)
          /\ UNCHANGED <<panel, watch>>
    /\ UNCHANGED <<auth, timers, astray>>

\* What has come of session s is shown; a draft in what was shown is gone.
Shown(s) == \E asks \in BOOLEAN : detail' = [of |-> s, asks |-> asks, draft |-> None]

\* loadSession shows what has come, whatever is shown now.
GotSession(c) ==
    LET s == op[c].load IN
    /\ Waits(c, "session")
    /\ current' = s /\ Shown(s)
    /\ IF auth THEN Proceed(c, [op[c] EXCEPT !.todo = Tail(@)]) /\ UNCHANGED <<panel, watch>>
               ELSE Finish(c) /\ panel' = NoTasks /\ watch' = None
    /\ UNCHANGED <<auth, listed, timers, astray>>

\* Faulty: the tasks are shown with whatever session is.
GotTasksAny(c) ==
    LET s == op[c].load IN
    /\ Waits(c, "tasks")
    /\ \E k \in TaskStates : panel' = [NoTasks EXCEPT ![s] = k]
    /\ watch' = Synced(panel', current)
    /\ astray' = FALSE
    /\ Finish(c)
    /\ UNCHANGED <<auth, view, timers>>

\* fetchSessionTasks looks once more which session is shown.
GotTasks(c) ==
    LET s == op[c].load IN
    /\ Waits(c, "tasks")
    /\ IF current = s
       THEN /\ \E k \in TaskStates : panel' = [NoTasks EXCEPT ![s] = k]
            /\ watch' = Synced(panel', current)
            /\ astray' = FALSE
       ELSE UNCHANGED <<panel, watch, astray>>
    /\ Finish(c)
    /\ UNCHANGED <<auth, view, timers>>

\* refreshCurrentSessionDetail
GotDetail(c) ==
    LET s == op[c].load IN
    /\ Waits(c, "detail")
    /\ IF current = s THEN Shown(s) ELSE UNCHANGED detail
    /\ Finish(c)
    /\ UNCHANGED <<auth, listed, current, tasks, astray>>

\* createSession goes on to the list, and to the new session.
Created(c) ==
    /\ Waits(c, "create")
    /\ \E s \in Sessions \ {current} : Proceed(c, [op[c] EXCEPT !.load = s, !.todo = Tail(@)])
    /\ UNCHANGED <<auth, view, tasks, astray>>

\* handleDelete goes on to the first session that is left.
Deleted(c) ==
    LET s == op[c].at IN
    /\ Waits(c, "delete")
    /\ listed' = listed \ {s}
    /\ IF current = s
       THEN /\ current' = None /\ detail' = NoDetail
            /\ panel' = NoTasks /\ watch' = None
            /\ IF listed' = {} THEN Finish(c)
               ELSE \E next \in listed' : Proceed(c, Loading(op[c], next))
       ELSE Finish(c) /\ UNCHANGED <<current, detail, panel, watch>>
    /\ UNCHANGED <<auth, timers, astray>>

\* The session is loaded again, or only the list when another one is shown.
Again(c, o) ==
    Proceed(c, [o EXCEPT !.todo = <<"sessions">>,
                         !.then = IF current = o.at THEN "current" ELSE "end"])

Decided(c) ==
    /\ Waits(c, "decide")
    /\ Again(c, op[c])
    /\ UNCHANGED <<auth, view, tasks, astray>>

\* The last event of a message: applyMessageResponse, or the approval it asks for.
TurnOver(c) ==
    /\ Waits(c, "turn")
    /\ \E paused \in BOOLEAN :
          detail' = IF current # op[c].at THEN detail
                    ELSE [detail EXCEPT !.draft = Undrafted(c), !.asks = @ \/ paused]
    /\ Finish(c)
    /\ UNCHANGED <<auth, listed, current, tasks, astray>>

\* applyStreamError; when the draft is not shown any more everything is loaded.
TurnFails(c) ==
    /\ Waits(c, "turn")
    /\ LET shown == current = op[c].at /\ detail.draft = c
       IN  Proceed(c, [op[c] EXCEPT !.todo = <<"sessions">>,
                                    !.then = IF shown THEN "end" ELSE "current"])
    /\ detail' = IF current = op[c].at THEN [detail EXCEPT !.draft = Undrafted(c)] ELSE detail
    /\ UNCHANGED <<auth, listed, current, tasks, astray>>

\* The catch of a decision looks once more; a second failure is passed over.
DecisionFails(c) ==
    /\ op[c].kind = "decide" /\ ~Waits(c, "tasks")
    /\ Again(c, [op[c] EXCEPT !.kind = "settle"])
    /\ UNCHANGED <<auth, view, tasks, astray>>

\* Every other request that fails ends its handler; loadSession leaves the
\* tasks that are shown when their reload fails.
Fails(c) ==
    /\ ~Free(c) /\ ~Waits(c, "turn")
    /\ op[c].kind = "decide" => Waits(c, "tasks")
    /\ astray' = (astray \/ (Waits(c, "tasks") /\ current = op[c].load))
    /\ Finish(c)
    /\ UNCHANGED <<auth, view, tasks>>

Reply(c) ==
    \/ GotSessions(c) \/ GotSession(c) \/ GotTasks(c) \/ GotDetail(c)
    \/ Created(c) \/ Deleted(c) \/ Decided(c) \/ TurnOver(c)
    \/ TurnFails(c) \/ DecisionFails(c) \/ Fails(c)

-----------------------------------------------------------------------------
(* The event stream of the tasks                                            *)

\* applyTaskStatusChanged: a task that has ended reloads the detail.
TaskChanged(c) ==
    /\ watch # None
    /\ IF watch = current
       THEN /\ \E k \in {"due", "noticed"} : panel' = [panel EXCEPT ![watch] = k]
            /\ Begin(c, [Idle EXCEPT !.kind = "plain", !.load = watch, !.todo = <<"detail">>])
       ELSE UNCHANGED <<panel, op>>
    /\ UNCHANGED <<auth, view, watch, timers, flags, astray>>

\* Faulty: the name of the event is shown.
NoticeNamed(c) ==
    /\ watch # None
    /\ panel' = [panel EXCEPT ![watch] = "notice"]
    /\ UNCHANGED <<auth, view, watch, timers, flags, op, astray>>

\* task_terminal_notice_emitted: the tasks are taken in without a look at the
\* session they are of, and those of another group may still be due; without a
\* message everything is loaded again.
NoticeCame(c) ==
    /\ watch # None
    /\ \E left \in {"noticed", panel[watch]} \ {"none"} : panel' = [panel EXCEPT ![watch] = left]
    /\ UNCHANGED op \/ Begin(c, Reconciling)
    /\ UNCHANGED <<auth, view, watch, timers, flags, astray>>

\* The stream has come to an end or broken: the finally of subscribeTaskEvents.
StreamEnded ==
    /\ watch # None
    /\ watch' = None
    /\ IF current = watch /\ Work(panel)
       THEN timers < TimerCap /\ timers' = timers + 1
       ELSE UNCHANGED timers
    /\ UNCHANGED <<auth, view, panel, flags, op, astray>>

TimerFires ==
    /\ timers > 0 /\ timers' = timers - 1
    /\ watch' = Synced(panel, current)
    /\ UNCHANGED <<auth, view, panel, flags, op, astray>>

-----------------------------------------------------------------------------

\* bootstrap
Init ==
    /\ auth = FALSE /\ listed = {} /\ current = None /\ detail = NoDetail
    /\ panel = NoTasks /\ watch = None /\ timers = 0
    /\ sending = FALSE /\ deciding = {} /\ booting = FALSE
    /\ op = [c \in Calls |-> Idle] /\ astray = FALSE

User(c) ==
    \/ \E s \in Sessions : Open(c, s) \/ ClickDelete(c, s)
    \/ NewSession(c) \/ ClickDecision(c) \/ ClickOverdue(c) \/ Send(c) \/ LogIn(c)

Next ==
    \/ \E c \in Calls : User(c) \/ Reply(c) \/ TaskChanged(c) \/ NoticeCame(c)
    \/ StreamEnded \/ TimerFires \/ SwitchUser

Spec == Init /\ [][Next]_vars

-----------------------------------------------------------------------------
(* Properties                                                               *)

ViewOK ==
    /\ auth \in BOOLEAN /\ listed \subseteq Sessions
    /\ current \in Sessions \cup {None} /\ detail \in Details

TasksOK ==
    /\ panel \in [Sessions -> TaskStates] /\ watch \in Sessions \cup {None}
    /\ timers \in 0..TimerCap /\ astray \in BOOLEAN

FlagsOK == sending \in BOOLEAN /\ booting \in BOOLEAN /\ deciding \subseteq Sessions

OpsOK == op \in [Calls -> Ops] /\ \A c \in Calls : Free(c) <=> op[c].todo = <<>>

TypeOK == ViewOK /\ TasksOK /\ FlagsOK /\ OpsOK

\* The tasks of the session that is shown are still to come.
Coming == \E c \in Calls : Waits(c, "tasks") /\ op[c].load = current

\* What is shown of a session is of the current one.
DetailFits == detail.of = current

\* Another session's tasks are shown only until the current one's have come.
PanelFits == (\E s \in Sessions : panel[s] # "none" /\ s # current) /\ current # None => Coming

\* The page follows the tasks it shows until they have ended and been reported.
Followed == current # None /\ panel[current] = "due" => watch = current \/ timers > 0 \/ Coming

\* Whichever replies overtake each other, what the page shows belongs to one
\* session and is followed, unless the last reload of tasks failed
\* (PHASE7.md:3177: after a change of session only its tasks are shown).
PanelFollows == DetailFits /\ (~astray => PanelFits /\ Followed)

\* The page is never left locked: what it says it waits for is under way, on
\* every way out of a handler.
ComesFree ==
    /\ sending => \E c \in Calls : op[c].kind = "send"
    /\ booting => \E c \in Calls : op[c].kind = "boot"
    /\ \A s \in deciding : \E c \in Calls : op[c].kind \in {"decide", "settle"} /\ op[c].at = s
    /\ detail.draft # None => op[detail.draft].kind = "send"

=============================================================================

------------------------------ MODULE PageProofs ------------------------------
(***************************************************************************)
(* ChatPage proved for every set of sessions, every number of handlers     *)
(* under way and every cap on the timers: its types, that what is shown    *)
(* belongs to one session and is followed, and that the page is never left *)
(* locked.                                                                 *)
(***************************************************************************)
EXTENDS ChatPage, TLAPS

\* The plans that are left when the first request is answered.
LEMMA Remainders ==
  /\ Tail(<<"session", "tasks">>) = <<"tasks">>
  /\ Tail(<<"create", "sessions">>) = <<"sessions">>
  OBVIOUS

\* What a plan begins with says which one it is.
LEMMA Firsts ==
  ASSUME NEW p \in Plans, p # <<>>
  PROVE  /\ Head(p) = "session" => p = <<"session", "tasks">>
         /\ Head(p) = "create" => p = <<"create", "sessions">>
         /\ Head(p) = "sessions" => p = <<"sessions">>
         /\ Head(p) = "tasks" => p = <<"tasks">>
         /\ Head(p) = "turn" => p = <<"turn">>
         /\ Head(p) = "detail" => p = <<"detail">>
  BY DEF Plans

LEMMA PlanOf ==
  ASSUME NEW c \in Calls, OpsOK
  PROVE  /\ Waits(c, "session") => op[c].todo = <<"session", "tasks">>
         /\ Waits(c, "create") => op[c].todo = <<"create", "sessions">>
         /\ Waits(c, "sessions") => op[c].todo = <<"sessions">>
         /\ Waits(c, "tasks") => op[c].todo = <<"tasks">>
         /\ Waits(c, "turn") => op[c].todo = <<"turn">>
         /\ Waits(c, "detail") => op[c].todo = <<"detail">>
<1>1. Waits(c, "session") \/ Waits(c, "create") \/ Waits(c, "sessions")
        \/ Waits(c, "tasks") \/ Waits(c, "turn") \/ Waits(c, "detail")
      => op[c].todo \in Plans /\ op[c].todo # <<>>
  BY DEF OpsOK, Waits, Ops
<1> QED
  BY <1>1, Firsts DEF Waits

\* A handler that loads a session, or sends a message to one, knows which.
Ready(o) ==
  /\ o.todo \in {<<"session", "tasks">>, <<"detail">>} \/ (o.todo = <<"sessions">> /\ o.then = "load")
       => o.load \in Sessions
  /\ o.todo = <<"turn">> => o.at \in Sessions

OpsReady == OpsOK /\ \A c \in Calls : Ready(op[c])

\* A handler that is set to wait for something.
Busy(o) == o \in Ops /\ o.kind # "none" /\ o.todo # <<>> /\ Ready(o)

LEMMA BusyType ==
  ASSUME NEW c \in Calls, NEW o, Busy(o), OpsReady, op' = [op EXCEPT ![c] = o]
  PROVE  OpsReady'
<1>1. op' \in [Calls -> Ops] /\ \A d \in Calls : op'[d] = IF d = c THEN o ELSE op[d]
  BY DEF OpsReady, OpsOK, Busy
<1>2. \A d \in Calls : (op'[d].kind = "none" <=> op'[d].todo = <<>>) /\ Ready(op'[d])
  BY <1>1 DEF OpsReady, OpsOK, Busy, Free
<1> QED
  BY <1>1, <1>2 DEF OpsReady, OpsOK, Free, Ready

LEMMA BeginType ==
  ASSUME NEW c \in Calls, NEW o, Busy(o), OpsReady, Begin(c, o)
  PROVE  OpsReady'
  BY BusyType DEF Begin

LEMMA ProceedType ==
  ASSUME NEW c \in Calls, NEW o, Busy(o), OpsReady, FlagsOK, Proceed(c, o)
  PROVE  OpsReady' /\ FlagsOK'
<1>1. OpsReady'
  BY BusyType DEF Proceed
<1>2. FlagsOK'
  BY DEF Proceed, FlagsOK, flags
<1> QED
  BY <1>1, <1>2

LEMMA FinishType ==
  ASSUME NEW c \in Calls, OpsReady, FlagsOK, Finish(c)
  PROVE  OpsReady' /\ FlagsOK'
<1>1. OpsReady'
  <2>1. Idle \in Ops /\ Idle.kind = "none" /\ Idle.todo = <<>> /\ Ready(Idle)
    BY DEF Idle, Ops, Plans, Ready
  <2>2. op' \in [Calls -> Ops] /\ \A d \in Calls : op'[d] = IF d = c THEN Idle ELSE op[d]
    BY <2>1 DEF Finish, OpsReady, OpsOK
  <2>3. \A d \in Calls : (op'[d].kind = "none" <=> op'[d].todo = <<>>) /\ Ready(op'[d])
    BY <2>1, <2>2 DEF OpsReady, OpsOK, Free
  <2> QED
    BY <2>2, <2>3 DEF OpsReady, OpsOK, Free, Ready
<1>2. deciding' \subseteq Sessions
  BY DEF Finish, FlagsOK
<1>3. sending' \in BOOLEAN /\ booting' \in BOOLEAN
  BY Zenon DEF Finish
<1> QED
  BY <1>1, <1>2, <1>3 DEF FlagsOK

\* What is due after the first request of a handler.
LEMMA LoadingBusy ==
  ASSUME NEW o \in Ops, o.kind # "none", NEW s \in Sessions
  PROVE  Busy(Loading(o, s))
  BY DEF Loading, Busy, Ops, Plans, Ready

LEMMA RestBusy ==
  ASSUME NEW o \in Ops, o.kind # "none", o.todo = <<"session", "tasks">>
  PROVE  [o EXCEPT !.todo = Tail(@)] = [o EXCEPT !.todo = <<"tasks">>]
         /\ Busy([o EXCEPT !.todo = Tail(@)])
<1>1. Tail(o.todo) = <<"tasks">>
  BY Remainders
<1>2. [o EXCEPT !.todo = Tail(@)] = [o EXCEPT !.todo = <<"tasks">>]
  BY <1>1, Zenon
<1> QED
  BY <1>2 DEF Busy, Ops, Plans, Ready

LEMMA CreatedBusy ==
  ASSUME NEW o \in Ops, o.kind # "none", NEW s \in Sessions,
         o.todo = <<"create", "sessions">>
  PROVE  Busy([o EXCEPT !.load = s, !.todo = Tail(@)])
<1>1. Tail(o.todo) = <<"sessions">>
  BY Remainders
<1> DEFINE n == [o EXCEPT !.load = s, !.todo = <<"sessions">>]
<1>2. [o EXCEPT !.load = s, !.todo = Tail(@)] = n
  BY <1>1 DEF Ops
<1>3. n \in Ops /\ n.kind = o.kind /\ n.todo = <<"sessions">> /\ n.load = s
  BY DEF Ops, Plans
<1>4. Busy(n)
  <2> HIDE DEF n
  <2> QED
    BY <1>3 DEF Busy, Ready
<1> QED
  BY <1>2, <1>4

LEMMA AgainBusy ==
  ASSUME NEW o \in Ops, o.kind # "none"
  PROVE  /\ Busy([o EXCEPT !.todo = <<"sessions">>, !.then = "end"])
         /\ Busy([o EXCEPT !.todo = <<"sessions">>, !.then = "current"])
         /\ Busy([o EXCEPT !.todo = <<"create", "sessions">>, !.then = "load"])
  BY DEF Busy, Ops, Plans, Ready

LEMMA ReconcilingBusy == Busy(Reconciling)
  BY DEF Reconciling, Idle, Busy, Ops, Plans, Ready

LEMMA AgainType ==
  ASSUME NEW c \in Calls, NEW o \in Ops, o.kind # "none", OpsReady, FlagsOK, Again(c, o)
  PROVE  OpsReady' /\ FlagsOK'
<1>1. CASE current = o.at
  BY <1>1, ProceedType, AgainBusy DEF Again
<1>2. CASE current # o.at
  BY <1>2, ProceedType, AgainBusy DEF Again
<1> QED
  BY <1>1, <1>2

LEMMA LoadType ==
  ASSUME NEW s, TasksOK, Load(s), UNCHANGED <<timers, astray>>
  PROVE  TasksOK'
  BY DEF Load, TasksOK, NoTasks, TaskStates

LEMMA SyncedType ==
  ASSUME NEW p, NEW s \in Sessions \cup {None}
  PROVE  Synced(p, s) \in Sessions \cup {None}
  BY DEF Synced

LEMMA Nothing ==
  /\ NoDetail \in Details /\ NoDetail.of = None /\ NoDetail.asks = FALSE /\ NoDetail.draft = None
  /\ NoTasks \in [Sessions -> TaskStates] /\ \A s \in Sessions : NoTasks[s] = "none"
  BY DEF NoDetail, Details, NoTasks, TaskStates

-----------------------------------------------------------------------------
(* The types, and that what is shown is of the session that is shown.       *)

View == ViewOK /\ DetailFits /\ (detail.asks => current # None)

Typed == View /\ TasksOK /\ FlagsOK /\ OpsReady

LEMMA TypedInit == Init => Typed
<1> SUFFICES ASSUME Init PROVE Typed
  OBVIOUS
<1>1. OpsReady
  BY DEF Init, OpsReady, OpsOK, Idle, Ops, Plans, Free, Ready
<1>2. View
  BY DEF Init, View, ViewOK, DetailFits, NoDetail, Details
<1>3. TasksOK
  <2>1. 0 \in 0..TimerCap
    BY TimerAssumption
  <2> QED
    BY <2>1, Nothing DEF Init, TasksOK
<1>4. FlagsOK
  BY DEF Init, FlagsOK
<1> QED
  BY <1>1, <1>2, <1>3, <1>4 DEF Typed

LEMMA TypedStep == Typed /\ [Next]_vars => Typed'
<1> SUFFICES ASSUME Typed, [Next]_vars PROVE Typed'
  OBVIOUS
<1> USE NoneAssumption DEF Typed
<1>0. \A c \in Calls : op[c] \in Ops
  BY DEF OpsReady, OpsOK
<1>1. ASSUME NEW c \in Calls, NEW s \in Sessions, Open(c, s)
      PROVE  Typed'
  <2>1. OpsReady'
    BY <1>1, BeginType, LoadingBusy DEF Open, Idle, Ops, Plans
  <2>2. View' /\ FlagsOK'
    BY <1>1 DEF Open, View, ViewOK, DetailFits, FlagsOK, view, flags
  <2>3. TasksOK'
    BY <1>1, LoadType DEF Open
  <2> QED
    BY <2>1, <2>2, <2>3
<1>2. ASSUME NEW c \in Calls, NEW s \in Sessions, ClickDelete(c, s)
      PROVE  Typed'
  <2>1. OpsReady'
    BY <1>2, BeginType DEF ClickDelete, Busy, Ready, Idle, Ops, Plans
  <2> QED
    BY <1>2, <2>1
       DEF ClickDelete, View, ViewOK, DetailFits, TasksOK, FlagsOK, view, tasks, flags
<1>3. ASSUME NEW c \in Calls, NewSession(c)
      PROVE  Typed'
  <2>1. OpsReady'
    BY <1>3, BeginType DEF NewSession, Busy, Ready, Idle, Ops, Plans
  <2> QED
    BY <1>3, <2>1
       DEF NewSession, View, ViewOK, DetailFits, TasksOK, FlagsOK, view, tasks, flags
<1>4. ASSUME NEW c \in Calls, ClickDecision(c)
      PROVE  Typed'
  <2>1. current \in Sessions
    BY <1>4 DEF ClickDecision, View, ViewOK
  <2>2. OpsReady'
    BY <1>4, <2>1, BeginType DEF ClickDecision, Busy, Ready, Idle, Ops, Plans
  <2> QED
    BY <1>4, <2>1, <2>2
       DEF ClickDecision, View, ViewOK, DetailFits, TasksOK, FlagsOK, view, tasks
<1>5. ASSUME NEW c \in Calls, ClickOverdue(c)
      PROVE  Typed'
  <2>1. OpsReady'
    BY <1>5, BeginType, ReconcilingBusy DEF ClickOverdue
  <2> QED
    BY <1>5, <2>1
       DEF ClickOverdue, View, ViewOK, DetailFits, TasksOK, FlagsOK, view, tasks, flags
<1>6. ASSUME NEW c \in Calls, Send(c)
      PROVE  Typed'
  <2>1. OpsReady'
    BY <1>6, BeginType DEF Send, View, ViewOK, Busy, Ready, Idle, Ops, Plans
  <2>2. View'
    BY <1>6 DEF Send, View, ViewOK, DetailFits, Details, Drafted
  <2> QED
    BY <1>6, <2>1, <2>2 DEF Send, TasksOK, FlagsOK, tasks
<1>7. ASSUME NEW c \in Calls, LogIn(c)
      PROVE  Typed'
  <2>1. OpsReady'
    BY <1>7, BeginType DEF LogIn, Busy, Ready, Idle, Ops, Plans
  <2> QED
    BY <1>7, <2>1 DEF LogIn, View, ViewOK, DetailFits, TasksOK, FlagsOK, view, tasks
<1>8. ASSUME NEW c \in Calls, GotSessions(c)
      PROVE  Typed'
  <2>0. /\ op[c].kind # "none" /\ listed' \subseteq Sessions
        /\ UNCHANGED <<auth, timers, astray>>
    BY <1>8 DEF GotSessions, Waits, Free
  <2>1. op[c].todo = <<"sessions">>
    BY <1>8, PlanOf DEF GotSessions, OpsReady
  <2>2. CASE Finish(c) /\ UNCHANGED <<current, detail, panel, watch>>
    BY <2>0, <2>2, FinishType DEF View, ViewOK, DetailFits, TasksOK
  <2>3. CASE /\ op[c].then = "load"
             /\ Load(op[c].load) /\ Proceed(c, Loading(op[c], op[c].load))
             /\ UNCHANGED <<current, detail>>
    <3>1. op[c].load \in Sessions
      BY <2>1, <2>3 DEF OpsReady, Ready
    <3>2. OpsReady' /\ FlagsOK'
      BY <1>0, <2>0, <2>3, <3>1, ProceedType, LoadingBusy
    <3>3. TasksOK'
      BY <2>0, <2>3, LoadType
    <3> QED
      BY <2>0, <2>3, <3>2, <3>3 DEF View, ViewOK, DetailFits
  <2>4. CASE /\ Proceed(c, [op[c] EXCEPT !.todo = <<"create", "sessions">>, !.then = "load"])
             /\ UNCHANGED <<current, detail, panel, watch>>
    <3>1. OpsReady' /\ FlagsOK'
      BY <1>0, <2>0, <2>4, ProceedType, AgainBusy
    <3> QED
      BY <2>0, <2>4, <3>1 DEF View, ViewOK, DetailFits, TasksOK
  <2>5. ASSUME NEW s \in listed', Load(s), Proceed(c, Loading(op[c], s)),
               UNCHANGED <<current, detail>>
        PROVE  Typed'
    <3>1. OpsReady' /\ FlagsOK'
      BY <1>0, <2>0, <2>5, ProceedType, LoadingBusy
    <3>2. TasksOK'
      BY <2>0, <2>5, LoadType
    <3> QED
      BY <2>0, <2>5, <3>1, <3>2 DEF View, ViewOK, DetailFits
  <2>6. CASE /\ current # None /\ current \in listed'
             /\ Proceed(c, Loading(op[c], current))
             /\ UNCHANGED <<current, detail, panel, watch>>
    <3>1. OpsReady' /\ FlagsOK'
      BY <1>0, <2>0, <2>6, ProceedType, LoadingBusy
    <3> QED
      BY <2>0, <2>6, <3>1 DEF View, ViewOK, DetailFits, TasksOK
  <2>7. CASE current' = None /\ detail' = NoDetail /\ Finish(c) /\ UNCHANGED <<panel, watch>>
    <3>1. View'
      BY <2>0, <2>7 DEF View, ViewOK, DetailFits, NoDetail, Details
    <3> QED
      BY <2>0, <2>7, <3>1, FinishType DEF TasksOK
  <2> QED
    BY <1>8, <2>2, <2>3, <2>4, <2>5, <2>6, <2>7 DEF GotSessions
<1>9. ASSUME NEW c \in Calls, GotSession(c)
      PROVE  Typed'
  <2>1. op[c].kind # "none" /\ op[c].todo = <<"session", "tasks">> /\ op[c].load \in Sessions
    BY <1>9, PlanOf DEF GotSession, Waits, Free, OpsReady, Ready
  <2>2. View'
    BY <1>9, <2>1 DEF GotSession, Shown, View, ViewOK, DetailFits, Details
  <2>3. CASE auth
    <3>1. OpsReady' /\ FlagsOK'
      BY <1>0, <1>9, <2>1, <2>3, ProceedType, RestBusy DEF GotSession
    <3> QED
      BY <1>9, <2>2, <2>3, <3>1 DEF GotSession, TasksOK
  <2>4. CASE ~auth
    <3>1. OpsReady' /\ FlagsOK'
      BY <1>9, <2>4, FinishType DEF GotSession
    <3> QED
      BY <1>9, <2>2, <2>4, <3>1 DEF GotSession, TasksOK, NoTasks, TaskStates
  <2> QED
    BY <2>3, <2>4
<1>10. ASSUME NEW c \in Calls, GotTasks(c)
       PROVE  Typed'
  <2>1. OpsReady' /\ FlagsOK'
    BY <1>10, FinishType DEF GotTasks
  <2>2. TasksOK'
    <3>1. CASE current = op[c].load
      <4>1. PICK k \in TaskStates : panel' = [NoTasks EXCEPT ![op[c].load] = k]
        BY <1>10, <3>1 DEF GotTasks
      <4>2. panel' \in [Sessions -> TaskStates]
        BY <4>1 DEF NoTasks, TaskStates
      <4>3. watch' \in Sessions \cup {None}
        BY <1>10, <3>1, SyncedType DEF GotTasks, View, ViewOK
      <4> QED
        BY <1>10, <3>1, <4>2, <4>3 DEF GotTasks, TasksOK
    <3>2. CASE current # op[c].load
      BY <1>10, <3>2 DEF GotTasks, TasksOK
    <3> QED
      BY <3>1, <3>2
  <2> QED
    BY <1>10, <2>1, <2>2 DEF GotTasks, View, ViewOK, DetailFits, view
<1>11. ASSUME NEW c \in Calls, GotDetail(c)
       PROVE  Typed'
  <2>1. OpsReady' /\ FlagsOK'
    BY <1>11, FinishType DEF GotDetail
  <2>2. op[c].load \in Sessions
    BY <1>11, PlanOf DEF GotDetail, OpsReady, Ready
  <2>3. View'
    BY <1>11, <2>2 DEF GotDetail, Shown, View, ViewOK, DetailFits, Details
  <2> QED
    BY <1>11, <2>1, <2>3 DEF GotDetail, TasksOK, tasks
<1>12. ASSUME NEW c \in Calls, Created(c)
       PROVE  Typed'
  <2>1. op[c].kind # "none" /\ op[c].todo = <<"create", "sessions">>
    BY <1>12, PlanOf DEF Created, Waits, Free, OpsReady
  <2>2. OpsReady' /\ FlagsOK'
    BY <1>0, <1>12, <2>1, ProceedType, CreatedBusy DEF Created
  <2> QED
    BY <1>12, <2>2 DEF Created, View, ViewOK, DetailFits, TasksOK, view, tasks
<1>13. ASSUME NEW c \in Calls, Deleted(c)
       PROVE  Typed'
  <2>0. op[c].kind # "none" /\ listed' \subseteq Sessions
    BY <1>13 DEF Deleted, Waits, Free, View, ViewOK
  <2>1. OpsReady' /\ FlagsOK'
    <3>1. CASE Finish(c)
      BY <3>1, FinishType
    <3>2. ASSUME NEW s \in listed', Proceed(c, Loading(op[c], s))
          PROVE  OpsReady' /\ FlagsOK'
      BY <1>0, <2>0, <3>2, ProceedType, LoadingBusy
    <3> QED
      BY <1>13, <3>1, <3>2 DEF Deleted
  <2>2. View'
    <3>1. CASE current = op[c].at
      <4>1. current' = None /\ detail' = NoDetail /\ UNCHANGED auth
        BY <1>13, <3>1 DEF Deleted
      <4> QED
        BY <2>0, <4>1, Nothing DEF View, ViewOK, DetailFits
    <3>2. CASE current # op[c].at
      BY <1>13, <2>0, <3>2 DEF Deleted, View, ViewOK, DetailFits
    <3> QED
      BY <3>1, <3>2
  <2>3. TasksOK'
    BY <1>13 DEF Deleted, TasksOK, NoTasks, TaskStates
  <2> QED
    BY <2>1, <2>2, <2>3
<1>14. ASSUME NEW c \in Calls, Decided(c)
       PROVE  Typed'
  <2>1. OpsReady' /\ FlagsOK'
    BY <1>0, <1>14, AgainType DEF Decided, Waits, Free
  <2> QED
    BY <1>14, <2>1 DEF Decided, View, ViewOK, DetailFits, TasksOK, view, tasks
<1>15. ASSUME NEW c \in Calls, TurnOver(c)
       PROVE  Typed'
  <2>1. OpsReady' /\ FlagsOK'
    BY <1>15, FinishType DEF TurnOver
  <2>2. View'
    <3>1. Undrafted(c) \in Calls \cup {None}
      BY DEF Undrafted, View, ViewOK, Details
    <3>2. PICK paused \in BOOLEAN :
            detail' = IF current # op[c].at THEN detail
                      ELSE [detail EXCEPT !.draft = Undrafted(c), !.asks = @ \/ paused]
      BY <1>15 DEF TurnOver
    <3>3. op[c].at \in Sessions
      BY <1>15, PlanOf DEF TurnOver, OpsReady, Ready
    <3>4. (detail.asks \/ paused) \in BOOLEAN
      BY <3>2, Zenon
    <3> QED
      BY <1>15, <3>1, <3>2, <3>3, <3>4 DEF TurnOver, View, ViewOK, DetailFits, Details
  <2> QED
    BY <1>15, <2>1, <2>2 DEF TurnOver, TasksOK, tasks
<1>16. ASSUME NEW c \in Calls, TurnFails(c)
       PROVE  Typed'
  <2>1. OpsReady' /\ FlagsOK'
    <3>1. CASE current = op[c].at /\ detail.draft = c
      BY <1>0, <1>16, <3>1, ProceedType, AgainBusy DEF TurnFails, Waits, Free
    <3>2. CASE ~(current = op[c].at /\ detail.draft = c)
      BY <1>0, <1>16, <3>2, ProceedType, AgainBusy DEF TurnFails, Waits, Free
    <3> QED
      BY <3>1, <3>2
  <2>2. View'
    BY <1>16 DEF TurnFails, Undrafted, View, ViewOK, DetailFits, Details
  <2> QED
    BY <1>16, <2>1, <2>2 DEF TurnFails, TasksOK, tasks
<1>17. ASSUME NEW c \in Calls, DecisionFails(c)
       PROVE  Typed'
  <2>1. [op[c] EXCEPT !.kind = "settle"] \in Ops
    BY <1>0 DEF Ops
  <2>2. [op[c] EXCEPT !.kind = "settle"].kind # "none"
    BY <1>0 DEF Ops
  <2>3. OpsReady' /\ FlagsOK'
    BY <1>17, <2>1, <2>2, AgainType DEF DecisionFails
  <2> QED
    BY <1>17, <2>3 DEF DecisionFails, View, ViewOK, DetailFits, TasksOK, view, tasks
<1>18. ASSUME NEW c \in Calls, Fails(c)
       PROVE  Typed'
  <2>1. OpsReady' /\ FlagsOK'
    BY <1>18, FinishType DEF Fails
  <2>2. astray' \in BOOLEAN
    BY <1>18, Zenon DEF Fails
  <2> QED
    BY <1>18, <2>1, <2>2 DEF Fails, View, ViewOK, DetailFits, TasksOK, view, tasks
<1>19. ASSUME NEW c \in Calls, TaskChanged(c)
       PROVE  Typed'
  <2>1. watch \in Sessions
    BY <1>19 DEF TaskChanged, TasksOK
  <2>2. OpsReady'
    <3>1. CASE watch = current
      BY <1>19, <2>1, <3>1, BeginType DEF TaskChanged, Busy, Ready, Idle, Ops, Plans
    <3>2. CASE watch # current
      BY <1>19, <3>2 DEF TaskChanged, OpsReady, OpsOK, Free, Ready
    <3> QED
      BY <3>1, <3>2
  <2>3. TasksOK'
    BY <1>19 DEF TaskChanged, TasksOK, TaskStates
  <2> QED
    BY <1>19, <2>2, <2>3 DEF TaskChanged, View, ViewOK, DetailFits, FlagsOK, view, flags
<1>20. ASSUME NEW c \in Calls, NoticeCame(c)
       PROVE  Typed'
  <2>1. OpsReady'
    <3>1. CASE Begin(c, Reconciling)
      BY <3>1, BeginType, ReconcilingBusy
    <3>2. CASE UNCHANGED op
      BY <3>2 DEF OpsReady, OpsOK, Free, Ready
    <3> QED
      BY <1>20, <3>1, <3>2 DEF NoticeCame
  <2>2. TasksOK'
    BY <1>20 DEF NoticeCame, TasksOK, TaskStates
  <2> QED
    BY <1>20, <2>1, <2>2 DEF NoticeCame, View, ViewOK, DetailFits, FlagsOK, view, flags
<1>21. CASE StreamEnded
  <2>1. OpsReady'
    BY <1>21 DEF StreamEnded, OpsReady, OpsOK, Free, Ready
  <2>2. TasksOK'
    BY <1>21, TimerAssumption DEF StreamEnded, TasksOK
  <2> QED
    BY <1>21, <2>1, <2>2 DEF StreamEnded, View, ViewOK, DetailFits, FlagsOK, view, flags
<1>22. CASE TimerFires
  <2>1. OpsReady'
    BY <1>22 DEF TimerFires, OpsReady, OpsOK, Free, Ready
  <2>2. TasksOK'
    BY <1>22, TimerAssumption, SyncedType DEF TimerFires, TasksOK, View, ViewOK
  <2> QED
    BY <1>22, <2>1, <2>2 DEF TimerFires, View, ViewOK, DetailFits, FlagsOK, view, flags
<1>23. CASE SwitchUser
  <2>1. OpsReady'
    BY <1>23 DEF SwitchUser, OpsReady, OpsOK, Free, Ready
  <2> QED
    BY <1>23, <2>1
       DEF SwitchUser, View, ViewOK, DetailFits, NoDetail, Details, FlagsOK, TasksOK, NoTasks,
           TaskStates
<1>24. CASE UNCHANGED vars
  <2>1. OpsReady'
    BY <1>24 DEF vars, OpsReady, OpsOK, Free, Ready
  <2> QED
    BY <1>24, <2>1
       DEF vars, view, tasks, flags, View, ViewOK, DetailFits, FlagsOK, TasksOK
<1> QED
  BY <1>1, <1>2, <1>3, <1>4, <1>5, <1>6, <1>7, <1>8, <1>9, <1>10, <1>11, <1>12, <1>13, <1>14,
     <1>15, <1>16, <1>17, <1>18, <1>19, <1>20, <1>21, <1>22, <1>23, <1>24
     DEF Next, User, Reply

-----------------------------------------------------------------------------
(* What the page says it waits for is under way.                            *)

Held ==
  /\ sending => \E c \in Calls : op[c].kind = "send"
  /\ booting => \E c \in Calls : op[c].kind = "boot"
  /\ \A s \in deciding : \E c \in Calls : op[c].kind \in {"decide", "settle"} /\ op[c].at = s

\* The answer that is being typed is that of a message to the session shown.
DraftOwned ==
  detail.draft # None =>
    /\ Waits(detail.draft, "turn") /\ op[detail.draft].kind = "send"
    /\ op[detail.draft].at = detail.of

LEMMA ComesFreeParts == ComesFree <=> Held /\ (detail.draft # None => op[detail.draft].kind = "send")
  BY DEF ComesFree, Held

LEMMA BeginHeld ==
  ASSUME NEW c \in Calls, NEW o, OpsOK, Begin(c, o), Held, UNCHANGED flags
  PROVE  Held'
<1>1. \A d \in Calls : ~Free(d) => op'[d] = op[d]
  BY DEF Begin, Free, OpsOK
<1> QED
  BY <1>1 DEF Held, Free, flags

LEMMA ProceedHeld ==
  ASSUME NEW c \in Calls, NEW o, OpsOK, Proceed(c, o), Held, o.at = op[c].at,
         o.kind = op[c].kind \/ (op[c].kind = "decide" /\ o.kind = "settle")
  PROVE  Held'
<1>1. \A d \in Calls : op'[d] = IF d = c THEN o ELSE op[d]
  BY DEF Proceed, OpsOK
<1> QED
  BY <1>1 DEF Proceed, Held, flags

LEMMA FinishHeld ==
  ASSUME NEW c \in Calls, OpsOK, Finish(c), Held
  PROVE  Held'
<1>1. \A d \in Calls : d # c => op'[d] = op[d]
  BY DEF Finish, OpsOK
<1>2. sending' => sending /\ op[c].kind # "send"
  BY DEF Finish
<1>3. booting' => booting /\ op[c].kind # "boot"
  BY DEF Finish
<1>4. \A s \in deciding' : s \in deciding
                            /\ ~(op[c].kind \in {"decide", "settle"} /\ op[c].at = s)
  BY DEF Finish, Held
<1> QED
  BY <1>1, <1>2, <1>3, <1>4 DEF Held

\* Only call c has gone on, and the answer typed is not its own.
LEMMA DraftKept ==
  ASSUME NEW c \in Calls, NEW o, Typed, DraftOwned, op' = [op EXCEPT ![c] = o],
         detail' = detail, detail.draft # c
  PROVE  DraftOwned'
<1>1. detail.draft # None => detail.draft \in Calls
  BY DEF Typed, View, ViewOK, Details
<1>2. detail.draft # None => op'[detail.draft] = op[detail.draft]
  BY <1>1 DEF Typed, OpsReady, OpsOK
<1> QED
  BY <1>2 DEF DraftOwned, Waits, Free

\* A call that does not wait for the answer to a message types none.
LEMMA NotTyping ==
  ASSUME NEW c \in Calls, DraftOwned, NoneAssumption, Free(c) \/ ~Waits(c, "turn")
  PROVE  detail.draft # c
  BY DEF DraftOwned, Waits

Freed == Held /\ DraftOwned

LEMMA FreedInit == Init => Freed
  BY Nothing DEF Init, Freed, Held, DraftOwned

LEMMA BeginFreed ==
  ASSUME NEW c \in Calls, NEW o, Typed, Freed, Begin(c, o), UNCHANGED <<flags, detail>>
  PROVE  Freed'
<1>1. Held'
  BY BeginHeld DEF Freed, Typed, OpsReady
<1>2. detail.draft # c
  BY NotTyping, NoneAssumption DEF Freed, Begin
<1>3. DraftOwned'
  BY <1>2, DraftKept DEF Freed, Begin
<1> QED
  BY <1>1, <1>3 DEF Freed

LEMMA ProceedFreed ==
  ASSUME NEW c \in Calls, NEW o, Typed, Freed, Proceed(c, o), o.at = op[c].at,
         o.kind = op[c].kind \/ (op[c].kind = "decide" /\ o.kind = "settle"),
         detail' = detail \/ detail'.draft = None, ~Waits(c, "turn")
  PROVE  Freed'
<1>1. Held'
  BY ProceedHeld DEF Freed, Typed, OpsReady
<1>2. detail.draft # c
  BY NotTyping, NoneAssumption DEF Freed
<1>3. CASE detail' = detail
  BY <1>1, <1>2, <1>3, DraftKept DEF Freed, Proceed
<1>4. CASE detail'.draft = None
  BY <1>1, <1>4 DEF Freed, DraftOwned
<1> QED
  BY <1>3, <1>4

LEMMA FinishFreed ==
  ASSUME NEW c \in Calls, Typed, Freed, Finish(c),
         detail' = detail \/ detail'.draft = None, ~Waits(c, "turn")
  PROVE  Freed'
<1>1. Held'
  BY FinishHeld DEF Freed, Typed, OpsReady
<1>2. detail.draft # c
  BY NotTyping, NoneAssumption DEF Freed
<1>3. CASE detail' = detail
  BY <1>1, <1>2, <1>3, DraftKept DEF Freed, Finish
<1>4. CASE detail'.draft = None
  BY <1>1, <1>4 DEF Freed, DraftOwned
<1> QED
  BY <1>3, <1>4

\* The kind of a handler and what it is about stay as it loads a session.
LEMMA SameWork ==
  ASSUME NEW o \in Ops, NEW s
  PROVE  Loading(o, s).at = o.at /\ Loading(o, s).kind = o.kind
  BY DEF Loading, Ops

LEMMA FreedStep == Typed /\ Freed /\ [Next]_vars => Freed'
<1> SUFFICES ASSUME Typed, Freed, [Next]_vars PROVE Freed'
  OBVIOUS
<1>0. OpsOK /\ \A c \in Calls : op[c] \in Ops
  BY DEF Typed, OpsReady, OpsOK
<1>1. ASSUME NEW c \in Calls, NEW s \in Sessions, Open(c, s)
      PROVE  Freed'
  BY <1>1, BeginFreed DEF Open, view
<1>2. ASSUME NEW c \in Calls, NEW s \in Sessions, ClickDelete(c, s)
      PROVE  Freed'
  BY <1>2, BeginFreed DEF ClickDelete, view
<1>3. ASSUME NEW c \in Calls, NewSession(c)
      PROVE  Freed'
  BY <1>3, BeginFreed DEF NewSession, view
<1>4. ASSUME NEW c \in Calls, ClickDecision(c)
      PROVE  Freed'
  <2> DEFINE o == [Idle EXCEPT !.kind = "decide", !.at = current, !.todo = <<"decide", "sessions">>]
  <2>1. Begin(c, o) /\ UNCHANGED <<sending, booting, detail>> /\ deciding' = deciding \cup {current}
    BY <1>4 DEF ClickDecision, view
  <2>2. \A d \in Calls : op'[d] = IF d = c THEN o ELSE op[d]
    BY <1>0, <2>1 DEF Begin, OpsOK
  <2>3. o.kind = "decide" /\ o.at = current
    BY DEF Idle
  <2>4. detail.draft # c
    BY <2>1, NotTyping, NoneAssumption DEF Begin, Freed
  <2>5. DraftOwned'
    BY <2>1, <2>4, DraftKept DEF Begin, Freed
  <2> HIDE DEF o
  <2>6. \A d \in Calls : op[d].kind # "none" => op'[d] = op[d]
    BY <2>1, <2>2 DEF Begin, Free
  <2>7. Held'
    BY <2>1, <2>2, <2>3, <2>6 DEF Freed, Held
  <2> QED
    BY <2>5, <2>7 DEF Freed
<1>5. ASSUME NEW c \in Calls, ClickOverdue(c)
      PROVE  Freed'
  BY <1>5, BeginFreed DEF ClickOverdue, view
<1>6. ASSUME NEW c \in Calls, Send(c)
      PROVE  Freed'
  <2> DEFINE o == [Idle EXCEPT !.kind = "send", !.at = current, !.todo = <<"turn">>]
  <2>1. Begin(c, o) /\ UNCHANGED <<deciding, booting>> /\ detail' = Drafted(c)
    BY <1>6 DEF Send
  <2>2. \A d \in Calls : op'[d] = IF d = c THEN o ELSE op[d]
    BY <1>0, <2>1 DEF Begin, OpsOK
  <2>3. o.kind = "send" /\ o.at = current /\ Head(o.todo) = "turn"
    BY DEF Idle
  <2> HIDE DEF o
  <2>4. \A d \in Calls : op[d].kind # "none" => op'[d] = op[d]
    BY <2>1, <2>2 DEF Begin, Free
  <2>5. Held'
    BY <2>1, <2>2, <2>3, <2>4 DEF Freed, Held
  <2>6. detail'.draft = c /\ detail'.of = current
    BY <2>1 DEF Drafted, Typed, View, ViewOK, DetailFits, Details
  <2>7. DraftOwned'
    BY <2>2, <2>3, <2>6 DEF DraftOwned, Waits, Free
  <2> QED
    BY <2>5, <2>7 DEF Freed
<1>7. ASSUME NEW c \in Calls, LogIn(c)
      PROVE  Freed'
  <2> DEFINE o == [Idle EXCEPT !.kind = "boot", !.todo = <<"sessions">>, !.then = "first"]
  <2>1. Begin(c, o) /\ UNCHANGED <<deciding, sending, detail>>
    BY <1>7 DEF LogIn, view
  <2>2. \A d \in Calls : op'[d] = IF d = c THEN o ELSE op[d]
    BY <1>0, <2>1 DEF Begin, OpsOK
  <2>3. o.kind = "boot"
    BY DEF Idle
  <2>4. detail.draft # c
    BY <2>1, NotTyping, NoneAssumption DEF Begin, Freed
  <2>5. DraftOwned'
    BY <2>1, <2>4, DraftKept DEF Begin, Freed
  <2> HIDE DEF o
  <2>6. \A d \in Calls : op[d].kind # "none" => op'[d] = op[d]
    BY <2>1, <2>2 DEF Begin, Free
  <2>7. Held'
    BY <2>1, <2>2, <2>3, <2>6 DEF Freed, Held
  <2> QED
    BY <2>5, <2>7 DEF Freed
<1>8. ASSUME NEW c \in Calls, GotSessions(c)
      PROVE  Freed'
  <2>1. ~Waits(c, "turn")
    BY <1>8 DEF GotSessions, Waits
  <2>2. detail' = detail \/ detail'.draft = None
    BY <1>8, Nothing DEF GotSessions
  <2>3. CASE Finish(c)
    BY <2>1, <2>2, <2>3, FinishFreed
  <2>4. ASSUME NEW s, Proceed(c, Loading(op[c], s))
        PROVE  Freed'
    BY <1>0, <2>1, <2>2, <2>4, SameWork, ProceedFreed
  <2>5. CASE Proceed(c, [op[c] EXCEPT !.todo = <<"create", "sessions">>, !.then = "load"])
    <3> DEFINE o == [op[c] EXCEPT !.todo = <<"create", "sessions">>, !.then = "load"]
    <3>1. o.at = op[c].at /\ o.kind = op[c].kind /\ Proceed(c, o)
      BY <1>0, <2>5 DEF Ops
    <3> HIDE DEF o
    <3> QED
      BY <2>1, <2>2, <3>1, ProceedFreed
  <2> QED
    BY <1>8, <2>3, <2>4, <2>5 DEF GotSessions
<1>9. ASSUME NEW c \in Calls, GotSession(c)
      PROVE  Freed'
  <2>1. ~Waits(c, "turn")
    BY <1>9 DEF GotSession, Waits
  <2>2. detail'.draft = None
    BY <1>9 DEF GotSession, Shown
  <2>3. CASE Finish(c)
    BY <2>1, <2>2, <2>3, FinishFreed
  <2>4. CASE Proceed(c, [op[c] EXCEPT !.todo = Tail(@)])
    <3> DEFINE o == [op[c] EXCEPT !.todo = Tail(@)]
    <3>1. o.at = op[c].at /\ o.kind = op[c].kind /\ Proceed(c, o)
      BY <1>0, <2>4 DEF Ops
    <3> HIDE DEF o
    <3> QED
      BY <2>1, <2>2, <3>1, ProceedFreed
  <2> QED
    BY <1>9, <2>3, <2>4 DEF GotSession
<1>10. ASSUME NEW c \in Calls, GotTasks(c)
       PROVE  Freed'
  <2>1. ~Waits(c, "turn") /\ Finish(c) /\ detail' = detail
    BY <1>10 DEF GotTasks, Waits, view
  <2> QED
    BY <2>1, FinishFreed
<1>11. ASSUME NEW c \in Calls, GotDetail(c)
       PROVE  Freed'
  <2>1. ~Waits(c, "turn") /\ Finish(c) /\ (detail' = detail \/ detail'.draft = None)
    BY <1>11 DEF GotDetail, Waits, Shown
  <2> QED
    BY <2>1, FinishFreed
<1>12. ASSUME NEW c \in Calls, Created(c)
       PROVE  Freed'
  <2>1. ~Waits(c, "turn") /\ detail' = detail
    BY <1>12 DEF Created, Waits, view
  <2>2. PICK s \in Sessions : Proceed(c, [op[c] EXCEPT !.load = s, !.todo = Tail(@)])
    BY <1>12 DEF Created
  <2> DEFINE o == [op[c] EXCEPT !.load = s, !.todo = Tail(@)]
  <2>3. o.at = op[c].at /\ o.kind = op[c].kind /\ Proceed(c, o)
    BY <1>0, <2>2 DEF Ops
  <2> HIDE DEF o
  <2> QED
    BY <2>1, <2>3, ProceedFreed
<1>13. ASSUME NEW c \in Calls, Deleted(c)
       PROVE  Freed'
  <2>1. ~Waits(c, "turn")
    BY <1>13 DEF Deleted, Waits
  <2>2. detail' = detail \/ detail'.draft = None
    BY <1>13, Nothing DEF Deleted
  <2>3. CASE Finish(c)
    BY <2>1, <2>2, <2>3, FinishFreed
  <2>4. ASSUME NEW s, Proceed(c, Loading(op[c], s))
        PROVE  Freed'
    BY <1>0, <2>1, <2>2, <2>4, SameWork, ProceedFreed
  <2> QED
    BY <1>13, <2>3, <2>4 DEF Deleted
<1>14. ASSUME NEW c \in Calls, Decided(c)
       PROVE  Freed'
  <2>1. ~Waits(c, "turn") /\ detail' = detail
    BY <1>14 DEF Decided, Waits, view
  <2>2. PICK t : Proceed(c, [op[c] EXCEPT !.todo = <<"sessions">>, !.then = t])
    BY <1>14 DEF Decided, Again
  <2> DEFINE o == [op[c] EXCEPT !.todo = <<"sessions">>, !.then = t]
  <2>3. o.at = op[c].at /\ o.kind = op[c].kind /\ Proceed(c, o)
    BY <1>0, <2>2 DEF Ops
  <2> HIDE DEF o
  <2> QED
    BY <2>1, <2>3, ProceedFreed
<1>15. ASSUME NEW c \in Calls, TurnOver(c)
       PROVE  Freed'
  <2>1. Held'
    BY <1>0, <1>15, FinishHeld DEF TurnOver, Freed
  <2>2. CASE current = op[c].at
    <3>1. detail'.draft = Undrafted(c) /\ detail'.of = detail.of
      BY <1>15, <2>2 DEF TurnOver, Typed, View, ViewOK, Details
    <3>2. CASE detail.draft = c
      BY <2>1, <3>1, <3>2 DEF Undrafted, Freed, DraftOwned
    <3>3. CASE detail.draft # c
      <4>1. detail'.draft = detail.draft
        BY <3>1, <3>3 DEF Undrafted
      <4>2. detail.draft # None => detail.draft \in Calls /\ op'[detail.draft] = op[detail.draft]
        BY <1>0, <1>15, <3>3 DEF TurnOver, Finish, OpsOK, Typed, View, ViewOK, Details
      <4> QED
        BY <2>1, <3>1, <4>1, <4>2 DEF Freed, DraftOwned, Waits, Free
    <3> QED
      BY <3>2, <3>3
  <2>3. CASE current # op[c].at
    <3>1. detail' = detail
      BY <1>15, <2>3 DEF TurnOver
    <3>2. detail.draft # c
      BY <2>3, NoneAssumption DEF Freed, DraftOwned, Typed, View, DetailFits
    <3> QED
      BY <1>15, <2>1, <3>1, <3>2, DraftKept DEF TurnOver, Finish, Freed
  <2> QED
    BY <2>2, <2>3
<1>16. ASSUME NEW c \in Calls, TurnFails(c)
       PROVE  Freed'
  <2>1. PICK t : Proceed(c, [op[c] EXCEPT !.todo = <<"sessions">>, !.then = t])
    BY <1>16 DEF TurnFails
  <2> DEFINE o == [op[c] EXCEPT !.todo = <<"sessions">>, !.then = t]
  <2>0. o.at = op[c].at /\ o.kind = op[c].kind /\ Proceed(c, o)
    BY <1>0, <2>1 DEF Ops
  <2>2. Held'
    <3> HIDE DEF o
    <3> QED
      BY <1>0, <2>0, ProceedHeld DEF Freed
  <2>3. CASE current = op[c].at
    <3>1. detail'.draft = Undrafted(c) /\ detail'.of = detail.of
      BY <1>16, <2>3 DEF TurnFails, Typed, View, ViewOK, Details
    <3>2. CASE detail.draft = c
      BY <2>2, <3>1, <3>2 DEF Undrafted, Freed, DraftOwned
    <3>3. CASE detail.draft # c
      <4>1. detail'.draft = detail.draft
        BY <3>1, <3>3 DEF Undrafted
      <4>2. detail.draft # None => detail.draft \in Calls /\ op'[detail.draft] = op[detail.draft]
        BY <1>0, <2>1, <3>3 DEF Proceed, OpsOK, Typed, View, ViewOK, Details
      <4> QED
        BY <2>2, <3>1, <4>1, <4>2 DEF Freed, DraftOwned, Waits, Free
    <3> QED
      BY <3>2, <3>3
  <2>4. CASE current # op[c].at
    <3>1. detail' = detail
      BY <1>16, <2>4 DEF TurnFails
    <3>2. detail.draft # c
      BY <2>4, NoneAssumption DEF Freed, DraftOwned, Typed, View, DetailFits
    <3> QED
      BY <2>1, <2>2, <3>1, <3>2, DraftKept DEF Proceed, Freed
  <2> QED
    BY <2>3, <2>4
<1>17. ASSUME NEW c \in Calls, DecisionFails(c)
       PROVE  Freed'
  <2> DEFINE o == [op[c] EXCEPT !.kind = "settle"]
  <2>1. op[c].kind = "decide" /\ detail' = detail /\ Again(c, o)
    BY <1>17 DEF DecisionFails, view
  <2>2. o \in Ops /\ o.kind = "settle" /\ o.at = op[c].at
    BY <1>0 DEF Ops
  <2>3. detail.draft # c
    BY <2>1, NoneAssumption DEF Freed, DraftOwned
  <2> HIDE DEF o
  <2>4. PICK t : Proceed(c, [o EXCEPT !.todo = <<"sessions">>, !.then = t])
    BY <2>1 DEF Again
  <2> DEFINE n == [o EXCEPT !.todo = <<"sessions">>, !.then = t]
  <2>0. n.at = o.at /\ n.kind = o.kind /\ Proceed(c, n)
    BY <2>2, <2>4 DEF Ops
  <2>5. Held'
    <3> HIDE DEF n
    <3> QED
      BY <1>0, <2>0, <2>1, <2>2, ProceedHeld DEF Freed
  <2> QED
    BY <2>1, <2>3, <2>4, <2>5, DraftKept DEF Freed, Proceed
<1>18. ASSUME NEW c \in Calls, Fails(c)
       PROVE  Freed'
  <2>1. ~Waits(c, "turn") /\ Finish(c) /\ detail' = detail
    BY <1>18 DEF Fails, view
  <2> QED
    BY <2>1, FinishFreed
<1>19. CASE UNCHANGED <<flags, detail, op>>
  BY <1>19 DEF Freed, Held, DraftOwned, Waits, Free, flags
<1>20. ASSUME NEW c \in Calls, TaskChanged(c)
       PROVE  Freed'
  <2>1. CASE watch = current
    BY <1>20, <2>1, BeginFreed DEF TaskChanged, view
  <2>2. CASE watch # current
    BY <1>19, <1>20, <2>2 DEF TaskChanged, view
  <2> QED
    BY <2>1, <2>2
<1>21. ASSUME NEW c \in Calls, NoticeCame(c)
       PROVE  Freed'
  <2>1. CASE UNCHANGED op
    BY <1>19, <1>21, <2>1 DEF NoticeCame, view
  <2>2. CASE Begin(c, Reconciling)
    BY <1>21, <2>2, BeginFreed DEF NoticeCame, view
  <2> QED
    BY <1>21, <2>1, <2>2 DEF NoticeCame
<1>22. CASE StreamEnded \/ TimerFires
  BY <1>19, <1>22 DEF StreamEnded, TimerFires, view
<1>23. CASE SwitchUser
  BY <1>23, Nothing DEF SwitchUser, Freed, Held, DraftOwned
<1>24. CASE UNCHANGED vars
  BY <1>19, <1>24 DEF vars, view
<1> QED
  BY <1>1, <1>2, <1>3, <1>4, <1>5, <1>6, <1>7, <1>8, <1>9, <1>10, <1>11, <1>12, <1>13, <1>14,
     <1>15, <1>16, <1>17, <1>18, <1>20, <1>21, <1>22, <1>23, <1>24
     DEF Next, User, Reply

-----------------------------------------------------------------------------
(* What the page shows belongs to one session and is followed.              *)

\* A stream of another session's tasks is given up when the tasks have come.
WatchFits == watch # None /\ watch # current /\ current # None => Coming

Shows == PanelFits /\ Followed /\ WatchFits

Follows == ~astray => Shows

LEMMA ComingShows == Coming' => Shows'
  BY DEF Shows, PanelFits, Followed, WatchFits

LEMMA NobodyShows == current' = None => Shows'
  BY DEF Shows, PanelFits, Followed, WatchFits

LEMMA ClearedShows ==
  current' \in Sessions \cup {None} /\ panel' = NoTasks /\ watch' = None => Shows'
  BY Nothing DEF Shows, PanelFits, Followed, WatchFits

LEMMA KeptShows ==
  ASSUME Shows, UNCHANGED <<panel, watch, timers, current>>, Coming => Coming'
  PROVE  Shows'
  BY DEF Shows, PanelFits, Followed, WatchFits

LEMMA LoadShows ==
  ASSUME NEW s, Typed, Typed', Shows, Load(s), UNCHANGED <<timers, current>>, Coming => Coming'
  PROVE  Shows'
<1>1. CASE current = s
  BY <1>1, KeptShows DEF Load
<1>2. CASE current # s
  BY <1>2, ClearedShows DEF Load, Typed, View, ViewOK
<1> QED
  BY <1>1, <1>2

\* The tasks are still to come when another call than the one that fetches
\* them has gone on.
LEMMA ComingStays ==
  ASSUME NEW c \in Calls, NEW o, Typed, op' = [op EXCEPT ![c] = o], current' = current,
         ~(Waits(c, "tasks") /\ op[c].load = current)
  PROVE  Coming => Coming'
<1> SUFFICES ASSUME Coming PROVE Coming'
  OBVIOUS
<1>1. PICK d \in Calls : Waits(d, "tasks") /\ op[d].load = current
  BY DEF Coming
<1>2. op'[d] = op[d]
  BY <1>1 DEF Typed, OpsReady, OpsOK
<1> QED
  BY <1>1, <1>2 DEF Coming, Waits, Free

\* A handler begins, or goes on, and leaves the tasks as they are.
LEMMA StepShows ==
  ASSUME NEW c \in Calls, NEW o, Typed, Follows, op' = [op EXCEPT ![c] = o],
         ~(Waits(c, "tasks") /\ op[c].load = current),
         UNCHANGED <<panel, watch, timers, current, astray>>
  PROVE  Follows'
  BY ComingStays, KeptShows DEF Follows

LEMMA FollowsInit == Init => Follows
  BY DEF Init, Follows, Shows, PanelFits, Followed, WatchFits

LEMMA SyncedFits ==
  ASSUME NEW p, NEW s \in Sessions
  PROVE  /\ Synced(p, s) \in {s, None}
         /\ p[s] = "due" => Synced(p, s) = s
  BY NoneAssumption DEF Synced, Work

LEMMA FollowsStep == Typed /\ Typed' /\ Follows /\ [Next]_vars => Follows'
<1> SUFFICES ASSUME Typed, Typed', Follows, [Next]_vars PROVE Follows'
  OBVIOUS
<1>0. /\ OpsOK /\ \A c \in Calls : op[c] \in Ops
      /\ current \in Sessions \cup {None} /\ current' \in Sessions \cup {None}
      /\ panel \in [Sessions -> TaskStates] /\ watch \in Sessions \cup {None}
  BY DEF Typed, OpsReady, OpsOK, View, ViewOK, TasksOK
<1>1. ASSUME NEW c \in Calls, NEW s \in Sessions, Open(c, s)
      PROVE  Follows'
  <2>1. Coming => Coming'
    BY <1>1, ComingStays DEF Open, Begin, view, Waits
  <2> QED
    BY <1>1, <2>1, LoadShows DEF Open, Follows, view
<1>2. ASSUME NEW c \in Calls, NEW s \in Sessions, ClickDelete(c, s)
      PROVE  Follows'
  BY <1>2, StepShows DEF ClickDelete, Begin, Waits, view, tasks
<1>3. ASSUME NEW c \in Calls, NewSession(c)
      PROVE  Follows'
  BY <1>3, StepShows DEF NewSession, Begin, Waits, view, tasks
<1>4. ASSUME NEW c \in Calls, ClickDecision(c)
      PROVE  Follows'
  BY <1>4, StepShows DEF ClickDecision, Begin, Waits, view, tasks
<1>5. ASSUME NEW c \in Calls, ClickOverdue(c)
      PROVE  Follows'
  BY <1>5, StepShows DEF ClickOverdue, Begin, Waits, view, tasks
<1>6. ASSUME NEW c \in Calls, Send(c)
      PROVE  Follows'
  BY <1>6, StepShows DEF Send, Begin, Waits, tasks
<1>7. ASSUME NEW c \in Calls, LogIn(c)
      PROVE  Follows'
  BY <1>7, StepShows DEF LogIn, Begin, Waits, view, tasks
<1>8. ASSUME NEW c \in Calls, GotSessions(c)
      PROVE  Follows'
  <2>0. ~Waits(c, "tasks") /\ UNCHANGED <<timers, astray>>
    BY <1>8 DEF GotSessions, Waits
  <2>1. CASE Finish(c) /\ UNCHANGED <<current, panel, watch>>
    BY <2>0, <2>1, StepShows DEF Finish
  <2>2. ASSUME NEW s, Load(s), Proceed(c, Loading(op[c], s)), UNCHANGED current
        PROVE  Follows'
    <3>1. Coming => Coming'
      BY <2>0, <2>2, ComingStays DEF Proceed
    <3> QED
      BY <2>0, <2>2, <3>1, LoadShows DEF Follows
  <2>3. ASSUME NEW o, Proceed(c, o), UNCHANGED <<current, panel, watch>>
        PROVE  Follows'
    BY <2>0, <2>3, StepShows DEF Proceed
  <2>4. CASE current' = None
    BY <2>4, NobodyShows DEF Follows
  <2> QED
    BY <1>8, <2>1, <2>2, <2>3, <2>4 DEF GotSessions
<1>9. ASSUME NEW c \in Calls, GotSession(c)
      PROVE  Follows'
  <2>1. CASE auth
    <3>1. op[c].kind # "none" /\ op[c].todo = <<"session", "tasks">>
      BY <1>0, <1>9, PlanOf DEF GotSession, Waits, Free
    <3> DEFINE o == [op[c] EXCEPT !.todo = Tail(@)]
    <3>2. o.kind = op[c].kind /\ o.load = op[c].load /\ o.todo = <<"tasks">>
      BY <1>0, <3>1, Remainders DEF Ops
    <3>3. op' = [op EXCEPT ![c] = o] /\ current' = op[c].load
      BY <1>9, <2>1 DEF GotSession, Proceed
    <3> HIDE DEF o
    <3>4. op'[c] = o
      BY <1>0, <3>3 DEF OpsOK
    <3>5. Coming'
      BY <3>1, <3>2, <3>3, <3>4 DEF Coming, Waits, Free
    <3> QED
      BY <3>5, ComingShows DEF Follows
  <2>2. CASE ~auth
    BY <1>0, <1>9, <2>2, ClearedShows DEF GotSession, Follows
  <2> QED
    BY <2>1, <2>2
<1>10. ASSUME NEW c \in Calls, GotTasks(c)
       PROVE  Follows'
  <2>0. Finish(c) /\ UNCHANGED <<current, timers>>
    BY <1>10 DEF GotTasks, view
  <2>1. CASE current # op[c].load
    BY <1>10, <2>0, <2>1, StepShows DEF GotTasks, Finish
  <2>2. CASE current = None
    BY <2>0, <2>2, NobodyShows DEF Follows
  <2>3. CASE current = op[c].load /\ current # None
    <3>1. PICK k \in TaskStates : panel' = [NoTasks EXCEPT ![current] = k]
      BY <1>10, <2>3 DEF GotTasks
    <3>2. current \in Sessions /\ watch' = Synced(panel', current)
      BY <1>0, <1>10, <2>3 DEF GotTasks
    <3>3. \A s \in Sessions : s # current => panel'[s] = "none"
      BY <3>1, Nothing
    <3>4. watch' \in {current, None} /\ (panel'[current] = "due" => watch' = current)
      BY <3>2, SyncedFits
    <3> QED
      BY <2>0, <3>3, <3>4 DEF Follows, Shows, PanelFits, Followed, WatchFits
  <2> QED
    BY <2>1, <2>2, <2>3
<1>11. ASSUME NEW c \in Calls, GotDetail(c)
       PROVE  Follows'
  BY <1>11, StepShows DEF GotDetail, Finish, Waits, tasks
<1>12. ASSUME NEW c \in Calls, Created(c)
       PROVE  Follows'
  BY <1>12, StepShows DEF Created, Proceed, Waits, view, tasks
<1>13. ASSUME NEW c \in Calls, Deleted(c)
       PROVE  Follows'
  <2>1. CASE current = op[c].at
    BY <1>13, <2>1, NobodyShows DEF Deleted, Follows
  <2>2. CASE current # op[c].at
    BY <1>13, <2>2, StepShows DEF Deleted, Finish, Waits
  <2> QED
    BY <2>1, <2>2
<1>14. ASSUME NEW c \in Calls, Decided(c)
       PROVE  Follows'
  BY <1>14, StepShows DEF Decided, Again, Proceed, Waits, view, tasks
<1>15. ASSUME NEW c \in Calls, TurnOver(c)
       PROVE  Follows'
  BY <1>15, StepShows DEF TurnOver, Finish, Waits, tasks
<1>16. ASSUME NEW c \in Calls, TurnFails(c)
       PROVE  Follows'
  BY <1>16, StepShows DEF TurnFails, Proceed, Waits, tasks
<1>17. ASSUME NEW c \in Calls, DecisionFails(c)
       PROVE  Follows'
  BY <1>17, StepShows DEF DecisionFails, Again, Proceed, view, tasks
<1>18. ASSUME NEW c \in Calls, Fails(c)
       PROVE  Follows'
  <2>1. CASE Waits(c, "tasks") /\ current = op[c].load
    BY <1>18, <2>1 DEF Fails, Follows
  <2>2. CASE ~(Waits(c, "tasks") /\ current = op[c].load)
    <3>1. (~astray' => ~astray) /\ Finish(c) /\ UNCHANGED <<panel, watch, timers, current>>
      BY <1>18 DEF Fails, view, tasks
    <3>2. Coming => Coming'
      BY <2>2, <3>1, ComingStays DEF Finish
    <3> QED
      BY <3>1, <3>2, KeptShows DEF Follows
  <2> QED
    BY <2>1, <2>2
<1>19. ASSUME NEW c \in Calls, TaskChanged(c)
       PROVE  Follows'
  <2>1. CASE watch = current
    <3>1. Coming => Coming'
      BY <1>19, <2>1, ComingStays DEF TaskChanged, Begin, Waits, view
    <3>2. \A s \in Sessions : s # current => panel'[s] = panel[s]
      BY <1>0, <1>19, <2>1 DEF TaskChanged
    <3> QED
      BY <1>0, <1>19, <2>1, <3>1, <3>2
         DEF TaskChanged, view, Follows, Shows, PanelFits, Followed, WatchFits
  <2>2. CASE watch # current
    <3>1. UNCHANGED <<panel, watch, timers, current, astray, op>>
      BY <1>19, <2>2 DEF TaskChanged, view
    <3>2. Coming => Coming'
      BY <3>1 DEF Coming, Waits, Free
    <3> QED
      BY <3>1, <3>2, KeptShows DEF Follows
  <2> QED
    BY <2>1, <2>2
<1>20. ASSUME NEW c \in Calls, NoticeCame(c)
       PROVE  Follows'
  <2>0. UNCHANGED <<current, watch, timers, astray>> /\ watch # None
        /\ \E left \in {"noticed", panel[watch]} \ {"none"} :
              panel' = [panel EXCEPT ![watch] = left]
    BY <1>20 DEF NoticeCame, view
  <2>1. Coming => Coming'
    <3>1. CASE UNCHANGED op
      BY <2>0, <3>1 DEF Coming, Waits, Free
    <3>2. CASE Begin(c, Reconciling)
      BY <2>0, <3>2, ComingStays DEF Begin, Waits
    <3> QED
      BY <1>20, <3>1, <3>2 DEF NoticeCame
  <2>2. CASE watch = current
    <3>1. \A s \in Sessions : s # current => panel'[s] = panel[s]
      BY <1>0, <2>0, <2>2
    <3> QED
      BY <1>0, <2>0, <2>1, <2>2, <3>1 DEF Follows, Shows, PanelFits, Followed, WatchFits
  <2>3. CASE watch # current
    BY <2>0, <2>1, <2>3, ComingShows, NobodyShows DEF Follows, Shows, WatchFits
  <2> QED
    BY <2>2, <2>3
<1>21. CASE StreamEnded
  <2>0. /\ UNCHANGED <<current, panel, op, astray>> /\ watch # None /\ watch' = None
        /\ timers' = timers \/ timers' = timers + 1 
    BY <1>21 DEF StreamEnded, view
  <2>1. Coming => Coming'
    BY <2>0 DEF Coming, Waits, Free
  <2>2. Followed => Followed'
    <3> SUFFICES ASSUME Followed, current # None, panel[current] = "due", ~Coming
                 PROVE  timers' > 0
      BY <2>0, <2>1 DEF Followed
    <3>1. CASE watch = current
      BY <1>0, <1>21, <3>1 DEF StreamEnded, Work, Typed, TasksOK
    <3>2. CASE watch # current
      BY <1>21, <3>2 DEF StreamEnded, Followed
    <3> QED
      BY <3>1, <3>2
  <2> QED
    BY <2>0, <2>1, <2>2 DEF Follows, Shows, PanelFits, WatchFits
<1>22. CASE TimerFires
  <2>0. UNCHANGED <<current, panel, op, astray>> /\ watch' = Synced(panel, current)
    BY <1>22 DEF TimerFires, view
  <2>1. Coming => Coming'
    BY <2>0 DEF Coming, Waits, Free
  <2>2. CASE current = None
    BY <2>0, <2>2, NobodyShows DEF Follows
  <2>3. CASE current # None
    <3>1. watch' \in {current, None} /\ (panel[current] = "due" => watch' = current)
      BY <1>0, <2>0, <2>3, SyncedFits
    <3> QED
      BY <2>0, <2>1, <3>1 DEF Follows, Shows, PanelFits, Followed, WatchFits
  <2> QED
    BY <2>2, <2>3
<1>23. CASE SwitchUser
  BY <1>23, NobodyShows DEF SwitchUser, Follows
<1>24. CASE UNCHANGED vars
  <2>1. UNCHANGED <<panel, watch, timers, current, astray, op>>
    BY <1>24 DEF vars, view, tasks
  <2>2. Coming => Coming'
    BY <2>1 DEF Coming, Waits, Free
  <2> QED
    BY <2>1, <2>2, KeptShows DEF Follows
<1> QED
  BY <1>1, <1>2, <1>3, <1>4, <1>5, <1>6, <1>7, <1>8, <1>9, <1>10, <1>11, <1>12, <1>13, <1>14,
     <1>15, <1>16, <1>17, <1>18, <1>19, <1>20, <1>21, <1>22, <1>23, <1>24
     DEF Next, User, Reply

-----------------------------------------------------------------------------

LEMMA TypedSpec == Spec => []Typed
  BY TypedInit, TypedStep, PTL DEF Spec

\* Every variable of the page keeps its type; what is shown of a session is of
\* the one that is shown (app.js, loadSession).
THEOREM TypeCorrect == Spec => []TypeOK
<1>1. Typed => TypeOK
  BY DEF Typed, View, OpsReady, TypeOK
<1> QED
  BY <1>1, TypedSpec, PTL

\* However many handlers are under way, the page waits for none that has ended
\* (the finally clauses of sendMessage, handleApprovalDecision and
\* initializeAfterLogin in app.js).
THEOREM NeverLocked == Spec => []ComesFree
<1>1. Spec => []Freed
  BY TypedSpec, FreedInit, FreedStep, PTL DEF Spec
<1>2. Freed => ComesFree
  BY ComesFreeParts DEF Freed, DraftOwned
<1> QED
  BY <1>1, <1>2, PTL

\* In whichever order replies come, the tasks shown are the shown session's and
\* are followed, unless their last reload failed (app.js, fetchSessionTasks and
\* syncTaskEventSubscription).
THEOREM OneSessionShown == Spec => []PanelFollows
<1>1. Spec => []Follows
  BY TypedSpec, FollowsInit, FollowsStep, PTL DEF Spec
<1>2. Typed /\ Follows => PanelFollows
  BY DEF Typed, View, Follows, Shows, PanelFollows
<1> QED
  BY <1>1, <1>2, TypedSpec, PTL

=============================================================================

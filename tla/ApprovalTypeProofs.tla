-------------------------- MODULE ApprovalTypeProofs --------------------------
(***************************************************************************)
(* Type correctness of ApprovalProtocol, for every set of requests and     *)
(* approvals: one step per action; the lemmas say what the shared parts of *)
(* the actions (a reply, an appended record) preserve.                     *)
(***************************************************************************)
EXTENDS ApprovalProtocol, TLAPS

\* A step that leaves a group of variables alone keeps the group's types.
LEMMA UnchangedType ==
    /\ RecordsOK /\ UNCHANGED records => RecordsOK'
    /\ AgentOK /\ UNCHANGED agent => AgentOK'
    /\ LocalOK /\ UNCHANGED local => LocalOK'
    /\ HistoryOK /\ UNCHANGED history => HistoryOK'
  BY DEF RecordsOK, AgentOK, LocalOK, HistoryOK, records, agent, local, history

\* append_approval keeps the folded records well typed.
LEMMA AppendType ==
  ASSUME NEW a, NEW rec \in Copies, RecordsOK, AppendApproval(a, rec)
  PROVE  RecordsOK'
  BY DEF RecordsOK, AppendApproval, Copies

\* The records a request reads or builds from what is stored.
LEMMA LatestType ==
  ASSUME NEW a \in Approvals, RecordsOK
  PROVE  Latest(a) \in Copies /\ ExpireRecord(a) \in Copies
  BY DEF RecordsOK, Latest, ExpireRecord, Copies, Statuses, Terminal

\* Setting one of the two flags of a record.
LEMMA CopyType ==
  /\ NoCopy \in Copies
  /\ \A rec \in Copies, b \in BOOLEAN :
        /\ [rec EXCEPT !.resumeFailed = b] \in Copies
        /\ [rec EXCEPT !.noticed = b] \in Copies
  BY DEF NoCopy, Copies, Statuses

\* The record of a first decision.
LEMMA DecidedType ==
  ASSUME NEW r \in Requests, LocalOK, RecordsOK,
         target[r] \in Approvals
  PROVE  DecidedRecord(r) \in Copies
  BY DEF RecordsOK, LocalOK, DecidedRecord, Copies, Statuses, Terminal

\* A saturating counter stays within its cap.
LEMMA BumpType ==
  ASSUME NEW cap \in Nat
  PROVE  \A n \in 0..cap : Bump(n, cap) \in 0..cap
  BY DEF Bump

\* A reply leaves the request well typed and the lock free or held.
LEMMA AnswerType ==
  ASSUME NEW r \in Requests, LocalOK, lock \in Requests \cup {NoRequest}, Answer(r)
  PROVE  LocalOK' /\ lock' \in Requests \cup {NoRequest}
  BY DEF LocalOK, Answer, GoTo, ReleaseRunLock, Points, Kinds, Copies, NoCopy,
         Statuses, TargetPoints, ResumePoints

\* Every step of the protocol preserves the type invariant.
LEMMA TypeStep == TypeOK /\ [Next]_vars => TypeOK'
<1> SUFFICES ASSUME TypeOK, [Next]_vars PROVE TypeOK'
  OBVIOUS
<1> USE SentinelAssumption
<1>1. ASSUME NEW r \in Requests, ReceiveMessage(r)
      PROVE  TypeOK'
  <2>1. LocalOK' /\ lock' \in Requests \cup {NoRequest}
    BY <1>1
    DEF ReceiveMessage, TypeOK, Kinds, AcquireRunLock, LocalOK, GoTo, Points,
        RunPoints, SharedPoints, TargetPoints, ResumePoints
  <2> QED
    BY <1>1, <2>1, UnchangedType DEF ReceiveMessage, TypeOK
<1>2. ASSUME NEW r \in Requests, ReceiveQuery(r)
      PROVE  TypeOK'
  <2>1. LocalOK' /\ lock' \in Requests \cup {NoRequest}
    BY <1>2
    DEF ReceiveQuery, TypeOK, Kinds, AcquireRunLock, LocalOK, GoTo, Points,
        RunPoints, SharedPoints, TargetPoints, ResumePoints
  <2> QED
    BY <1>2, <2>1, UnchangedType DEF ReceiveQuery, TypeOK
<1>3. ASSUME NEW r \in Requests, NEW a \in Approvals, NEW d \in Decisions, ReceiveDecision(r, a, d)
      PROVE  TypeOK'
  <2>1. LocalOK' /\ lock' \in Requests \cup {NoRequest}
    BY <1>3, LatestType
    DEF ReceiveDecision, TypeOK, Kinds, LocalOK, GoTo, Points, RunPoints,
        SharedPoints, TargetPoints, ResumePoints
  <2> QED
    BY <1>3, <2>1, UnchangedType DEF ReceiveDecision, TypeOK
<1>4. ASSUME NEW r \in Requests, NEW a \in Approvals, SweepExpire(r, a)
      PROVE  TypeOK'
  <2>1. RecordsOK'
    BY <1>4, AppendType, LatestType DEF SweepExpire, TypeOK
  <2>2. LocalOK' /\ lock' \in Requests \cup {NoRequest}
    BY <1>4, LatestType
    DEF SweepExpire, TypeOK, LocalOK, GoTo, Points, RunPoints, SharedPoints,
        TargetPoints, ResumePoints
  <2> QED
    BY <1>4, <2>1, <2>2, UnchangedType DEF SweepExpire, TypeOK
<1>5. ASSUME NEW r \in Requests, NEW a \in Approvals, SweepRetry(r, a)
      PROVE  TypeOK'
  <2>1. LocalOK' /\ lock' \in Requests \cup {NoRequest}
    BY <1>5, LatestType
    DEF SweepRetry, TypeOK, LocalOK, GoTo, Points, RunPoints, SharedPoints,
        TargetPoints, ResumePoints
  <2> QED
    BY <1>5, <2>1, UnchangedType DEF SweepRetry, TypeOK
<1>6. ASSUME NEW r \in Requests, NEW a \in Approvals, SweepSkip(r, a)
      PROVE  TypeOK'
  <2>1. LocalOK' /\ lock' \in Requests \cup {NoRequest}
    BY <1>6
    DEF SweepSkip, TypeOK, LocalOK, GoTo, Points, RunPoints, SharedPoints,
        TargetPoints, ResumePoints
  <2> QED
    BY <1>6, <2>1, UnchangedType DEF SweepSkip, TypeOK
<1>7. ASSUME NEW r \in Requests, SweepDone(r)
      PROVE  TypeOK'
  <2>1. CASE Answer(r)
    BY <1>7, <2>1, AnswerType, UnchangedType DEF SweepDone, TypeOK
  <2>2. CASE ~Answer(r)
    <3>1. LocalOK' /\ lock' \in Requests \cup {NoRequest}
      BY <1>7, <2>2, CopyType
      DEF SweepDone, TypeOK, LocalOK, GoTo, Points, RunPoints, SharedPoints,
          TargetPoints, ResumePoints
    <3> QED
      BY <1>7, <3>1, UnchangedType DEF SweepDone, TypeOK
  <2> QED
    BY <2>1, <2>2
<1>8. ASSUME NEW r \in Requests, RefuseMessage(r)
      PROVE  TypeOK'
  <2>1. LocalOK' /\ lock' \in Requests \cup {NoRequest}
    BY <1>8, AnswerType DEF RefuseMessage, TypeOK
  <2> QED
    BY <1>8, <2>1, UnchangedType DEF RefuseMessage, TypeOK
<1>9. ASSUME NEW r \in Requests, AdmitMessage(r)
      PROVE  TypeOK'
  <2>1. LocalOK' /\ lock' \in Requests \cup {NoRequest}
    BY <1>9
    DEF AdmitMessage, TypeOK, LocalOK, GoTo, Points, RunPoints, SharedPoints,
        TargetPoints, ResumePoints
  <2> QED
    BY <1>9, <2>1, UnchangedType DEF AdmitMessage, TypeOK
<1>10. ASSUME NEW r \in Requests, CleanupExpired(r)
      PROVE  TypeOK'
  <2>1. CASE Answer(r)
    BY <1>10, <2>1, AnswerType, UnchangedType DEF CleanupExpired, TypeOK
  <2>2. CASE ~Answer(r)
    <3>1. LocalOK' /\ lock' \in Requests \cup {NoRequest}
      BY <1>10, <2>2, LatestType
      DEF CleanupExpired, TypeOK, AcquireRunLock, LocalOK, GoTo, Points, RunPoints,
          SharedPoints, TargetPoints, ResumePoints
    <3> QED
      BY <1>10, <3>1, UnchangedType DEF CleanupExpired, TypeOK
  <2> QED
    BY <2>1, <2>2
<1>11. ASSUME NEW r \in Requests, DecisionLocked(r)
      PROVE  TypeOK'
  <2>1. LocalOK' /\ lock' \in Requests \cup {NoRequest}
    BY <1>11, AnswerType DEF DecisionLocked, TypeOK
  <2> QED
    BY <1>11, <2>1, UnchangedType DEF DecisionLocked, TypeOK
<1>12. ASSUME NEW r \in Requests, DecideRaced(r)
      PROVE  TypeOK'
  <2>1. CASE Answer(r)
    BY <1>12, <2>1, AnswerType, UnchangedType DEF DecideRaced, TypeOK
  <2>2. CASE ~Answer(r)
    <3>1. LocalOK' /\ lock' \in Requests \cup {NoRequest}
      BY <1>12, <2>2, LatestType
      DEF DecideRaced, TypeOK, AcquireRunLock, LocalOK, GoTo, Points, RunPoints,
          SharedPoints, TargetPoints, ResumePoints
    <3> QED
      BY <1>12, <3>1, UnchangedType DEF DecideRaced, TypeOK
  <2> QED
    BY <2>1, <2>2
<1>13. ASSUME NEW r \in Requests, DecideExpired(r)
      PROVE  TypeOK'
  <2>1. target[r] \in Approvals
    BY <1>13 DEF DecideExpired, TypeOK, LocalOK, TargetPoints
  <2>2. RecordsOK'
    BY <1>13, <2>1, AppendType, LatestType DEF DecideExpired, TypeOK
  <2>3. LocalOK' /\ lock' \in Requests \cup {NoRequest}
    BY <1>13, LatestType, <2>1
    DEF DecideExpired, TypeOK, AcquireRunLock, LocalOK, GoTo, Points, RunPoints,
        SharedPoints, TargetPoints, ResumePoints
  <2> QED
    BY <1>13, <2>2, <2>3, UnchangedType DEF DecideExpired, TypeOK
<1>14. ASSUME NEW r \in Requests, DecideConflict(r)
      PROVE  TypeOK'
  <2>1. LocalOK' /\ lock' \in Requests \cup {NoRequest}
    BY <1>14, AnswerType DEF DecideConflict, TypeOK
  <2> QED
    BY <1>14, <2>1, UnchangedType DEF DecideConflict, TypeOK
<1>15. ASSUME NEW r \in Requests, DecidePending(r)
      PROVE  TypeOK'
  <2>1. target[r] \in Approvals
    BY <1>15 DEF DecidePending, TypeOK, LocalOK, TargetPoints
  <2>2. DecidedRecord(r) \in Copies
    BY <1>15, <2>1, DecidedType DEF DecidePending, TypeOK
  <2>3. RecordsOK'
    BY <1>15, <2>2, AppendType DEF DecidePending, TypeOK
  <2>4. LocalOK' /\ lock' \in Requests \cup {NoRequest}
    BY <1>15, <2>2
    DEF DecidePending, TypeOK, AcquireRunLock, LocalOK, GoTo, Points, RunPoints,
        SharedPoints, TargetPoints, ResumePoints
  <2> QED
    BY <1>15, <2>3, <2>4, UnchangedType DEF DecidePending, TypeOK
<1>16. ASSUME NEW r \in Requests, TerminalConflict(r)
      PROVE  TypeOK'
  <2>1. LocalOK' /\ lock' \in Requests \cup {NoRequest}
    BY <1>16, AnswerType DEF TerminalConflict, TypeOK
  <2> QED
    BY <1>16, <2>1, UnchangedType DEF TerminalConflict, TypeOK
<1>17. ASSUME NEW r \in Requests, TerminalRetry(r)
      PROVE  TypeOK'
  <2>1. LocalOK' /\ lock' \in Requests \cup {NoRequest}
    BY <1>17
    DEF TerminalRetry, TypeOK, LocalOK, GoTo, Points, RunPoints, SharedPoints,
        TargetPoints, ResumePoints
  <2> QED
    BY <1>17, <2>1, UnchangedType DEF TerminalRetry, TypeOK
<1>18. ASSUME NEW r \in Requests, ResumeTerminal(r)
      PROVE  TypeOK'
  <2>1. LocalOK' /\ lock' \in Requests \cup {NoRequest}
    BY <1>18
    DEF ResumeTerminal, TypeOK, AcquireRunLock, LocalOK, GoTo, Points, RunPoints,
        SharedPoints, TargetPoints, ResumePoints
  <2> QED
    BY <1>18, <2>1, UnchangedType DEF ResumeTerminal, TypeOK
<1>19. ASSUME NEW r \in Requests, TerminalReport(r)
      PROVE  TypeOK'
  <2>1. CASE Answer(r)
    BY <1>19, <2>1, AnswerType, UnchangedType DEF TerminalReport, TypeOK
  <2>2. CASE ~Answer(r)
    <3>1. LocalOK' /\ lock' \in Requests \cup {NoRequest}
      BY <1>19, <2>2
      DEF TerminalReport, TypeOK, LocalOK, GoTo, Points, RunPoints, SharedPoints,
          TargetPoints, ResumePoints
    <3> QED
      BY <1>19, <3>1, UnchangedType DEF TerminalReport, TypeOK
  <2> QED
    BY <2>1, <2>2
<1>20. ASSUME NEW r \in Requests, ResumeUnreachable(r)
      PROVE  TypeOK'
  <2>1. LocalOK' /\ lock' \in Requests \cup {NoRequest}
    BY <1>20
    DEF ResumeUnreachable, TypeOK, LocalOK, GoTo, Points, RunPoints, SharedPoints,
        TargetPoints, ResumePoints
  <2> QED
    BY <1>20, <2>1, UnchangedType DEF ResumeUnreachable, TypeOK
<1>21. ASSUME NEW r \in Requests, ResumePaused(r)
      PROVE  TypeOK'
  <2>1. AgentOK'
    BY <1>21 DEF ResumePaused, TypeOK, AgentOK, Threads, IdleThread
  <2>2. LocalOK' /\ lock' \in Requests \cup {NoRequest}
    BY <1>21
    DEF ResumePaused, TypeOK, LocalOK, GoTo, Points, RunPoints, SharedPoints,
        TargetPoints, ResumePoints
  <2> QED
    BY <1>21, <2>1, <2>2, UnchangedType DEF ResumePaused, TypeOK
<1>22. ASSUME NEW r \in Requests, ResumeUnpaused(r)
      PROVE  TypeOK'
  <2>1. LocalOK' /\ lock' \in Requests \cup {NoRequest}
    BY <1>22
    DEF ResumeUnpaused, TypeOK, LocalOK, GoTo, Points, RunPoints, SharedPoints,
        TargetPoints, ResumePoints
  <2> QED
    BY <1>22, <2>1, UnchangedType DEF ResumeUnpaused, TypeOK
<1>23. ASSUME NEW r \in Requests, ReturnExisting(r)
      PROVE  TypeOK'
  <2> DEFINE a == target[r]
             c == thread.call
             found == IF op[a][c] = "started" THEN "unknown" ELSE op[a][c]
  <2>1. AgentOK'
    <3>1. op' = [op EXCEPT ![a][c] = found]
      BY <1>23 DEF ReturnExisting, TypeOK, AgentOK
    <3>2. a \in Approvals /\ c \in Approvals => found \in OpStates
      BY DEF TypeOK, AgentOK, OpStates
    <3> HIDE DEF found
    <3>3. op' \in [Approvals -> [Approvals -> OpStates]]
      BY <3>1, <3>2 DEF TypeOK, AgentOK
    <3> QED BY <1>23, <3>3 DEF ReturnExisting, TypeOK, AgentOK, Threads
  <2>2. LocalOK' /\ lock' \in Requests \cup {NoRequest}
    BY <1>23
    DEF ReturnExisting, TypeOK, LocalOK, GoTo, Points, RunPoints, SharedPoints,
        TargetPoints, ResumePoints
  <2> QED
    BY <1>23, <2>1, <2>2, UnchangedType DEF ReturnExisting, TypeOK
<1>24. ASSUME NEW r \in Requests, StartOperation(r)
      PROVE  TypeOK'
  <2>1. AgentOK'
    BY <1>24 DEF StartOperation, TypeOK, AgentOK, OpStates
  <2>2. LocalOK' /\ lock' \in Requests \cup {NoRequest}
    BY <1>24
    DEF StartOperation, TypeOK, LocalOK, GoTo, Points, RunPoints, SharedPoints,
        TargetPoints, ResumePoints
  <2> QED
    BY <1>24, <2>1, <2>2, UnchangedType DEF StartOperation, TypeOK
<1>25. ASSUME NEW r \in Requests, SendWrite(r)
      PROVE  TypeOK'
  <2>1. HistoryOK'
    BY <1>25, BumpType, CapAssumption DEF SendWrite, TypeOK, HistoryOK
  <2>2. LocalOK' /\ lock' \in Requests \cup {NoRequest}
    BY <1>25
    DEF SendWrite, TypeOK, LocalOK, GoTo, Points, RunPoints, SharedPoints,
        TargetPoints, ResumePoints
  <2> QED
    BY <1>25, <2>1, <2>2, UnchangedType DEF SendWrite, TypeOK
<1>26. ASSUME NEW r \in Requests, CreateTaskRecord(r)
      PROVE  TypeOK'
  <2>1. AgentOK'
    BY <1>26
    DEF CreateTaskRecord, TypeOK, AgentOK, LocalOK, TargetPoints, ResumePoints
  <2>2. LocalOK' /\ lock' \in Requests \cup {NoRequest}
    BY <1>26
    DEF CreateTaskRecord, TypeOK, LocalOK, GoTo, Points, RunPoints, SharedPoints,
        TargetPoints, ResumePoints
  <2> QED
    BY <1>26, <2>1, <2>2, UnchangedType DEF CreateTaskRecord, TypeOK
<1>27. ASSUME NEW r \in Requests, CompleteOperation(r)
      PROVE  TypeOK'
  <2>1. AgentOK'
    BY <1>27 DEF CompleteOperation, TypeOK, AgentOK, OpStates, Threads, IdleThread
  <2>2. LocalOK' /\ lock' \in Requests \cup {NoRequest}
    BY <1>27
    DEF CompleteOperation, TypeOK, LocalOK, GoTo, Points, RunPoints, SharedPoints,
        TargetPoints, ResumePoints
  <2> QED
    BY <1>27, <2>1, <2>2, UnchangedType DEF CompleteOperation, TypeOK
<1>28. ASSUME NEW r \in Requests, ToolRaises(r)
      PROVE  TypeOK'
  <2>1. LocalOK' /\ lock' \in Requests \cup {NoRequest}
    BY <1>28
    DEF ToolRaises, TypeOK, LocalOK, GoTo, Points, RunPoints, SharedPoints,
        TargetPoints, ResumePoints
  <2> QED
    BY <1>28, <2>1, UnchangedType DEF ToolRaises, TypeOK
<1>29. ASSUME NEW r \in Requests, AgentAnswers(r)
      PROVE  TypeOK'
  <2>1. AgentOK'
    BY <1>29 DEF AgentAnswers, TypeOK, AgentOK, Threads, IdleThread
  <2>2. CASE Answer(r)
    BY <1>29, <2>1, <2>2, AnswerType, UnchangedType DEF AgentAnswers, TypeOK
  <2>3. CASE ~Answer(r)
    <3>1. LocalOK' /\ lock' \in Requests \cup {NoRequest}
      BY <1>29, <2>3
      DEF AgentAnswers, TypeOK, LocalOK, GoTo, Points, RunPoints, SharedPoints,
          TargetPoints, ResumePoints
    <3> QED
      BY <1>29, <2>1, <3>1, UnchangedType DEF AgentAnswers, TypeOK
  <2> QED
    BY <2>2, <2>3
<1>30. ASSUME NEW r \in Requests, NEW c \in Approvals, AgentPauses(r, c)
      PROVE  TypeOK'
  <2>1. AgentOK'
    BY <1>30 DEF AgentPauses, TypeOK, AgentOK, Threads, IdleThread
  <2>2. LocalOK' /\ lock' \in Requests \cup {NoRequest}
    BY <1>30
    DEF AgentPauses, TypeOK, LocalOK, GoTo, Points, RunPoints, SharedPoints,
        TargetPoints, ResumePoints
  <2> QED
    BY <1>30, <2>1, <2>2, UnchangedType DEF AgentPauses, TypeOK
<1>31. ASSUME NEW r \in Requests, AgentFails(r)
      PROVE  TypeOK'
  <2>1. AgentOK'
    BY <1>31 DEF AgentFails, TypeOK, AgentOK, Threads, IdleThread
  <2>2. CASE Answer(r)
    BY <1>31, <2>1, <2>2, AnswerType, UnchangedType DEF AgentFails, TypeOK
  <2>3. CASE ~Answer(r)
    <3>1. LocalOK' /\ lock' \in Requests \cup {NoRequest}
      BY <1>31, <2>3
      DEF AgentFails, TypeOK, LocalOK, GoTo, Points, RunPoints, SharedPoints,
          TargetPoints, ResumePoints
    <3> QED
      BY <1>31, <2>1, <3>1, UnchangedType DEF AgentFails, TypeOK
  <2> QED
    BY <2>2, <2>3
<1>32. ASSUME NEW r \in Requests, RecordFailure(r)
      PROVE  TypeOK'
  <2>1. copy[r] \in Copies
    BY DEF TypeOK, LocalOK
  <2>2. RecordsOK'
    BY <1>32, <2>1, CopyType, AppendType, UnchangedType DEF RecordFailure, TypeOK
  <2>3. HistoryOK'
    BY <1>32
    DEF RecordFailure, TypeOK, HistoryOK, LocalOK, TargetPoints, ResumePoints
  <2>4. CASE Answer(r)
    BY <1>32, <2>2, <2>3, <2>4, AnswerType, UnchangedType DEF RecordFailure, TypeOK
  <2>5. CASE ~Answer(r)
    <3>1. LocalOK' /\ lock' \in Requests \cup {NoRequest}
      BY <1>32, <2>5, CopyType
      DEF RecordFailure, TypeOK, CleanupDone, LocalOK, GoTo, Points, RunPoints,
          SharedPoints, TargetPoints, ResumePoints
    <3> QED
      BY <1>32, <2>2, <2>3, <3>1, UnchangedType DEF RecordFailure, TypeOK
  <2> QED
    BY <2>4, <2>5
<1>33. ASSUME NEW r \in Requests, RecordSuccess(r)
      PROVE  TypeOK'
  <2>1. copy[r] \in Copies
    BY DEF TypeOK, LocalOK
  <2>2. RecordsOK'
    BY <1>33, <2>1, CopyType, AppendType, UnchangedType DEF RecordSuccess, TypeOK
  <2>3. CASE Answer(r)
    BY <1>33, <2>2, <2>3, AnswerType, UnchangedType DEF RecordSuccess, TypeOK
  <2>4. CASE ~Answer(r)
    <3>1. [copy[r] EXCEPT !.resumeFailed = FALSE] \in Copies
      BY <2>1, CopyType
    <3>2. copy' \in [Requests -> Copies]
      BY <1>33, <2>4, <3>1, CopyType DEF RecordSuccess, CleanupDone, TypeOK, LocalOK
    <3>3. LocalOK' /\ lock' \in Requests \cup {NoRequest}
      BY <1>33, <2>4, <3>2
      DEF RecordSuccess, TypeOK, CleanupDone, LocalOK, GoTo, Points, RunPoints,
          SharedPoints, TargetPoints, ResumePoints
    <3> QED
      BY <1>33, <2>2, <3>3, UnchangedType DEF RecordSuccess, TypeOK
  <2> QED
    BY <2>3, <2>4
<1>34. ASSUME NEW r \in Requests, EmitNotice(r)
      PROVE  TypeOK'
  <2>1. HistoryOK'
    BY <1>34, BumpType, CapAssumption DEF EmitNotice, TypeOK, HistoryOK
  <2>2. LocalOK' /\ lock' \in Requests \cup {NoRequest}
    BY <1>34
    DEF EmitNotice, TypeOK, LocalOK, GoTo, Points, RunPoints, SharedPoints,
        TargetPoints, ResumePoints
  <2> QED
    BY <1>34, <2>1, <2>2, UnchangedType DEF EmitNotice, TypeOK
<1>35. ASSUME NEW r \in Requests, MarkNotice(r)
      PROVE  TypeOK'
  <2>1. copy[r] \in Copies
    BY DEF TypeOK, LocalOK
  <2>2. RecordsOK'
    BY <1>35, <2>1, CopyType, AppendType, UnchangedType DEF MarkNotice, TypeOK
  <2>3. LocalOK' /\ lock' \in Requests \cup {NoRequest}
    <3>1. [copy[r] EXCEPT !.noticed = TRUE] \in Copies
      BY <2>1, CopyType
    <3>2. copy' = [copy EXCEPT ![r] = [copy[r] EXCEPT !.noticed = TRUE]]
      BY <1>35 DEF MarkNotice, TypeOK, LocalOK
    <3> QED
      BY <1>35, <3>1, <3>2
      DEF MarkNotice, TypeOK, LocalOK, GoTo, Points, RunPoints, SharedPoints,
          TargetPoints, ResumePoints
  <2> QED
    BY <1>35, <2>2, <2>3, UnchangedType DEF MarkNotice, TypeOK
<1>36. ASSUME NEW r \in Requests, CheckNoPending(r)
      PROVE  TypeOK'
  <2>1. CASE Answer(r)
    BY <1>36, <2>1, AnswerType, UnchangedType DEF CheckNoPending, TypeOK
  <2>2. CASE ~Answer(r)
    <3>1. LocalOK' /\ lock' \in Requests \cup {NoRequest}
      BY <1>36, <2>2
      DEF CheckNoPending, TypeOK, LocalOK, GoTo, Points, RunPoints, SharedPoints,
          TargetPoints, ResumePoints
    <3> QED
      BY <1>36, <3>1, UnchangedType DEF CheckNoPending, TypeOK
  <2> QED
    BY <2>1, <2>2
<1>37. ASSUME NEW r \in Requests, CreateApproval(r)
      PROVE  TypeOK'
  <2>1. RecordsOK'
    BY <1>37, AppendType DEF CreateApproval, TypeOK, Copies, Statuses
  <2>2. LocalOK' /\ lock' \in Requests \cup {NoRequest}
    BY <1>37, AnswerType DEF CreateApproval, TypeOK
  <2> QED
    BY <1>37, <2>1, <2>2, UnchangedType DEF CreateApproval, TypeOK
<1>38. ASSUME NEW a \in Approvals, TtlElapses(a)
      PROVE  TypeOK'
  BY <1>38, UnchangedType DEF TtlElapses, TypeOK
<1>39. CASE Crash
  BY <1>39, UnchangedType, CopyType
  DEF Crash, TypeOK, LocalOK, Points, Kinds, TargetPoints, ResumePoints
<1>40. CASE UNCHANGED vars
  BY <1>40, UnchangedType DEF vars, TypeOK
<1> QED
  BY <1>1, <1>2, <1>3, <1>4, <1>5, <1>6, <1>7, <1>8, <1>9, <1>10, <1>11, <1>12,
     <1>13, <1>14, <1>15, <1>16, <1>17, <1>18, <1>19, <1>20, <1>21, <1>22, <1>23,
     <1>24, <1>25, <1>26, <1>27, <1>28, <1>29, <1>30, <1>31, <1>32, <1>33, <1>34,
     <1>35, <1>36, <1>37, <1>38, <1>39, <1>40
  DEF Next, Arrive, Serve, Sweep, Decide, Run, Record

\* Initially nothing is recorded and every request is idle.
LEMMA InitType == Init => TypeOK
  BY CapAssumption
  DEF Init, TypeOK, RecordsOK, AgentOK, LocalOK, HistoryOK, IdleThread, Threads,
      NoCopy, Copies, Statuses, Terminal, OpStates, Points, Kinds, TargetPoints,
      ResumePoints

\* Every reachable state of the approval protocol is well typed.
THEOREM TypeCorrect == Spec => []TypeOK
  BY InitType, TypeStep, PTL DEF Spec

=============================================================================

------------------------- MODULE ApprovalRunProofs --------------------------
(***************************************************************************)
(* What the runs of the agent and of the write tools promise: the writes   *)
(* of one call, the pauses of expired approvals, and, as long as no resume *)
(* has failed, the confirmation of every write.                            *)
(***************************************************************************)
EXTENDS ApprovalRecordProofs

\* A request that neither runs the tool nor touches what it recorded.
LEMMA QuietWrites ==
  ASSUME WritesInv, UNCHANGED <<thread, op, writes>>,
         \A s \in Requests : pc'[s] \in {"tool", "write"} =>
                                pc'[s] = pc[s] /\ target'[s] = target[s]
  PROVE  WritesInv'
  BY DEF WritesInv, WriteRecorded, OwnWriteOnce, KnownId

\* Nor does a request that answers.
LEMMA AnswerWrites ==
  ASSUME TypeOK, NEW r \in Requests, Answer(r)
  PROVE \A s \in Requests : pc'[s] \in {"tool", "write"} =>
                                pc'[s] = pc[s] /\ target'[s] = target[s]
  BY DEF TypeOK, LocalOK, Answer, GoTo

\* Every step keeps the operation records ahead of the writes, and the writes of
\* a known call single.
LEMMA WritesStep == RecordsInv /\ WritesInv /\ [Next]_vars => WritesInv'
<1> SUFFICES ASSUME RecordsInv, WritesInv, [Next]_vars
             PROVE   WritesInv'
  OBVIOUS
<1>0. RunExclusive
  BY DEF RecordsInv, LockHeld, RunExclusive
<1> USE SentinelAssumption DEF RecordsInv, WritesInv
<1>1. ASSUME NEW r \in Requests, ReceiveMessage(r)
      PROVE  WritesInv'
  BY <1>1, QuietWrites DEF ReceiveMessage, TypeOK, LocalOK, GoTo, agent, history
<1>2. ASSUME NEW r \in Requests, ReceiveQuery(r)
      PROVE  WritesInv'
  BY <1>2, QuietWrites DEF ReceiveQuery, TypeOK, LocalOK, GoTo, agent, history
<1>3. ASSUME NEW r \in Requests, NEW a \in Approvals, NEW d \in Decisions, ReceiveDecision(r, a, d)
      PROVE  WritesInv'
  BY <1>3, QuietWrites DEF ReceiveDecision, TypeOK, LocalOK, GoTo, agent, history
<1>4. ASSUME NEW r \in Requests, NEW a \in Approvals, SweepExpire(r, a)
      PROVE  WritesInv'
  BY <1>4, QuietWrites DEF SweepExpire, TypeOK, LocalOK, GoTo, agent, history
<1>5. ASSUME NEW r \in Requests, NEW a \in Approvals, SweepRetry(r, a)
      PROVE  WritesInv'
  BY <1>5, QuietWrites DEF SweepRetry, TypeOK, LocalOK, GoTo, agent, history
<1>6. ASSUME NEW r \in Requests, NEW a \in Approvals, SweepSkip(r, a)
      PROVE  WritesInv'
  BY <1>6, QuietWrites DEF SweepSkip, TypeOK, LocalOK, GoTo, agent, history
<1>7. ASSUME NEW r \in Requests, SweepDone(r)
      PROVE  WritesInv'
  BY <1>7, AnswerWrites, QuietWrites
  DEF SweepDone, TypeOK, LocalOK, GoTo, agent, history
<1>8. ASSUME NEW r \in Requests, RefuseMessage(r)
      PROVE  WritesInv'
  BY <1>8, AnswerWrites, QuietWrites
  DEF RefuseMessage, TypeOK, LocalOK, GoTo, agent, history
<1>9. ASSUME NEW r \in Requests, AdmitMessage(r)
      PROVE  WritesInv'
  BY <1>9, QuietWrites DEF AdmitMessage, TypeOK, LocalOK, GoTo, agent, history
<1>10. ASSUME NEW r \in Requests, CleanupExpired(r)
      PROVE  WritesInv'
  BY <1>10, AnswerWrites, QuietWrites
  DEF CleanupExpired, TypeOK, LocalOK, GoTo, agent, history
<1>11. ASSUME NEW r \in Requests, DecisionLocked(r)
      PROVE  WritesInv'
  BY <1>11, AnswerWrites, QuietWrites
  DEF DecisionLocked, TypeOK, LocalOK, GoTo, agent, history
<1>12. ASSUME NEW r \in Requests, DecideRaced(r)
      PROVE  WritesInv'
  BY <1>12, AnswerWrites, QuietWrites
  DEF DecideRaced, TypeOK, LocalOK, GoTo, agent, history
<1>13. ASSUME NEW r \in Requests, DecideExpired(r)
      PROVE  WritesInv'
  BY <1>13, QuietWrites DEF DecideExpired, TypeOK, LocalOK, GoTo, agent, history
<1>14. ASSUME NEW r \in Requests, DecideConflict(r)
      PROVE  WritesInv'
  BY <1>14, AnswerWrites, QuietWrites
  DEF DecideConflict, TypeOK, LocalOK, GoTo, agent, history
<1>15. ASSUME NEW r \in Requests, DecidePending(r)
      PROVE  WritesInv'
  BY <1>15, QuietWrites DEF DecidePending, TypeOK, LocalOK, GoTo, agent, history
<1>16. ASSUME NEW r \in Requests, TerminalConflict(r)
      PROVE  WritesInv'
  BY <1>16, AnswerWrites, QuietWrites
  DEF TerminalConflict, TypeOK, LocalOK, GoTo, agent, history
<1>17. ASSUME NEW r \in Requests, TerminalRetry(r)
      PROVE  WritesInv'
  BY <1>17, QuietWrites DEF TerminalRetry, TypeOK, LocalOK, GoTo, agent, history
<1>18. ASSUME NEW r \in Requests, ResumeTerminal(r)
      PROVE  WritesInv'
  BY <1>18, QuietWrites DEF ResumeTerminal, TypeOK, LocalOK, GoTo, agent, history
<1>19. ASSUME NEW r \in Requests, TerminalReport(r)
      PROVE  WritesInv'
  BY <1>19, AnswerWrites, QuietWrites
  DEF TerminalReport, TypeOK, LocalOK, GoTo, agent, history
<1>20. ASSUME NEW r \in Requests, ResumeUnreachable(r)
      PROVE  WritesInv'
  BY <1>20, QuietWrites DEF ResumeUnreachable, TypeOK, LocalOK, GoTo, agent, history
<1>21. ASSUME NEW r \in Requests, ResumePaused(r)
      PROVE  WritesInv'
  <2>1. WriteRecorded'
    BY <1>21, <1>0
    DEF ResumePaused, TypeOK, LocalOK, AgentOK, HistoryOK, GoTo, RunExclusive,
        RunPoints, WriteRecorded, OwnWriteOnce, KnownId, history, Threads,
        IdleThread, TargetPoints, ResumePoints
  <2>2. OwnWriteOnce'
    BY <1>21, <1>0
    DEF ResumePaused, TypeOK, LocalOK, AgentOK, HistoryOK, RunExclusive, RunPoints,
        WriteRecorded, OwnWriteOnce, KnownId, history, Threads, IdleThread,
        TargetPoints, ResumePoints
  <2> QED BY <2>1, <2>2 DEF WritesInv
<1>22. ASSUME NEW r \in Requests, ResumeUnpaused(r)
      PROVE  WritesInv'
  <2>1. \A s \in Requests : s # r => pc[s] \notin {"tool", "write"} /\ pc'[s] = pc[s]
    BY <1>22, <1>0
    DEF ResumeUnpaused, TypeOK, LocalOK, GoTo, RunExclusive, RunPoints
  <2>2. pc'[r] \in {"tool", "agent"} /\ (pc'[r] = "tool" => thread.at = "tools")
    BY <1>22 DEF ResumeUnpaused, TypeOK, LocalOK, GoTo
  <2>3. UNCHANGED <<thread, op, writes>>
    BY <1>22 DEF ResumeUnpaused, agent, history
  <2> QED
    BY <2>1, <2>2, <2>3 DEF WritesInv, WriteRecorded, OwnWriteOnce
<1>23. ASSUME NEW r \in Requests, ReturnExisting(r)
      PROVE  WritesInv'
  <2>1. WriteRecorded'
    BY <1>23, <1>0
    DEF ReturnExisting, TypeOK, LocalOK, AgentOK, HistoryOK, GoTo, RunExclusive,
        RunPoints, WriteRecorded, OwnWriteOnce, KnownId, history, FindExisting,
        Threads, IdleThread, TargetPoints, ResumePoints
  <2>2. OwnWriteOnce'
    BY <1>23, <1>0
    DEF ReturnExisting, TypeOK, LocalOK, AgentOK, HistoryOK, RunExclusive,
        RunPoints, WriteRecorded, OwnWriteOnce, KnownId, history, FindExisting,
        Threads, IdleThread, TargetPoints, ResumePoints
  <2> QED BY <2>1, <2>2 DEF WritesInv
<1>24. ASSUME NEW r \in Requests, StartOperation(r)
      PROVE  WritesInv'
  <2>1. WriteRecorded'
    BY <1>24, <1>0
    DEF StartOperation, TypeOK, LocalOK, AgentOK, HistoryOK, GoTo, RunExclusive,
        RunPoints, WriteRecorded, OwnWriteOnce, KnownId, history, FindExisting,
        Threads, IdleThread, TargetPoints, ResumePoints
  <2>2. OwnWriteOnce'
    BY <1>24, <1>0
    DEF StartOperation, TypeOK, LocalOK, AgentOK, HistoryOK, RunExclusive,
        RunPoints, WriteRecorded, OwnWriteOnce, KnownId, history, FindExisting,
        Threads, IdleThread, TargetPoints, ResumePoints
  <2> QED BY <2>1, <2>2 DEF WritesInv
<1>25. ASSUME NEW r \in Requests, SendWrite(r)
      PROVE  WritesInv'
  <2> DEFINE b == target[r]
             c == thread.call
  <2>1. b \in Approvals /\ c \in Approvals /\ op[b][c] # "none"
    BY <1>25
    DEF SendWrite, TypeOK, LocalOK, AgentOK, Threads, IdleThread, TargetPoints,
        ResumePoints, WriteRecorded
  <2>2. writes' = [writes EXCEPT ![b][c] = Bump(writes[b][c], WriteCap)] /\ UNCHANGED <<op, thread>>
    BY <1>25 DEF SendWrite, TypeOK, HistoryOK, agent
  <2>3. \A s \in Requests : pc'[s] \in {"tool", "write"} => FALSE
    BY <1>25, <1>0 DEF SendWrite, TypeOK, LocalOK, GoTo, RunExclusive, RunPoints
  <2>4. \A d, e \in Approvals : writes'[d][e] = writes[d][e] \/ (d = b /\ e = c)
    BY <2>2 DEF TypeOK, HistoryOK
  <2>5. WriteRecorded'
    BY <2>1, <2>2, <2>3, <2>4 DEF WriteRecorded
  <2>6. KnownId(b, c) => writes'[b][c] <= 1
    BY <1>25, <2>1, <2>2, CapAssumption
    DEF SendWrite, WriteRecorded, TypeOK, HistoryOK, Bump
  <2>7. OwnWriteOnce'
    BY <2>4, <2>6 DEF OwnWriteOnce, KnownId
  <2> QED BY <2>5, <2>7 DEF WritesInv
<1>26. ASSUME NEW r \in Requests, CreateTaskRecord(r)
      PROVE  WritesInv'
  BY <1>26, QuietWrites DEF CreateTaskRecord, TypeOK, LocalOK, GoTo, history
<1>27. ASSUME NEW r \in Requests, CompleteOperation(r)
      PROVE  WritesInv'
  <2>1. WriteRecorded'
    BY <1>27, <1>0
    DEF CompleteOperation, TypeOK, LocalOK, AgentOK, HistoryOK, GoTo, RunExclusive,
        RunPoints, WriteRecorded, OwnWriteOnce, KnownId, history, Threads,
        IdleThread, TargetPoints, ResumePoints
  <2>2. OwnWriteOnce'
    BY <1>27, <1>0
    DEF CompleteOperation, TypeOK, LocalOK, AgentOK, HistoryOK, RunExclusive,
        RunPoints, WriteRecorded, OwnWriteOnce, KnownId, history, Threads,
        IdleThread, TargetPoints, ResumePoints
  <2> QED BY <2>1, <2>2 DEF WritesInv
<1>28. ASSUME NEW r \in Requests, ToolRaises(r)
      PROVE  WritesInv'
  BY <1>28, QuietWrites DEF ToolRaises, TypeOK, LocalOK, GoTo, agent, history
<1>29. ASSUME NEW r \in Requests, AgentAnswers(r)
      PROVE  WritesInv'
  <2>1. WriteRecorded'
    BY <1>29, <1>0, AnswerWrites
    DEF AgentAnswers, TypeOK, LocalOK, AgentOK, HistoryOK, GoTo, RunExclusive,
        RunPoints, WriteRecorded, OwnWriteOnce, KnownId, history, Threads,
        IdleThread, TargetPoints, ResumePoints
  <2>2. OwnWriteOnce'
    BY <1>29, <1>0
    DEF AgentAnswers, TypeOK, LocalOK, AgentOK, HistoryOK, RunExclusive, RunPoints,
        WriteRecorded, OwnWriteOnce, KnownId, history, Threads, IdleThread,
        TargetPoints, ResumePoints
  <2> QED BY <2>1, <2>2 DEF WritesInv
<1>30. ASSUME NEW r \in Requests, NEW c \in Approvals, AgentPauses(r, c)
      PROVE  WritesInv'
  <2>1. WriteRecorded'
    BY <1>30, <1>0
    DEF AgentPauses, TypeOK, LocalOK, AgentOK, HistoryOK, GoTo, RunExclusive,
        RunPoints, WriteRecorded, OwnWriteOnce, KnownId, history, Threads,
        IdleThread, TargetPoints, ResumePoints
  <2>2. OwnWriteOnce'
    BY <1>30, <1>0
    DEF AgentPauses, TypeOK, LocalOK, AgentOK, HistoryOK, RunExclusive, RunPoints,
        WriteRecorded, OwnWriteOnce, KnownId, history, Threads, IdleThread,
        TargetPoints, ResumePoints
  <2> QED BY <2>1, <2>2 DEF WritesInv
<1>31. ASSUME NEW r \in Requests, AgentFails(r)
      PROVE  WritesInv'
  <2>1. WriteRecorded'
    BY <1>31, <1>0, AnswerWrites
    DEF AgentFails, TypeOK, LocalOK, AgentOK, HistoryOK, GoTo, RunExclusive,
        RunPoints, WriteRecorded, OwnWriteOnce, KnownId, history, Threads,
        IdleThread, TargetPoints, ResumePoints
  <2>2. OwnWriteOnce'
    BY <1>31, <1>0
    DEF AgentFails, TypeOK, LocalOK, AgentOK, HistoryOK, RunExclusive, RunPoints,
        WriteRecorded, OwnWriteOnce, KnownId, history, Threads, IdleThread,
        TargetPoints, ResumePoints
  <2> QED BY <2>1, <2>2 DEF WritesInv
<1>32. ASSUME NEW r \in Requests, RecordFailure(r)
      PROVE  WritesInv'
  BY <1>32, AnswerWrites, QuietWrites
  DEF RecordFailure, TypeOK, LocalOK, GoTo, CleanupDone, agent
<1>33. ASSUME NEW r \in Requests, RecordSuccess(r)
      PROVE  WritesInv'
  BY <1>33, AnswerWrites, QuietWrites
  DEF RecordSuccess, TypeOK, LocalOK, GoTo, CleanupDone, agent, history
<1>34. ASSUME NEW r \in Requests, EmitNotice(r)
      PROVE  WritesInv'
  BY <1>34, QuietWrites DEF EmitNotice, TypeOK, LocalOK, GoTo, agent
<1>35. ASSUME NEW r \in Requests, MarkNotice(r)
      PROVE  WritesInv'
  BY <1>35, QuietWrites DEF MarkNotice, TypeOK, LocalOK, GoTo, agent, history
<1>36. ASSUME NEW r \in Requests, CheckNoPending(r)
      PROVE  WritesInv'
  BY <1>36, AnswerWrites, QuietWrites
  DEF CheckNoPending, TypeOK, LocalOK, GoTo, agent, history
<1>37. ASSUME NEW r \in Requests, CreateApproval(r)
      PROVE  WritesInv'
  BY <1>37, AnswerWrites, QuietWrites
  DEF CreateApproval, TypeOK, LocalOK, GoTo, agent, history
<1>38. ASSUME NEW a \in Approvals, TtlElapses(a) PROVE  WritesInv'
  BY <1>38, QuietWrites DEF TtlElapses, agent, local, history
<1>39. CASE Crash
  BY <1>39, QuietWrites DEF Crash, agent, history
<1>40. CASE UNCHANGED vars
  BY <1>40, QuietWrites DEF vars, agent, local, history
<1> QED
  BY <1>1, <1>2, <1>3, <1>4, <1>5, <1>6, <1>7, <1>8, <1>9, <1>10, <1>11, <1>12,
     <1>13, <1>14, <1>15, <1>16, <1>17, <1>18, <1>19, <1>20, <1>21, <1>22, <1>23,
     <1>24, <1>25, <1>26, <1>27, <1>28, <1>29, <1>30, <1>31, <1>32, <1>33, <1>34,
     <1>35, <1>36, <1>37, <1>38, <1>39, <1>40
  DEF Next, Arrive, Serve, Sweep, Decide, Run, Record

\* A step that moves neither the thread nor the records, and brings no request
\* past the resume of its approval.
LEMMA QuietPause ==
  ASSUME PauseInv, UNCHANGED <<thread, records>>,
         \A s \in Requests : Resuming(s)' /\ pc'[s] \notin {"resume", "failed"} =>
                     Resuming(s) /\ pc[s] \notin {"resume", "failed"} /\ target'[s] = target[s]
  PROVE  PauseInv'
  BY DEF PauseInv, PauseMoved, ExpiredPauseCleared, records

\* Such as a reply.
LEMMA QuietPauseAnswer ==
  ASSUME TypeOK, PauseInv, UNCHANGED <<thread, records>>,
         NEW r \in Requests, Answer(r)
  PROVE  PauseInv'
  BY QuietPause DEF TypeOK, LocalOK, Answer, GoTo, Resuming, ResumePoints

\* Every step keeps a cleaned expiry without a pause.
LEMMA PauseStep == RecordsInv /\ PauseInv /\ [Next]_vars => PauseInv'
<1> SUFFICES ASSUME RecordsInv, PauseInv, [Next]_vars
             PROVE   PauseInv'
  OBVIOUS
<1>0. RunExclusive
  BY DEF RecordsInv, LockHeld, RunExclusive
<1> USE SentinelAssumption DEF RecordsInv, PauseInv
<1>1. ASSUME NEW r \in Requests, ReceiveMessage(r)
      PROVE  PauseInv'
  BY <1>1, QuietPause
  DEF ReceiveMessage, TypeOK, LocalOK, GoTo, Resuming, ResumePoints, agent
<1>2. ASSUME NEW r \in Requests, ReceiveQuery(r)
      PROVE  PauseInv'
  BY <1>2, QuietPause
  DEF ReceiveQuery, TypeOK, LocalOK, GoTo, Resuming, ResumePoints, agent
<1>3. ASSUME NEW r \in Requests, NEW a \in Approvals, NEW d \in Decisions, ReceiveDecision(r, a, d)
      PROVE  PauseInv'
  BY <1>3, QuietPause
  DEF ReceiveDecision, TypeOK, LocalOK, GoTo, Resuming, ResumePoints, agent
<1>4. ASSUME NEW r \in Requests, NEW a \in Approvals, SweepExpire(r, a)
      PROVE  PauseInv'
  <2>1. PauseMoved'
    BY <1>4, <1>0
    DEF SweepExpire, TypeOK, LocalOK, RecordsOK, AgentOK, GoTo, RunExclusive,
        RunPoints, Resuming, ResumePoints, PauseMoved, Threads, IdleThread, agent,
        AppendApproval, Copies, CopyAgrees, ExpireRecord
  <2>2. ExpiredPauseCleared'
    BY <1>4, <1>0
    DEF SweepExpire, TypeOK, LocalOK, RecordsOK, AgentOK, RunExclusive, RunPoints,
        Resuming, ResumePoints, PauseMoved, Threads, IdleThread, agent,
        AppendApproval, Copies, CopyAgrees, ExpireRecord, ExpiredPauseCleared,
        LockHeld
  <2> QED BY <2>1, <2>2 DEF PauseInv
<1>5. ASSUME NEW r \in Requests, NEW a \in Approvals, SweepRetry(r, a)
      PROVE  PauseInv'
  BY <1>5, QuietPause
  DEF SweepRetry, TypeOK, LocalOK, GoTo, Resuming, ResumePoints, agent
<1>6. ASSUME NEW r \in Requests, NEW a \in Approvals, SweepSkip(r, a)
      PROVE  PauseInv'
  BY <1>6, QuietPause
  DEF SweepSkip, TypeOK, LocalOK, GoTo, Resuming, ResumePoints, agent
<1>7. ASSUME NEW r \in Requests, SweepDone(r)
      PROVE  PauseInv'
  BY <1>7, QuietPauseAnswer, QuietPause
  DEF SweepDone, TypeOK, LocalOK, GoTo, Resuming, ResumePoints, agent
<1>8. ASSUME NEW r \in Requests, RefuseMessage(r)
      PROVE  PauseInv'
  BY <1>8, QuietPauseAnswer DEF RefuseMessage, agent
<1>9. ASSUME NEW r \in Requests, AdmitMessage(r)
      PROVE  PauseInv'
  BY <1>9, QuietPause
  DEF AdmitMessage, TypeOK, LocalOK, GoTo, Resuming, ResumePoints, agent, CopyAgrees
<1>10. ASSUME NEW r \in Requests, CleanupExpired(r)
      PROVE  PauseInv'
  BY <1>10, QuietPauseAnswer, QuietPause
  DEF CleanupExpired, TypeOK, LocalOK, GoTo, Resuming, ResumePoints, agent
<1>11. ASSUME NEW r \in Requests, DecisionLocked(r)
      PROVE  PauseInv'
  BY <1>11, QuietPauseAnswer DEF DecisionLocked, agent
<1>12. ASSUME NEW r \in Requests, DecideRaced(r)
      PROVE  PauseInv'
  BY <1>12, QuietPauseAnswer, QuietPause
  DEF DecideRaced, TypeOK, LocalOK, GoTo, Resuming, ResumePoints, agent
<1>13. ASSUME NEW r \in Requests, DecideExpired(r)
      PROVE  PauseInv'
  <2>1. PauseMoved'
    BY <1>13, <1>0
    DEF DecideExpired, TypeOK, LocalOK, RecordsOK, AgentOK, GoTo, RunExclusive,
        RunPoints, Resuming, ResumePoints, PauseMoved, Threads, IdleThread, agent,
        AppendApproval, Copies, CopyAgrees, ExpireRecord
  <2>2. ExpiredPauseCleared'
    BY <1>13, <1>0
    DEF DecideExpired, TypeOK, LocalOK, RecordsOK, AgentOK, RunExclusive, RunPoints,
        Resuming, ResumePoints, PauseMoved, Threads, IdleThread, agent,
        AppendApproval, Copies, CopyAgrees, ExpireRecord, ExpiredPauseCleared,
        LockHeld
  <2> QED BY <2>1, <2>2 DEF PauseInv
<1>14. ASSUME NEW r \in Requests, DecideConflict(r)
      PROVE  PauseInv'
  BY <1>14, QuietPauseAnswer DEF DecideConflict, agent
<1>15. ASSUME NEW r \in Requests, DecidePending(r)
      PROVE  PauseInv'
  <2>1. target[r] \in Approvals /\ decision[r] \in Decisions /\ lock = NoRequest
    BY <1>15
    DEF DecidePending, AcquireRunLock, TypeOK, LocalOK, TargetPoints, CopyAgrees
  <2>2. status' = [status EXCEPT ![target[r]] = decision[r]] /\ resumeFailed' = [resumeFailed EXCEPT ![target[r]] = FALSE]
    BY <1>15 DEF DecidePending, AppendApproval, DecidedRecord
  <2>3. thread' = thread /\ pc' = [pc EXCEPT ![r] = "resume"]
    BY <1>15 DEF DecidePending, GoTo, agent
  <2>4. \A s \in Requests : ~Resuming(s)
    BY <2>1 DEF LockHeld, Resuming, ResumePoints, RunPoints
  <2>5. PauseMoved'
    BY <1>15, <2>3, <2>4 DEF DecidePending, PauseMoved, Resuming, TypeOK, LocalOK
  <2>6. ExpiredPauseCleared'
    BY <2>1, <2>2, <2>3 DEF ExpiredPauseCleared, TypeOK, RecordsOK, Decisions
  <2> QED BY <2>5, <2>6 DEF PauseInv
<1>16. ASSUME NEW r \in Requests, TerminalConflict(r)
      PROVE  PauseInv'
  BY <1>16, QuietPauseAnswer DEF TerminalConflict, agent
<1>17. ASSUME NEW r \in Requests, TerminalRetry(r)
      PROVE  PauseInv'
  BY <1>17, QuietPause
  DEF TerminalRetry, TypeOK, LocalOK, GoTo, Resuming, ResumePoints, agent
<1>18. ASSUME NEW r \in Requests, ResumeTerminal(r)
      PROVE  PauseInv'
  BY <1>18, QuietPause
  DEF ResumeTerminal, TypeOK, LocalOK, GoTo, Resuming, ResumePoints, agent
<1>19. ASSUME NEW r \in Requests, TerminalReport(r)
      PROVE  PauseInv'
  BY <1>19, QuietPauseAnswer, QuietPause
  DEF TerminalReport, TypeOK, LocalOK, GoTo, Resuming, ResumePoints, agent
<1>20. ASSUME NEW r \in Requests, ResumeUnreachable(r)
      PROVE  PauseInv'
  BY <1>20, QuietPause
  DEF ResumeUnreachable, TypeOK, LocalOK, GoTo, Resuming, ResumePoints, agent
<1>21. ASSUME NEW r \in Requests, ResumePaused(r)
      PROVE  PauseInv'
  <2>1. PauseMoved'
    BY <1>21, <1>0
    DEF ResumePaused, TypeOK, LocalOK, RecordsOK, AgentOK, GoTo, RunExclusive,
        RunPoints, Resuming, ResumePoints, PauseMoved, Threads, IdleThread, agent,
        records
  <2>2. ExpiredPauseCleared'
    BY <1>21, <1>0
    DEF ResumePaused, TypeOK, LocalOK, RecordsOK, AgentOK, RunExclusive, RunPoints,
        Resuming, ResumePoints, PauseMoved, Threads, IdleThread, agent, records,
        ExpiredPauseCleared, LockHeld
  <2> QED BY <2>1, <2>2 DEF PauseInv
<1>22. ASSUME NEW r \in Requests, ResumeUnpaused(r)
      PROVE  PauseInv'
  <2>1. PauseMoved'
    BY <1>22, <1>0
    DEF ResumeUnpaused, TypeOK, LocalOK, RecordsOK, AgentOK, GoTo, RunExclusive,
        RunPoints, Resuming, ResumePoints, PauseMoved, Threads, IdleThread, agent,
        records
  <2>2. ExpiredPauseCleared'
    BY <1>22, <1>0
    DEF ResumeUnpaused, TypeOK, LocalOK, RecordsOK, AgentOK, RunExclusive,
        RunPoints, Resuming, ResumePoints, PauseMoved, Threads, IdleThread, agent,
        records, ExpiredPauseCleared, LockHeld
  <2> QED BY <2>1, <2>2 DEF PauseInv
<1>23. ASSUME NEW r \in Requests, ReturnExisting(r)
      PROVE  PauseInv'
  <2>1. PauseMoved'
    BY <1>23, <1>0
    DEF ReturnExisting, TypeOK, LocalOK, RecordsOK, AgentOK, GoTo, RunExclusive,
        RunPoints, Resuming, ResumePoints, PauseMoved, Threads, IdleThread, agent,
        records
  <2>2. ExpiredPauseCleared'
    BY <1>23, <1>0
    DEF ReturnExisting, TypeOK, LocalOK, RecordsOK, AgentOK, RunExclusive,
        RunPoints, Resuming, ResumePoints, PauseMoved, Threads, IdleThread, agent,
        records, ExpiredPauseCleared, LockHeld
  <2> QED BY <2>1, <2>2 DEF PauseInv
<1>24. ASSUME NEW r \in Requests, StartOperation(r)
      PROVE  PauseInv'
  BY <1>24, QuietPause
  DEF StartOperation, TypeOK, LocalOK, GoTo, Resuming, ResumePoints
<1>25. ASSUME NEW r \in Requests, SendWrite(r)
      PROVE  PauseInv'
  BY <1>25, QuietPause
  DEF SendWrite, TypeOK, LocalOK, GoTo, Resuming, ResumePoints, agent
<1>26. ASSUME NEW r \in Requests, CreateTaskRecord(r)
      PROVE  PauseInv'
  BY <1>26, QuietPause
  DEF CreateTaskRecord, TypeOK, LocalOK, GoTo, Resuming, ResumePoints
<1>27. ASSUME NEW r \in Requests, CompleteOperation(r)
      PROVE  PauseInv'
  <2>1. PauseMoved'
    BY <1>27, <1>0
    DEF CompleteOperation, TypeOK, LocalOK, RecordsOK, AgentOK, GoTo, RunExclusive,
        RunPoints, Resuming, ResumePoints, PauseMoved, Threads, IdleThread, agent,
        records
  <2>2. ExpiredPauseCleared'
    BY <1>27, <1>0
    DEF CompleteOperation, TypeOK, LocalOK, RecordsOK, AgentOK, RunExclusive,
        RunPoints, Resuming, ResumePoints, PauseMoved, Threads, IdleThread, agent,
        records, ExpiredPauseCleared, LockHeld
  <2> QED BY <2>1, <2>2 DEF PauseInv
<1>28. ASSUME NEW r \in Requests, ToolRaises(r)
      PROVE  PauseInv'
  BY <1>28, QuietPause
  DEF ToolRaises, TypeOK, LocalOK, GoTo, Resuming, ResumePoints, agent
<1>29. ASSUME NEW r \in Requests, AgentAnswers(r)
      PROVE  PauseInv'
  <2>1. PauseMoved'
    BY <1>29, <1>0
    DEF AgentAnswers, TypeOK, LocalOK, RecordsOK, AgentOK, GoTo, RunExclusive,
        RunPoints, Resuming, ResumePoints, PauseMoved, Threads, IdleThread, agent,
        Answer, records
  <2>2. ExpiredPauseCleared'
    BY <1>29, <1>0
    DEF AgentAnswers, TypeOK, LocalOK, RecordsOK, AgentOK, RunExclusive, RunPoints,
        Resuming, ResumePoints, PauseMoved, Threads, IdleThread, agent, Answer,
        records, ExpiredPauseCleared, LockHeld
  <2> QED BY <2>1, <2>2 DEF PauseInv
<1>30. ASSUME NEW r \in Requests, NEW c \in Approvals, AgentPauses(r, c)
      PROVE  PauseInv'
  <2>1. PauseMoved'
    BY <1>30, <1>0
    DEF AgentPauses, TypeOK, LocalOK, RecordsOK, AgentOK, GoTo, RunExclusive,
        RunPoints, Resuming, ResumePoints, PauseMoved, Threads, IdleThread, agent,
        Fresh, CopyAgrees, Terminal, Decisions, records
  <2>2. ExpiredPauseCleared'
    BY <1>30, <1>0
    DEF AgentPauses, TypeOK, LocalOK, RecordsOK, AgentOK, RunExclusive, RunPoints,
        Resuming, ResumePoints, PauseMoved, Threads, IdleThread, agent, Fresh,
        CopyAgrees, Terminal, Decisions, records, ExpiredPauseCleared, LockHeld
  <2> QED BY <2>1, <2>2 DEF PauseInv
<1>31. ASSUME NEW r \in Requests, AgentFails(r)
      PROVE  PauseInv'
  <2>1. PauseMoved'
    BY <1>31, <1>0
    DEF AgentFails, TypeOK, LocalOK, RecordsOK, AgentOK, GoTo, RunExclusive,
        RunPoints, Resuming, ResumePoints, PauseMoved, Threads, IdleThread, agent,
        Answer, records
  <2>2. ExpiredPauseCleared'
    BY <1>31, <1>0
    DEF AgentFails, TypeOK, LocalOK, RecordsOK, AgentOK, RunExclusive, RunPoints,
        Resuming, ResumePoints, PauseMoved, Threads, IdleThread, agent, Answer,
        records, ExpiredPauseCleared, LockHeld
  <2> QED BY <2>1, <2>2 DEF PauseInv
<1>32. ASSUME NEW r \in Requests, RecordFailure(r)
      PROVE  PauseInv'
  <2>1. target[r] \in Approvals /\ copy[r] \in Copies /\ copy[r].status = status[target[r]]
    BY <1>32
    DEF RecordFailure, TypeOK, LocalOK, TargetPoints, ResumePoints, Resuming,
        CopyAgrees
  <2>2. status' = status /\ thread' = thread
    BY <1>32, <2>1
    DEF RecordFailure, AppendApproval, TypeOK, RecordsOK, Copies, records, agent
  <2>3. resumeFailed' \in {resumeFailed, [resumeFailed EXCEPT ![target[r]] = TRUE]}
    BY <1>32, <2>1 DEF RecordFailure, AppendApproval, Copies, records
  <2>4. \A s \in Requests \ {r} : pc'[s] \notin RunPoints
    BY <1>32, <1>0
    DEF RecordFailure, CleanupDone, Answer, GoTo, TypeOK, LocalOK, RunExclusive,
        Resuming, ResumePoints, RunPoints
  <2>5. pc'[r] \in {"idle", "sweep", "notice", "follow"}
    BY <1>32 DEF RecordFailure, CleanupDone, Answer, GoTo, TypeOK, LocalOK
  <2>6. PauseMoved'
    <3>1. ASSUME NEW s \in Requests
          PROVE  pc'[s] \notin ResumePoints /\ pc'[s] # "agent"
      BY <2>4, <2>5 DEF ResumePoints, RunPoints
    <3> QED
      BY <3>1 DEF PauseMoved, Resuming
  <2>7. ExpiredPauseCleared'
    BY <2>1, <2>2, <2>3 DEF ExpiredPauseCleared, TypeOK, RecordsOK
  <2> QED BY <2>6, <2>7 DEF PauseInv
<1>33. ASSUME NEW r \in Requests, RecordSuccess(r)
      PROVE  PauseInv'
  <2>1. target[r] \in Approvals /\ copy[r] \in Copies /\ copy[r].status = status[target[r]]
    BY <1>33
    DEF RecordSuccess, TypeOK, LocalOK, TargetPoints, ResumePoints, Resuming,
        CopyAgrees
  <2>2. status' = status /\ thread' = thread
    BY <1>33, <2>1
    DEF RecordSuccess, AppendApproval, TypeOK, RecordsOK, Copies, records, agent
  <2>3. resumeFailed' \in {resumeFailed, [resumeFailed EXCEPT ![target[r]] = FALSE]}
    BY <1>33, <2>1 DEF RecordSuccess, AppendApproval, Copies, records
  <2>4. \A s \in Requests \ {r} : pc'[s] \notin RunPoints
    BY <1>33, <1>0
    DEF RecordSuccess, CleanupDone, Answer, GoTo, TypeOK, LocalOK, RunExclusive,
        Resuming, ResumePoints, RunPoints
  <2>5. pc'[r] \in {"idle", "sweep", "notice", "follow"}
    BY <1>33 DEF RecordSuccess, CleanupDone, Answer, GoTo, TypeOK, LocalOK
  <2>6. PauseMoved'
    <3>1. ASSUME NEW s \in Requests
          PROVE  pc'[s] \notin ResumePoints /\ pc'[s] # "agent"
      BY <2>4, <2>5 DEF ResumePoints, RunPoints
    <3> QED
      BY <3>1 DEF PauseMoved, Resuming
  <2>7. ExpiredPauseCleared'
    BY <1>33, <2>1, <2>2, <2>3
    DEF RecordSuccess, Resuming, ResumePoints, PauseMoved, ExpiredPauseCleared,
        TypeOK, RecordsOK
  <2> QED BY <2>6, <2>7 DEF PauseInv
<1>34. ASSUME NEW r \in Requests, EmitNotice(r)
      PROVE  PauseInv'
  BY <1>34, QuietPause
  DEF EmitNotice, TypeOK, LocalOK, GoTo, Resuming, ResumePoints, agent
<1>35. ASSUME NEW r \in Requests, MarkNotice(r)
      PROVE  PauseInv'
  <2>1. PauseMoved'
    BY <1>35, <1>0
    DEF MarkNotice, TypeOK, LocalOK, RecordsOK, AgentOK, GoTo, RunExclusive,
        RunPoints, Resuming, ResumePoints, PauseMoved, Threads, IdleThread, agent,
        AppendApproval, Copies, CopyAgrees
  <2>2. ExpiredPauseCleared'
    BY <1>35, <1>0
    DEF MarkNotice, TypeOK, LocalOK, RecordsOK, AgentOK, RunExclusive, RunPoints,
        Resuming, ResumePoints, PauseMoved, Threads, IdleThread, agent,
        AppendApproval, Copies, CopyAgrees, ExpiredPauseCleared, LockHeld
  <2> QED BY <2>1, <2>2 DEF PauseInv
<1>36. ASSUME NEW r \in Requests, CheckNoPending(r)
      PROVE  PauseInv'
  BY <1>36, QuietPauseAnswer, QuietPause
  DEF CheckNoPending, TypeOK, LocalOK, GoTo, Resuming, ResumePoints, agent
<1>37. ASSUME NEW r \in Requests, CreateApproval(r)
      PROVE  PauseInv'
  <2>1. PauseMoved'
    BY <1>37, <1>0
    DEF CreateApproval, TypeOK, LocalOK, RecordsOK, AgentOK, GoTo, RunExclusive,
        RunPoints, Resuming, ResumePoints, PauseMoved, Threads, IdleThread, agent,
        AppendApproval, Copies, CopyAgrees, Answer
  <2>2. ExpiredPauseCleared'
    BY <1>37, <1>0
    DEF CreateApproval, TypeOK, LocalOK, RecordsOK, AgentOK, RunExclusive,
        RunPoints, Resuming, ResumePoints, PauseMoved, Threads, IdleThread, agent,
        AppendApproval, Copies, CopyAgrees, Answer, ExpiredPauseCleared, LockHeld
  <2> QED BY <2>1, <2>2 DEF PauseInv
<1>38. ASSUME NEW a \in Approvals, TtlElapses(a) PROVE  PauseInv'
  BY <1>38, QuietPause DEF TtlElapses, agent, local, Resuming
<1>39. CASE Crash
  BY <1>39, QuietPause DEF Crash, agent, Resuming, ResumePoints
<1>40. CASE UNCHANGED vars
  BY <1>40, QuietPause DEF vars, agent, local, Resuming
<1> QED
  BY <1>1, <1>2, <1>3, <1>4, <1>5, <1>6, <1>7, <1>8, <1>9, <1>10, <1>11, <1>12,
     <1>13, <1>14, <1>15, <1>16, <1>17, <1>18, <1>19, <1>20, <1>21, <1>22, <1>23,
     <1>24, <1>25, <1>26, <1>27, <1>28, <1>29, <1>30, <1>31, <1>32, <1>33, <1>34,
     <1>35, <1>36, <1>37, <1>38, <1>39, <1>40
  DEF Next, Arrive, Serve, Sweep, Decide, Run, Record

\* s keeps its locals and neither the thread nor the records moved.
LEMMA SameCalm ==
  ASSUME UNCHANGED <<thread, status, resumeFailed>>, NEW s \in Requests, CalmRun(s),
         pc'[s] = pc[s], target'[s] = target[s], copy'[s] = copy[s], nextCall'[s] = nextCall[s]
  PROVE  CalmRun(s)'
  BY DEF CalmRun, MayOpen, Resuming, HasPending, Uncleared

\* s is outside the run and carries no call.
LEMMA OutsideCalm ==
  ASSUME NEW s \in Requests, CalmRun(s), pc[s] \notin RunPoints, nextCall[s] = NoApproval,
         pc'[s] = pc[s], target'[s] = target[s], copy'[s] = copy[s], nextCall'[s] = nextCall[s]
  PROVE  CalmRun(s)'
  BY DEF CalmRun, MayOpen, Resuming, ResumePoints, RunPoints

\* A request that answers is out of the run; the others keep their locals.
LEMMA AnswerCalm ==
  ASSUME TypeOK, NEW r \in Requests, Answer(r)
  PROVE  /\ CalmRun(r)'
         /\ \A s \in Requests \ {r} : pc'[s] = pc[s] /\ target'[s] = target[s] /\ copy'[s] = copy[s] /\ nextCall'[s] = nextCall[s]
  BY DEF TypeOK, LocalOK, Answer, GoTo, CalmRun, MayOpen, Resuming, ResumePoints,
         NoCopy, Decisions

\* A request that takes up the cleanup of an expired approval.
LEMMA CleanupCalm ==
  ASSUME NEW r \in Requests, pc'[r] = "resume", copy'[r].status = "expired",
         nextCall'[r] = NoApproval, ~HasPending'
  PROVE  CalmRun(r)'
  BY DEF CalmRun, MayOpen, Resuming, ResumePoints, Decisions

\* Every step before the first failed resume keeps runs and records calm.
LEMMA CalmStep == RecordsInv /\ CalmInv /\ [Next]_vars /\ resumeTrouble = {} => CalmInv'
<1> SUFFICES ASSUME RecordsInv, CalmInv, [Next]_vars,
                    resumeTrouble = {}, resumeTrouble' = {}
             PROVE  CalmInv'
  BY DEF CalmInv, Undisturbed, PendingKeepsPause, ConfirmedWrites
<1>0. RunExclusive
  BY DEF RecordsInv, LockHeld, RunExclusive
<1>01. CalmRecords /\ (\A s \in Requests : CalmRun(s)) /\ PendingKeepsPause /\ ConfirmedWrites
  BY DEF CalmInv, Undisturbed
<1> USE SentinelAssumption DEF RecordsInv
<1>1. ASSUME NEW r \in Requests, ReceiveMessage(r)
      PROVE  CalmInv'
  <2>1. CalmRecords'
    BY <1>1, <1>01
    DEF ReceiveMessage, TypeOK, LocalOK, AcquireRunLock, agent, records, history,
        CalmRecords, Uncleared, HasPending, CalmRun, MayOpen, Resuming, ResumePoints
  <2>2. CalmRun(r)'
    BY <1>1, <1>01
    DEF ReceiveMessage, TypeOK, LocalOK, AcquireRunLock, agent, records, history,
        GoTo, CalmRecords, CalmRun, Uncleared, HasPending, MayOpen, Resuming,
        ResumePoints, CopyAgrees, Decisions
  <2>3. \A s \in Requests \ {r} : CalmRun(s)'
    BY <1>1, <1>0, <1>01, SameCalm
    DEF ReceiveMessage, TypeOK, LocalOK, AcquireRunLock, agent, records, GoTo
  <2>4. PendingKeepsPause'
    BY <1>1, <1>01 DEF ReceiveMessage, agent, records, PendingKeepsPause
  <2>5. ConfirmedWrites'
    BY <1>1, <1>01 DEF ReceiveMessage, records, history, ConfirmedWrites
  <2> QED BY <2>1, <2>2, <2>3, <2>4, <2>5 DEF CalmInv, Undisturbed
<1>2. ASSUME NEW r \in Requests, ReceiveQuery(r)
      PROVE  CalmInv'
  <2>1. CalmRecords'
    BY <1>2, <1>01
    DEF ReceiveQuery, TypeOK, LocalOK, AcquireRunLock, agent, records, history,
        CalmRecords, Uncleared, HasPending, CalmRun, MayOpen, Resuming, ResumePoints
  <2>2. CalmRun(r)'
    BY <1>2, <1>01
    DEF ReceiveQuery, TypeOK, LocalOK, AcquireRunLock, agent, records, history,
        GoTo, CalmRecords, CalmRun, Uncleared, HasPending, MayOpen, Resuming,
        ResumePoints, CopyAgrees, Decisions
  <2>3. \A s \in Requests \ {r} : CalmRun(s)'
    BY <1>2, <1>0, <1>01, SameCalm
    DEF ReceiveQuery, TypeOK, LocalOK, AcquireRunLock, agent, records, GoTo
  <2>4. PendingKeepsPause'
    BY <1>2, <1>01 DEF ReceiveQuery, agent, records, PendingKeepsPause
  <2>5. ConfirmedWrites'
    BY <1>2, <1>01 DEF ReceiveQuery, records, history, ConfirmedWrites
  <2> QED BY <2>1, <2>2, <2>3, <2>4, <2>5 DEF CalmInv, Undisturbed
<1>3. ASSUME NEW r \in Requests, NEW a \in Approvals, NEW d \in Decisions, ReceiveDecision(r, a, d)
      PROVE  CalmInv'
  <2>1. CalmRecords'
    BY <1>3, <1>01
    DEF ReceiveDecision, TypeOK, LocalOK, RecordsOK, Copies, Latest, agent, records,
        history, CalmRecords, Uncleared, HasPending, CalmRun, MayOpen, Resuming,
        ResumePoints
  <2>2. CalmRun(r)'
    BY <1>3, <1>01
    DEF ReceiveDecision, TypeOK, LocalOK, RecordsOK, Copies, Latest, agent, records,
        history, GoTo, CalmRecords, CalmRun, Uncleared, HasPending, MayOpen,
        Resuming, ResumePoints, CopyAgrees, Decisions, AtMostOnePending, LockHeld,
        Terminal
  <2>3. \A s \in Requests \ {r} : CalmRun(s)'
    BY <1>3, <1>0, <1>01, SameCalm
    DEF ReceiveDecision, TypeOK, LocalOK, agent, records, GoTo
  <2>4. PendingKeepsPause'
    BY <1>3, <1>01 DEF ReceiveDecision, agent, records, PendingKeepsPause
  <2>5. ConfirmedWrites'
    BY <1>3, <1>01 DEF ReceiveDecision, records, history, ConfirmedWrites
  <2> QED BY <2>1, <2>2, <2>3, <2>4, <2>5 DEF CalmInv, Undisturbed
<1>4. ASSUME NEW r \in Requests, NEW a \in Approvals, SweepExpire(r, a)
      PROVE  CalmInv'
  <2>1. CalmRecords' /\ ~HasPending'
    <3>1. a \in Approvals /\ status[a] = "pending"
      BY <1>4 DEF SweepExpire, Overdue, TypeOK, LocalOK, TargetPoints
    <3>2. status' = [status EXCEPT ![a] = "expired"] /\ resumeFailed' = [resumeFailed EXCEPT ![a] = TRUE]
      BY <1>4 DEF SweepExpire, AppendApproval, ExpireRecord
    <3>3. thread' = thread /\ thread.at = "paused"
      BY <1>4, <1>01, <3>1 DEF SweepExpire, agent, PendingKeepsPause
    <3>4. ~HasPending'
      BY <3>1, <3>2 DEF HasPending, AtMostOnePending, TypeOK, RecordsOK
    <3> QED
      BY <1>01, <3>1, <3>2, <3>3, <3>4 DEF CalmRecords, TypeOK, RecordsOK, Decisions
  <2>2. CalmRun(r)'
    BY <1>4, <1>01
    DEF SweepExpire, TypeOK, LocalOK, RecordsOK, Copies, ExpireRecord, Overdue,
        AppendApproval, agent, history, GoTo, CalmRecords, CalmRun, Uncleared,
        HasPending, MayOpen, Resuming, ResumePoints, CopyAgrees, Decisions,
        AtMostOnePending, LockHeld, Terminal, PendingKeepsPause, RecordsOK
  <2>3. \A s \in Requests \ {r} : CalmRun(s)'
    BY <1>4, <1>0, <1>01, OutsideCalm
    DEF SweepExpire, TypeOK, LocalOK, agent, GoTo, LockHeld, RunExclusive, RunPoints
  <2>4. PendingKeepsPause'
    BY <1>4, <1>01
    DEF SweepExpire, TypeOK, LocalOK, RecordsOK, Copies, ExpireRecord, Overdue,
        AppendApproval, agent, history, PendingKeepsPause, CalmRun, Resuming,
        ResumePoints, HasPending, CopyAgrees, Decisions
  <2>5. ConfirmedWrites'
    BY <1>4, <1>01
    DEF SweepExpire, TypeOK, LocalOK, RecordsOK, Copies, ExpireRecord, Overdue,
        AppendApproval, agent, history, ConfirmedWrites, CopyAgrees, Resuming,
        ResumePoints, HistoryOK, CalmRun, TypeOK, LocalOK
  <2> QED BY <2>1, <2>2, <2>3, <2>4, <2>5 DEF CalmInv, Undisturbed
<1>5. ASSUME NEW r \in Requests, NEW a \in Approvals, SweepRetry(r, a)
      PROVE  CalmInv'
  <2>1. CalmRecords'
    BY <1>5, <1>01
    DEF SweepRetry, TypeOK, LocalOK, RecordsOK, Copies, Latest, agent, records,
        history, CalmRecords, Uncleared, HasPending, CalmRun, MayOpen, Resuming,
        ResumePoints
  <2>2. CalmRun(r)'
    BY <1>5, <1>01
    DEF SweepRetry, TypeOK, LocalOK, RecordsOK, Copies, Latest, agent, records,
        history, GoTo, CalmRecords, CalmRun, Uncleared, HasPending, MayOpen,
        Resuming, ResumePoints, CopyAgrees, Decisions, AtMostOnePending, LockHeld,
        Terminal
  <2>3. \A s \in Requests \ {r} : CalmRun(s)'
    BY <1>5, <1>0, <1>01, SameCalm
    DEF SweepRetry, TypeOK, LocalOK, agent, records, GoTo
  <2>4. PendingKeepsPause'
    BY <1>5, <1>01 DEF SweepRetry, agent, records, PendingKeepsPause
  <2>5. ConfirmedWrites'
    BY <1>5, <1>01 DEF SweepRetry, records, history, ConfirmedWrites
  <2> QED BY <2>1, <2>2, <2>3, <2>4, <2>5 DEF CalmInv, Undisturbed
<1>6. ASSUME NEW r \in Requests, NEW a \in Approvals, SweepSkip(r, a)
      PROVE  CalmInv'
  <2>1. CalmRecords'
    BY <1>6, <1>01
    DEF SweepSkip, TypeOK, LocalOK, Overdue, agent, records, history, CalmRecords,
        Uncleared, HasPending, CalmRun, MayOpen, Resuming, ResumePoints
  <2>2. CalmRun(r)'
    BY <1>6, <1>01
    DEF SweepSkip, TypeOK, LocalOK, Overdue, agent, records, history, GoTo,
        CalmRecords, CalmRun, Uncleared, HasPending, MayOpen, Resuming,
        ResumePoints, CopyAgrees, Decisions
  <2>3. \A s \in Requests \ {r} : CalmRun(s)'
    BY <1>6, <1>0, <1>01, SameCalm
    DEF SweepSkip, TypeOK, LocalOK, agent, records, GoTo
  <2>4. PendingKeepsPause'
    BY <1>6, <1>01 DEF SweepSkip, agent, records, PendingKeepsPause
  <2>5. ConfirmedWrites'
    BY <1>6, <1>01 DEF SweepSkip, records, history, ConfirmedWrites
  <2> QED BY <2>1, <2>2, <2>3, <2>4, <2>5 DEF CalmInv, Undisturbed
<1>7. ASSUME NEW r \in Requests, SweepDone(r)
      PROVE  CalmInv'
  <2>1. CalmRecords'
    BY <1>7, <1>01
    DEF SweepDone, TypeOK, LocalOK, agent, records, history, Answer, CalmRecords,
        Uncleared, HasPending, CalmRun, MayOpen, Resuming, ResumePoints
  <2>2. CalmRun(r)'
    BY <1>7, <1>01, AnswerCalm
    DEF SweepDone, TypeOK, LocalOK, agent, records, history, Answer, GoTo,
        CalmRecords, CalmRun, Uncleared, HasPending, MayOpen, Resuming,
        ResumePoints, CopyAgrees, Decisions
  <2>3. \A s \in Requests \ {r} : CalmRun(s)'
    BY <1>7, <1>0, <1>01, SameCalm, AnswerCalm
    DEF SweepDone, TypeOK, LocalOK, agent, records, GoTo
  <2>4. PendingKeepsPause'
    BY <1>7, <1>01 DEF SweepDone, agent, records, PendingKeepsPause
  <2>5. ConfirmedWrites'
    BY <1>7, <1>01 DEF SweepDone, records, history, ConfirmedWrites
  <2> QED BY <2>1, <2>2, <2>3, <2>4, <2>5 DEF CalmInv, Undisturbed
<1>8. ASSUME NEW r \in Requests, RefuseMessage(r)
      PROVE  CalmInv'
  <2>1. CalmRecords'
    BY <1>8, <1>01
    DEF RefuseMessage, TypeOK, LocalOK, agent, records, history, Answer,
        CalmRecords, Uncleared, HasPending, CalmRun, MayOpen, Resuming, ResumePoints
  <2>2. CalmRun(r)'
    BY <1>8, <1>01, AnswerCalm
    DEF RefuseMessage, TypeOK, LocalOK, agent, records, history, Answer, GoTo,
        CalmRecords, CalmRun, Uncleared, HasPending, MayOpen, Resuming,
        ResumePoints, CopyAgrees, Decisions
  <2>3. \A s \in Requests \ {r} : CalmRun(s)'
    BY <1>8, <1>0, <1>01, SameCalm, AnswerCalm
    DEF RefuseMessage, TypeOK, LocalOK, agent, records, GoTo
  <2>4. PendingKeepsPause'
    BY <1>8, <1>01 DEF RefuseMessage, agent, records, PendingKeepsPause
  <2>5. ConfirmedWrites'
    BY <1>8, <1>01 DEF RefuseMessage, records, history, ConfirmedWrites
  <2> QED BY <2>1, <2>2, <2>3, <2>4, <2>5 DEF CalmInv, Undisturbed
<1>9. ASSUME NEW r \in Requests, AdmitMessage(r)
      PROVE  CalmInv'
  <2>1. CalmRecords'
    BY <1>9, <1>01
    DEF AdmitMessage, TypeOK, LocalOK, agent, records, history, CalmRecords,
        Uncleared, HasPending, CalmRun, MayOpen, Resuming, ResumePoints
  <2>2. CalmRun(r)'
    BY <1>9, <1>01
    DEF AdmitMessage, TypeOK, LocalOK, agent, records, history, GoTo, CalmRecords,
        CalmRun, Uncleared, HasPending, MayOpen, Resuming, ResumePoints, CopyAgrees,
        Decisions
  <2>3. \A s \in Requests \ {r} : CalmRun(s)'
    BY <1>9, <1>0, <1>01, SameCalm
    DEF AdmitMessage, TypeOK, LocalOK, agent, records, GoTo
  <2>4. PendingKeepsPause'
    BY <1>9, <1>01 DEF AdmitMessage, agent, records, PendingKeepsPause
  <2>5. ConfirmedWrites'
    BY <1>9, <1>01 DEF AdmitMessage, records, history, ConfirmedWrites
  <2> QED BY <2>1, <2>2, <2>3, <2>4, <2>5 DEF CalmInv, Undisturbed
<1>10. ASSUME NEW r \in Requests, CleanupExpired(r)
      PROVE  CalmInv'
  <2>1. CalmRecords'
    BY <1>10, <1>01
    DEF CleanupExpired, TypeOK, LocalOK, RecordsOK, Copies, Latest, AcquireRunLock,
        agent, records, history, Answer, CalmRecords, Uncleared, HasPending,
        CalmRun, MayOpen, Resuming, ResumePoints
  <2>2. CalmRun(r)'
    <3>1. CASE Answer(r)
      BY <3>1, AnswerCalm
    <3>2. CASE ~Answer(r)
      <4>1. Uncleared(target[r]) /\ lock = NoRequest /\ target[r] \in Approvals /\ UNCHANGED <<records, nextCall>>
        BY <1>10, <3>2 DEF CleanupExpired, TypeOK, LocalOK, TargetPoints
      <4>2. nextCall'[r] = NoApproval /\ ~HasPending'
        BY <1>01, <4>1 DEF LockHeld, CalmRecords, HasPending, records
      <4>3. pc'[r] = "resume" /\ copy'[r].status = "expired"
        BY <1>10, <3>2, <4>1
        DEF CleanupExpired, GoTo, Latest, Uncleared, TypeOK, LocalOK
      <4> QED BY <4>2, <4>3, CleanupCalm
    <3> QED BY <3>1, <3>2
  <2>3. \A s \in Requests \ {r} : CalmRun(s)'
    BY <1>10, <1>0, <1>01, SameCalm, AnswerCalm
    DEF CleanupExpired, TypeOK, LocalOK, AcquireRunLock, agent, records, GoTo
  <2>4. PendingKeepsPause'
    BY <1>10, <1>01 DEF CleanupExpired, agent, records, PendingKeepsPause
  <2>5. ConfirmedWrites'
    BY <1>10, <1>01 DEF CleanupExpired, records, history, ConfirmedWrites
  <2> QED BY <2>1, <2>2, <2>3, <2>4, <2>5 DEF CalmInv, Undisturbed
<1>11. ASSUME NEW r \in Requests, DecisionLocked(r)
      PROVE  CalmInv'
  <2>1. CalmRecords'
    BY <1>11, <1>01
    DEF DecisionLocked, TypeOK, LocalOK, agent, records, history, Answer,
        CalmRecords, Uncleared, HasPending, CalmRun, MayOpen, Resuming, ResumePoints
  <2>2. CalmRun(r)'
    BY <1>11, <1>01, AnswerCalm
    DEF DecisionLocked, TypeOK, LocalOK, agent, records, history, Answer, GoTo,
        CalmRecords, CalmRun, Uncleared, HasPending, MayOpen, Resuming,
        ResumePoints, CopyAgrees, Decisions
  <2>3. \A s \in Requests \ {r} : CalmRun(s)'
    BY <1>11, <1>0, <1>01, SameCalm, AnswerCalm
    DEF DecisionLocked, TypeOK, LocalOK, agent, records, GoTo
  <2>4. PendingKeepsPause'
    BY <1>11, <1>01 DEF DecisionLocked, agent, records, PendingKeepsPause
  <2>5. ConfirmedWrites'
    BY <1>11, <1>01 DEF DecisionLocked, records, history, ConfirmedWrites
  <2> QED BY <2>1, <2>2, <2>3, <2>4, <2>5 DEF CalmInv, Undisturbed
<1>12. ASSUME NEW r \in Requests, DecideRaced(r)
      PROVE  CalmInv'
  <2>1. CalmRecords'
    BY <1>12, <1>01
    DEF DecideRaced, TypeOK, LocalOK, RecordsOK, Copies, Latest, AcquireRunLock,
        agent, records, history, Answer, CalmRecords, Uncleared, HasPending,
        CalmRun, MayOpen, Resuming, ResumePoints
  <2>2. CalmRun(r)'
    <3>1. CASE Answer(r)
      BY <3>1, AnswerCalm
    <3>2. CASE ~Answer(r)
      <4>1. lock = NoRequest /\ target[r] \in Approvals /\ UNCHANGED <<records, nextCall>>
        BY <1>12, <3>2
        DEF DecideRaced, AcquireRunLock, TypeOK, LocalOK, TargetPoints
      <4>2. nextCall'[r] = NoApproval
        BY <4>1 DEF LockHeld
      <4>3. copy'[r] = Latest(target[r])
        BY <1>12, <3>2 DEF DecideRaced, TypeOK, LocalOK
      <4>4. CASE status[target[r]] \in Decisions
        <5>1. pc'[r] = "terminal" /\ ~copy'[r].resumeFailed
          BY <1>12, <1>01, <3>2, <4>1, <4>3, <4>4
          DEF DecideRaced, GoTo, Latest, Uncleared, TypeOK, LocalOK, CalmRecords,
              Decisions
        <5> QED BY <4>2, <5>1 DEF CalmRun, MayOpen, Resuming, ResumePoints
      <4>5. CASE status[target[r]] \notin Decisions
        <5>1. pc'[r] = "resume" /\ Uncleared(target[r]) /\ copy'[r].status = "expired"
          BY <1>12, <3>2, <4>3, <4>5
          DEF DecideRaced, GoTo, Latest, Uncleared, TypeOK, LocalOK
        <5>2. ~HasPending'
          BY <1>01, <4>1, <5>1 DEF CalmRecords, HasPending, records
        <5> QED BY <4>2, <5>1, <5>2, CleanupCalm
      <4> QED BY <4>4, <4>5
    <3> QED BY <3>1, <3>2
  <2>3. \A s \in Requests \ {r} : CalmRun(s)'
    BY <1>12, <1>0, <1>01, SameCalm, AnswerCalm
    DEF DecideRaced, TypeOK, LocalOK, AcquireRunLock, agent, records, GoTo
  <2>4. PendingKeepsPause'
    BY <1>12, <1>01 DEF DecideRaced, agent, records, PendingKeepsPause
  <2>5. ConfirmedWrites'
    BY <1>12, <1>01 DEF DecideRaced, records, history, ConfirmedWrites
  <2> QED BY <2>1, <2>2, <2>3, <2>4, <2>5 DEF CalmInv, Undisturbed
<1>13. ASSUME NEW r \in Requests, DecideExpired(r)
      PROVE  CalmInv'
  <2>1. CalmRecords' /\ ~HasPending'
    <3>1. target[r] \in Approvals /\ status[target[r]] = "pending"
      BY <1>13 DEF DecideExpired, Overdue, TypeOK, LocalOK, TargetPoints
    <3>2. status' = [status EXCEPT ![target[r]] = "expired"] /\ resumeFailed' = [resumeFailed EXCEPT ![target[r]] = TRUE]
      BY <1>13 DEF DecideExpired, AppendApproval, ExpireRecord
    <3>3. thread' = thread /\ thread.at = "paused"
      BY <1>13, <1>01, <3>1 DEF DecideExpired, agent, PendingKeepsPause
    <3>4. ~HasPending'
      BY <3>1, <3>2 DEF HasPending, AtMostOnePending, TypeOK, RecordsOK
    <3> QED
      BY <1>01, <3>1, <3>2, <3>3, <3>4 DEF CalmRecords, TypeOK, RecordsOK, Decisions
  <2>2. CalmRun(r)'
    BY <1>13, <1>01
    DEF DecideExpired, TypeOK, LocalOK, RecordsOK, Copies, ExpireRecord, Overdue,
        AcquireRunLock, AppendApproval, agent, history, GoTo, CalmRecords, CalmRun,
        Uncleared, HasPending, MayOpen, Resuming, ResumePoints, CopyAgrees,
        Decisions, AtMostOnePending, LockHeld, Terminal, PendingKeepsPause,
        RecordsOK
  <2>3. \A s \in Requests \ {r} : CalmRun(s)'
    BY <1>13, <1>0, <1>01, OutsideCalm
    DEF DecideExpired, TypeOK, LocalOK, AcquireRunLock, agent, GoTo, LockHeld,
        RunExclusive, RunPoints
  <2>4. PendingKeepsPause'
    BY <1>13, <1>01
    DEF DecideExpired, TypeOK, LocalOK, RecordsOK, Copies, ExpireRecord, Overdue,
        AcquireRunLock, AppendApproval, agent, history, PendingKeepsPause, CalmRun,
        Resuming, ResumePoints, HasPending, CopyAgrees, Decisions
  <2>5. ConfirmedWrites'
    BY <1>13, <1>01
    DEF DecideExpired, TypeOK, LocalOK, RecordsOK, Copies, ExpireRecord, Overdue,
        AcquireRunLock, AppendApproval, agent, history, ConfirmedWrites, CopyAgrees,
        Resuming, ResumePoints, HistoryOK, CalmRun, TypeOK, LocalOK
  <2> QED BY <2>1, <2>2, <2>3, <2>4, <2>5 DEF CalmInv, Undisturbed
<1>14. ASSUME NEW r \in Requests, DecideConflict(r)
      PROVE  CalmInv'
  <2>1. CalmRecords'
    BY <1>14, <1>01
    DEF DecideConflict, TypeOK, LocalOK, Overdue, agent, records, history, Answer,
        CalmRecords, Uncleared, HasPending, CalmRun, MayOpen, Resuming, ResumePoints
  <2>2. CalmRun(r)'
    BY <1>14, <1>01, AnswerCalm
    DEF DecideConflict, TypeOK, LocalOK, Overdue, agent, records, history, Answer,
        GoTo, CalmRecords, CalmRun, Uncleared, HasPending, MayOpen, Resuming,
        ResumePoints, CopyAgrees, Decisions
  <2>3. \A s \in Requests \ {r} : CalmRun(s)'
    BY <1>14, <1>0, <1>01, SameCalm, AnswerCalm
    DEF DecideConflict, TypeOK, LocalOK, agent, records, GoTo
  <2>4. PendingKeepsPause'
    BY <1>14, <1>01 DEF DecideConflict, agent, records, PendingKeepsPause
  <2>5. ConfirmedWrites'
    BY <1>14, <1>01 DEF DecideConflict, records, history, ConfirmedWrites
  <2> QED BY <2>1, <2>2, <2>3, <2>4, <2>5 DEF CalmInv, Undisturbed
<1>15. ASSUME NEW r \in Requests, DecidePending(r)
      PROVE  CalmInv'
  <2>1. CalmRecords'
    BY <1>15, <1>01
    DEF DecidePending, TypeOK, LocalOK, RecordsOK, Copies, DecidedRecord, Overdue,
        AcquireRunLock, AppendApproval, agent, history, CalmRecords, Uncleared,
        HasPending, CalmRun, MayOpen, Resuming, ResumePoints, CopyAgrees,
        AtMostOnePending, LockHeld, Decisions, Terminal
  <2>2. CalmRun(r)'
    <3>1. target[r] \in Approvals /\ status[target[r]] = "pending" /\ decision[r] \in Decisions /\ lock = NoRequest
      BY <1>15
      DEF DecidePending, AcquireRunLock, TypeOK, LocalOK, TargetPoints, CopyAgrees
    <3>2. status' = [status EXCEPT ![target[r]] = decision[r]] /\ resumeFailed' = [resumeFailed EXCEPT ![target[r]] = FALSE]
      BY <1>15 DEF DecidePending, AppendApproval, DecidedRecord
    <3>3. thread' = [at |-> "paused", call |-> target[r]]
      BY <1>15, <1>01, <3>1 DEF DecidePending, agent, PendingKeepsPause
    <3>4. copy'[r].status = decision[r] /\ ~copy'[r].resumeFailed /\ pc'[r] = "resume" /\ target' = target
      BY <1>15 DEF DecidePending, DecidedRecord, GoTo, TypeOK, LocalOK
    <3>5. nextCall'[r] = NoApproval
      BY <1>15, <3>1 DEF DecidePending, LockHeld
    <3>6. ~HasPending'
      BY <3>1, <3>2 DEF HasPending, AtMostOnePending, TypeOK, RecordsOK, Decisions
    <3>7. \A b \in Approvals : ~Uncleared(b)'
      BY <1>01, <3>1, <3>2
      DEF CalmRecords, HasPending, Uncleared, TypeOK, RecordsOK, Decisions
    <3> QED BY <3>3, <3>4, <3>5, <3>6, <3>7 DEF CalmRun, MayOpen, Resuming
  <2>3. \A s \in Requests \ {r} : CalmRun(s)'
    BY <1>15, <1>0, <1>01, OutsideCalm
    DEF DecidePending, TypeOK, LocalOK, AcquireRunLock, agent, GoTo, LockHeld,
        RunExclusive, RunPoints
  <2>4. PendingKeepsPause'
    BY <1>15, <1>01
    DEF DecidePending, TypeOK, LocalOK, RecordsOK, Copies, DecidedRecord, Overdue,
        AcquireRunLock, AppendApproval, agent, history, PendingKeepsPause, CalmRun,
        Resuming, ResumePoints, HasPending, CopyAgrees, Decisions
  <2>5. ConfirmedWrites'
    BY <1>15, <1>01
    DEF DecidePending, TypeOK, LocalOK, RecordsOK, Copies, DecidedRecord, Overdue,
        AcquireRunLock, AppendApproval, agent, history, ConfirmedWrites, CopyAgrees,
        Resuming, ResumePoints, HistoryOK, CalmRun, TypeOK, LocalOK
  <2> QED BY <2>1, <2>2, <2>3, <2>4, <2>5 DEF CalmInv, Undisturbed
<1>16. ASSUME NEW r \in Requests, TerminalConflict(r)
      PROVE  CalmInv'
  <2>1. CalmRecords'
    BY <1>16, <1>01
    DEF TerminalConflict, TypeOK, LocalOK, agent, records, history, Answer,
        CalmRecords, Uncleared, HasPending, CalmRun, MayOpen, Resuming, ResumePoints
  <2>2. CalmRun(r)'
    BY <1>16, <1>01, AnswerCalm
    DEF TerminalConflict, TypeOK, LocalOK, agent, records, history, Answer, GoTo,
        CalmRecords, CalmRun, Uncleared, HasPending, MayOpen, Resuming,
        ResumePoints, CopyAgrees, Decisions
  <2>3. \A s \in Requests \ {r} : CalmRun(s)'
    BY <1>16, <1>0, <1>01, SameCalm, AnswerCalm
    DEF TerminalConflict, TypeOK, LocalOK, agent, records, GoTo
  <2>4. PendingKeepsPause'
    BY <1>16, <1>01 DEF TerminalConflict, agent, records, PendingKeepsPause
  <2>5. ConfirmedWrites'
    BY <1>16, <1>01 DEF TerminalConflict, records, history, ConfirmedWrites
  <2> QED BY <2>1, <2>2, <2>3, <2>4, <2>5 DEF CalmInv, Undisturbed
<1>17. ASSUME NEW r \in Requests, TerminalRetry(r)
      PROVE  CalmInv'
  <2>1. CalmRecords'
    BY <1>17, <1>01
    DEF TerminalRetry, TypeOK, LocalOK, agent, records, history, CalmRecords,
        Uncleared, HasPending, CalmRun, MayOpen, Resuming, ResumePoints
  <2>2. CalmRun(r)'
    BY <1>17, <1>01
    DEF TerminalRetry, TypeOK, LocalOK, agent, records, history, GoTo, CalmRecords,
        CalmRun, Uncleared, HasPending, MayOpen, Resuming, ResumePoints, CopyAgrees,
        Decisions
  <2>3. \A s \in Requests \ {r} : CalmRun(s)'
    BY <1>17, <1>0, <1>01, SameCalm
    DEF TerminalRetry, TypeOK, LocalOK, agent, records, GoTo
  <2>4. PendingKeepsPause'
    BY <1>17, <1>01 DEF TerminalRetry, agent, records, PendingKeepsPause
  <2>5. ConfirmedWrites'
    BY <1>17, <1>01 DEF TerminalRetry, records, history, ConfirmedWrites
  <2> QED BY <2>1, <2>2, <2>3, <2>4, <2>5 DEF CalmInv, Undisturbed
<1>18. ASSUME NEW r \in Requests, ResumeTerminal(r)
      PROVE  CalmInv'
  <2>1. CalmRecords'
    BY <1>18, <1>01
    DEF ResumeTerminal, TypeOK, LocalOK, AcquireRunLock, agent, records, history,
        CalmRecords, Uncleared, HasPending, CalmRun, MayOpen, Resuming, ResumePoints
  <2>2. CalmRun(r)'
    BY <1>18, <1>01
    DEF ResumeTerminal, TypeOK, LocalOK, AcquireRunLock, agent, records, history,
        GoTo, CalmRecords, CalmRun, Uncleared, HasPending, MayOpen, Resuming,
        ResumePoints, CopyAgrees, Decisions
  <2>3. \A s \in Requests \ {r} : CalmRun(s)'
    BY <1>18, <1>0, <1>01, SameCalm
    DEF ResumeTerminal, TypeOK, LocalOK, AcquireRunLock, agent, records, GoTo
  <2>4. PendingKeepsPause'
    BY <1>18, <1>01 DEF ResumeTerminal, agent, records, PendingKeepsPause
  <2>5. ConfirmedWrites'
    BY <1>18, <1>01 DEF ResumeTerminal, records, history, ConfirmedWrites
  <2> QED BY <2>1, <2>2, <2>3, <2>4, <2>5 DEF CalmInv, Undisturbed
<1>19. ASSUME NEW r \in Requests, TerminalReport(r)
      PROVE  CalmInv'
  <2>1. CalmRecords'
    BY <1>19, <1>01
    DEF TerminalReport, TypeOK, LocalOK, WantsNotice, agent, records, history,
        Answer, CalmRecords, Uncleared, HasPending, CalmRun, MayOpen, Resuming,
        ResumePoints
  <2>2. CalmRun(r)'
    BY <1>19, <1>01, AnswerCalm
    DEF TerminalReport, TypeOK, LocalOK, WantsNotice, agent, records, history,
        Answer, GoTo, CalmRecords, CalmRun, Uncleared, HasPending, MayOpen,
        Resuming, ResumePoints, CopyAgrees, Decisions
  <2>3. \A s \in Requests \ {r} : CalmRun(s)'
    BY <1>19, <1>0, <1>01, SameCalm, AnswerCalm
    DEF TerminalReport, TypeOK, LocalOK, agent, records, GoTo
  <2>4. PendingKeepsPause'
    BY <1>19, <1>01 DEF TerminalReport, agent, records, PendingKeepsPause
  <2>5. ConfirmedWrites'
    BY <1>19, <1>01 DEF TerminalReport, records, history, ConfirmedWrites
  <2> QED BY <2>1, <2>2, <2>3, <2>4, <2>5 DEF CalmInv, Undisturbed
<1>20. ASSUME NEW r \in Requests, ResumeUnreachable(r)
      PROVE  CalmInv'
  <2>1. CalmRecords'
    BY <1>20, <1>01
    DEF ResumeUnreachable, TypeOK, LocalOK, agent, records, history, CalmRecords,
        Uncleared, HasPending, CalmRun, MayOpen, Resuming, ResumePoints
  <2>2. CalmRun(r)'
    BY <1>20, <1>01
    DEF ResumeUnreachable, TypeOK, LocalOK, agent, records, history, GoTo,
        CalmRecords, CalmRun, Uncleared, HasPending, MayOpen, Resuming,
        ResumePoints, CopyAgrees, Decisions
  <2>3. \A s \in Requests \ {r} : CalmRun(s)'
    BY <1>20, <1>0, <1>01, SameCalm
    DEF ResumeUnreachable, TypeOK, LocalOK, agent, records, GoTo
  <2>4. PendingKeepsPause'
    BY <1>20, <1>01 DEF ResumeUnreachable, agent, records, PendingKeepsPause
  <2>5. ConfirmedWrites'
    BY <1>20, <1>01 DEF ResumeUnreachable, records, history, ConfirmedWrites
  <2> QED BY <2>1, <2>2, <2>3, <2>4, <2>5 DEF CalmInv, Undisturbed
<1>21. ASSUME NEW r \in Requests, ResumePaused(r)
      PROVE  CalmInv'
  <2>1. CalmRecords'
    BY <1>21, <1>01
    DEF ResumePaused, TypeOK, LocalOK, ResumeDecision, agent, records, history,
        CalmRecords, Uncleared, HasPending, CalmRun, MayOpen, Resuming,
        ResumePoints, Threads, IdleThread, AgentOK, CopyAgrees, AtMostOnePending,
        LockHeld, Decisions, Terminal
  <2>2. CalmRun(r)'
    <3>1. Resuming(r) /\ ~HasPending /\ nextCall[r] = NoApproval
      BY <1>21, <1>01 DEF ResumePaused, Resuming, ResumePoints, CalmRun
    <3>2. UNCHANGED <<records, copy, target, nextCall>>
      BY <1>21 DEF ResumePaused
    <3>3. CASE copy[r].status = "approved"
      <4>1. pc'[r] = "tool" /\ thread' = [at |-> "tools", call |-> target[r]]
        BY <1>21, <1>01, <3>3
        DEF ResumePaused, ResumeDecision, GoTo, TypeOK, LocalOK, CalmRun, Decisions
      <4>2. \A b \in Approvals : ~Uncleared(b)
        BY <1>01, <3>1, <3>3 DEF CalmRun, MayOpen, Decisions
      <4> QED
        BY <1>01, <3>1, <3>2, <3>3, <4>1, <4>2
        DEF CalmRun, MayOpen, Resuming, HasPending, Uncleared, records, Decisions
    <3>4. CASE copy[r].status # "approved"
      <4>1. pc'[r] = "agent"
        BY <1>21, <3>4 DEF ResumePaused, ResumeDecision, GoTo, TypeOK, LocalOK
      <4>2. copy[r].status \in Decisions => \A b \in Approvals : ~Uncleared(b)
        BY <1>01, <3>1 DEF CalmRun, MayOpen
      <4>3. target[r] # NoApproval
        BY <1>21 DEF ResumePaused, TypeOK, LocalOK, TargetPoints, ResumePoints
      <4> QED
        BY <1>01, <3>1, <3>2, <4>1, <4>2, <4>3
        DEF CalmRun, MayOpen, Resuming, HasPending, Uncleared, records
    <3> QED BY <3>3, <3>4
  <2>3. \A s \in Requests \ {r} : CalmRun(s)'
    BY <1>21, <1>0, <1>01, OutsideCalm
    DEF ResumePaused, TypeOK, LocalOK, agent, records, GoTo, LockHeld, RunExclusive,
        RunPoints
  <2>4. PendingKeepsPause'
    BY <1>21, <1>01
    DEF ResumePaused, TypeOK, LocalOK, ResumeDecision, agent, records, history,
        PendingKeepsPause, CalmRun, Resuming, ResumePoints, HasPending, CopyAgrees
  <2>5. ConfirmedWrites'
    BY <1>21, <1>01 DEF ResumePaused, records, history, ConfirmedWrites
  <2> QED BY <2>1, <2>2, <2>3, <2>4, <2>5 DEF CalmInv, Undisturbed
<1>22. ASSUME NEW r \in Requests, ResumeUnpaused(r)
      PROVE  CalmInv'
  <2>1. CalmRecords'
    BY <1>22, <1>01
    DEF ResumeUnpaused, TypeOK, LocalOK, agent, records, history, CalmRecords,
        Uncleared, HasPending, CalmRun, MayOpen, Resuming, ResumePoints
  <2>2. CalmRun(r)'
    <3>1. Resuming(r) /\ ~HasPending /\ nextCall[r] = NoApproval
      BY <1>22, <1>01 DEF ResumeUnpaused, Resuming, ResumePoints, CalmRun
    <3>2. UNCHANGED <<records, copy, target, nextCall, thread>> /\ target[r] \in Approvals
      BY <1>22
      DEF ResumeUnpaused, agent, TypeOK, LocalOK, TargetPoints, ResumePoints
    <3>3. copy[r].status = "expired"
      BY <1>22, <1>01, <3>1 DEF ResumeUnpaused, CalmRun, CopyAgrees, Terminal
    <3>4. Uncleared(target[r])
      BY <3>1, <3>3 DEF CopyAgrees, Uncleared
    <3>5. pc'[r] = "agent"
      BY <1>22, <1>01, <3>2, <3>4
      DEF ResumeUnpaused, GoTo, TypeOK, LocalOK, CalmRecords
    <3> QED
      BY <1>01, <3>1, <3>2, <3>3, <3>5
      DEF CalmRun, MayOpen, Resuming, HasPending, records, Decisions, TypeOK,
          LocalOK
  <2>3. \A s \in Requests \ {r} : CalmRun(s)'
    BY <1>22, <1>0, <1>01, SameCalm
    DEF ResumeUnpaused, TypeOK, LocalOK, agent, records, GoTo
  <2>4. PendingKeepsPause'
    BY <1>22, <1>01 DEF ResumeUnpaused, agent, records, PendingKeepsPause
  <2>5. ConfirmedWrites'
    BY <1>22, <1>01 DEF ResumeUnpaused, records, history, ConfirmedWrites
  <2> QED BY <2>1, <2>2, <2>3, <2>4, <2>5 DEF CalmInv, Undisturbed
<1>23. ASSUME NEW r \in Requests, ReturnExisting(r)
      PROVE  CalmInv'
  <2>1. CalmRecords'
    BY <1>23, <1>01
    DEF ReturnExisting, TypeOK, LocalOK, agent, records, history, CalmRecords,
        Uncleared, HasPending, CalmRun, MayOpen, Resuming, ResumePoints, Threads,
        IdleThread, AgentOK, CopyAgrees, AtMostOnePending, LockHeld, Decisions,
        Terminal
  <2>2. CalmRun(r)'
    BY <1>23, <1>01
    DEF ReturnExisting, TypeOK, LocalOK, agent, records, history, GoTo, CalmRecords,
        CalmRun, Uncleared, HasPending, MayOpen, Resuming, ResumePoints, CopyAgrees,
        Decisions, Threads, IdleThread, AgentOK
  <2>3. \A s \in Requests \ {r} : CalmRun(s)'
    BY <1>23, <1>0, <1>01, OutsideCalm
    DEF ReturnExisting, TypeOK, LocalOK, agent, records, GoTo, LockHeld,
        RunExclusive, RunPoints
  <2>4. PendingKeepsPause'
    BY <1>23, <1>01
    DEF ReturnExisting, TypeOK, LocalOK, agent, records, history, PendingKeepsPause,
        CalmRun, Resuming, ResumePoints, HasPending, CopyAgrees
  <2>5. ConfirmedWrites'
    BY <1>23, <1>01 DEF ReturnExisting, records, history, ConfirmedWrites
  <2> QED BY <2>1, <2>2, <2>3, <2>4, <2>5 DEF CalmInv, Undisturbed
<1>24. ASSUME NEW r \in Requests, StartOperation(r)
      PROVE  CalmInv'
  <2>1. CalmRecords'
    BY <1>24, <1>01
    DEF StartOperation, TypeOK, LocalOK, records, history, CalmRecords, Uncleared,
        HasPending, CalmRun, MayOpen, Resuming, ResumePoints
  <2>2. CalmRun(r)'
    BY <1>24, <1>01
    DEF StartOperation, TypeOK, LocalOK, records, history, GoTo, CalmRecords,
        CalmRun, Uncleared, HasPending, MayOpen, Resuming, ResumePoints, CopyAgrees,
        Decisions
  <2>3. \A s \in Requests \ {r} : CalmRun(s)'
    BY <1>24, <1>0, <1>01, SameCalm
    DEF StartOperation, TypeOK, LocalOK, records, GoTo
  <2>4. PendingKeepsPause'
    BY <1>24, <1>01 DEF StartOperation, records, PendingKeepsPause
  <2>5. ConfirmedWrites'
    BY <1>24, <1>01 DEF StartOperation, records, history, ConfirmedWrites
  <2> QED BY <2>1, <2>2, <2>3, <2>4, <2>5 DEF CalmInv, Undisturbed
<1>25. ASSUME NEW r \in Requests, SendWrite(r)
      PROVE  CalmInv'
  <2>1. CalmRecords'
    BY <1>25, <1>01
    DEF SendWrite, TypeOK, LocalOK, agent, records, CalmRecords, Uncleared,
        HasPending, CalmRun, MayOpen, Resuming, ResumePoints
  <2>2. CalmRun(r)'
    BY <1>25, <1>01
    DEF SendWrite, TypeOK, LocalOK, agent, records, GoTo, CalmRecords, CalmRun,
        Uncleared, HasPending, MayOpen, Resuming, ResumePoints, CopyAgrees,
        Decisions
  <2>3. \A s \in Requests \ {r} : CalmRun(s)'
    BY <1>25, <1>0, <1>01, SameCalm
    DEF SendWrite, TypeOK, LocalOK, agent, records, GoTo
  <2>4. PendingKeepsPause'
    BY <1>25, <1>01 DEF SendWrite, agent, records, PendingKeepsPause
  <2>5. ConfirmedWrites'
    BY <1>25, <1>01
    DEF SendWrite, records, ConfirmedWrites, CopyAgrees, Resuming, ResumePoints,
        HistoryOK, CalmRun, TypeOK, LocalOK
  <2> QED BY <2>1, <2>2, <2>3, <2>4, <2>5 DEF CalmInv, Undisturbed
<1>26. ASSUME NEW r \in Requests, CreateTaskRecord(r)
      PROVE  CalmInv'
  <2>1. CalmRecords'
    BY <1>26, <1>01
    DEF CreateTaskRecord, TypeOK, LocalOK, records, history, CalmRecords, Uncleared,
        HasPending, CalmRun, MayOpen, Resuming, ResumePoints
  <2>2. CalmRun(r)'
    BY <1>26, <1>01
    DEF CreateTaskRecord, TypeOK, LocalOK, records, history, GoTo, CalmRecords,
        CalmRun, Uncleared, HasPending, MayOpen, Resuming, ResumePoints, CopyAgrees,
        Decisions
  <2>3. \A s \in Requests \ {r} : CalmRun(s)'
    BY <1>26, <1>0, <1>01, SameCalm
    DEF CreateTaskRecord, TypeOK, LocalOK, records, GoTo
  <2>4. PendingKeepsPause'
    BY <1>26, <1>01 DEF CreateTaskRecord, records, PendingKeepsPause
  <2>5. ConfirmedWrites'
    BY <1>26, <1>01 DEF CreateTaskRecord, records, history, ConfirmedWrites
  <2> QED BY <2>1, <2>2, <2>3, <2>4, <2>5 DEF CalmInv, Undisturbed
<1>27. ASSUME NEW r \in Requests, CompleteOperation(r)
      PROVE  CalmInv'
  <2>1. CalmRecords'
    BY <1>27, <1>01
    DEF CompleteOperation, TypeOK, LocalOK, agent, records, history, CalmRecords,
        Uncleared, HasPending, CalmRun, MayOpen, Resuming, ResumePoints, Threads,
        IdleThread, AgentOK, CopyAgrees, AtMostOnePending, LockHeld, Decisions,
        Terminal
  <2>2. CalmRun(r)'
    BY <1>27, <1>01
    DEF CompleteOperation, TypeOK, LocalOK, agent, records, history, GoTo,
        CalmRecords, CalmRun, Uncleared, HasPending, MayOpen, Resuming,
        ResumePoints, CopyAgrees, Decisions, Threads, IdleThread, AgentOK
  <2>3. \A s \in Requests \ {r} : CalmRun(s)'
    BY <1>27, <1>0, <1>01, OutsideCalm
    DEF CompleteOperation, TypeOK, LocalOK, agent, records, GoTo, LockHeld,
        RunExclusive, RunPoints
  <2>4. PendingKeepsPause'
    BY <1>27, <1>01
    DEF CompleteOperation, TypeOK, LocalOK, agent, records, history,
        PendingKeepsPause, CalmRun, Resuming, ResumePoints, HasPending, CopyAgrees
  <2>5. ConfirmedWrites'
    BY <1>27, <1>01 DEF CompleteOperation, records, history, ConfirmedWrites
  <2> QED BY <2>1, <2>2, <2>3, <2>4, <2>5 DEF CalmInv, Undisturbed
<1>28. ASSUME NEW r \in Requests, ToolRaises(r)
      PROVE  CalmInv'
  <2>1. CalmRecords'
    BY <1>28, <1>01
    DEF ToolRaises, TypeOK, LocalOK, agent, records, history, CalmRecords,
        Uncleared, HasPending, CalmRun, MayOpen, Resuming, ResumePoints
  <2>2. CalmRun(r)'
    BY <1>28, <1>01
    DEF ToolRaises, TypeOK, LocalOK, agent, records, history, GoTo, CalmRecords,
        CalmRun, Uncleared, HasPending, MayOpen, Resuming, ResumePoints, CopyAgrees,
        Decisions
  <2>3. \A s \in Requests \ {r} : CalmRun(s)'
    BY <1>28, <1>0, <1>01, SameCalm
    DEF ToolRaises, TypeOK, LocalOK, agent, records, GoTo
  <2>4. PendingKeepsPause'
    BY <1>28, <1>01 DEF ToolRaises, agent, records, PendingKeepsPause
  <2>5. ConfirmedWrites'
    BY <1>28, <1>01 DEF ToolRaises, records, history, ConfirmedWrites
  <2> QED BY <2>1, <2>2, <2>3, <2>4, <2>5 DEF CalmInv, Undisturbed
<1>29. ASSUME NEW r \in Requests, AgentAnswers(r)
      PROVE  CalmInv'
  <2>1. CalmRecords'
    BY <1>29, <1>01
    DEF AgentAnswers, TypeOK, LocalOK, agent, records, history, Answer, CalmRecords,
        Uncleared, HasPending, CalmRun, MayOpen, Resuming, ResumePoints, Threads,
        IdleThread, AgentOK, CopyAgrees, AtMostOnePending, LockHeld, Decisions,
        Terminal
  <2>2. CalmRun(r)'
    BY <1>29, <1>01, AnswerCalm
    DEF AgentAnswers, TypeOK, LocalOK, agent, records, history, Answer, GoTo,
        CalmRecords, CalmRun, Uncleared, HasPending, MayOpen, Resuming,
        ResumePoints, CopyAgrees, Decisions, Threads, IdleThread, AgentOK
  <2>3. \A s \in Requests \ {r} : CalmRun(s)'
    BY <1>29, <1>0, <1>01, OutsideCalm, AnswerCalm
    DEF AgentAnswers, TypeOK, LocalOK, agent, records, GoTo, LockHeld, RunExclusive,
        RunPoints
  <2>4. PendingKeepsPause'
    BY <1>29, <1>01
    DEF AgentAnswers, TypeOK, LocalOK, agent, records, history, Answer,
        PendingKeepsPause, CalmRun, Resuming, ResumePoints, HasPending, CopyAgrees
  <2>5. ConfirmedWrites'
    BY <1>29, <1>01 DEF AgentAnswers, records, history, ConfirmedWrites
  <2> QED BY <2>1, <2>2, <2>3, <2>4, <2>5 DEF CalmInv, Undisturbed
<1>30. ASSUME NEW r \in Requests, NEW c \in Approvals, AgentPauses(r, c)
      PROVE  CalmInv'
  <2>1. CalmRecords'
    BY <1>30, <1>01
    DEF AgentPauses, TypeOK, LocalOK, Fresh, agent, records, history, CalmRecords,
        Uncleared, HasPending, CalmRun, MayOpen, Resuming, ResumePoints, Threads,
        IdleThread, AgentOK, CopyAgrees, AtMostOnePending, LockHeld, Decisions,
        Terminal
  <2>2. CalmRun(r)'
    BY <1>30, <1>01
    DEF AgentPauses, TypeOK, LocalOK, Fresh, agent, records, history, GoTo,
        CalmRecords, CalmRun, Uncleared, HasPending, MayOpen, Resuming,
        ResumePoints, CopyAgrees, Decisions, Threads, IdleThread, AgentOK
  <2>3. \A s \in Requests \ {r} : CalmRun(s)'
    BY <1>30, <1>0, <1>01, OutsideCalm
    DEF AgentPauses, TypeOK, LocalOK, agent, records, GoTo, LockHeld, RunExclusive,
        RunPoints
  <2>4. PendingKeepsPause'
    BY <1>30, <1>01
    DEF AgentPauses, TypeOK, LocalOK, Fresh, agent, records, history,
        PendingKeepsPause, CalmRun, Resuming, ResumePoints, HasPending, CopyAgrees
  <2>5. ConfirmedWrites'
    BY <1>30, <1>01 DEF AgentPauses, records, history, ConfirmedWrites
  <2> QED BY <2>1, <2>2, <2>3, <2>4, <2>5 DEF CalmInv, Undisturbed
<1>31. ASSUME NEW r \in Requests, AgentFails(r)
      PROVE  CalmInv'
  <2>1. CalmRecords'
    BY <1>31, <1>01
    DEF AgentFails, TypeOK, LocalOK, agent, records, history, Answer, CalmRecords,
        Uncleared, HasPending, CalmRun, MayOpen, Resuming, ResumePoints, Threads,
        IdleThread, AgentOK, CopyAgrees, AtMostOnePending, LockHeld, Decisions,
        Terminal
  <2>2. CalmRun(r)'
    BY <1>31, <1>01, AnswerCalm
    DEF AgentFails, TypeOK, LocalOK, agent, records, history, Answer, GoTo,
        CalmRecords, CalmRun, Uncleared, HasPending, MayOpen, Resuming,
        ResumePoints, CopyAgrees, Decisions, Threads, IdleThread, AgentOK
  <2>3. \A s \in Requests \ {r} : CalmRun(s)'
    BY <1>31, <1>0, <1>01, OutsideCalm, AnswerCalm
    DEF AgentFails, TypeOK, LocalOK, agent, records, GoTo, LockHeld, RunExclusive,
        RunPoints
  <2>4. PendingKeepsPause'
    BY <1>31, <1>01
    DEF AgentFails, TypeOK, LocalOK, agent, records, history, Answer,
        PendingKeepsPause, CalmRun, Resuming, ResumePoints, HasPending, CopyAgrees
  <2>5. ConfirmedWrites'
    BY <1>31, <1>01 DEF AgentFails, records, history, ConfirmedWrites
  <2> QED BY <2>1, <2>2, <2>3, <2>4, <2>5 DEF CalmInv, Undisturbed
<1>32. ASSUME NEW r \in Requests, RecordFailure(r)
      PROVE  CalmInv'
  <2>1. CalmRecords'
    BY <1>32, <1>01
    DEF RecordFailure, TypeOK, LocalOK, RecordsOK, Copies, CleanupDone, IsCleanup,
        AppendApproval, agent, Answer, CalmRecords, Uncleared, HasPending, CalmRun,
        MayOpen, Resuming, ResumePoints, CopyAgrees, AtMostOnePending, LockHeld,
        Decisions, Terminal
  <2>2. CalmRun(r)'
    BY <1>32, <1>01, AnswerCalm
    DEF RecordFailure, TypeOK, LocalOK, RecordsOK, Copies, CleanupDone, IsCleanup,
        AppendApproval, agent, Answer, GoTo, CalmRecords, CalmRun, Uncleared,
        HasPending, MayOpen, Resuming, ResumePoints, CopyAgrees, Decisions,
        AtMostOnePending, LockHeld, Terminal, PendingKeepsPause, RecordsOK
  <2>3. \A s \in Requests \ {r} : CalmRun(s)'
    BY <1>32, <1>0, <1>01, OutsideCalm, AnswerCalm
    DEF RecordFailure, TypeOK, LocalOK, CleanupDone, agent, GoTo, LockHeld,
        RunExclusive, RunPoints
  <2>4. PendingKeepsPause'
    BY <1>32, <1>01
    DEF RecordFailure, TypeOK, LocalOK, RecordsOK, Copies, CleanupDone, IsCleanup,
        AppendApproval, agent, Answer, PendingKeepsPause, CalmRun, Resuming,
        ResumePoints, HasPending, CopyAgrees, Decisions
  <2>5. ConfirmedWrites'
    BY <1>32, <1>01
    DEF RecordFailure, TypeOK, LocalOK, RecordsOK, Copies, CleanupDone, IsCleanup,
        AppendApproval, agent, Answer, ConfirmedWrites, CopyAgrees, Resuming,
        ResumePoints, HistoryOK, CalmRun, TypeOK, LocalOK
  <2> QED BY <2>1, <2>2, <2>3, <2>4, <2>5 DEF CalmInv, Undisturbed
<1>33. ASSUME NEW r \in Requests, RecordSuccess(r)
      PROVE  CalmInv'
  <2>1. CalmRecords'
    BY <1>33, <1>01
    DEF RecordSuccess, TypeOK, LocalOK, RecordsOK, Copies, CleanupDone, IsCleanup,
        WantsNotice, AppendApproval, agent, records, history, Answer, CalmRecords,
        Uncleared, HasPending, CalmRun, MayOpen, Resuming, ResumePoints, CopyAgrees,
        AtMostOnePending, LockHeld, Decisions, Terminal
  <2>2. CalmRun(r)'
    BY <1>33, <1>01, AnswerCalm
    DEF RecordSuccess, TypeOK, LocalOK, RecordsOK, Copies, CleanupDone, IsCleanup,
        WantsNotice, AppendApproval, agent, records, history, Answer, GoTo,
        CalmRecords, CalmRun, Uncleared, HasPending, MayOpen, Resuming,
        ResumePoints, CopyAgrees, Decisions, AtMostOnePending, LockHeld, Terminal,
        PendingKeepsPause, RecordsOK
  <2>3. \A s \in Requests \ {r} : CalmRun(s)'
    BY <1>33, <1>0, <1>01, OutsideCalm, AnswerCalm
    DEF RecordSuccess, TypeOK, LocalOK, CleanupDone, agent, records, GoTo, LockHeld,
        RunExclusive, RunPoints
  <2>4. PendingKeepsPause'
    BY <1>33, <1>01
    DEF RecordSuccess, TypeOK, LocalOK, RecordsOK, Copies, CleanupDone, IsCleanup,
        WantsNotice, AppendApproval, agent, records, history, Answer,
        PendingKeepsPause, CalmRun, Resuming, ResumePoints, HasPending, CopyAgrees,
        Decisions
  <2>5. ConfirmedWrites'
    BY <1>33, <1>01
    DEF RecordSuccess, TypeOK, LocalOK, RecordsOK, Copies, CleanupDone, IsCleanup,
        WantsNotice, AppendApproval, agent, records, history, Answer,
        ConfirmedWrites, CopyAgrees, Resuming, ResumePoints, HistoryOK, CalmRun,
        TypeOK, LocalOK
  <2> QED BY <2>1, <2>2, <2>3, <2>4, <2>5 DEF CalmInv, Undisturbed
<1>34. ASSUME NEW r \in Requests, EmitNotice(r)
      PROVE  CalmInv'
  <2>1. CalmRecords'
    BY <1>34, <1>01
    DEF EmitNotice, TypeOK, LocalOK, agent, records, CalmRecords, Uncleared,
        HasPending, CalmRun, MayOpen, Resuming, ResumePoints
  <2>2. CalmRun(r)'
    BY <1>34, <1>01
    DEF EmitNotice, TypeOK, LocalOK, agent, records, GoTo, CalmRecords, CalmRun,
        Uncleared, HasPending, MayOpen, Resuming, ResumePoints, CopyAgrees,
        Decisions
  <2>3. \A s \in Requests \ {r} : CalmRun(s)'
    BY <1>34, <1>0, <1>01, SameCalm
    DEF EmitNotice, TypeOK, LocalOK, agent, records, GoTo
  <2>4. PendingKeepsPause'
    BY <1>34, <1>01 DEF EmitNotice, agent, records, PendingKeepsPause
  <2>5. ConfirmedWrites'
    BY <1>34, <1>01
    DEF EmitNotice, records, ConfirmedWrites, CopyAgrees, Resuming, ResumePoints,
        HistoryOK, CalmRun, TypeOK, LocalOK
  <2> QED BY <2>1, <2>2, <2>3, <2>4, <2>5 DEF CalmInv, Undisturbed
<1>35. ASSUME NEW r \in Requests, MarkNotice(r)
      PROVE  CalmInv'
  <2>1. CalmRecords'
    BY <1>35, <1>01
    DEF MarkNotice, TypeOK, LocalOK, RecordsOK, Copies, AppendApproval, agent,
        history, CalmRecords, Uncleared, HasPending, CalmRun, MayOpen, Resuming,
        ResumePoints, CopyAgrees, AtMostOnePending, LockHeld, Decisions, Terminal
  <2>2. CalmRun(r)'
    BY <1>35, <1>01
    DEF MarkNotice, TypeOK, LocalOK, RecordsOK, Copies, AppendApproval, agent,
        history, GoTo, CalmRecords, CalmRun, Uncleared, HasPending, MayOpen,
        Resuming, ResumePoints, CopyAgrees, Decisions, AtMostOnePending, LockHeld,
        Terminal, PendingKeepsPause, RecordsOK
  <2>3. \A s \in Requests \ {r} : CalmRun(s)'
    <3>1. target[r] \in Approvals /\ copy[r] \in Copies /\ copy[r].status = "approved" /\ status[target[r]] = "approved"
      BY <1>35 DEF MarkNotice, TypeOK, LocalOK, TargetPoints, CopyAgrees
    <3>2. ~copy[r].resumeFailed /\ ~resumeFailed[target[r]]
      BY <1>35, <1>01, <3>1 DEF MarkNotice, CalmRun, CalmRecords, Decisions
    <3>3. UNCHANGED <<status, resumeFailed, thread>>
      BY <1>35, <3>1, <3>2
      DEF MarkNotice, AppendApproval, TypeOK, RecordsOK, Copies, agent
    <3> QED BY <1>35, <1>01, <3>3, SameCalm DEF MarkNotice, GoTo, TypeOK, LocalOK
  <2>4. PendingKeepsPause'
    BY <1>35, <1>01
    DEF MarkNotice, TypeOK, LocalOK, RecordsOK, Copies, AppendApproval, agent,
        history, PendingKeepsPause, CalmRun, Resuming, ResumePoints, HasPending,
        CopyAgrees, Decisions
  <2>5. ConfirmedWrites'
    BY <1>35, <1>01
    DEF MarkNotice, TypeOK, LocalOK, RecordsOK, Copies, AppendApproval, agent,
        history, ConfirmedWrites, CopyAgrees, Resuming, ResumePoints, HistoryOK,
        CalmRun, TypeOK, LocalOK
  <2> QED BY <2>1, <2>2, <2>3, <2>4, <2>5 DEF CalmInv, Undisturbed
<1>36. ASSUME NEW r \in Requests, CheckNoPending(r)
      PROVE  CalmInv'
  <2>1. CalmRecords'
    BY <1>36, <1>01
    DEF CheckNoPending, TypeOK, LocalOK, agent, records, history, Answer,
        CalmRecords, Uncleared, HasPending, CalmRun, MayOpen, Resuming, ResumePoints
  <2>2. CalmRun(r)'
    BY <1>36, <1>01, AnswerCalm
    DEF CheckNoPending, TypeOK, LocalOK, agent, records, history, Answer, GoTo,
        CalmRecords, CalmRun, Uncleared, HasPending, MayOpen, Resuming,
        ResumePoints, CopyAgrees, Decisions
  <2>3. \A s \in Requests \ {r} : CalmRun(s)'
    BY <1>36, <1>0, <1>01, SameCalm, AnswerCalm
    DEF CheckNoPending, TypeOK, LocalOK, agent, records, GoTo
  <2>4. PendingKeepsPause'
    BY <1>36, <1>01 DEF CheckNoPending, agent, records, PendingKeepsPause
  <2>5. ConfirmedWrites'
    BY <1>36, <1>01 DEF CheckNoPending, records, history, ConfirmedWrites
  <2> QED BY <2>1, <2>2, <2>3, <2>4, <2>5 DEF CalmInv, Undisturbed
<1>37. ASSUME NEW r \in Requests, CreateApproval(r)
      PROVE  CalmInv'
  <2>1. CalmRecords'
    BY <1>37, <1>01
    DEF CreateApproval, TypeOK, LocalOK, RecordsOK, Copies, AppendApproval, agent,
        history, Answer, CalmRecords, Uncleared, HasPending, CalmRun, MayOpen,
        Resuming, ResumePoints, CopyAgrees, AtMostOnePending, LockHeld, Decisions,
        Terminal
  <2>2. CalmRun(r)'
    BY <1>37, <1>01, AnswerCalm
    DEF CreateApproval, TypeOK, LocalOK, RecordsOK, Copies, AppendApproval, agent,
        history, Answer, GoTo, CalmRecords, CalmRun, Uncleared, HasPending, MayOpen,
        Resuming, ResumePoints, CopyAgrees, Decisions, AtMostOnePending, LockHeld,
        Terminal, PendingKeepsPause, RecordsOK
  <2>3. \A s \in Requests \ {r} : CalmRun(s)'
    BY <1>37, <1>0, <1>01, OutsideCalm, AnswerCalm
    DEF CreateApproval, TypeOK, LocalOK, agent, GoTo, LockHeld, RunExclusive,
        RunPoints
  <2>4. PendingKeepsPause'
    BY <1>37, <1>01
    DEF CreateApproval, TypeOK, LocalOK, RecordsOK, Copies, AppendApproval, agent,
        history, Answer, PendingKeepsPause, CalmRun, Resuming, ResumePoints,
        HasPending, CopyAgrees, Decisions
  <2>5. ConfirmedWrites'
    BY <1>37, <1>01
    DEF CreateApproval, TypeOK, LocalOK, RecordsOK, Copies, AppendApproval, agent,
        history, Answer, ConfirmedWrites, CopyAgrees, Resuming, ResumePoints,
        HistoryOK, CalmRun, TypeOK, LocalOK, LockHeld
  <2> QED BY <2>1, <2>2, <2>3, <2>4, <2>5 DEF CalmInv, Undisturbed
<1>38. ASSUME NEW a \in Approvals, TtlElapses(a) PROVE  CalmInv'
  BY <1>38
  DEF TtlElapses, agent, local, history, records, CalmInv, Undisturbed, CalmRecords,
      CalmRun, MayOpen, Resuming, HasPending, Uncleared, PendingKeepsPause,
      ConfirmedWrites
<1>39. CASE Crash
  BY <1>39
  DEF Crash, agent, history, records, ResumePoints, NoCopy, CalmInv, Undisturbed,
      CalmRecords, CalmRun, MayOpen, Resuming, HasPending, Uncleared,
      PendingKeepsPause, ConfirmedWrites
<1>40. CASE UNCHANGED vars
  BY <1>40
  DEF vars, agent, local, history, records, CalmInv, Undisturbed, CalmRecords,
      CalmRun, MayOpen, Resuming, HasPending, Uncleared, PendingKeepsPause,
      ConfirmedWrites
<1> QED
  BY <1>1, <1>2, <1>3, <1>4, <1>5, <1>6, <1>7, <1>8, <1>9, <1>10, <1>11, <1>12,
     <1>13, <1>14, <1>15, <1>16, <1>17, <1>18, <1>19, <1>20, <1>21, <1>22, <1>23,
     <1>24, <1>25, <1>26, <1>27, <1>28, <1>29, <1>30, <1>31, <1>32, <1>33, <1>34,
     <1>35, <1>36, <1>37, <1>38, <1>39, <1>40
  DEF Next, Arrive, Serve, Sweep, Decide, Run, Record

\* A failed resume is not forgotten.
LEMMA TroubleStays == [Next]_vars => resumeTrouble \subseteq resumeTrouble'
<1>1. ASSUME NEW r \in Requests, Arrive(r)
      PROVE  resumeTrouble' = resumeTrouble
  BY <1>1 DEF Arrive, ReceiveMessage, ReceiveQuery, ReceiveDecision, history
<1>2. ASSUME NEW r \in Requests, Sweep(r)
      PROVE  resumeTrouble' = resumeTrouble
  BY <1>2
  DEF Sweep, SweepExpire, SweepRetry, SweepSkip, SweepDone, RefuseMessage,
      AdmitMessage, history
<1>3. ASSUME NEW r \in Requests, Decide(r)
      PROVE  resumeTrouble' = resumeTrouble
  BY <1>3
  DEF Decide, CleanupExpired, DecisionLocked, DecideRaced, DecideExpired,
      DecideConflict, DecidePending, TerminalConflict, TerminalRetry,
      ResumeTerminal, TerminalReport, history
<1>4. ASSUME NEW r \in Requests, Run(r)
      PROVE  resumeTrouble' = resumeTrouble
  BY <1>4
  DEF Run, ResumeUnreachable, ResumePaused, ResumeUnpaused, ReturnExisting,
      StartOperation, SendWrite, CreateTaskRecord, CompleteOperation, ToolRaises,
      AgentAnswers, AgentFails, AgentPauses, history
<1>5. ASSUME NEW r \in Requests, Record(r)
      PROVE  resumeTrouble \subseteq resumeTrouble'
  BY <1>5
  DEF Record, RecordFailure, RecordSuccess, EmitNotice, MarkNotice, CheckNoPending,
      CreateApproval, history
<1> QED
  BY <1>1, <1>2, <1>3, <1>4, <1>5 DEF Next, Serve, TtlElapses, Crash, vars, history

\* The whole inductive invariant.
THEOREM InvariantCorrect == Spec => []IInv
<1>1. Init => WritesInv /\ PauseInv /\ CalmInv
  BY SentinelAssumption
  DEF Init, WritesInv, WriteRecorded, OwnWriteOnce, PauseInv, PauseMoved,
      ExpiredPauseCleared, CalmInv, Undisturbed, CalmRecords, CalmRun, MayOpen,
      Resuming, ResumePoints, Uncleared, HasPending, PendingKeepsPause,
      ConfirmedWrites, Decisions
<1>2. RecordsInv /\ CalmInv /\ [Next]_vars => CalmInv'
  <2>1. CASE resumeTrouble = {}
    BY <2>1, CalmStep
  <2>2. CASE resumeTrouble # {}
    <3>1. [Next]_vars => resumeTrouble \subseteq resumeTrouble'
      BY TroubleStays
    <3> QED
      BY <2>2, <3>1 DEF CalmInv, Undisturbed, PendingKeepsPause, ConfirmedWrites
  <2> QED
    BY <2>1, <2>2
<1> QED
  BY <1>1, <1>2, RecordsCorrect, WritesStep, PauseStep, PTL DEF Spec, IInv

\* A call with a recorded id is written at most once for its own approval,
\* through failed and repeated resumes and crashes between record and write.
THEOREM WriteOnce == Spec => []OwnWriteOnce
<1>1. IInv => OwnWriteOnce
  BY DEF IInv, WritesInv
<1> QED
  BY <1>1, InvariantCorrect, PTL

\* An expired approval that no longer blocks its session has no pause that a
\* later resume could answer.
THEOREM ExpiryCleared == Spec => []ExpiredPauseCleared
<1>1. IInv => ExpiredPauseCleared
  BY DEF IInv, PauseInv
<1> QED
  BY <1>1, InvariantCorrect, PTL

\* Before the first failed resume every DBAAS write is one the user approved,
\* for the call that was shown, whatever crashed or raced.
THEOREM WritesConfirmed == Spec => []ConfirmedWrites
<1>1. IInv => ConfirmedWrites
  BY DEF IInv, CalmInv
<1> QED
  BY <1>1, InvariantCorrect, PTL

\* And until then the agent waits at the pending approval's own call.
THEOREM PendingPaused == Spec => []PendingKeepsPause
<1>1. IInv => PendingKeepsPause
  BY DEF IInv, CalmInv
<1> QED
  BY <1>1, InvariantCorrect, PTL

=============================================================================

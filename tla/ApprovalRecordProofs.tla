------------------------ MODULE ApprovalRecordProofs ------------------------
(***************************************************************************)
(* What the approval records promise whatever requests, retries and        *)
(* crashes wrote them: the run lock's exclusion and the agreement of a     *)
(* request's copy with the stored status give one pending approval at a    *)
(* time and the implementation of ApprovalLifecycle.                       *)
(***************************************************************************)
EXTENDS ApprovalTypeProofs

\* A step that appends no record opens no approval.
LEMMA QuietPending ==
    AtMostOnePending /\ UNCHANGED records => AtMostOnePending'
  BY DEF AtMostOnePending, records

\* A reply without a record: the request leaves its run and forgets its copy.
LEMMA QuietAnswer ==
  ASSUME TypeOK, LockHeld, CopyAgrees, NEW r \in Requests, Answer(r), UNCHANGED records
  PROVE  LockHeld' /\ CopyAgrees'
<1> USE SentinelAssumption
<1>1. LockHeld'
  BY DEF TypeOK, LocalOK, LockHeld, Answer, GoTo, ReleaseRunLock, HasPending,
         records, RunPoints, SharedPoints
<1>2. CopyAgrees'
  BY DEF TypeOK, LocalOK, CopyAgrees, Resuming, Answer, GoTo, records, ResumePoints
<1> QED BY <1>1, <1>2

\* Every step keeps the lock's owner, the copies' statuses and the one pending
\* approval.
LEMMA RecordsStep == RecordsInv /\ [Next]_vars => LockHeld' /\ CopyAgrees' /\ AtMostOnePending'
<1> SUFFICES ASSUME RecordsInv, [Next]_vars
             PROVE  LockHeld' /\ CopyAgrees' /\ AtMostOnePending'
  OBVIOUS
<1> USE SentinelAssumption DEF RecordsInv
<1>1. ASSUME NEW r \in Requests, ReceiveMessage(r)
      PROVE  LockHeld' /\ CopyAgrees' /\ AtMostOnePending'
  <2>1. LockHeld'
    BY <1>1
    DEF ReceiveMessage, TypeOK, LocalOK, AcquireRunLock, LockHeld, GoTo, HasPending,
        records, RunPoints, SharedPoints
  <2>2. CopyAgrees'
    BY <1>1
    DEF ReceiveMessage, TypeOK, LocalOK, RecordsOK, AcquireRunLock, CopyAgrees,
        Resuming, GoTo, records, ResumePoints, Terminal, Decisions
  <2> QED BY <1>1, <2>1, <2>2, QuietPending DEF ReceiveMessage
<1>2. ASSUME NEW r \in Requests, ReceiveQuery(r)
      PROVE  LockHeld' /\ CopyAgrees' /\ AtMostOnePending'
  <2>1. LockHeld'
    BY <1>2
    DEF ReceiveQuery, TypeOK, LocalOK, AcquireRunLock, LockHeld, GoTo, HasPending,
        records, RunPoints, SharedPoints
  <2>2. CopyAgrees'
    BY <1>2
    DEF ReceiveQuery, TypeOK, LocalOK, RecordsOK, AcquireRunLock, CopyAgrees,
        Resuming, GoTo, records, ResumePoints, Terminal, Decisions
  <2> QED BY <1>2, <2>1, <2>2, QuietPending DEF ReceiveQuery
<1>3. ASSUME NEW r \in Requests, NEW a \in Approvals, NEW d \in Decisions, ReceiveDecision(r, a, d)
      PROVE  LockHeld' /\ CopyAgrees' /\ AtMostOnePending'
  <2>1. LockHeld'
    BY <1>3
    DEF ReceiveDecision, TypeOK, LocalOK, Latest, Statuses, LockHeld, GoTo,
        HasPending, records, RunPoints, SharedPoints
  <2>2. CopyAgrees'
    BY <1>3
    DEF ReceiveDecision, TypeOK, LocalOK, RecordsOK, Latest, Statuses, CopyAgrees,
        Resuming, GoTo, records, ResumePoints, Terminal, Decisions
  <2> QED BY <1>3, <2>1, <2>2, QuietPending DEF ReceiveDecision
<1>4. ASSUME NEW r \in Requests, NEW a \in Approvals, SweepExpire(r, a)
      PROVE  LockHeld' /\ CopyAgrees' /\ AtMostOnePending'
  <2>1. LockHeld'
    BY <1>4
    DEF SweepExpire, TypeOK, LocalOK, RecordsOK, Overdue, ExpireRecord,
        AppendApproval, Overdue, LockHeld, GoTo, HasPending, records, RunPoints,
        SharedPoints, CopyAgrees, Resuming, ResumePoints, Terminal, Decisions,
        Answer, ReleaseRunLock, IsCleanup
  <2>2. CopyAgrees'
    BY <1>4
    DEF SweepExpire, TypeOK, LocalOK, RecordsOK, Overdue, ExpireRecord,
        AppendApproval, Overdue, CopyAgrees, Resuming, GoTo, records, ResumePoints,
        Terminal, Decisions, Answer, LockHeld, RunPoints, IsCleanup, Statuses
  <2>3. AtMostOnePending'
    BY <1>4
    DEF SweepExpire, Overdue, ExpireRecord, AppendApproval, Overdue, AppendApproval,
        TypeOK, LocalOK, RecordsOK, AtMostOnePending, CopyAgrees, Resuming,
        ResumePoints, LockHeld, HasPending, Terminal, Decisions
  <2> QED BY <2>1, <2>2, <2>3
<1>5. ASSUME NEW r \in Requests, NEW a \in Approvals, SweepRetry(r, a)
      PROVE  LockHeld' /\ CopyAgrees' /\ AtMostOnePending'
  <2>1. LockHeld'
    BY <1>5
    DEF SweepRetry, TypeOK, LocalOK, Uncleared, Latest, LockHeld, GoTo, HasPending,
        records, RunPoints, SharedPoints
  <2>2. CopyAgrees'
    BY <1>5
    DEF SweepRetry, TypeOK, LocalOK, RecordsOK, Uncleared, Latest, CopyAgrees,
        Resuming, GoTo, records, ResumePoints, Terminal, Decisions
  <2> QED BY <1>5, <2>1, <2>2, QuietPending DEF SweepRetry
<1>6. ASSUME NEW r \in Requests, NEW a \in Approvals, SweepSkip(r, a)
      PROVE  LockHeld' /\ CopyAgrees' /\ AtMostOnePending'
  <2>1. LockHeld'
    BY <1>6
    DEF SweepSkip, TypeOK, LocalOK, Overdue, Uncleared, LockHeld, GoTo, HasPending,
        records, RunPoints, SharedPoints
  <2>2. CopyAgrees'
    BY <1>6
    DEF SweepSkip, TypeOK, LocalOK, RecordsOK, Overdue, Uncleared, CopyAgrees,
        Resuming, GoTo, records, ResumePoints, Terminal, Decisions
  <2> QED BY <1>6, <2>1, <2>2, QuietPending DEF SweepSkip
<1>7. ASSUME NEW r \in Requests, SweepDone(r)
      PROVE  LockHeld' /\ CopyAgrees' /\ AtMostOnePending'
  <2>1. CASE Answer(r)
    BY <1>7, <2>1, QuietAnswer, QuietPending DEF SweepDone
  <2>2. CASE ~Answer(r)
    <3>1. LockHeld'
      BY <1>7, <2>2
      DEF SweepDone, TypeOK, LocalOK, LockHeld, GoTo, HasPending, records,
          RunPoints, SharedPoints
    <3>2. CopyAgrees'
      BY <1>7, <2>2
      DEF SweepDone, TypeOK, LocalOK, RecordsOK, CopyAgrees, Resuming, GoTo,
          records, ResumePoints, Terminal, Decisions
    <3> QED BY <1>7, <2>2, <3>1, <3>2, QuietPending DEF SweepDone
  <2> QED BY <2>1, <2>2
<1>8. ASSUME NEW r \in Requests, RefuseMessage(r)
      PROVE  LockHeld' /\ CopyAgrees' /\ AtMostOnePending'
  BY <1>8, QuietAnswer, QuietPending DEF RefuseMessage
<1>9. ASSUME NEW r \in Requests, AdmitMessage(r)
      PROVE  LockHeld' /\ CopyAgrees' /\ AtMostOnePending'
  <2>1. LockHeld'
    BY <1>9
    DEF AdmitMessage, TypeOK, LocalOK, Uncleared, LockHeld, GoTo, HasPending,
        records, RunPoints, SharedPoints
  <2>2. CopyAgrees'
    BY <1>9
    DEF AdmitMessage, TypeOK, LocalOK, RecordsOK, Uncleared, CopyAgrees, Resuming,
        GoTo, records, ResumePoints, Terminal, Decisions
  <2> QED BY <1>9, <2>1, <2>2, QuietPending DEF AdmitMessage
<1>10. ASSUME NEW r \in Requests, CleanupExpired(r)
      PROVE  LockHeld' /\ CopyAgrees' /\ AtMostOnePending'
  <2>1. CASE Answer(r)
    BY <1>10, <2>1, QuietAnswer, QuietPending DEF CleanupExpired
  <2>2. CASE ~Answer(r)
    <3>1. LockHeld'
      BY <1>10, <2>2
      DEF CleanupExpired, TypeOK, LocalOK, AcquireRunLock, Uncleared, Latest,
          LockHeld, GoTo, HasPending, records, RunPoints, SharedPoints
    <3>2. CopyAgrees'
      BY <1>10, <2>2
      DEF CleanupExpired, TypeOK, LocalOK, RecordsOK, AcquireRunLock, Uncleared,
          Latest, CopyAgrees, Resuming, GoTo, records, ResumePoints, Terminal,
          Decisions
    <3> QED BY <1>10, <2>2, <3>1, <3>2, QuietPending DEF CleanupExpired
  <2> QED BY <2>1, <2>2
<1>11. ASSUME NEW r \in Requests, DecisionLocked(r)
      PROVE  LockHeld' /\ CopyAgrees' /\ AtMostOnePending'
  BY <1>11, QuietAnswer, QuietPending DEF DecisionLocked
<1>12. ASSUME NEW r \in Requests, DecideRaced(r)
      PROVE  LockHeld' /\ CopyAgrees' /\ AtMostOnePending'
  <2>1. CASE Answer(r)
    BY <1>12, <2>1, QuietAnswer, QuietPending DEF DecideRaced
  <2>2. CASE ~Answer(r)
    <3>1. LockHeld'
      BY <1>12, <2>2
      DEF DecideRaced, TypeOK, LocalOK, AcquireRunLock, Uncleared, Latest, LockHeld,
          GoTo, HasPending, records, RunPoints, SharedPoints
    <3>2. CopyAgrees'
      BY <1>12, <2>2
      DEF DecideRaced, TypeOK, LocalOK, RecordsOK, AcquireRunLock, Uncleared,
          Latest, CopyAgrees, Resuming, GoTo, records, ResumePoints, Terminal,
          Decisions
    <3> QED BY <1>12, <2>2, <3>1, <3>2, QuietPending DEF DecideRaced
  <2> QED BY <2>1, <2>2
<1>13. ASSUME NEW r \in Requests, DecideExpired(r)
      PROVE  LockHeld' /\ CopyAgrees' /\ AtMostOnePending'
  <2>1. LockHeld'
    BY <1>13
    DEF DecideExpired, TypeOK, LocalOK, RecordsOK, AcquireRunLock, Overdue,
        ExpireRecord, AppendApproval, Overdue, LockHeld, GoTo, HasPending, records,
        RunPoints, SharedPoints, CopyAgrees, Resuming, ResumePoints, Terminal,
        Decisions, Answer, ReleaseRunLock, IsCleanup
  <2>2. CopyAgrees'
    BY <1>13
    DEF DecideExpired, TypeOK, LocalOK, RecordsOK, AcquireRunLock, Overdue,
        ExpireRecord, AppendApproval, Overdue, CopyAgrees, Resuming, GoTo, records,
        ResumePoints, Terminal, Decisions, Answer, LockHeld, RunPoints, IsCleanup,
        Statuses
  <2>3. AtMostOnePending'
    BY <1>13
    DEF DecideExpired, AcquireRunLock, Overdue, ExpireRecord, AppendApproval,
        Overdue, AppendApproval, TypeOK, LocalOK, RecordsOK, AtMostOnePending,
        CopyAgrees, Resuming, ResumePoints, LockHeld, HasPending, Terminal,
        Decisions
  <2> QED BY <2>1, <2>2, <2>3
<1>14. ASSUME NEW r \in Requests, DecideConflict(r)
      PROVE  LockHeld' /\ CopyAgrees' /\ AtMostOnePending'
  BY <1>14, QuietAnswer, QuietPending DEF DecideConflict
<1>15. ASSUME NEW r \in Requests, DecidePending(r)
      PROVE  LockHeld' /\ CopyAgrees' /\ AtMostOnePending'
  <2>1. target[r] \in Approvals /\ decision[r] \in Decisions /\ lock = NoRequest
    BY <1>15
    DEF DecidePending, AcquireRunLock, TypeOK, LocalOK, TargetPoints, CopyAgrees
  <2>2. status' = [status EXCEPT ![target[r]] = decision[r]]
    BY <1>15 DEF DecidePending, AppendApproval, DecidedRecord
  <2>3. \A b \in Approvals : status[b] \in Terminal => status'[b] = status[b]
    BY <1>15, <2>2 DEF DecidePending, TypeOK, RecordsOK, Terminal, Decisions
  <2>4. LockHeld'
    BY <1>15, <2>1, <2>2
    DEF DecidePending, TypeOK, LocalOK, RecordsOK, AcquireRunLock, LockHeld, GoTo,
        HasPending, RunPoints, SharedPoints, Decisions
  <2>5. CopyAgrees'
    <3>1. copy' = [copy EXCEPT ![r] = DecidedRecord(r)] /\ DecidedRecord(r).status = decision[r]
      BY <1>15 DEF DecidePending, DecidedRecord
    <3>2. pc' = [pc EXCEPT ![r] = "resume"]
      BY <1>15 DEF DecidePending, GoTo
    <3>3. \A s \in Requests : Resuming(s) => s = r
      BY <2>1 DEF LockHeld, Resuming, ResumePoints, RunPoints
    <3> QED
      BY <1>15, <2>1, <2>2, <2>3, <3>1, <3>2, <3>3
      DEF DecidePending, TypeOK, LocalOK, RecordsOK, CopyAgrees, Resuming,
          ResumePoints, Terminal, Decisions
  <2>6. AtMostOnePending'
    BY <2>1, <2>2 DEF TypeOK, RecordsOK, AtMostOnePending, Decisions
  <2> QED BY <2>4, <2>5, <2>6
<1>16. ASSUME NEW r \in Requests, TerminalConflict(r)
      PROVE  LockHeld' /\ CopyAgrees' /\ AtMostOnePending'
  BY <1>16, QuietAnswer, QuietPending DEF TerminalConflict
<1>17. ASSUME NEW r \in Requests, TerminalRetry(r)
      PROVE  LockHeld' /\ CopyAgrees' /\ AtMostOnePending'
  <2>1. LockHeld'
    BY <1>17
    DEF TerminalRetry, TypeOK, LocalOK, HasOperation, LockHeld, GoTo, HasPending,
        records, RunPoints, SharedPoints
  <2>2. CopyAgrees'
    BY <1>17
    DEF TerminalRetry, TypeOK, LocalOK, RecordsOK, HasOperation, CopyAgrees,
        Resuming, GoTo, records, ResumePoints, Terminal, Decisions
  <2> QED BY <1>17, <2>1, <2>2, QuietPending DEF TerminalRetry
<1>18. ASSUME NEW r \in Requests, ResumeTerminal(r)
      PROVE  LockHeld' /\ CopyAgrees' /\ AtMostOnePending'
  <2>1. LockHeld'
    BY <1>18
    DEF ResumeTerminal, TypeOK, LocalOK, AcquireRunLock, LockHeld, GoTo, HasPending,
        records, RunPoints, SharedPoints
  <2>2. CopyAgrees'
    BY <1>18
    DEF ResumeTerminal, TypeOK, LocalOK, RecordsOK, AcquireRunLock, CopyAgrees,
        Resuming, GoTo, records, ResumePoints, Terminal, Decisions
  <2> QED BY <1>18, <2>1, <2>2, QuietPending DEF ResumeTerminal
<1>19. ASSUME NEW r \in Requests, TerminalReport(r)
      PROVE  LockHeld' /\ CopyAgrees' /\ AtMostOnePending'
  <2>1. CASE Answer(r)
    BY <1>19, <2>1, QuietAnswer, QuietPending DEF TerminalReport
  <2>2. CASE ~Answer(r)
    <3>1. LockHeld'
      BY <1>19, <2>2
      DEF TerminalReport, TypeOK, LocalOK, WantsNotice, HasOperation, LockHeld,
          GoTo, HasPending, records, RunPoints, SharedPoints
    <3>2. CopyAgrees'
      BY <1>19, <2>2
      DEF TerminalReport, TypeOK, LocalOK, RecordsOK, WantsNotice, HasOperation,
          CopyAgrees, Resuming, GoTo, records, ResumePoints, Terminal, Decisions
    <3> QED BY <1>19, <2>2, <3>1, <3>2, QuietPending DEF TerminalReport
  <2> QED BY <2>1, <2>2
<1>20. ASSUME NEW r \in Requests, ResumeUnreachable(r)
      PROVE  LockHeld' /\ CopyAgrees' /\ AtMostOnePending'
  <2>1. LockHeld'
    BY <1>20
    DEF ResumeUnreachable, TypeOK, LocalOK, LockHeld, GoTo, HasPending, records,
        RunPoints, SharedPoints
  <2>2. CopyAgrees'
    BY <1>20
    DEF ResumeUnreachable, TypeOK, LocalOK, RecordsOK, CopyAgrees, Resuming, GoTo,
        records, ResumePoints, Terminal, Decisions
  <2> QED BY <1>20, <2>1, <2>2, QuietPending DEF ResumeUnreachable
<1>21. ASSUME NEW r \in Requests, ResumePaused(r)
      PROVE  LockHeld' /\ CopyAgrees' /\ AtMostOnePending'
  <2>1. LockHeld'
    BY <1>21
    DEF ResumePaused, TypeOK, LocalOK, LockHeld, GoTo, HasPending, records,
        RunPoints, SharedPoints
  <2>2. CopyAgrees'
    BY <1>21
    DEF ResumePaused, TypeOK, LocalOK, RecordsOK, CopyAgrees, Resuming, GoTo,
        records, ResumePoints, Terminal, Decisions
  <2> QED BY <1>21, <2>1, <2>2, QuietPending DEF ResumePaused
<1>22. ASSUME NEW r \in Requests, ResumeUnpaused(r)
      PROVE  LockHeld' /\ CopyAgrees' /\ AtMostOnePending'
  <2>1. LockHeld'
    BY <1>22
    DEF ResumeUnpaused, TypeOK, LocalOK, LockHeld, GoTo, HasPending, records,
        RunPoints, SharedPoints
  <2>2. CopyAgrees'
    BY <1>22
    DEF ResumeUnpaused, TypeOK, LocalOK, RecordsOK, CopyAgrees, Resuming, GoTo,
        records, ResumePoints, Terminal, Decisions
  <2> QED BY <1>22, <2>1, <2>2, QuietPending DEF ResumeUnpaused
<1>23. ASSUME NEW r \in Requests, ReturnExisting(r)
      PROVE  LockHeld' /\ CopyAgrees' /\ AtMostOnePending'
  <2>1. LockHeld'
    BY <1>23
    DEF ReturnExisting, TypeOK, LocalOK, LockHeld, GoTo, HasPending, records,
        RunPoints, SharedPoints
  <2>2. CopyAgrees'
    BY <1>23
    DEF ReturnExisting, TypeOK, LocalOK, RecordsOK, CopyAgrees, Resuming, GoTo,
        records, ResumePoints, Terminal, Decisions
  <2> QED BY <1>23, <2>1, <2>2, QuietPending DEF ReturnExisting
<1>24. ASSUME NEW r \in Requests, StartOperation(r)
      PROVE  LockHeld' /\ CopyAgrees' /\ AtMostOnePending'
  <2>1. LockHeld'
    BY <1>24
    DEF StartOperation, TypeOK, LocalOK, LockHeld, GoTo, HasPending, records,
        RunPoints, SharedPoints
  <2>2. CopyAgrees'
    BY <1>24
    DEF StartOperation, TypeOK, LocalOK, RecordsOK, CopyAgrees, Resuming, GoTo,
        records, ResumePoints, Terminal, Decisions
  <2> QED BY <1>24, <2>1, <2>2, QuietPending DEF StartOperation
<1>25. ASSUME NEW r \in Requests, SendWrite(r)
      PROVE  LockHeld' /\ CopyAgrees' /\ AtMostOnePending'
  <2>1. LockHeld'
    BY <1>25
    DEF SendWrite, TypeOK, LocalOK, LockHeld, GoTo, HasPending, records, RunPoints,
        SharedPoints
  <2>2. CopyAgrees'
    BY <1>25
    DEF SendWrite, TypeOK, LocalOK, RecordsOK, CopyAgrees, Resuming, GoTo, records,
        ResumePoints, Terminal, Decisions
  <2> QED BY <1>25, <2>1, <2>2, QuietPending DEF SendWrite
<1>26. ASSUME NEW r \in Requests, CreateTaskRecord(r)
      PROVE  LockHeld' /\ CopyAgrees' /\ AtMostOnePending'
  <2>1. LockHeld'
    BY <1>26
    DEF CreateTaskRecord, TypeOK, LocalOK, LockHeld, GoTo, HasPending, records,
        RunPoints, SharedPoints
  <2>2. CopyAgrees'
    BY <1>26
    DEF CreateTaskRecord, TypeOK, LocalOK, RecordsOK, CopyAgrees, Resuming, GoTo,
        records, ResumePoints, Terminal, Decisions
  <2> QED BY <1>26, <2>1, <2>2, QuietPending DEF CreateTaskRecord
<1>27. ASSUME NEW r \in Requests, CompleteOperation(r)
      PROVE  LockHeld' /\ CopyAgrees' /\ AtMostOnePending'
  <2>1. LockHeld'
    BY <1>27
    DEF CompleteOperation, TypeOK, LocalOK, LockHeld, GoTo, HasPending, records,
        RunPoints, SharedPoints
  <2>2. CopyAgrees'
    BY <1>27
    DEF CompleteOperation, TypeOK, LocalOK, RecordsOK, CopyAgrees, Resuming, GoTo,
        records, ResumePoints, Terminal, Decisions
  <2> QED BY <1>27, <2>1, <2>2, QuietPending DEF CompleteOperation
<1>28. ASSUME NEW r \in Requests, ToolRaises(r)
      PROVE  LockHeld' /\ CopyAgrees' /\ AtMostOnePending'
  <2>1. LockHeld'
    BY <1>28
    DEF ToolRaises, TypeOK, LocalOK, LockHeld, GoTo, HasPending, records, RunPoints,
        SharedPoints
  <2>2. CopyAgrees'
    BY <1>28
    DEF ToolRaises, TypeOK, LocalOK, RecordsOK, CopyAgrees, Resuming, GoTo, records,
        ResumePoints, Terminal, Decisions
  <2> QED BY <1>28, <2>1, <2>2, QuietPending DEF ToolRaises
<1>29. ASSUME NEW r \in Requests, AgentAnswers(r)
      PROVE  LockHeld' /\ CopyAgrees' /\ AtMostOnePending'
  <2>1. CASE Answer(r)
    BY <1>29, <2>1, QuietAnswer, QuietPending DEF AgentAnswers
  <2>2. CASE ~Answer(r)
    <3>1. LockHeld'
      BY <1>29, <2>2
      DEF AgentAnswers, TypeOK, LocalOK, LockHeld, GoTo, HasPending, records,
          RunPoints, SharedPoints
    <3>2. CopyAgrees'
      BY <1>29, <2>2
      DEF AgentAnswers, TypeOK, LocalOK, RecordsOK, CopyAgrees, Resuming, GoTo,
          records, ResumePoints, Terminal, Decisions
    <3> QED BY <1>29, <2>2, <3>1, <3>2, QuietPending DEF AgentAnswers
  <2> QED BY <2>1, <2>2
<1>30. ASSUME NEW r \in Requests, NEW c \in Approvals, AgentPauses(r, c)
      PROVE  LockHeld' /\ CopyAgrees' /\ AtMostOnePending'
  <2>1. LockHeld'
    BY <1>30
    DEF AgentPauses, TypeOK, LocalOK, Fresh, LockHeld, GoTo, HasPending, records,
        RunPoints, SharedPoints
  <2>2. CopyAgrees'
    BY <1>30
    DEF AgentPauses, TypeOK, LocalOK, RecordsOK, Fresh, CopyAgrees, Resuming, GoTo,
        records, ResumePoints, Terminal, Decisions
  <2> QED BY <1>30, <2>1, <2>2, QuietPending DEF AgentPauses
<1>31. ASSUME NEW r \in Requests, AgentFails(r)
      PROVE  LockHeld' /\ CopyAgrees' /\ AtMostOnePending'
  <2>1. CASE Answer(r)
    BY <1>31, <2>1, QuietAnswer, QuietPending DEF AgentFails
  <2>2. CASE ~Answer(r)
    <3>1. LockHeld'
      BY <1>31, <2>2
      DEF AgentFails, TypeOK, LocalOK, LockHeld, GoTo, HasPending, records,
          RunPoints, SharedPoints
    <3>2. CopyAgrees'
      BY <1>31, <2>2
      DEF AgentFails, TypeOK, LocalOK, RecordsOK, CopyAgrees, Resuming, GoTo,
          records, ResumePoints, Terminal, Decisions
    <3> QED BY <1>31, <2>2, <3>1, <3>2, QuietPending DEF AgentFails
  <2> QED BY <2>1, <2>2
<1>32. ASSUME NEW r \in Requests, RecordFailure(r)
      PROVE  LockHeld' /\ CopyAgrees' /\ AtMostOnePending'
  <2>1. LockHeld'
    BY <1>32
    DEF RecordFailure, TypeOK, LocalOK, RecordsOK, CleanupDone, AppendApproval,
        LockHeld, GoTo, HasPending, records, RunPoints, SharedPoints, CopyAgrees,
        Resuming, ResumePoints, Terminal, Decisions, Answer, ReleaseRunLock,
        IsCleanup
  <2>2. CopyAgrees'
    BY <1>32
    DEF RecordFailure, TypeOK, LocalOK, RecordsOK, CleanupDone, AppendApproval,
        CopyAgrees, Resuming, GoTo, records, ResumePoints, Terminal, Decisions,
        Answer, LockHeld, RunPoints, IsCleanup, Statuses
  <2>3. AtMostOnePending'
    BY <1>32
    DEF RecordFailure, CleanupDone, AppendApproval, AppendApproval, TypeOK, LocalOK,
        RecordsOK, AtMostOnePending, CopyAgrees, Resuming, ResumePoints, LockHeld,
        HasPending, Terminal, Decisions
  <2> QED BY <2>1, <2>2, <2>3
<1>33. ASSUME NEW r \in Requests, RecordSuccess(r)
      PROVE  LockHeld' /\ CopyAgrees' /\ AtMostOnePending'
  <2>1. target[r] \in Approvals /\ Resuming(r) /\ copy[r] \in Copies
    BY <1>33
    DEF RecordSuccess, TypeOK, LocalOK, TargetPoints, ResumePoints, Resuming
  <2>2. copy[r].status = status[target[r]] /\ status[target[r]] \in Terminal
    BY <2>1 DEF CopyAgrees
  <2>3. status' = status
    BY <1>33, <2>2 DEF RecordSuccess, AppendApproval, TypeOK, RecordsOK, records
  <2>4. \A b \in Approvals \ {target[r]} : resumeFailed'[b] = resumeFailed[b]
    BY <1>33 DEF RecordSuccess, AppendApproval, TypeOK, RecordsOK, records
  <2>5. AtMostOnePending'
    BY <2>3 DEF AtMostOnePending
  <2>6. CASE Answer(r)
    <3>1. LockHeld'
      BY <2>3, <2>6
      DEF TypeOK, LocalOK, LockHeld, Answer, GoTo, ReleaseRunLock, HasPending,
          RunPoints, SharedPoints
    <3>2. CopyAgrees'
      BY <1>33, <2>3, <2>4, <2>6
      DEF RecordSuccess, TypeOK, LocalOK, CopyAgrees, Resuming, Answer, GoTo,
          ResumePoints, LockHeld, RunPoints
    <3> QED BY <3>1, <3>2, <2>5
  <2>7. CASE ~Answer(r) /\ IsCleanup(r)
    <3>1. LockHeld'
      BY <1>33, <2>3, <2>7
      DEF RecordSuccess, CleanupDone, TypeOK, LocalOK, LockHeld, GoTo, HasPending,
          RunPoints, SharedPoints
    <3>2. CopyAgrees'
      BY <1>33, <2>3, <2>4, <2>7
      DEF RecordSuccess, CleanupDone, TypeOK, LocalOK, CopyAgrees, Resuming, GoTo,
          ResumePoints, LockHeld, RunPoints
    <3> QED BY <3>1, <3>2, <2>5
  <2>8. CASE ~Answer(r) /\ ~IsCleanup(r)
    <3>1. LockHeld'
      BY <1>33, <2>3, <2>8
      DEF RecordSuccess, TypeOK, LocalOK, LockHeld, GoTo, HasPending, RunPoints,
          SharedPoints
    <3>2. copy' = [copy EXCEPT ![r] = [copy[r] EXCEPT !.resumeFailed = FALSE]]
      BY <1>33, <2>8 DEF RecordSuccess
    <3>3. copy'[r].status = copy[r].status
      BY <2>1, <3>2 DEF TypeOK, LocalOK, Copies
    <3>4. CopyAgrees'
      BY <1>33, <2>2, <2>3, <2>4, <2>8, <3>2, <3>3
      DEF RecordSuccess, WantsNotice, TypeOK, LocalOK, CopyAgrees, Resuming, GoTo,
          ResumePoints, LockHeld, RunPoints
    <3> QED BY <3>1, <3>4, <2>5
  <2> QED BY <2>6, <2>7, <2>8
<1>34. ASSUME NEW r \in Requests, EmitNotice(r)
      PROVE  LockHeld' /\ CopyAgrees' /\ AtMostOnePending'
  <2>1. LockHeld'
    BY <1>34
    DEF EmitNotice, TypeOK, LocalOK, LockHeld, GoTo, HasPending, records, RunPoints,
        SharedPoints
  <2>2. CopyAgrees'
    BY <1>34
    DEF EmitNotice, TypeOK, LocalOK, RecordsOK, CopyAgrees, Resuming, GoTo, records,
        ResumePoints, Terminal, Decisions
  <2> QED BY <1>34, <2>1, <2>2, QuietPending DEF EmitNotice
<1>35. ASSUME NEW r \in Requests, MarkNotice(r)
      PROVE  LockHeld' /\ CopyAgrees' /\ AtMostOnePending'
  <2>1. LockHeld'
    BY <1>35
    DEF MarkNotice, TypeOK, LocalOK, RecordsOK, AppendApproval, LockHeld, GoTo,
        HasPending, records, RunPoints, SharedPoints, CopyAgrees, Resuming,
        ResumePoints, Terminal, Decisions, Answer, ReleaseRunLock, IsCleanup
  <2>2. CopyAgrees'
    BY <1>35
    DEF MarkNotice, TypeOK, LocalOK, RecordsOK, AppendApproval, CopyAgrees,
        Resuming, GoTo, records, ResumePoints, Terminal, Decisions, Answer,
        LockHeld, RunPoints, IsCleanup, Statuses
  <2>3. AtMostOnePending'
    BY <1>35
    DEF MarkNotice, AppendApproval, AppendApproval, TypeOK, LocalOK, RecordsOK,
        AtMostOnePending, CopyAgrees, Resuming, ResumePoints, LockHeld, HasPending,
        Terminal, Decisions
  <2> QED BY <2>1, <2>2, <2>3
<1>36. ASSUME NEW r \in Requests, CheckNoPending(r)
      PROVE  LockHeld' /\ CopyAgrees' /\ AtMostOnePending'
  <2>1. CASE Answer(r)
    BY <1>36, <2>1, QuietAnswer, QuietPending DEF CheckNoPending
  <2>2. CASE ~Answer(r)
    <3>1. LockHeld'
      BY <1>36, <2>2
      DEF CheckNoPending, TypeOK, LocalOK, LockHeld, GoTo, HasPending, records,
          RunPoints, SharedPoints
    <3>2. CopyAgrees'
      BY <1>36, <2>2
      DEF CheckNoPending, TypeOK, LocalOK, RecordsOK, CopyAgrees, Resuming, GoTo,
          records, ResumePoints, Terminal, Decisions
    <3> QED BY <1>36, <2>2, <3>1, <3>2, QuietPending DEF CheckNoPending
  <2> QED BY <2>1, <2>2
<1>37. ASSUME NEW r \in Requests, CreateApproval(r)
      PROVE  LockHeld' /\ CopyAgrees' /\ AtMostOnePending'
  <2>1. LockHeld'
    BY <1>37
    DEF CreateApproval, TypeOK, LocalOK, RecordsOK, AppendApproval, LockHeld, GoTo,
        HasPending, records, RunPoints, SharedPoints, CopyAgrees, Resuming,
        ResumePoints, Terminal, Decisions, Answer, ReleaseRunLock, IsCleanup
  <2>2. CopyAgrees'
    BY <1>37
    DEF CreateApproval, TypeOK, LocalOK, RecordsOK, AppendApproval, CopyAgrees,
        Resuming, GoTo, records, ResumePoints, Terminal, Decisions, Answer,
        LockHeld, RunPoints, IsCleanup, Statuses
  <2>3. AtMostOnePending'
    BY <1>37
    DEF CreateApproval, AppendApproval, AppendApproval, TypeOK, LocalOK, RecordsOK,
        AtMostOnePending, CopyAgrees, Resuming, ResumePoints, LockHeld, HasPending,
        Terminal, Decisions
  <2> QED BY <2>1, <2>2, <2>3
<1>38. ASSUME NEW a \in Approvals, TtlElapses(a) PROVE LockHeld' /\ CopyAgrees' /\ AtMostOnePending'
  BY <1>38, QuietPending
  DEF TtlElapses, LockHeld, CopyAgrees, Resuming, HasPending, local, records
<1>39. CASE Crash
  BY <1>39, QuietPending
  DEF Crash, LockHeld, CopyAgrees, Resuming, ResumePoints, HasPending, RunPoints,
      records
<1>40. CASE UNCHANGED vars
  BY <1>40, QuietPending
  DEF vars, local, LockHeld, CopyAgrees, Resuming, HasPending, records
<1> QED
  BY <1>1, <1>2, <1>3, <1>4, <1>5, <1>6, <1>7, <1>8, <1>9, <1>10, <1>11, <1>12,
     <1>13, <1>14, <1>15, <1>16, <1>17, <1>18, <1>19, <1>20, <1>21, <1>22, <1>23,
     <1>24, <1>25, <1>26, <1>27, <1>28, <1>29, <1>30, <1>31, <1>32, <1>33, <1>34,
     <1>35, <1>36, <1>37, <1>38, <1>39, <1>40
  DEF Next, Arrive, Serve, Sweep, Decide, Run, Record

\* Flags of a decided approval are invisible in the life cycle.
LEMMA Stutter ==
  ASSUME status' = status,
         \A a \in Approvals : status[a] = "expired" => resumeFailed'[a] = resumeFailed[a]
  PROVE  [Lifecycle!Next]_(Lifecycle!lifecycle)
  BY DEF Uncleared, Lifecycle!lifecycle

\* Every step maps to a step of the abstract life cycle or to a stutter.
LEMMA LifecycleStep == RecordsInv /\ [Next]_vars => [Lifecycle!Next]_(Lifecycle!lifecycle)
<1> SUFFICES ASSUME RecordsInv, [Next]_vars
             PROVE  [Lifecycle!Next]_(Lifecycle!lifecycle)
  OBVIOUS
<1> USE SentinelAssumption DEF RecordsInv
<1>1. ASSUME NEW r \in Requests, NEW a \in Approvals, SweepExpire(r, a)
      PROVE  [Lifecycle!Next]_(Lifecycle!lifecycle)
  <2>1. a \in Approvals /\ status[a] = "pending"
    BY <1>1 DEF SweepExpire, Overdue, TypeOK, LocalOK, TargetPoints
  <2>2. status' = [status EXCEPT ![a] = "expired"] /\ resumeFailed' = [resumeFailed EXCEPT ![a] = TRUE]
    BY <1>1 DEF SweepExpire, AppendApproval, ExpireRecord
  <2>3. Lifecycle!Expire(a)
    BY <2>1, <2>2 DEF Lifecycle!Expire, TypeOK, RecordsOK, Uncleared
  <2> QED BY <2>1, <2>3 DEF Lifecycle!Next
<1>2. ASSUME NEW r \in Requests, DecideExpired(r)
      PROVE  [Lifecycle!Next]_(Lifecycle!lifecycle)
  <2>1. target[r] \in Approvals /\ status[target[r]] = "pending"
    BY <1>2 DEF DecideExpired, Overdue, TypeOK, LocalOK, TargetPoints
  <2>2. status' = [status EXCEPT ![target[r]] = "expired"] /\ resumeFailed' = [resumeFailed EXCEPT ![target[r]] = TRUE]
    BY <1>2 DEF DecideExpired, AppendApproval, ExpireRecord
  <2>3. Lifecycle!Expire(target[r])
    BY <2>1, <2>2 DEF Lifecycle!Expire, TypeOK, RecordsOK, Uncleared
  <2> QED BY <2>1, <2>3 DEF Lifecycle!Next
<1>3. ASSUME NEW r \in Requests, DecidePending(r)
      PROVE  [Lifecycle!Next]_(Lifecycle!lifecycle)
  <2>1. target[r] \in Approvals /\ decision[r] \in Decisions /\ status[target[r]] = "pending"
    BY <1>3 DEF DecidePending, TypeOK, LocalOK, TargetPoints, CopyAgrees
  <2>2. status' = [status EXCEPT ![target[r]] = decision[r]] /\ resumeFailed' = [resumeFailed EXCEPT ![target[r]] = FALSE]
    BY <1>3 DEF DecidePending, AppendApproval, DecidedRecord
  <2>3. Lifecycle!Decide(target[r], decision[r])
    BY <2>1, <2>2 DEF Lifecycle!Decide, TypeOK, RecordsOK, Uncleared, Decisions
  <2> QED BY <2>1, <2>3 DEF Lifecycle!Next, Decisions
<1>4. ASSUME NEW r \in Requests, RecordFailure(r)
      PROVE  [Lifecycle!Next]_(Lifecycle!lifecycle)
  <2>1. target[r] \in Approvals /\ copy[r] \in Copies /\ copy[r].status = status[target[r]]
    BY <1>4
    DEF RecordFailure, TypeOK, LocalOK, TargetPoints, ResumePoints, Resuming,
        CopyAgrees
  <2>2. status' = status
    BY <1>4, <2>1 DEF RecordFailure, AppendApproval, TypeOK, RecordsOK, Copies
  <2>3. \A b \in Approvals : status[b] = "expired" => resumeFailed'[b] = resumeFailed[b]
    BY <1>4, <2>1
    DEF RecordFailure, AppendApproval, TypeOK, RecordsOK, Copies, CopyAgrees,
        Resuming, ResumePoints
  <2> QED BY <2>2, <2>3, Stutter
<1>5. ASSUME NEW r \in Requests, RecordSuccess(r)
      PROVE  [Lifecycle!Next]_(Lifecycle!lifecycle)
  <2> DEFINE a == target[r]
  <2>1. a \in Approvals /\ copy[r] \in Copies /\ copy[r].status = status[a]
    BY <1>5
    DEF RecordSuccess, TypeOK, LocalOK, TargetPoints, ResumePoints, Resuming,
        CopyAgrees
  <2>2. status' = status
    BY <1>5, <2>1
    DEF RecordSuccess, AppendApproval, TypeOK, RecordsOK, Copies, records
  <2>3. CASE status[a] = "expired"
    <3>1. a \in {b \in Approvals : Uncleared(b)} /\ copy[r].resumeFailed
      BY <1>5, <2>1, <2>3
      DEF RecordSuccess, CopyAgrees, Resuming, ResumePoints, Uncleared
    <3>2. resumeFailed' = [resumeFailed EXCEPT ![a] = FALSE]
      BY <1>5, <2>1, <3>1 DEF RecordSuccess, AppendApproval, Copies
    <3>3. Lifecycle!Clear(a)
      BY <2>1, <2>2, <3>1, <3>2 DEF Lifecycle!Clear, TypeOK, RecordsOK, Uncleared
    <3> QED BY <2>1, <3>3 DEF Lifecycle!Next
  <2>4. CASE status[a] # "expired"
    <3>1. \A b \in Approvals : status[b] = "expired" => resumeFailed'[b] = resumeFailed[b]
      BY <1>5, <2>1, <2>4
      DEF RecordSuccess, AppendApproval, TypeOK, RecordsOK, records
    <3> QED BY <2>2, <3>1, Stutter
  <2> QED BY <2>3, <2>4
<1>6. ASSUME NEW r \in Requests, MarkNotice(r)
      PROVE  [Lifecycle!Next]_(Lifecycle!lifecycle)
  <2>1. target[r] \in Approvals /\ copy[r] \in Copies /\ copy[r].status = status[target[r]]
    BY <1>6
    DEF MarkNotice, TypeOK, LocalOK, TargetPoints, ResumePoints, Resuming,
        CopyAgrees
  <2>2. status' = status
    BY <1>6, <2>1 DEF MarkNotice, AppendApproval, TypeOK, RecordsOK, Copies
  <2>3. \A b \in Approvals : status[b] = "expired" => resumeFailed'[b] = resumeFailed[b]
    BY <1>6, <2>1
    DEF MarkNotice, AppendApproval, TypeOK, RecordsOK, Copies, CopyAgrees, Resuming,
        ResumePoints
  <2> QED BY <2>2, <2>3, Stutter
<1>7. ASSUME NEW r \in Requests, CreateApproval(r)
      PROVE  [Lifecycle!Next]_(Lifecycle!lifecycle)
  <2> DEFINE c == nextCall[r]
  <2>1. c \in Approvals /\ status[c] = "none" /\ ~HasPending
    BY <1>7 DEF CreateApproval, TypeOK, LocalOK, LockHeld
  <2>2. status' = [status EXCEPT ![c] = "pending"] /\ resumeFailed' = [resumeFailed EXCEPT ![c] = FALSE]
    BY <1>7 DEF CreateApproval, AppendApproval
  <2>3. Lifecycle!Open(c)
    BY <2>1, <2>2 DEF Lifecycle!Open, TypeOK, RecordsOK, Uncleared, HasPending
  <2> QED BY <2>1, <2>3 DEF Lifecycle!Next
<1>9. ASSUME NEW r \in Requests, Arrive(r)
      PROVE  UNCHANGED records
  BY <1>9 DEF Arrive, ReceiveMessage, ReceiveQuery, ReceiveDecision
<1>10. ASSUME NEW r \in Requests, Sweep(r), \A a \in Approvals : ~SweepExpire(r, a)
      PROVE  UNCHANGED records
  BY <1>10 DEF Sweep, SweepRetry, SweepSkip, SweepDone, RefuseMessage, AdmitMessage
<1>11. ASSUME NEW r \in Requests, Decide(r), ~DecideExpired(r), ~DecidePending(r)
      PROVE  UNCHANGED records
  BY <1>11
  DEF Decide, CleanupExpired, DecisionLocked, DecideRaced, DecideConflict,
      TerminalConflict, TerminalRetry, ResumeTerminal, TerminalReport
<1>12. ASSUME NEW r \in Requests, Run(r)
      PROVE  UNCHANGED records
  BY <1>12
  DEF Run, ResumeUnreachable, ResumePaused, ResumeUnpaused, ReturnExisting,
      StartOperation, SendWrite, CreateTaskRecord, CompleteOperation, ToolRaises,
      AgentAnswers, AgentFails, AgentPauses
<1>13. ASSUME NEW r \in Requests, EmitNotice(r) \/ CheckNoPending(r)
      PROVE  UNCHANGED records
  BY <1>13 DEF EmitNotice, CheckNoPending
<1>14. CASE (\E a \in Approvals : TtlElapses(a)) \/ Crash \/ UNCHANGED vars
  BY <1>14, Stutter DEF TtlElapses, Crash, vars, records
<1>15. CASE UNCHANGED records
  BY <1>15, Stutter DEF records
<1> QED
  BY <1>1, <1>2, <1>3, <1>4, <1>5, <1>6, <1>7, <1>9, <1>10, <1>11, <1>12, <1>13,
     <1>14, <1>15
  DEF Next, Serve, Record

\* The records' invariant holds initially and at every step.
THEOREM RecordsCorrect == Spec => []RecordsInv
<1>1. Init => RecordsInv
  <2>1. Init => TypeOK
    BY InitType
  <2>2. Init => LockHeld /\ CopyAgrees /\ AtMostOnePending
    BY SentinelAssumption
    DEF Init, LockHeld, CopyAgrees, AtMostOnePending, RunPoints, Resuming,
        ResumePoints
  <2> QED
    BY <2>1, <2>2 DEF RecordsInv
<1>2. RecordsInv /\ [Next]_vars => RecordsInv'
  BY TypeStep, RecordsStep DEF RecordsInv
<1> QED
  BY <1>1, <1>2, PTL DEF Spec

\* No two requests are inside the part of their work that the run lock covers:
\* sweep, resume, tool call and creation of the next approval.
THEOREM Exclusion == Spec => []RunExclusive
<1>1. RecordsInv => RunExclusive
  BY DEF RecordsInv, LockHeld, RunExclusive
<1> QED
  BY <1>1, RecordsCorrect, PTL

\* create_approval's check and append are separate steps on two code paths, yet
\* at most one approval of the session is ever pending.
THEOREM OnePending == Spec => []AtMostOnePending
<1>1. RecordsInv => AtMostOnePending
  BY DEF RecordsInv
<1> QED
  BY <1>1, RecordsCorrect, PTL

\* The approval records implement the abstract life cycle: decided once, never
\* reopened by a stale copy, a cleaned expiry final.
THEOREM LifecycleImplemented == Spec => LifecycleSpec
<1>1. Init => Lifecycle!Init
  BY DEF Init, Lifecycle!Init, Uncleared
<1> QED
  BY <1>1, RecordsCorrect, LifecycleStep, PTL
  DEF Spec, LifecycleSpec, Lifecycle!Spec

=============================================================================

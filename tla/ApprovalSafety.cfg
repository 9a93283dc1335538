SPECIFICATION Spec
CONSTANTS
    Requests = {r1, r2}
    Approvals = {a1, a2}
    StreamCalls = {}
    NoRequest = NoRequest
    NoApproval = NoApproval
    WriteCap = 2
    NoticeCap = 0
SYMMETRY Symmetry
INVARIANTS
    TypeOK
    IInv
    RunExclusive
    AtMostOnePending
    PendingKeepsPause
    ConfirmedWrites
    OwnWriteOnce
    ExpiredPauseCleared
PROPERTY LifecycleSpec

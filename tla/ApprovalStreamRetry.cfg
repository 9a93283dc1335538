SPECIFICATION Spec
CONSTANTS
    Requests = {r1, r2}
    Approvals = {a1, a2}
    StreamCalls = {a1, a2}
    NoRequest = NoRequest
    NoApproval = NoApproval
    WriteCap = 2
    NoticeCap = 0
SYMMETRY Symmetry
INVARIANT StartedNotRetried

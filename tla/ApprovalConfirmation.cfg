SPECIFICATION Spec
CONSTANTS
    Requests = {r1, r2}
    Approvals = {a1, a2}
    StreamCalls = {}
    NoRequest = NoRequest
    NoApproval = NoApproval
    WriteCap = 1
    NoticeCap = 0
SYMMETRY Symmetry
INVARIANT ConfirmationFirst

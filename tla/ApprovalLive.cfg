SPECIFICATION FairSpec
CONSTANTS
    Requests = {r1, r2}
    Approvals = {a1}
    StreamCalls = {}
    NoRequest = NoRequest
    NoApproval = NoApproval
    WriteCap = 0
    NoticeCap = 0
PROPERTIES
    LockGivenBack
    OverdueExpires

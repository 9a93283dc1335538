SPECIFICATION Spec
CONSTANTS
    Sessions = {a, b}
    Calls = {c1, c2}
    None = None
    TimerCap = 2
SYMMETRY Symmetry
INVARIANTS
    TypeOK
    PanelFollows
    ComesFree

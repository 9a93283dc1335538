SPECIFICATION Spec
CONSTANTS
    Workers = {w1, w2}
    Loop = Loop
    NoOne = NoOne
    Kinds = {"user", "lazy", "latest", "history"}
    MaxFetch = 3
SYMMETRY Symmetry
INVARIANTS
    TypeOK
    Paired
PROPERTIES
    ServedInTime
    NeverBack
    SweepSpares

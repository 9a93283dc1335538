SPECIFICATION Spec
CONSTANTS
    Workers = {w1, w2}
    Loop = Loop
    NoOne = NoOne
    Kinds = {"admin"}
    MaxFetch = 3
INVARIANT NoLockNeeded

SPECIFICATION Spec
CONSTANTS
    Tasks = {t1, t2}
    Repeats = {r1, r2}
    Viewers = {stream, page}
    Streams = {stream}
    Outcomes = {"succeeded"}
    NoTask = NoTask
    NoOne = NoOne
    Resumed = Resumed
SYMMETRY Symmetry
INVARIANT TypeOK
PROPERTY NoticeAfterAll

SPECIFICATION FairSpec
CONSTANTS
    Tasks = {t1}
    Repeats = {r1}
    Viewers = {stream, page}
    Streams = {stream}
    Outcomes = {"succeeded", "failed"}
    NoTask = NoTask
    NoOne = NoOne
    Resumed = Resumed
INVARIANT RecordedOutcome
PROPERTY TasksReported

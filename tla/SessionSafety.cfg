SPECIFICATION Spec
CONSTANTS
    a = a  b = b
    Sessions <- MCSessions
    Asked <- MCAsked
    Requests = {r1, r2}
    NoOne = NoOne
SYMMETRY Symmetry
INVARIANTS
    TypeOK
    IndexFollows
    UnfinishedKeepsThread
PROPERTIES
    NoOrphanThread
    BackBehindTheLock

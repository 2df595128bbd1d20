CONSTANTS
    Jobs = {1, 2}
    Watched = {1, 2}
    Workers = {w1, w2}
    Requests = {q1, q2}
    MaxFaults = 1
    NoJob = NoJob
    NoRequest = NoRequest
    SecondJob = 2
    SecondWorker = w2
SPECIFICATION SmallSpec
CHECK_DEADLOCK FALSE
INVARIANTS AnalysedOnce ExclusiveCapture StoredPhotoIsKept
PROPERTIES EndedStaysEnded EveryJobEnds

CONSTANTS
    Bins = {b1}
    Runs = {r1}
    Requests = {q1, q2}
    Kinds <- AllKinds
    Capacity = 2
    Production = TRUE
    MaxAttempts = 2
    MaxChanges = 1
    MaxRestarts = 1
    NoOne = NoOne
SPECIFICATION OneUnitSpec
SYMMETRY Symmetry
CHECK_DEADLOCK FALSE
INVARIANTS StatusMatchesStock
PROPERTIES DecidedOnce

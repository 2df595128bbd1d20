CONSTANTS
    Bins = {b1}
    Runs = {r1, r2}
    Requests = {q1}
    Kinds = {"ACCEPT"}
    Capacity = 2
    Production = TRUE
    MaxAttempts = 1
    MaxChanges = 0
    MaxRestarts = 1
    NoOne = NoOne
SPECIFICATION FairOneUnitSpec
CHECK_DEADLOCK FALSE
INVARIANTS ScanStationIsAttended
PROPERTIES UnattendedAuditEnds

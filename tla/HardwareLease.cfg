CONSTANTS
    Calls = {s1, s2, d1}
    Sessions = {s1, s2}
    Stallable = {s1}
    Lease = 3
    Patience = 2
    MaxMisses = 1
    NoRow = NoRow
SPECIFICATION FairSpec
CHECK_DEADLOCK FALSE
INVARIANTS LiveLeaseIsKept OneMovement
PROPERTIES LostLeaseStartsNothing EveryRequestIsAnswered AbandonedLeaseExpires

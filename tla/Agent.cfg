CONSTANTS
    b1 = b1
    b2 = b2
    Bins = {b1, b2}
    MaxOffers = 4
    MaxTurns = 2
    Calls = {c1, c2}
    MaxMisses = 1
    MaxFaults = 1
    NoBin = NoBin
    NoCall = NoCall
    Plan <- TwoBins
    Ideas <- PlanOnly
SPECIFICATION FairSpec
CHECK_DEADLOCK FALSE
PROPERTIES ApprovalAuthorises NextBinWaitsForReturn PlanIsFulfilled

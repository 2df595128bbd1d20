CONSTANTS
    Bins = {b1}
    Calls = {r1, r2}
    Keys = {k1}
    Kinds = {"retrieve", "putaway", "return"}
    Capacity = 1
    MaxAdjustments = 0
    NoBin = NoBin
    NoCall = NoCall
    NoKey = NoKey
    Retriever = r1
    Returner = r2
    Stocked = b1
SPECIFICATION FairSpec
CHECK_DEADLOCK FALSE
PROPERTIES AbandonedReservationIsReleased EveryRetrievalEnds

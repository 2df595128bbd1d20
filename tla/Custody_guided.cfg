CONSTANTS
    Bins = {b1, b2}
    Calls = {r1, r2}
    Keys = {k1}
    Kinds = {"retrieve", "putaway", "return", "guided"}
    Capacity = 1
    MaxAdjustments = 1
    NoBin = NoBin
    NoCall = NoCall
    NoKey = NoKey
    Retriever = r1
    Returner = r2
    Stocked = b1
SPECIFICATION StockedSpec
SYMMETRY Symmetry
CHECK_DEADLOCK FALSE
INVARIANTS TripStartsWhereBinIs
PROPERTIES StockChangesOnlyOnEvidence CheckoutIsIdempotent

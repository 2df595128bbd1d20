CONSTANTS
    Bins = {b1, b2}
    Calls = {r1, r2, r3}
    Keys = {k1}
    Kinds = {"retrieve", "putaway", "return"}
    Capacity = 1
    MaxAdjustments = 0
    NoBin = NoBin
    NoCall = NoCall
    NoKey = NoKey
    Retriever = r1
    Returner = r2
    Stocked = b1
SPECIFICATION RelocationSpec
CHECK_DEADLOCK FALSE
INVARIANTS OneDriverPerBin ShelvedStatusMatchesStock

CONSTANTS
    Contents = {"full", "empty"}
    Edits <- MCEdits
    MaxDays = 2
    NoPlan = NoPlan
    Skus = {"s", "t"}
    MaxSelected = 2
    Shelf <- MCShelf
    Needs <- MCNeeds
    MaxOthers = 2
    NoBin = NoBin
SPECIFICATION FairSpec
CHECK_DEADLOCK FALSE
INVARIANTS SelectionIsSound
PROPERTIES NewestPlanIsAnalysed

CONSTANTS
    Jobs = {1, 2}
    Results = {"READY"}
    MaxAttempt = 1
    MaxFaults = 1
    Service = Service
    Tab = Tab
    NoJob = NoJob
    NoEvent = NoEvent
SPECIFICATION FairSpec
CHECK_DEADLOCK FALSE
INVARIANTS EvidenceIsOfItsAttempt AcceptanceIsHonoured AcceptedCountIsLoaded
PROPERTIES DecidedIsFinal CheckEndsAndCloses

SPECIFICATION Spec
CONSTANTS
  Limit = 3
  Tokens <- MCTokens
  Identifiers <- MCIdentifiers
  Scans <- MCScans
  Parts <- MCParts
  Registered <- MCRegistered
  Resolutions = {"r"}
  Clerks = {"k1", "k2"}
  Verdict <- MCVerdict
  NoPart = "no part"
  NoScan = "no scan"
  NoRow = "no row"
  Bins <- MCBins
  Capacity <- MCCapacity
  x1 = "x1"
  x2 = "x2"
  Runs = {"x1", "x2"}
  Scenarios <- MCScenarios
  MaxCorrections = 2
INVARIANTS IdentityIsConfirmed ReplayAnswersOriginal ReservationHasAnOwner MatchIsSound
PROPERTIES CheckoutIsReportedAtTheCounter
CHECK_DEADLOCK FALSE

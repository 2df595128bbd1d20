SPECIFICATION FairSpec
CONSTANTS
  Scans <- MCScans
  Parts <- MCParts
  Registered <- MCRegistered
  Resolutions = {"r1", "r2"}
  Clerks = {}
  Verdict <- MCVerdict
  NoPart = "no part"
  NoScan = "no scan"
  NoRow = "no row"
  MaxScans = 2
  MaxFaults = 1
INVARIANTS ShownIdentityIsOfThisScan BinAtCounterIsAskedAbout
PROPERTIES StoredAsShown EveryScanEnds
CHECK_DEADLOCK FALSE

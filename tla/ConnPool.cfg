SPECIFICATION Spec
CONSTANTS
  home = home
  other = other
  NSlots = 2
  Tables <- MCTables
  Home = home
  MaxReaders = 2
  MaxNest = 3
  MaxSubs = 3
  MaxVer = 1
INVARIANTS TypeOK OneReader QuietWhenFree ScanReadsItsTable  

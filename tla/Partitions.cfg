SPECIFICATION Spec
CONSTANTS
  Parts = {a, b, c}
  None = none
  MaxPartno = 2
  Readers = {r, s}
  Sectors = {1}
  Capacities = {0, 2}
  Native = 3
  SectorMax = 8
  Scans <- MCScans
  Programs <- MCPrograms
  r = r
  s = s
INVARIANTS ReadersSafe WithinDisk AnnouncedAll
CHECK_DEADLOCK FALSE

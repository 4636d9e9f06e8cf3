SPECIFICATION ScreensSpec
SYMMETRY MCSymmetry
CONSTANTS
  Paths = {"a", "b"}
  RowCap = 3
  MaxListing = 4
  MaxPopulates = 3
  Ssids = {A, B}
  Scans <- MCScans
  MaxId = 1
  MaxEvents = 1
  RowAddrs = {"r1"}
  MaxPrompts = 2
  GcodeFiles <- MCGcodeFiles
  MaxRelative = 4
  PathCap = 5
  Names = {"ui", "fan"}
  MaxLines = 2
  MaxJobs = 3
  MaxLosses = 2
  MaxInstalls = 2
INVARIANTS
  IntegersReadBack
CHECK_DEADLOCK FALSE

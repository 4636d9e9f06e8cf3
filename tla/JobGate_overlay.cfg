SPECIFICATION GateSpec
CONSTANTS
  MaxJobs = 1
  MaxLosses = 1
  MaxInstalls = 2
INVARIANT
  OverlayOutlastsUpdate

SPECIFICATION StatusSpec
CONSTANTS
  MaxChanges = 3
  MaxFaults = 1
  MaxGarbled = 1
  MaxWire = 2
INVARIANTS
  StatusTypeOK
  StateIsCurrent
  CockpitIsCurrent
PROPERTIES
  GlassSettles
CHECK_DEADLOCK FALSE

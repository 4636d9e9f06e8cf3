SPECIFICATION FairSpec
CONSTANT MaxFaults = 2
INVARIANTS
  TypeOK
  CockpitIsLive
PROPERTIES
  RevealIsFresh
  CockpitComes
CHECK_DEADLOCK FALSE

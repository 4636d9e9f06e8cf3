SPECIFICATION FairSpec
CONSTANTS
  cal1 = cal1
  cal2 = cal2
  run1 = run1
  NoMsg = NoMsg
  Action = Action
  CalMsg <- MCCal
  RunMsg <- MCRun
  WatchdogTicks = 2
  MaxChanges = 4
  MaxTaps = 1
  MaxLosses = 1
  MaxPrompts = 1
INVARIANTS
  TypeOK
  ScrimIsArmed
  OverlayIsHonest
  LossStrandsNothing
PROPERTIES
  ScrimGoes
  AlarmLights

SPECIFICATION Spec
CONSTANTS
  cal1 = cal1
  cal2 = cal2
  run1 = run1
  NoMsg = NoMsg
  Action = Action
  CalMsg <- MCCal
  RunMsg <- MCRun
  WatchdogTicks = 3
  MaxChanges = 1
  MaxTaps = 0
  MaxLosses = 0
  MaxPrompts = 0
PROPERTY
  WatchdogSparesHealthyOps

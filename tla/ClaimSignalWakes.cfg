SPECIFICATION Spec
CONSTANTS
  Workflow = {w1}
  Program <- OneSignal
  ExecTimeout = FALSE
  MaxFaults = 0
  MaxSignals = 1
  MaxCancels = 0
  MaxLosses = 0
  MaxCrashes = 0
INVARIANT ParkedIsBlocked
CHECK_DEADLOCK FALSE

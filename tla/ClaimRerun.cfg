SPECIFICATION Spec
CONSTANTS
  Workflow = {w1}
  Program <- ActivityFirst
  ExecTimeout = FALSE
  MaxFaults = 0
  MaxSignals = 2
  MaxCancels = 0
  MaxLosses = 0
  MaxCrashes = 0
INVARIANT NotRescheduled
CHECK_DEADLOCK FALSE

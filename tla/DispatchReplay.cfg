SPECIFICATION Spec
CONSTANTS
  Workflow = {w1}
  Program <- SignalFirst
  ExecTimeout = FALSE
  MaxFaults = 1
  MaxSignals = 2
  MaxCancels = 0
  MaxLosses = 0
  MaxCrashes = 0
INVARIANT CommandsBacked
 
INVARIANT ScheduledReachesQueue
CHECK_DEADLOCK FALSE

SPECIFICATION Spec
CONSTANTS
  Workflow = {w1}
  Program <- OneSignal
  ExecTimeout = TRUE
  MaxFaults = 1
  MaxSignals = 1
  MaxCancels = 1
  MaxLosses = 0
  MaxCrashes = 1
INVARIANT TypeOK
INVARIANT NoDispatchAfterFinish
INVARIANT NeverStranded
INVARIANT PelMatchesTables
INVARIANT OutcomeReachesRow
CHECK_DEADLOCK FALSE

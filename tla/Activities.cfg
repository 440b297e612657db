SPECIFICATION FairSpec
CONSTANTS
  Workflow = {w1}
  MaxActivities = 1
  MaximumAttempts = 2
  MaxFaults = 1
  MaxLosses = 2
  MaxCrashes = 1
INVARIANT TypeOK
INVARIANT SingleTask
INVARIANT AttemptsBounded
INVARIANT SuccessIsFinal
INVARIANT NeverDropped
 
PROPERTY ActivitySettles
CHECK_DEADLOCK FALSE

SPECIFICATION FairSpec
CONSTANTS
  Worker = {k1, k2}
  MaxTasks = 3
  MaxStreams = 2
  MaxIdles = 1
INVARIANT TypeOK
INVARIANT OnePlace
 
INVARIANT OneCredit
PROPERTY ServedUnlessIdle
CHECK_DEADLOCK FALSE

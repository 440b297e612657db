SPECIFICATION FairSpec
CONSTANTS
  Worker = {k1}
  MaxTasks = 1
  MaxStreams = 1
  MaxIdles = 1
PROPERTY TaskServed
CHECK_DEADLOCK FALSE

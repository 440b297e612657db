SPECIFICATION FairSpec
CONSTANTS
  Engine = {e1, e2}
  None = None
  MaxUpsets = 2
INVARIANT TypeOK
INVARIANT CleanHandover
PROPERTY PanicHarmless
PROPERTY DrainEnds
PROPERTY Failover
CHECK_DEADLOCK FALSE

SPECIFICATION FairSpec
CONSTANTS
  Appender = {a1, a2, a3, a4}
  Unlocked = Unlocked
INVARIANT TypeOK
INVARIANT Gapless
PROPERTY ImplementsHistory
PROPERTY AppendAnswered
CHECK_DEADLOCK FALSE

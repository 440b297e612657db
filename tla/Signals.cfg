SPECIFICATION FairSpec
CONSTANTS
  Waiter = {c1, c2, c3}
  MaxSignals = 3
INVARIANT TypeOK
INVARIANT NoWaitOnBuffered
INVARIANT DeliveredOnce
INVARIANT OldestFirst
INVARIANT WaitersLive
PROPERTY WaitReturns
CHECK_DEADLOCK FALSE

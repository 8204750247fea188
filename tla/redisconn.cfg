CONSTANTS
  t1 = t1
  t2 = t2
  t3 = t3
  Threads = {t1, t2, t3}
  Values = {0, 1, 2}
  None = None
  CanLose = TRUE
  MaxCalls = 1
SPECIFICATION FairSpec
INVARIANTS TypeOK OwnReply OneCommandAtATime
PROPERTIES EveryCallReturns ImplementsAtomicStore

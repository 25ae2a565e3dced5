SPECIFICATION FairSpec
CONSTANTS
  t1 = t1
  t2 = t2
  t3 = t3
  Threads <- ThreeThreads
  MaxLocks <- OneTwice
  CanCancel = TRUE
  JoinFirst = FALSE
INVARIANTS
  Counting
  NoLostWakeup
PROPERTIES
  ImplementsSharedExclusive
  CallReturns

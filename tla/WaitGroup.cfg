SPECIFICATION FairSpec
CONSTANTS
  owner = owner
  other = other
  t1 = t1
  t2 = t2
  t3 = t3
  Tasks <- ThreeTasks
  Waiters <- TwoWaiters
  Owner = owner
  NoOne = NoOne
  kMaxSpinIterations = 2
INVARIANTS
  TypeOK
  WaitMeansDone
  CounterExact
  NoLostWakeup
PROPERTY
  WaitReturns

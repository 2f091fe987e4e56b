SPECIFICATION FairSpec
CONSTANTS
  Threads = {t1, t2, t3, t4}
  Values = {a, b}
  QueueBound = 2
  None = None
INVARIANTS
  NoLostWakeup
  IInv
PROPERTIES
  ImplementsAtomicQueue
  WaitersServed

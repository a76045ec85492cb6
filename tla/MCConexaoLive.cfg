CONSTANTS
  t1 = t1
  t2 = t2
  t3 = t3
  NoThread = NoThread
  Threads <- MCTwo
SPECIFICATION FairSpec
PROPERTIES
  LockReleased

CONSTANTS
  t1 = t1
  t2 = t2
  t3 = t3
  NoThread = NoThread
  N = 4
  Threads <- MCThreads
  Exports <- MCExports
SPECIFICATION Spec
INVARIANTS
  TypeOK
  NoNullCall
  LoadedIsComplete
  MissingOnlyWhileLoading

CONSTANTS
  m = m
  s = s
  lib1 = lib1
  lib2 = lib2
  NoThread = NoThread
  Caller = Caller
  Contextos <- MCContextos
  Efemeros <- MCEfemeros
  LibThreads <- MCLibThreads
SPECIFICATION FairSpec
INVARIANTS
  TypeOK
  NoDanglingContext
  NoLostWakeup
  ResConsistente
PROPERTIES
  ImplementsCompletion
  EveryCallReturns

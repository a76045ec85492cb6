CONSTANTS
  t1 = t1
  t2 = t2
  t3 = t3
  NoThread = NoThread
  Threads <- MCThree
SPECIFICATION Spec
INVARIANTS
  TypeOK
  OneCommandAtATime
  CallbackPreconditions
  CallResultObserved
  EveryCommandAwaited
  NoCallStuck
PROPERTIES
  RespeitaBiblioteca
  UsaContextos

CONSTANTS
  l1 = l1
  l2 = l2
  LibThreads <- MCTwo
  RODADAS = 2
  Serial = FALSE
  SessaoPerdivel = TRUE
SYMMETRY MCSymmetry
SPECIFICATION Spec
INVARIANTS
  TypeOK
  RoundListens
  NoLateMessage
  QuietDestroy
PROPERTIES
  DropsAreExpected

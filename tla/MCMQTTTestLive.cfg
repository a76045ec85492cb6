CONSTANTS
  l1 = l1
  l2 = l2
  LibThreads <- MCOne
  RODADAS = 3
  Serial = TRUE
  SessaoPerdivel = TRUE
SPECIFICATION FairSpec
PROPERTIES
  Termina
  StuckOnlyOffline

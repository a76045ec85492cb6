CONSTANTS
  t1 = t1
  l1 = l1
  c1 = c1
  Nenhum = Nenhum
  Threads <- MCThreads
  Topicos <- MCFiltros
  LibThreads <- MCLibThreads
  Callbacks <- MCCallback
  Alcance <- MCAlcance
  Nomes <- MCNomes
  Corresponde <- MCCasam
  SessaoPerdivel = FALSE
SPECIFICATION Spec
PROPERTIES
  MatchingMessageHandled

CONSTANTS
  t1 = t1
  t2 = t2
  l1 = l1
  a = a
  b = b
  c1 = c1
  Nenhum = Nenhum
  Threads <- MCThreads
  Topicos <- MCTopicos
  LibThreads <- MCLibThreads
  Callbacks <- MCCallback
  Alcance <- MCAlcance
  Nomes <- MCTopicos
  Corresponde <- MCIguais
  SessaoPerdivel = FALSE
SPECIFICATION Spec
INVARIANTS
  TypeOK
  HandlersAreSubscribed
  SuccessIsInEffect
  NoCallStuck
PROPERTIES
  NoMessageDropped
VIEW MCView

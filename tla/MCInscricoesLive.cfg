CONSTANTS
  t1 = t1
  t2 = t2
  l1 = l1
  a = a
  b = b
  c1 = c1
  Nenhum = Nenhum
  Threads <- MCThreads
  Topicos <- MCUmTopico
  LibThreads <- MCNoLibThreads
  Callbacks <- MCCallback
  Alcance <- MCAlcanceUm
  Nomes <- MCUmTopico
  Corresponde <- MCIguaisUm
  SessaoPerdivel = TRUE
SPECIFICATION FairSpec
PROPERTIES
  UsaContextos
  CallsReturn
  CallsReturnOnline

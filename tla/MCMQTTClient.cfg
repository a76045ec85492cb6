CONSTANTS
  t1 = t1
  t2 = t2
  l1 = l1
  topico = topico
  cb1 = cb1
  NoThread = NoThread
  Nenhum = Nenhum
  Threads <- MCThreads
  LibThreads <- MCLib
  Topicos <- MCTopicos
  Nomes <- MCTopicos
  Corresponde <- MCCorresponde
  Callbacks <- MCCallbacks
  Alcance <- MCAlcance
  SessaoPerdivel = TRUE
SPECIFICATION Spec
PROPERTIES
  RespeitaBiblioteca
VIEW MCView

------------------------------ MODULE MQTTTest ------------------------------
(***************************************************************************)
(* The program mqtt-test: the main loop that connects, subscribes,         *)
(* unsubscribes and disconnects one client, round after round, and the two *)
(* message callbacks.  The client is an MQTTClient that has the thread of  *)
(* main() as its only one: each step of the program is a step of it.       *)
(***************************************************************************)
EXTENDS MQTTAsyncTipos

CONSTANTS
  LibThreads,      \* the library's threads that deliver messages
  RODADAS,         \* the rounds of the loop
  Serial,          \* the library has one thread for all callbacks
  SessaoPerdivel   \* the broker may lose the session between two connections

ASSUME ConstAssumption ==
  /\ RODADAS \in Nat \ {0}
  /\ Serial \in BOOLEAN
  /\ SessaoPerdivel \in BOOLEAN

\* The one thread that uses the client, and a NULL callback.
Main == "main"
NoThread == "none"
Nenhum == "none"

Topicos == {"esp32/topic1", "esp32/topic2", "esp32/topic3"}

\* The topics that unsubscribe() is given.
Retirados == {"esp32/topic1", "esp32/topic2"}

\* The callbacks that subscribe() is given, topic by topic.
Tratadores ==
  [n \in Topicos |-> IF n = "esp32/topic2" THEN "mensagemTruncada"
                     ELSE "mensagemRecebida"]

VARIABLES
  \* MQTTClient
  pcC, retornoC, conexao_mtx, primeira_tentativa, resC, finalizadaC, destrutor,
  vivo, handle, conectado, registrados, comando, desfecho, perda, ultima, visto,
  pcI, topicos, retornoI, resI, finalizadaI, callback_map, fila, antes,
  resposta, qos, inscrito, perdidos, lib, mensagem, callback, promessa,
  \* main()
  linha,     \* the last call that main() has made
  rodada,    \* the round it is in, counted from 1
  ultrapassadas  \* history: the library's threads that were with a message when
                 \* the end of its subscription, or of the link, was reported

K == INSTANCE MQTTClient WITH
  Threads <- {Main}, Nomes <- Topicos, Corresponde <- {<<n, n>> : n \in Topicos},
  Callbacks <- {"mensagemRecebida", "mensagemTruncada"},
  Alcance <- [t \in {Main} |-> Topicos]

vars == <<K!varsC, K!varsI, linha, rodada, ultrapassadas>>

Linhas ==
  {"inicio", "conectar", "subscribe", "unsubscribe", "desconectar", "destrutor"}

\* The library's threads that are with a message.
Ocupadas == {l \in LibThreads : lib[l] # "idle"}

TypeOK ==
  /\ K!TypeOK
  /\ linha \in Linhas
  /\ rodada \in 0 .. RODADAS
  /\ ultrapassadas \subseteq Ocupadas

Init == K!Init /\ linha = "inicio" /\ rodada = 0 /\ ultrapassadas = {}

-----------------------------------------------------------------------------
(* main().                                                                 *)

\* Defect: one round too many.
ConectarDemais ==
  /\ linha \in {"inicio", "desconectar"} /\ rodada <= RODADAS
  /\ rodada' = rodada + 1
  /\ linha' = "conectar" /\ K!Conectar(Main)
  /\ UNCHANGED ultrapassadas

\* A round begins.
Conectar ==
  /\ linha \in {"inicio", "desconectar"} /\ rodada < RODADAS
  /\ rodada' = rodada + 1
  /\ linha' = "conectar" /\ K!Conectar(Main)
  /\ UNCHANGED ultrapassadas

Subscribe ==
  /\ linha = "conectar" /\ retornoC[Main]
  /\ linha' = "subscribe" /\ K!Inscrever(Main, Topicos, Tratadores)
  /\ UNCHANGED <<rodada, ultrapassadas>>

Unsubscribe ==
  /\ linha = "subscribe" /\ retornoI[Main]
  /\ linha' = "unsubscribe" /\ K!Desinscrever(Main, Retirados)
  /\ UNCHANGED <<rodada, ultrapassadas>>

Desconectar ==
  /\ linha = "unsubscribe" /\ retornoI[Main]
  /\ linha' = "desconectar" /\ K!Desconectar(Main)
  /\ UNCHANGED <<rodada, ultrapassadas>>

\* The last call has failed, and main() reports it and returns -1.  What
\* desconectar() returns is ignored.
Falhou ==
  \/ linha = "conectar" /\ ~retornoC[Main]
  \/ linha \in {"subscribe", "unsubscribe"} /\ ~retornoI[Main]

\* main() returns, and the client goes out of scope.
Retornar ==
  /\ Falhou \/ (linha = "desconectar" /\ rodada = RODADAS)
  /\ linha' = "destrutor" /\ K!Destrutor(Main)
  /\ UNCHANGED <<rodada, ultrapassadas>>

-----------------------------------------------------------------------------
(* The client and the library.                                             *)

\* main() waits in a call, or has returned.
Em(Passo) == Passo /\ UNCHANGED <<linha, rodada>>

\* It is no callback of the library's.
Fora(Passo) == Em(Passo) /\ UNCHANGED ultrapassadas

MainStep == Fora(K!ThreadStep(Main))
Atender == Fora(K!Atender(Main))
Desistir == Fora(K!Desistir(Main))
PerdeConexao == Fora(K!PerdeConexao)

\* A callback may begin.
PodeChamar == Serial => Ocupadas = {} /\ resposta[Main] # "notificar"

Chegar(l, n) == PodeChamar /\ Fora(K!Chegar(l, n))

\* The answer due is that a disconnection, or an unsubscription, has succeeded.
\* Without Serial, nothing holds it back while messages of the link, or of those
\* topics, are still in mensagemRecebida() on other threads.
Encerradas ==
  {l \in Ocupadas :
     \/ comando[Main] = "disconnect" /\ desfecho[Main] = "sucesso"
     \/ /\ pcI[Main] \in K!I!Unsubscribing /\ resposta[Main] = "sucesso"
        /\ mensagem[l] \in topicos[Main]}

\* A callback begins, or notifies after its erasure.
Responder ==
  /\ PodeChamar \/ resposta[Main] = "notificar"
  /\ Em(K!Responder(Main))
  /\ ultrapassadas' = ultrapassadas \cup Encerradas

Perdida == PodeChamar /\ Em(K!Perdida) /\ ultrapassadas' = Ocupadas

\* mensagemRecebida() goes on, or is done with its message.
Mensagem(l, Passo) ==
  /\ Em(Passo)
  /\ ultrapassadas' = {k \in ultrapassadas : lib'[k] # "idle"}

\* Defect: a message callback asks for its message again.
TratarDeNovo(l) == Mensagem(l, K!Tratar(l, IF callback[l] = Nenhum THEN 1 ELSE 0))

\* Both of the program's message callbacks print the message and return 1.
Tratar(l) == Mensagem(l, K!Tratar(l, 1))

\* The process has ended, or main() has returned.
Encerrado == K!Encerrado /\ UNCHANGED vars

Next ==
  \/ /\ vivo
     /\ \/ Conectar \/ Subscribe \/ Unsubscribe \/ Desconectar \/ Retornar
        \/ MainStep \/ Atender \/ Desistir \/ Responder \/ PerdeConexao \/ Perdida
        \/ \E l \in LibThreads :
             Tratar(l) \/ \E n \in Topicos : Chegar(l, n)
  \/ Encerrado

Spec == Init /\ [][Next]_vars

\* main() runs, and so do the library's threads: a request that the broker can
\* be asked is decided, a message under way is handled, and an answer is reported
\* although messages keep coming in between.  No message has to come, and no
\* connection to be lost; and nothing says that the library gives up a request
\* whose connection was lost, which a resumed session may keep for the next one.
Fairness ==
  /\ WF_vars(vivo /\ (Conectar \/ Subscribe \/ Unsubscribe \/ Desconectar
                        \/ Retornar \/ MainStep))
  /\ WF_vars(vivo /\ Atender)
  /\ SF_vars(vivo /\ Responder)
  /\ \A l \in LibThreads : WF_vars(vivo /\ Tratar(l))

FairSpec == Spec /\ Fairness

-----------------------------------------------------------------------------
(* Properties.                                                             *)

\* The result of a subscribe() or unsubscribe() is still to come.
EmChamada == pcI[Main] # "out"

\* A round that has subscribed has the three topics in the broker's session,
\* with their callbacks: also when the broker had lost the session of the rounds
\* before, or granted some of the topics only.
RoundListens ==
  linha = "subscribe" /\ ~EmChamada /\ retornoI[Main] =>
    inscrito = Topicos /\ callback_map = Tratadores

\* A topic that unsubscribe() has returned true of is not handled any more until
\* the next subscribe(), but by threads that were with a message of it when the
\* answer was reported: no message comes in after that, and the call does not
\* return before it.
NoLateMessage ==
  \A l \in Ocupadas \ ultrapassadas : promessa[mensagem[l]] # "livre"

\* The client is destroyed with a message under way, whose mensagemRecebida()
\* then uses freed memory, only if the link is up, because desconectar() failed,
\* or was lost and not yet reported, or if the message was under way already
\* when the disconnection was answered, or the loss reported, on another thread:
\* none begins between that answer and the end of the destructor.
QuietDestroy ==
  pcC[Main] = "destroy" /\ ~conectado /\ ~perda => Ocupadas \subseteq ultrapassadas

\* The last call of subscribe() or unsubscribe() has failed, or is bound to.
Fracassada ==
  \/ linha = "destrutor"
  \/ linha \in {"subscribe", "unsubscribe"} /\ ~EmChamada /\ ~retornoI[Main]
  \/ pcI[Main] = "wait_s" /\ resposta[Main] = "notificar"
  \/ Main \in finalizadaI /\ ~resI[Main]

\* A message finds no callback, and is freed and acknowledged unseen, only if it
\* comes before the first subscribe() of the process, in a session that the
\* broker kept; or while its topic is being unsubscribed, or after that, if it
\* was under way when the answer was reported; or after a failure that ends the
\* program.  The topic that is never unsubscribed misses none through
\* disconnections, lost sessions and later calls of subscribe().
DropsAreExpected ==
  [][\A l \in LibThreads :
       lib[l] = "lookup" /\ callback'[l] = Nenhum /\ lib'[l] = "call" =>
         \/ rodada = 1 /\ linha = "conectar"
         \/ /\ mensagem[l] \in Retirados
            /\ (linha = "unsubscribe" /\ EmChamada) \/ l \in ultrapassadas
         \/ Fracassada]_vars

\* main() has returned, or undefined behaviour has ended the process.
Fim == ~vivo \/ (linha = "destrutor" /\ K!Livre(Main))

\* The program ends, whatever is lost, if the library gives up the requests that
\* it cannot send: no round blocks in a call for ever.
Termina == WF_vars(vivo /\ Desistir) => <>Fim

\* With a library that may keep its requests, the program ends or waits for ever
\* for an answer with the link down, which only its own conectar() would bring
\* up again: nowhere else can it be stuck.
StuckOnlyOffline ==
  \/ <>Fim
  \/ <>[](pcI[Main] \in {"wait_s", "wait_u"} /\ ~conectado)

-----------------------------------------------------------------------------
(* The inductive invariant, beside that of the client.                     *)

\* A call of one component is under way only on a line of main() that makes it.
PhaseInv ==
  /\ linha \in {"subscribe", "unsubscribe"} => pcC[Main] = "out"
  /\ EmChamada =>
       \/ /\ linha = "subscribe" /\ topicos[Main] = Topicos
          /\ pcI[Main] \in K!I!Subscribing
       \/ /\ linha = "unsubscribe" /\ topicos[Main] = Retirados
          /\ pcI[Main] \in K!I!Unsubscribing
  /\ linha = "inicio" => pcC[Main] = "out" /\ ~conectado /\ rodada = 0
  /\ linha # "inicio" => rodada > 0
  /\ destrutor = Main => linha = "destrutor"

\* main() goes on after conectar() only with a client.
HandleInv ==
  /\ linha = "conectar" => pcC[Main] \in K!C!Connecting \cup {"lock_c", "out"}
  /\ \/ linha \in {"subscribe", "unsubscribe", "desconectar"}
     \/ linha = "conectar" /\ pcC[Main] = "out" /\ retornoC[Main]
     => handle

\* A subscribe() that has succeeded, or is bound to, has all of its topics in
\* the session, which nothing can end during the call.
ListenInv ==
  /\ \A n \in Topicos : callback_map[n] \in {Nenhum, Tratadores[n]}
  /\ pcI[Main] = "wait_s"
       /\ \/ resposta[Main] = "sucesso" /\ ~K!I!SeraDesfeito(Main)
          \/ Main \in finalizadaI /\ resI[Main]
     => inscrito = Topicos
  /\ linha = "subscribe" /\ ~EmChamada /\ retornoI[Main] =>
       inscrito = Topicos /\ \A n \in Topicos : promessa[n] = "inscrito"

\* What the calls so far have promised of the topics: only unsubscribe() sets
\* one free.
PromiseInv ==
  /\ \A n \in Topicos : promessa[n] = "livre" => n \in Retirados
  /\ \/ linha = "desconectar"
     \/ linha = "conectar" /\ rodada > 1
     \/ linha = "unsubscribe" /\ ~EmChamada /\ retornoI[Main]
     => \A n \in Topicos :
          promessa[n] = IF n \in Retirados THEN "livre" ELSE "inscrito"
  /\ linha = "unsubscribe" /\ EmChamada =>
       \A n \in Topicos \ Retirados : promessa[n] = "inscrito"

\* The subscription of a message under way stands, and the link it came on, until
\* the end of one of them is reported.
MessageInv ==
  \A l \in Ocupadas \ ultrapassadas :
    /\ promessa[mensagem[l]] # "livre"
    /\ pcI[Main] \in K!I!Unsubscribing /\ Main \in finalizadaI /\ resI[Main] =>
         mensagem[l] \notin topicos[Main]
    /\ IF handle
       THEN \/ conectado \/ perda
            \/ comando[Main] = "disconnect" /\ desfecho[Main] = "sucesso"
       ELSE destrutor = Main /\ pcC[Main] = "out"

\* No message comes before the first connection.
FirstInv == linha = "inicio" => Ocupadas = {}

IInv ==
  /\ K!IInv /\ linha \in Linhas /\ rodada \in 0 .. RODADAS
  /\ ultrapassadas \subseteq Ocupadas
  /\ PhaseInv /\ HandleInv /\ ListenInv /\ PromiseInv
  /\ MessageInv /\ FirstInv
=============================================================================

----------------------------- MODULE MQTTClient -----------------------------
(***************************************************************************)
(* One MQTTClient used by any number of threads, each of which makes one   *)
(* call at a time.  It composes Conexao and Inscricoes, which share the    *)
(* link to the broker: a step of one that brings the link up or down is    *)
(* the step of the other that does so, and any other step is one of the    *)
(* two only.                                                               *)
(***************************************************************************)
EXTENDS MQTTAsyncTipos

CONSTANTS
  Threads, NoThread,   \* as in Conexao
  LibThreads, Topicos, Nomes, Corresponde, Callbacks, Nenhum, Alcance,
  SessaoPerdivel       \* as in Inscricoes

ASSUME ConstAssumption ==
  /\ NoThread \notin Threads
  /\ Nenhum \notin Callbacks /\ Nenhum \notin Nomes
  /\ Nomes # {}
  /\ SessaoPerdivel \in BOOLEAN
  /\ Alcance \in [Threads -> SUBSET Topicos]

VARIABLES
  \* Conexao
  pcC, retornoC, conexao_mtx, primeira_tentativa, resC, finalizadaC, destrutor,
  vivo, handle, conectado, registrados, comando, desfecho, perda, ultima, visto,
  \* Inscricoes, which has conectado as ligado
  pcI, topicos, retornoI, resI, finalizadaI, callback_map, fila, antes,
  resposta, qos, inscrito, perdidos, lib, mensagem, callback, promessa

C == INSTANCE Conexao WITH
  pc <- pcC, retorno <- retornoC, res <- resC, finalizada <- finalizadaC

I == INSTANCE Inscricoes WITH
  pc <- pcI, retorno <- retornoI, res <- resI, finalizada <- finalizadaI,
  ligado <- conectado

\* The variables of each component; the link belongs to both.
varsC == <<pcC, retornoC, conexao_mtx, primeira_tentativa, destrutor, resC,
           finalizadaC, handle, conectado, registrados, comando, desfecho,
           perda, ultima, visto, vivo>>
varsI == <<pcI, topicos, retornoI, promessa, resI, finalizadaI, callback_map,
           fila, antes, resposta, qos, conectado, inscrito, perdidos, lib,
           mensagem, callback>>

vars == <<varsC, varsI>>

TypeOK == C!TypeOK /\ I!TypeOK

Init == C!Init /\ I!Init

-----------------------------------------------------------------------------
\* A step of one component that does not concern the other.
SoC(Passo) == Passo /\ UNCHANGED varsI
SoI(Passo) == Passo /\ UNCHANGED varsC

\* The link comes up, with the session or with a new one.
Sobe(Passo) == Passo /\ (I!Ligar \/ I!LigarSemSessao)

\* The link goes down, unless it was down already.
Desce(Passo) ==
  Passo /\ IF conectado THEN I!Desligar ELSE UNCHANGED varsI

\* A request of the subscriptions: without a client the library refuses it.
Pedir(Passo) == SoI(Passo) /\ (handle \/ UNCHANGED fila)

-----------------------------------------------------------------------------
(* The application's threads.                                              *)

\* No call of thread t is under way.
Livre(t) == pcC[t] = "out" /\ pcI[t] = "out"

Conectar(t) == Livre(t) /\ SoC(C!Conectar(t))
Desconectar(t) == Livre(t) /\ SoC(C!Desconectar(t))

Inscrever(t, S, cb) == Livre(t) /\ C!EmUso /\ Pedir(I!Inscrever(t, S, cb))

Desinscrever(t, S) ==
  /\ Livre(t) /\ C!EmUso
  /\ Pedir(I!Desinscrever(t, S) \/ I!DesinscricaoRecusada(t))

VetorVazio(t) == Livre(t) /\ C!EmUso /\ Pedir(I!VetorVazio(t))

\* Defect: the client is destroyed under a call of another thread.
DestruirEmUso(t) == Livre(t) /\ SoC(C!Destrutor(t))

\* The lifetime of the client ends after the calls that use it.
Destrutor(t) == (\A u \in Threads : Livre(u)) /\ SoC(C!Destrutor(t))

Call(t) ==
  \/ Conectar(t) \/ Desconectar(t) \/ Destrutor(t) \/ VetorVazio(t)
  \/ \E S \in SUBSET Alcance[t] :
       \/ Desinscrever(t, S)
       \/ S # {} /\ \E cb \in [Topicos -> Callbacks] : Inscrever(t, S, cb)

\* The steps of a call.
ThreadStep(t) ==
  \/ SoC(C!ConnectStep(t) \/ C!DisconnectStep(t))
  \/ Desce(C!Destruir(t))
  \/ Pedir(I!ThreadStep(t))

-----------------------------------------------------------------------------
(* The library and the broker (external).                                  *)

\* They decide a request that was accepted.
Atender(t) ==
  \/ Sobe(C!Conecta(t)) \/ Desce(C!Desconecta(t)) \/ SoC(C!Fracassa(t))
  \/ SoI(I!Atender(t))

\* The library gives up a request that has not reached the broker.
Desistir(t) == SoI(I!Descartar(t))

\* sucesso() or falha() of a request; that of a refused subscription is two
\* steps, of which the first erases the callbacks and the second notifies.
Responder(t) == SoC(C!Sucesso(t) \/ C!Falha(t)) \/ SoI(I!AnswerStep(t))

PerdeConexao == C!PerdeConexao /\ I!Desligar
Perdida == SoC(C!Perdida)

Chegar(l, n) == SoI(I!Chega(l, n))

\* mensagemRecebida() looks the callback up, or runs it.  What it finds after
\* destroy() has freed the client is not defined.
Tratar(l, ret) == handle /\ SoI(I!Procurar(l) \/ I!Tratar(l, ret))

\* The process has ended, or the client.
Encerrado == C!Encerrado /\ UNCHANGED vars

Next ==
  \/ /\ vivo
     /\ \/ \E t \in Threads :
             Call(t) \/ ThreadStep(t) \/ Atender(t) \/ Desistir(t) \/ Responder(t)
        \/ PerdeConexao \/ Perdida
        \/ \E l \in LibThreads :
             \/ \E ret \in {0, 1} : Tratar(l, ret)
             \/ \E n \in Nomes : Chegar(l, n)
  \/ Encerrado

Spec == Init /\ [][Next]_vars

-----------------------------------------------------------------------------
(* Properties.                                                             *)

\* The answer to a request of the subscriptions is there, and its callback has
\* not begun.
Devida(t) == resposta[t] \in {"sucesso", "falha"}

\* What the library has in hand for thread t, and owes it.
Pedido(t) ==
  IF comando[t] # "none" THEN comando[t]
  ELSE IF t \notin fila /\ ~Devida(t) THEN "none"
  ELSE IF pcI[t] = "wait_s" THEN "subscribe" ELSE "unsubscribe"

Assunto(t) == IF t \in fila \/ Devida(t) THEN topicos[t] ELSE {}

Desfecho(t) == IF Devida(t) THEN resposta[t] ELSE desfecho[t]

\* The messages whose storage mensagemRecebida() has.
Entrega == [l \in LibThreads |-> IF lib[l] = "idle" THEN Nenhum ELSE mensagem[l]]

\* The library's contract.
Biblioteca ==
  INSTANCE MQTTAsync WITH
    Pedidos <- Threads,
    connectOptions <- C!ConnectOpts, disconnectOptions <- C!DisconnectOpts,
    responseOptions <- I!ResponseOpts,
    cliente <- handle, sessao <- inscrito,
    pedido <- [t \in Threads |-> Pedido(t)],
    assunto <- [t \in Threads |-> Assunto(t)],
    desfecho <- [t \in Threads |-> Desfecho(t)],
    entrega <- Entrega

\* Whatever its threads do, a client keeps to MQTTAsync.h on connection and
\* subscriptions together: its messages come with the callbacks set and on a
\* connected client, each thread has one request in hand at a time, and every
\* callback that can be due is set.  An owner that destroys the client after the
\* calls that use it, as Destrutor says, leaves no request in hand.
RespeitaBiblioteca == Biblioteca!Spec

-----------------------------------------------------------------------------
(* The inductive invariant, beside those of the two components.            *)

\* A thread is in a call of one component at a time, which names a topic if it
\* is subscribe(), and in none of the subscriptions' while the client is being
\* destroyed.
CallInv ==
  \A t \in Threads :
    /\ pcI[t] # "out" => pcC[t] = "out"
    /\ pcI[t] \in I!Subscribing => topicos[t] # {}
    /\ destrutor # NoThread => pcI[t] = "out"

\* The link comes up only with the callbacks set, on a client, and requests are
\* made of a client that is there until they are answered.
ClientInv ==
  /\ conectado \/ (\E t \in Threads : comando[t] = "connect") =>
       registrados /\ handle
  /\ \A t \in Threads : t \in fila \/ resposta[t] # "nenhuma" => handle

IInv == C!IInv /\ I!IInv /\ CallInv /\ ClientInv
=============================================================================

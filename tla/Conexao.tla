------------------------------- MODULE Conexao -------------------------------
(***************************************************************************)
(* MQTTClient's connection: conectar() and desconectar() called by any     *)
(* number of threads on one client, the destructor, and the library's      *)
(* answers, callbacks and spontaneous losses of the connection.            *)
(*                                                                         *)
(* A Contexto is used here through its promise (module Completion, which   *)
(* Contexto is proved to implement): a callback stores its result and      *)
(* finishes the wait in one step, and esperar() consumes it in one step.   *)
(***************************************************************************)
EXTENDS MQTTAsyncTipos

CONSTANTS
  Threads,     \* the application's threads
  NoThread     \* the owner of a free mutex, and of a destructor not running

ASSUME ConstAssumption == NoThread \notin Threads

\* The options that Connect's constructor sets for every connect().
ConnectOpts ==
  [connectOptions_initializer EXCEPT
     !.context = "_conexao", !.onFailure = "falha", !.onSuccess = "sucesso",
     !.keepAliveInterval = 30, !.cleansession = 0, !.connectTimeout = 10,
     !.retryInterval = 3]

\* Defect: Disconnect's constructor forgets onFailure.
SemOnFailure ==
  [disconnectOptions_initializer EXCEPT
     !.context = "_desconexao", !.onSuccess = "sucesso", !.timeout = 10]

\* The options that Disconnect's constructor sets for every disconnect().
DisconnectOpts ==
  [disconnectOptions_initializer EXCEPT
     !.context = "_desconexao", !.onFailure = "falha", !.onSuccess = "sucesso",
     !.timeout = 10]

\* The two members _conexao and _desconexao, each a context of its own.
Ops == {"connect", "disconnect"}

VARIABLES
  pc,                  \* where each thread is
  retorno,             \* what despachar() returned to each thread's last call
  conexao_mtx,         \* the owner of MQTTClient::_conexao_mtx
  primeira_tentativa,  \* Connect::_primeira_tentativa
  res, finalizada,     \* [Ops -> BOOLEAN], the fields of the two contexts
  destrutor,           \* the thread that runs ~MQTTClient()
  vivo,                \* the process runs: no undefined behaviour has ended it
  handle,              \* MQTTAsync_create() gave a client, not yet destroyed
  conectado,           \* what MQTTAsync_isConnected() answers
  registrados,         \* the library has the callbacks of setCallbacks()
  comando,             \* [Threads -> the command the library holds for each]
  desfecho,            \* [Threads -> the callback due for that command]
  perda,               \* the library is to call the connection lost callback
  ultima,              \* history: the operation of each thread's last call
  visto                \* history: the states of the link during that call

programVars == <<pc, retorno, conexao_mtx, primeira_tentativa, destrutor>>
contextVars == <<res, finalizada>>
libraryVars == <<handle, conectado, registrados, comando, desfecho, perda>>
historyVars == <<ultima, visto>>

vars == <<programVars, contextVars, libraryVars, historyVars, vivo>>

-----------------------------------------------------------------------------
\* Connect::despachar() with _conexao_mtx held, and likewise for Disconnect.
Connecting == {"check_c", "callbacks", "connect", "wait_c"}
Disconnecting == {"disconnect", "wait_d"}

PCs == Connecting \cup Disconnecting
         \cup {"out", "lock_c", "check_d", "lock_d", "destroy"}

\* The context a thread waits on in esperar().
WaitsOn(t, op) ==
  \/ op = "connect" /\ pc[t] = "wait_c"
  \/ op = "disconnect" /\ pc[t] = "wait_d"

TypeOK ==
  /\ pc \in [Threads -> PCs]
  /\ retorno \in [Threads -> BOOLEAN]
  /\ conexao_mtx \in Threads \cup {NoThread}
  /\ primeira_tentativa \in BOOLEAN
  /\ res \in [Ops -> BOOLEAN]
  /\ finalizada \in [Ops -> BOOLEAN]
  /\ destrutor \in Threads \cup {NoThread}
  /\ vivo \in BOOLEAN
  /\ handle \in BOOLEAN
  /\ conectado \in BOOLEAN
  /\ registrados \in BOOLEAN
  /\ comando \in [Threads -> Ops \cup {"none"}]
  /\ desfecho \in [Threads -> {"open", "sucesso", "falha"}]
  /\ perda \in BOOLEAN
  /\ ultima \in [Threads -> Ops \cup {"none"}]
  /\ visto \in [Threads -> SUBSET {"on", "off"}]

\* The client is constructed: create() may have failed, which leaves _handle
\* NULL, and so may the loading of the DLL.
Init ==
  /\ pc = [t \in Threads |-> "out"]
  /\ retorno = [t \in Threads |-> FALSE]
  /\ conexao_mtx = NoThread
  /\ primeira_tentativa = TRUE
  /\ res = [op \in Ops |-> FALSE]
  /\ finalizada = [op \in Ops |-> FALSE]
  /\ destrutor = NoThread
  /\ vivo = TRUE
  /\ handle \in BOOLEAN
  /\ conectado = FALSE
  /\ registrados = FALSE
  /\ comando = [t \in Threads |-> "none"]
  /\ desfecho = [t \in Threads |-> "open"]
  /\ perda = FALSE
  /\ ultima = [t \in Threads |-> "none"]
  /\ visto = [t \in Threads |-> {}]

-----------------------------------------------------------------------------
(* Steps shared by the two operations.                                     *)

Goto(t, label) == pc' = [pc EXCEPT ![t] = label]

\* despachar() returns ok: to the caller, or to the destructor.
Retornar(t, ok) ==
  /\ Goto(t, IF destrutor = t THEN "destroy" ELSE "out")
  /\ retorno' = [retorno EXCEPT ![t] = ok]

\* What a call may observe of the connection.
Link(up) == IF up THEN "on" ELSE "off"

\* A call of a public method begins; its history starts with the present.
Chamar(t, op, label) ==
  /\ Goto(t, label)
  /\ ultima' = [ultima EXCEPT ![t] = op]
  /\ visto' = [visto EXCEPT ![t] = {Link(conectado)}]
  /\ UNCHANGED <<retorno, conexao_mtx, primeira_tentativa>>
  /\ UNCHANGED contextVars /\ UNCHANGED libraryVars /\ UNCHANGED vivo

\* The object may be used: it is not being destroyed.
EmUso == destrutor = NoThread

Travar(t, from, to) ==
  /\ pc[t] = from
  /\ conexao_mtx = NoThread
  /\ conexao_mtx' = t
  /\ Goto(t, to)
  /\ UNCHANGED <<retorno, primeira_tentativa, destrutor>>
  /\ UNCHANGED contextVars /\ UNCHANGED libraryVars /\ UNCHANGED historyVars
  /\ UNCHANGED vivo

\* The library accepts the command that thread t gives it with context op.
Aceitar(t, op, label) ==
  /\ handle
  /\ comando' = [comando EXCEPT ![t] = op]
  /\ Goto(t, label)
  /\ UNCHANGED <<retorno, conexao_mtx, primeira_tentativa, destrutor>>
  /\ UNCHANGED <<handle, conectado, registrados, desfecho, perda>>
  /\ UNCHANGED contextVars /\ UNCHANGED historyVars /\ UNCHANGED vivo

\* The guard of _conexao_mtx goes out of scope with result ok.
Sair(t, ok) ==
  /\ Retornar(t, ok)
  /\ conexao_mtx' = NoThread
  /\ UNCHANGED destrutor
  /\ UNCHANGED libraryVars /\ UNCHANGED historyVars /\ UNCHANGED vivo

\* Defect: _finalizada stays set for the next call.
EsperarSemRearmar(t, op) ==
  /\ WaitsOn(t, op)
  /\ finalizada[op]
  /\ Sair(t, res[op])
  /\ UNCHANGED <<primeira_tentativa, res, finalizada>>

\* esperar() finds _finalizada set, resets it and returns _res.
Esperar(t, op) ==
  /\ WaitsOn(t, op)
  /\ finalizada[op]
  /\ finalizada' = [finalizada EXCEPT ![op] = FALSE]
  /\ Sair(t, res[op])
  /\ UNCHANGED <<primeira_tentativa, res>>

-----------------------------------------------------------------------------
(* conectar(), that is Connect::despachar().                               *)

Conectar(t) ==
  /\ pc[t] = "out" /\ EmUso
  /\ Chamar(t, "connect", "lock_c")
  /\ UNCHANGED destrutor

TravarConexao(t) == Travar(t, "lock_c", "check_c")

JaConectado(t) ==
  /\ pc[t] = "check_c"
  /\ conectado
  /\ Sair(t, TRUE)
  /\ UNCHANGED primeira_tentativa /\ UNCHANGED contextVars

\* Defect: conectado() is not tested with the mutex held.
AindaNaoSemTestar(t) ==
  /\ pc[t] = "check_c"
  /\ Goto(t, IF primeira_tentativa THEN "callbacks" ELSE "connect")
  /\ UNCHANGED <<retorno, conexao_mtx, primeira_tentativa, destrutor>>
  /\ UNCHANGED contextVars /\ UNCHANGED libraryVars /\ UNCHANGED historyVars
  /\ UNCHANGED vivo

\* Not connected: the first attempt registers the callbacks before connect().
AindaNao(t) ==
  /\ pc[t] = "check_c"
  /\ ~conectado
  /\ Goto(t, IF primeira_tentativa THEN "callbacks" ELSE "connect")
  /\ UNCHANGED <<retorno, conexao_mtx, primeira_tentativa, destrutor>>
  /\ UNCHANGED contextVars /\ UNCHANGED libraryVars /\ UNCHANGED historyVars
  /\ UNCHANGED vivo

SetCallbacks(t) ==
  /\ pc[t] = "callbacks"
  /\ handle
  /\ registrados' = TRUE
  /\ primeira_tentativa' = FALSE
  /\ Goto(t, "connect")
  /\ UNCHANGED <<retorno, conexao_mtx, destrutor>>
  /\ UNCHANGED <<handle, conectado, comando, desfecho, perda>>
  /\ UNCHANGED contextVars /\ UNCHANGED historyVars /\ UNCHANGED vivo

\* setCallbacks() or connect() returns an error: despachar() returns false, and
\* a failed setCallbacks() leaves _primeira_tentativa set for the next call.
ConexaoRecusada(t) ==
  /\ pc[t] \in {"callbacks", "connect"}
  /\ Sair(t, FALSE)
  /\ UNCHANGED primeira_tentativa /\ UNCHANGED contextVars

\* Defect: despachar() returns without esperar().
ConnectSemEsperar(t) ==
  /\ pc[t] = "connect" /\ handle
  /\ comando' = [comando EXCEPT ![t] = "connect"]
  /\ Retornar(t, FALSE)
  /\ conexao_mtx' = NoThread
  /\ UNCHANGED <<primeira_tentativa, destrutor>>
  /\ UNCHANGED <<handle, conectado, registrados, desfecho, perda>>
  /\ UNCHANGED contextVars /\ UNCHANGED historyVars /\ UNCHANGED vivo

ConnectAceito(t) ==
  /\ pc[t] = "connect"
  /\ Aceitar(t, "connect", "wait_c")

-----------------------------------------------------------------------------
(* desconectar(), that is Disconnect::despachar().                         *)

Desconectar(t) ==
  /\ pc[t] = "out" /\ EmUso
  /\ Chamar(t, "disconnect", "check_d")
  /\ UNCHANGED destrutor

\* The test of conectado() is made before the mutex is taken.
NaoConectado(t) ==
  /\ pc[t] = "check_d"
  /\ ~conectado
  /\ Retornar(t, TRUE)
  /\ UNCHANGED <<conexao_mtx, primeira_tentativa, destrutor>>
  /\ UNCHANGED contextVars /\ UNCHANGED libraryVars /\ UNCHANGED historyVars
  /\ UNCHANGED vivo

AindaConectado(t) ==
  /\ pc[t] = "check_d"
  /\ conectado
  /\ Goto(t, "lock_d")
  /\ UNCHANGED <<retorno, conexao_mtx, primeira_tentativa, destrutor>>
  /\ UNCHANGED contextVars /\ UNCHANGED libraryVars /\ UNCHANGED historyVars
  /\ UNCHANGED vivo

\* Defect: Disconnect::despachar() does not take _conexao_mtx.
DesconexaoSemTravar(t) ==
  /\ pc[t] = "lock_d"
  /\ Goto(t, "disconnect")
  /\ UNCHANGED <<retorno, conexao_mtx, primeira_tentativa, destrutor>>
  /\ UNCHANGED contextVars /\ UNCHANGED libraryVars /\ UNCHANGED historyVars
  /\ UNCHANGED vivo

TravarDesconexao(t) == Travar(t, "lock_d", "disconnect")

\* disconnect() returns an error, for one because the connection was lost, or
\* closed by another thread, since conectado() was tested.
DesconexaoRecusada(t) ==
  /\ pc[t] = "disconnect"
  /\ Sair(t, FALSE)
  /\ UNCHANGED primeira_tentativa /\ UNCHANGED contextVars

\* Defect: despachar() returns without esperar().
DisconnectSemEsperar(t) ==
  /\ pc[t] = "disconnect" /\ handle
  /\ comando' = [comando EXCEPT ![t] = "disconnect"]
  /\ Retornar(t, TRUE)
  /\ conexao_mtx' = NoThread
  /\ UNCHANGED <<primeira_tentativa, destrutor>>
  /\ UNCHANGED <<handle, conectado, registrados, desfecho, perda>>
  /\ UNCHANGED contextVars /\ UNCHANGED historyVars /\ UNCHANGED vivo

DisconnectAceito(t) ==
  /\ pc[t] = "disconnect"
  /\ Aceitar(t, "disconnect", "wait_d")

-----------------------------------------------------------------------------
(* ~MQTTClient().                                                          *)

\* The destructor runs once, when no other call is on the client: the owner of
\* the object sees to that.  It disconnects only a client that is connected.
Destrutor(t) ==
  /\ \A u \in Threads : pc[u] = "out"
  /\ EmUso
  /\ destrutor' = t
  /\ IF conectado THEN Chamar(t, "disconnect", "check_d")
     ELSE /\ Goto(t, "destroy")
          /\ UNCHANGED <<retorno, conexao_mtx, primeira_tentativa>>
          /\ UNCHANGED contextVars /\ UNCHANGED libraryVars
          /\ UNCHANGED historyVars /\ UNCHANGED vivo

\* destroy() frees the client, connected or not, and no callback follows it.
Destruir(t) ==
  /\ pc[t] = "destroy"
  /\ Goto(t, "out")
  /\ handle' = FALSE /\ conectado' = FALSE /\ perda' = FALSE
  /\ UNCHANGED <<retorno, conexao_mtx, primeira_tentativa, destrutor>>
  /\ UNCHANGED <<registrados, comando, desfecho>>
  /\ UNCHANGED contextVars /\ UNCHANGED historyVars /\ UNCHANGED vivo

-----------------------------------------------------------------------------
(* The library (external): what it does with the commands it accepted.     *)

\* A public method is running on thread t.
InCall(t) == pc[t] \notin {"out", "destroy"}

\* The link goes up or down, and every call under way may have seen it.
Ligar(up) ==
  /\ conectado' = up
  /\ visto' = [t \in Threads |->
                 IF InCall(t) THEN visto[t] \cup {Link(up)} ELSE visto[t]]
  /\ UNCHANGED ultima

\* The broker accepts the connection.
Conecta(t) ==
  /\ comando[t] = "connect" /\ desfecho[t] = "open"
  /\ Ligar(TRUE)
  /\ desfecho' = [desfecho EXCEPT ![t] = "sucesso"]
  /\ UNCHANGED <<handle, registrados, comando, perda>>
  /\ UNCHANGED programVars /\ UNCHANGED contextVars /\ UNCHANGED vivo

\* The disconnection is done.
Desconecta(t) ==
  /\ comando[t] = "disconnect" /\ desfecho[t] = "open"
  /\ Ligar(FALSE)
  /\ desfecho' = [desfecho EXCEPT ![t] = "sucesso"]
  /\ UNCHANGED <<handle, registrados, comando, perda>>
  /\ UNCHANGED programVars /\ UNCHANGED contextVars /\ UNCHANGED vivo

\* A command fails, for one at its timeout, and the link stays as it is.
Fracassa(t) ==
  /\ comando[t] # "none" /\ desfecho[t] = "open"
  /\ desfecho' = [desfecho EXCEPT ![t] = "falha"]
  /\ UNCHANGED <<handle, conectado, registrados, comando, perda>>
  /\ UNCHANGED programVars /\ UNCHANGED contextVars /\ UNCHANGED historyVars
  /\ UNCHANGED vivo

\* The connection is lost, at any moment.  automaticReconnect is not set, so
\* only a new connect() brings it back; connectionLost() is due.
PerdeConexao ==
  /\ conectado
  /\ Ligar(FALSE)
  /\ perda' = TRUE
  /\ UNCHANGED <<handle, registrados, comando, desfecho>>
  /\ UNCHANGED programVars /\ UNCHANGED contextVars /\ UNCHANGED vivo

-----------------------------------------------------------------------------
(* The callbacks, on a thread of the library.                              *)

\* sucesso() or falha() of either operation, with the promise of notificar_um().
Responder(t, ok) ==
  /\ res' = [res EXCEPT ![comando[t]] = ok]
  /\ finalizada' = [finalizada EXCEPT ![comando[t]] = TRUE]
  /\ comando' = [comando EXCEPT ![t] = "none"]
  /\ desfecho' = [desfecho EXCEPT ![t] = "open"]
  /\ UNCHANGED <<handle, conectado, registrados, perda>>
  /\ UNCHANGED programVars /\ UNCHANGED historyVars /\ UNCHANGED vivo

Sucesso(t) == desfecho[t] = "sucesso" /\ Responder(t, TRUE)

\* Defect: falha() notifies no one.
FalhaSemNotificar(t) ==
  /\ desfecho[t] = "falha"
  /\ comando' = [comando EXCEPT ![t] = "none"]
  /\ desfecho' = [desfecho EXCEPT ![t] = "open"]
  /\ UNCHANGED <<handle, conectado, registrados, perda>>
  /\ UNCHANGED programVars /\ UNCHANGED contextVars /\ UNCHANGED historyVars
  /\ UNCHANGED vivo

\* Defect: falha() clears the two fields of the command with each other's value.
FalhaTrocada(t) ==
  /\ desfecho[t] = "falha"
  /\ res' = [res EXCEPT ![comando[t]] = FALSE]
  /\ finalizada' = [finalizada EXCEPT ![comando[t]] = TRUE]
  /\ comando' = [comando EXCEPT ![t] = "open"]
  /\ desfecho' = [desfecho EXCEPT ![t] = "none"]
  /\ UNCHANGED <<handle, conectado, registrados, perda>>
  /\ UNCHANGED programVars /\ UNCHANGED historyVars /\ UNCHANGED vivo

Falha(t) == desfecho[t] = "falha" /\ Responder(t, FALSE)

\* perdida() takes the Connect it is given for an MQTTClient, and appends to a
\* std::string a cause that MQTTAsync.h says is always NULL.  Both are undefined
\* behaviour: the process may end, or go on with a log line of any content.
Perdida ==
  /\ perda
  /\ perda' = FALSE
  /\ vivo' \in BOOLEAN
  /\ UNCHANGED <<handle, conectado, registrados, comando, desfecho>>
  /\ UNCHANGED programVars /\ UNCHANGED contextVars /\ UNCHANGED historyVars

-----------------------------------------------------------------------------
\* The steps of a call, or of the destructor, once it has begun.
ConnectStep(t) ==
  \/ TravarConexao(t) \/ JaConectado(t) \/ AindaNao(t) \/ SetCallbacks(t)
  \/ ConexaoRecusada(t) \/ ConnectAceito(t) \/ Esperar(t, "connect")

DisconnectStep(t) ==
  \/ NaoConectado(t) \/ AindaConectado(t) \/ TravarDesconexao(t)
  \/ DesconexaoRecusada(t) \/ DisconnectAceito(t) \/ Esperar(t, "disconnect")

ThreadStep(t) == ConnectStep(t) \/ DisconnectStep(t) \/ Destruir(t)

\* The library decides a command, and then calls back.
LibraryStep(t) ==
  Conecta(t) \/ Desconecta(t) \/ Fracassa(t) \/ Sucesso(t) \/ Falha(t)

\* Nothing is left to do: the client is destroyed, or the process has ended.
Encerrado ==
  /\ ~vivo \/ (destrutor # NoThread /\ \A t \in Threads : pc[t] = "out")
  /\ UNCHANGED vars

Next ==
  \/ /\ vivo
     /\ \/ \E t \in Threads :
             \/ Conectar(t) \/ Desconectar(t) \/ Destrutor(t)
             \/ ThreadStep(t) \/ LibraryStep(t)
        \/ PerdeConexao
        \/ Perdida
  \/ Encerrado

Spec == Init /\ [][Next]_vars

\* A runnable thread runs, and the library decides and reports every command it
\* accepted.  No fairness makes a call begin, a connection be lost or, which
\* std::mutex does not give, a waiting thread win the mutex over the others.
Fairness ==
  \A t \in Threads :
    /\ WF_vars(vivo /\ ThreadStep(t))
    /\ WF_vars(vivo /\ LibraryStep(t))

FairSpec == Spec /\ Fairness

-----------------------------------------------------------------------------
(* Properties.                                                             *)

\* The comment of Connect::despachar(), "does not let more than one thread try
\* to (dis)connect at the same time": the library never holds two commands.
OneCommandAtATime ==
  \A t, u \in Threads : comando[t] # "none" /\ comando[u] # "none" => t = u

\* MQTTAsync_setCallbacks() requires a disconnected client, and connect() needs
\* the callbacks: neither runs on a connected client, although the check of
\* conectado() was made some steps before, and connect() never comes first.
CallbackPreconditions ==
  \A t \in Threads :
    /\ pc[t] \in {"callbacks", "connect"} => ~conectado
    /\ pc[t] = "connect" => registrados

\* What the call of an operation that succeeded must have brought about.
Meta(op) == IF op = "connect" THEN "on" ELSE "off"

\* A result is never stale: a call of conectar() that returned true was made
\* while the client was, at some moment of that call, connected, and likewise
\* for a desconectar() that returned true.
CallResultObserved ==
  \A t \in Threads :
    pc[t] \in {"out", "destroy"} /\ retorno[t] => Meta(ultima[t]) \in visto[t]

\* No command outlives the wait for it: while the library holds a command, the
\* thread that gave it waits on its context and holds _conexao_mtx, and the
\* client, with the context inside it, is not destroyed.
EveryCommandAwaited ==
  \A t \in Threads : comando[t] # "none" =>
    /\ WaitsOn(t, comando[t])
    /\ conexao_mtx = t
    /\ handle

\* The library's contract, for the part of it that this module uses.
Biblioteca ==
  INSTANCE MQTTAsync WITH
    Pedidos <- Threads, LibThreads <- {}, Topicos <- {}, Nomes <- {},
    Corresponde <- {}, Nenhum <- NoThread,
    connectOptions <- ConnectOpts, disconnectOptions <- DisconnectOpts,
    responseOptions <- responseOptions_initializer,
    cliente <- handle, pedido <- comando, assunto <- [t \in Threads |-> {}],
    sessao <- {}, entrega <- [l \in {} |-> NoThread]

\* Threads that connect, disconnect and destroy one client in any order, while
\* its connection comes and goes, call the library only as MQTTAsync.h allows:
\* callbacks set while disconnected and before the first connect(), no connect()
\* or disconnect() while one is in hand, no destroy() before it is answered.
RespeitaBiblioteca == Biblioteca!Spec

\* The two contexts, as their use appears to Contexto.
Uso ==
  INSTANCE Rendezvous WITH
    Contextos <- Ops,
    phase <- [op \in Ops |->
                IF \A t \in Threads : ~WaitsOn(t, op) THEN "idle"
                ELSE IF finalizada[op] THEN "answered" ELSE "pending"],
    answer <- res

\* All threads share the two contexts, and each is used by one call at a time:
\* no request is made with a context that has one or still holds the answer of
\* an earlier one, and the call that made the request takes its answer, once.
UsaContextos == Uso!Spec

\* Thread t can take its next step.
Pode(t) ==
  /\ pc[t] # "out"
  /\ pc[t] \in {"lock_c", "lock_d"} => conexao_mtx = NoThread
  /\ \A op \in Ops : WaitsOn(t, op) => finalizada[op]

\* Thread t can go on, or the library is to answer the command it waits for.
Segue(t) == Pode(t) \/ comando[t] # "none"

\* No call is stuck: it goes on, or it waits for the mutex behind a thread that
\* does.  Each path of sucesso() and falha() finishes the wait of its command,
\* and no thread waits for an answer that has been given, or taken by another.
NoCallStuck ==
  \A t \in Threads : pc[t] # "out" =>
    \/ Segue(t)
    \/ /\ pc[t] \in {"lock_c", "lock_d"}
       /\ \E u \in Threads \ {t} : conexao_mtx = u /\ Segue(u)

\* A process that loses its connection goes on: MQTTAsync.h says of
\* connectionLost() that cause is always NULL and that the application should
\* take its action there, so the callback must cope with that argument.
LossIsSurvived == vivo

\* _conexao_mtx, although held across the wait for the network, is released.
LockReleased ==
  \A t \in Threads : conexao_mtx = t ~> conexao_mtx # t \/ ~vivo

-----------------------------------------------------------------------------
(* The inductive invariant.                                                *)

LockInv ==
  \A t \in Threads : conexao_mtx = t <=> pc[t] \in Connecting \cup Disconnecting

\* An undecided connect() finds the link down, a decided command has had its
\* effect during the call, and an answered one has left it in the context.
CommandInv ==
  \A t \in Threads :
    /\ comando[t] = "none" => desfecho[t] = "open"
    /\ comando[t] = "connect" /\ desfecho[t] = "open" => ~conectado
    /\ desfecho[t] = "sucesso" => Meta(comando[t]) \in visto[t]

\* A context is finished only for the one thread that waits on it.
FinishedInv ==
  \A op \in Ops : finalizada[op] =>
    \E t \in Threads :
      /\ WaitsOn(t, op)
      /\ comando[t] = "none"
      /\ res[op] => Meta(op) \in visto[t]

\* A thread that waits has its command in the library, or its answer.
WaitInv ==
  \A t \in Threads, op \in Ops :
    WaitsOn(t, op) => comando[t] = op \/ finalizada[op]

RegisteredInv ==
  /\ ~primeira_tentativa => registrados
  /\ \A t \in Threads : pc[t] = "connect" => ~primeira_tentativa

\* During the destructor no other thread is in a call.
LifetimeInv ==
  /\ \A t \in Threads :
       /\ pc[t] = "destroy" => destrutor = t
       /\ destrutor \notin {t, NoThread} => pc[t] = "out"
       /\ pc[t] \in {"wait_c", "wait_d"} => handle

HistoryInv ==
  \A t \in Threads :
    /\ InCall(t) => Link(conectado) \in visto[t]
    /\ pc[t] \in Connecting \cup {"lock_c"} => ultima[t] = "connect"
    /\ pc[t] \in Disconnecting \cup {"check_d", "lock_d"} =>
         ultima[t] = "disconnect"

IInv ==
  /\ TypeOK /\ LockInv /\ EveryCommandAwaited /\ CommandInv /\ FinishedInv
  /\ CallbackPreconditions /\ RegisteredInv /\ LifetimeInv /\ HistoryInv
  /\ CallResultObserved /\ WaitInv
=============================================================================

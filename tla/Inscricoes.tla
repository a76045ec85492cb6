----------------------------- MODULE Inscricoes -----------------------------
(***************************************************************************)
(* MQTTClient's subscriptions: subscribe() and unsubscribe() called by any *)
(* number of threads on one client, the map from topics to callbacks that  *)
(* they share with mensagemRecebida(), the library's answers, and the      *)
(* broker's session, which outlives connections and processes.             *)
(*                                                                         *)
(* Every access to _callback_map is made with _callback_map_slock held     *)
(* (exclusive to change it, shared to look a topic up) and is one step.    *)
(* The vector of topics of a call is a set and its callbacks a function on *)
(* it.  The temporary context of a call is used through the promise of     *)
(* module Completion: a callback stores its result and finishes the wait   *)
(* in one step, and esperar() consumes it in one step.  A callback that    *)
(* refuses a subscription first erases the topics from the map, in a step  *)
(* of its own: in between, messages on other threads find no callback, and *)
(* the call still waits.                                                   *)
(***************************************************************************)
EXTENDS MQTTAsyncTipos

CONSTANTS
  Threads,      \* the application's threads
  LibThreads,   \* the library's threads that deliver messages
  Topicos,      \* the topics given to subscribe(), names or wildcard filters
  Nomes,        \* the topic names of messages
  Corresponde,  \* <<f, n>>: at the broker, topic f matches the name n
  Callbacks,    \* the application's MQTTAsync_messageArrived functions
  Nenhum,       \* a topic with no entry in the map
  Alcance,      \* [Threads -> the topics that each thread names in its calls]
  SessaoPerdivel  \* the broker may lose the session between two connections

ASSUME ConstAssumption ==
  /\ Nenhum \notin Callbacks
  /\ Nomes # {}
  /\ SessaoPerdivel \in BOOLEAN
  /\ Alcance \in [Threads -> SUBSET Topicos]

\* Defect: the session that the comment of Connect's constructor describes.
SESSAO_LIMPA == 1

\* Connect::_CLEANSESSION.
CLEANSESSION == 0

\* Defect: onFailure is forgotten.
ResponseSemFalha ==
  [responseOptions_initializer EXCEPT !.context = "this", !.onSuccess = "sucesso"]

\* The options that the constructors of Subscribe and Unsubscribe set.
ResponseOpts ==
  [responseOptions_initializer EXCEPT
     !.context = "this", !.onFailure = "falha", !.onSuccess = "sucesso"]

\* Subscribe asks for QoS 1 on every topic; the broker grants it, less, or none.
QosRequisitado == 1
QosDevolvidos == {0, 1, MQTT_BAD_SUBSCRIBE}

VARIABLES
  pc,             \* where each thread is
  topicos,        \* [Threads -> the topics of its call]
  retorno,        \* what the last call of each thread returned
  res,            \* [Threads -> _res of the context of its call]
  finalizada,     \* the threads whose context has _finalizada set
  callback_map,   \* [Topicos -> Callbacks or Nenhum]
  fila,           \* the threads whose request is accepted and not yet handled
  antes,          \* [Threads -> the threads in fila ahead of it]
  resposta,       \* [Threads -> the callback that is due, or under way]
  qos,            \* [Threads -> the QoS list of a SUBACK]
  ligado,         \* the client is connected to the broker
  inscrito,       \* the subscriptions of the broker's session for this client
  perdidos,       \* those it had when the session was lost, not granted since
  lib, mensagem, callback,  \* [LibThreads -> ...], mensagemRecebida() at work
  promessa        \* history: what the last call that named a topic returned

callVars == <<pc, topicos, retorno, promessa>>
contextVars == <<res, finalizada>>
libraryVars == <<fila, antes, resposta, qos>>
brokerVars == <<ligado, inscrito, perdidos>>
messageVars == <<lib, mensagem, callback>>

vars == <<callVars, contextVars, callback_map, libraryVars, brokerVars,
          messageVars>>

-----------------------------------------------------------------------------
\* The thread is in Subscribe::despachar(), or in Unsubscribe::despachar().
Subscribing == {"subscribeMany", "recusada", "wait_s"}
Unsubscribing == {"erase", "wait_u"}

\* The request of the call has been accepted.
Pedindo == {"wait_s", "erase", "wait_u"}

TypeOK ==
  /\ pc \in [Threads -> Subscribing \cup Unsubscribing \cup {"out"}]
  /\ topicos \in [Threads -> SUBSET Topicos]
  /\ retorno \in [Threads -> BOOLEAN]
  /\ res \in [Threads -> BOOLEAN]
  /\ finalizada \subseteq Threads
  /\ callback_map \in [Topicos -> Callbacks \cup {Nenhum}]
  /\ fila \subseteq Threads
  /\ antes \in [Threads -> SUBSET Threads]
  /\ resposta \in [Threads -> {"nenhuma", "sucesso", "falha", "notificar"}]
  /\ qos \in [Threads -> [Topicos -> QosDevolvidos]]
  /\ ligado \in BOOLEAN
  /\ inscrito \subseteq Topicos
  /\ perdidos \subseteq Topicos
  /\ lib \in [LibThreads -> {"idle", "lookup", "call"}]
  /\ mensagem \in [LibThreads -> Nomes]
  /\ callback \in [LibThreads -> Callbacks \cup {Nenhum}]
  /\ promessa \in [Topicos -> {"nada", "inscrito", "livre"}]

\* The broker may keep a session that an earlier process left behind.
Init ==
  /\ pc = [t \in Threads |-> "out"]
  /\ topicos = [t \in Threads |-> {}]
  /\ retorno = [t \in Threads |-> FALSE]
  /\ res = [t \in Threads |-> FALSE]
  /\ finalizada = {}
  /\ callback_map = [n \in Topicos |-> Nenhum]
  /\ fila = {}
  /\ antes = [t \in Threads |-> {}]
  /\ resposta = [t \in Threads |-> "nenhuma"]
  /\ qos = [t \in Threads |-> [n \in Topicos |-> 0]]
  /\ ligado = FALSE
  /\ inscrito \in SUBSET Topicos
  /\ perdidos = {}
  /\ lib = [l \in LibThreads |-> "idle"]
  /\ mensagem = [l \in LibThreads |-> CHOOSE n \in Nomes : TRUE]
  /\ callback = [l \in LibThreads |-> Nenhum]
  /\ promessa = [n \in Topicos |-> "nada"]

-----------------------------------------------------------------------------
(* Steps shared by the two operations.                                     *)

\* Defect: the entries leave the domain of the map.
ApagarDominio(S) ==
  callback_map' = [n \in Topicos \ S |-> callback_map[n]]

\* Erase the topics of a call from the map, whoever put them there.
Apagar(S) ==
  callback_map' = [n \in Topicos |-> IF n \in S THEN Nenhum ELSE callback_map[n]]

\* The library accepts a request: it is handled after those accepted before it.
Enfileirar(t) ==
  /\ fila' = fila \cup {t}
  /\ antes' = [antes EXCEPT ![t] = fila]
  /\ UNCHANGED <<resposta, qos>>

\* A request leaves the queue.
Desenfileirar(t) ==
  /\ fila' = fila \ {t}
  /\ antes' = [u \in Threads |-> antes[u] \ {t}]

\* A call returns ok, which promises this of its topics.
Retornar(t, ok, valor) ==
  /\ pc' = [pc EXCEPT ![t] = "out"]
  /\ topicos' = [topicos EXCEPT ![t] = {}]
  /\ retorno' = [retorno EXCEPT ![t] = ok]
  /\ promessa' = [n \in Topicos |->
                    IF ok /\ n \in topicos[t] THEN valor ELSE promessa[n]]

\* A call that names the topics of S takes effect.
Chamar(t, S, label) ==
  /\ pc' = [pc EXCEPT ![t] = label]
  /\ topicos' = [topicos EXCEPT ![t] = S]
  /\ promessa' = [n \in Topicos |-> IF n \in S THEN "nada" ELSE promessa[n]]
  /\ UNCHANGED retorno

-----------------------------------------------------------------------------
(* subscribe(), that is Subscribe::despachar().                            *)

\* The vector of topics is empty.
VetorVazio(t) ==
  /\ pc[t] = "out"
  /\ retorno' = [retorno EXCEPT ![t] = FALSE]
  /\ UNCHANGED <<pc, topicos, promessa, callback_map>>
  /\ UNCHANGED contextVars /\ UNCHANGED libraryVars /\ UNCHANGED brokerVars
  /\ UNCHANGED messageVars

\* The context is built, and the callbacks are inserted before the request is
\* made; insert() leaves a topic that is already in the map as it is.
Inscrever(t, S, cb) ==
  /\ pc[t] = "out"
  /\ Chamar(t, S, "subscribeMany")
  /\ callback_map' = [n \in Topicos |->
                        IF n \in S /\ callback_map[n] = Nenhum
                        THEN cb[n] ELSE callback_map[n]]
  /\ UNCHANGED contextVars /\ UNCHANGED libraryVars /\ UNCHANGED brokerVars
  /\ UNCHANGED messageVars

SubscribeAceito(t) ==
  /\ pc[t] = "subscribeMany"
  /\ Enfileirar(t)
  /\ pc' = [pc EXCEPT ![t] = "wait_s"]
  /\ UNCHANGED <<topicos, retorno, promessa, callback_map>>
  /\ UNCHANGED contextVars /\ UNCHANGED brokerVars /\ UNCHANGED messageVars

SubscribeRecusado(t) ==
  /\ pc[t] = "subscribeMany"
  /\ pc' = [pc EXCEPT ![t] = "recusada"]
  /\ UNCHANGED <<topicos, retorno, promessa, callback_map>>
  /\ UNCHANGED contextVars /\ UNCHANGED libraryVars /\ UNCHANGED brokerVars
  /\ UNCHANGED messageVars

\* The callbacks of a refused request are taken back.
DesfazerInsercao(t) ==
  /\ pc[t] = "recusada"
  /\ Apagar(topicos[t])
  /\ Retornar(t, FALSE, "nada")
  /\ UNCHANGED contextVars /\ UNCHANGED libraryVars /\ UNCHANGED brokerVars
  /\ UNCHANGED messageVars

-----------------------------------------------------------------------------
(* unsubscribe(), that is Unsubscribe::despachar().                        *)

\* unsubscribeMany() accepts the request, which may be for no topic at all: the
\* map still has the callbacks.
Desinscrever(t, S) ==
  /\ pc[t] = "out"
  /\ Chamar(t, S, "erase")
  /\ Enfileirar(t)
  /\ UNCHANGED callback_map
  /\ UNCHANGED contextVars /\ UNCHANGED brokerVars /\ UNCHANGED messageVars

\* unsubscribeMany() refuses it: nothing has changed.
DesinscricaoRecusada(t) ==
  /\ pc[t] = "out"
  /\ retorno' = [retorno EXCEPT ![t] = FALSE]
  /\ UNCHANGED <<pc, topicos, promessa, callback_map>>
  /\ UNCHANGED contextVars /\ UNCHANGED libraryVars /\ UNCHANGED brokerVars
  /\ UNCHANGED messageVars

\* Defect: unsubscribe() returns without esperar().
ApagarSemEsperar(t) ==
  /\ pc[t] = "erase"
  /\ Apagar(topicos[t])
  /\ Retornar(t, TRUE, "livre")
  /\ UNCHANGED contextVars /\ UNCHANGED libraryVars /\ UNCHANGED brokerVars
  /\ UNCHANGED messageVars

\* The callbacks go without waiting for the answer.
ApagarCallbacks(t) ==
  /\ pc[t] = "erase"
  /\ Apagar(topicos[t])
  /\ pc' = [pc EXCEPT ![t] = "wait_u"]
  /\ UNCHANGED <<topicos, retorno, promessa>>
  /\ UNCHANGED contextVars /\ UNCHANGED libraryVars /\ UNCHANGED brokerVars
  /\ UNCHANGED messageVars

\* esperar() finds _finalizada set, and the call returns _res.
Esperar(t) ==
  /\ pc[t] \in {"wait_s", "wait_u"}
  /\ t \in finalizada
  /\ finalizada' = finalizada \ {t}
  /\ Retornar(t, res[t], IF pc[t] = "wait_s" THEN "inscrito" ELSE "livre")
  /\ UNCHANGED <<res, callback_map>>
  /\ UNCHANGED libraryVars /\ UNCHANGED brokerVars /\ UNCHANGED messageVars

-----------------------------------------------------------------------------
(* The library and the broker (external).                                  *)

\* The first request of the queue reaches the broker, which may grant some of
\* its topics and refuse others, and its answer reaches the library, unless it
\* is lost: r is then a failure.
AtenderSubscribe(t, g, r) ==
  /\ ligado
  /\ t \in fila /\ antes[t] = {} /\ pc[t] = "wait_s"
  /\ Desenfileirar(t)
  /\ inscrito' =
       inscrito \cup {n \in topicos[t] : g[n] # MQTT_BAD_SUBSCRIBE}
  /\ perdidos' =
       perdidos \ {n \in topicos[t] : g[n] # MQTT_BAD_SUBSCRIBE}
  /\ qos' = [qos EXCEPT ![t] = [n \in Topicos |->
                                  IF n \in topicos[t] THEN g[n] ELSE 0]]
  /\ resposta' = [resposta EXCEPT ![t] = r]
  /\ UNCHANGED <<ligado, callback_map>>
  /\ UNCHANGED callVars /\ UNCHANGED contextVars /\ UNCHANGED messageVars

AtenderUnsubscribe(t, r) ==
  /\ ligado
  /\ t \in fila /\ antes[t] = {} /\ pc[t] \in Unsubscribing
  /\ Desenfileirar(t)
  /\ inscrito' = inscrito \ topicos[t]
  /\ perdidos' = perdidos \ topicos[t]
  /\ resposta' = [resposta EXCEPT ![t] = r]
  /\ UNCHANGED <<qos, ligado, callback_map>>
  /\ UNCHANGED callVars /\ UNCHANGED contextVars /\ UNCHANGED messageVars

\* A request fails before it reaches the broker.
Descartar(t) ==
  /\ t \in fila
  /\ Desenfileirar(t)
  /\ resposta' = [resposta EXCEPT ![t] = "falha"]
  /\ UNCHANGED <<qos, callback_map>>
  /\ UNCHANGED callVars /\ UNCHANGED contextVars /\ UNCHANGED brokerVars
  /\ UNCHANGED messageVars

\* Defect: disconnecting erases the map of callbacks.
DesligarApagando ==
  /\ ligado
  /\ ligado' = FALSE
  /\ Apagar(Topicos)
  /\ UNCHANGED <<inscrito, perdidos>>
  /\ UNCHANGED callVars /\ UNCHANGED contextVars /\ UNCHANGED libraryVars
  /\ UNCHANGED messageVars

Desligar ==
  /\ ligado
  /\ ligado' = FALSE
  /\ UNCHANGED <<inscrito, perdidos, callback_map>>
  /\ UNCHANGED callVars /\ UNCHANGED contextVars /\ UNCHANGED libraryVars
  /\ UNCHANGED messageVars

\* A new connection, with the cleansession that Connect asks for.
Ligar ==
  /\ ~ligado
  /\ ligado' = TRUE
  /\ inscrito' = IF CLEANSESSION = 1 THEN {} ELSE inscrito
  /\ UNCHANGED <<perdidos, callback_map>>
  /\ UNCHANGED callVars /\ UNCHANGED contextVars /\ UNCHANGED libraryVars
  /\ UNCHANGED messageVars

\* The broker has lost the session, so it starts a new one; Connect::sucesso()
\* does not look at sessionPresent, and the callbacks stay in the map.
LigarSemSessao ==
  /\ SessaoPerdivel /\ ~ligado
  /\ ligado' = TRUE
  /\ inscrito' = {}
  /\ perdidos' = perdidos \cup inscrito
  /\ UNCHANGED callback_map
  /\ UNCHANGED callVars /\ UNCHANGED contextVars /\ UNCHANGED libraryVars
  /\ UNCHANGED messageVars

-----------------------------------------------------------------------------
(* The callbacks, on the library's threads.                                *)

\* The context of the call gets its result, and the wait for it is over.
NotificarUm(t, ok) ==
  /\ res' = [res EXCEPT ![t] = ok]
  /\ finalizada' = finalizada \cup {t}
  /\ resposta' = [resposta EXCEPT ![t] = "nenhuma"]
  /\ qos' = [qos EXCEPT ![t] = [n \in Topicos |-> 0]]
  /\ UNCHANGED <<fila, antes, callback_map>>
  /\ UNCHANGED callVars /\ UNCHANGED brokerVars /\ UNCHANGED messageVars

\* The callbacks of all the topics of the call are erased, and the lock of the
\* map released; the context is still to be notified.
Desfazer(t) ==
  /\ Apagar(topicos[t])
  /\ resposta' = [resposta EXCEPT ![t] = "notificar"]
  /\ qos' = [qos EXCEPT ![t] = [n \in Topicos |-> 0]]
  /\ UNCHANGED <<fila, antes>>
  /\ UNCHANGED callVars /\ UNCHANGED contextVars /\ UNCHANGED brokerVars
  /\ UNCHANGED messageVars

\* Defect: the QoS granted is compared without the test for a refusal.
SoComparaQos(q) == q < QosRequisitado

\* The test of Subscribe::sucesso() on a topic of the SUBACK.
Insuficiente(q) == q = MQTT_BAD_SUBSCRIBE \/ q < QosRequisitado

\* Subscribe::sucesso() finds every topic granted.
SubscribeSucesso(t) ==
  /\ pc[t] = "wait_s" /\ resposta[t] = "sucesso"
  /\ \A n \in topicos[t] : ~Insuficiente(qos[t][n])
  /\ NotificarUm(t, TRUE)

\* Defect: the early return comes before notificar_um().
InsuficienteSemNotificar(t) ==
  /\ pc[t] = "wait_s" /\ resposta[t] = "sucesso"
  /\ \E n \in topicos[t] : Insuficiente(qos[t][n])
  /\ Apagar(topicos[t])
  /\ resposta' = [resposta EXCEPT ![t] = "nenhuma"]
  /\ UNCHANGED <<fila, antes, qos>>
  /\ UNCHANGED callVars /\ UNCHANGED contextVars /\ UNCHANGED brokerVars
  /\ UNCHANGED messageVars

\* Subscribe::sucesso() finds one that is not: the callbacks of all are erased,
\* and the topics that were granted stay subscribed.
SubscribeInsuficiente(t) ==
  /\ pc[t] = "wait_s" /\ resposta[t] = "sucesso"
  /\ \E n \in topicos[t] : Insuficiente(qos[t][n])
  /\ Desfazer(t)

\* Subscribe::falha() erases them likewise.
SubscribeFalha(t) ==
  /\ pc[t] = "wait_s" /\ resposta[t] = "falha"
  /\ Desfazer(t)

\* After the erasure, either of the two notifies the context of its failure.
NotificarFalha(t) ==
  /\ pc[t] = "wait_s" /\ resposta[t] = "notificar"
  /\ NotificarUm(t, FALSE)

\* Unsubscribe::sucesso() or falha(), before or after the erasure.
UnsubscribeSucesso(t) ==
  /\ pc[t] \in Unsubscribing /\ resposta[t] = "sucesso"
  /\ NotificarUm(t, TRUE)

UnsubscribeFalha(t) ==
  /\ pc[t] \in Unsubscribing /\ resposta[t] = "falha"
  /\ NotificarUm(t, FALSE)

\* A message that matches a subscription comes in, and the library calls
\* mensagemRecebida().
Chega(l, n) ==
  /\ ligado /\ \E f \in inscrito : <<f, n>> \in Corresponde
  /\ lib[l] = "idle"
  /\ lib' = [lib EXCEPT ![l] = "lookup"]
  /\ mensagem' = [mensagem EXCEPT ![l] = n]
  /\ UNCHANGED <<callback, callback_map>>
  /\ UNCHANGED callVars /\ UNCHANGED contextVars /\ UNCHANGED libraryVars
  /\ UNCHANGED brokerVars

\* find(topico), by the name and not by what it matches.
Consultar(n) == IF n \in Topicos THEN callback_map[n] ELSE Nenhum

\* mensagemRecebida() looks the topic up, and releases the lock.
Procurar(l) ==
  /\ lib[l] = "lookup"
  /\ lib' = [lib EXCEPT ![l] = "call"]
  /\ callback' = [callback EXCEPT ![l] = Consultar(mensagem[l])]
  /\ UNCHANGED <<mensagem, callback_map>>
  /\ UNCHANGED callVars /\ UNCHANGED contextVars /\ UNCHANGED libraryVars
  /\ UNCHANGED brokerVars

\* The callback, if there is one, returns 1 and the message is freed, or it
\* returns 0 and the library calls mensagemRecebida() with the message again.
Tratar(l, ret) ==
  /\ lib[l] = "call"
  /\ ret = 0 => callback[l] # Nenhum
  /\ lib' = [lib EXCEPT ![l] = IF ret = 1 THEN "idle" ELSE "lookup"]
  /\ callback' = [callback EXCEPT ![l] = Nenhum]
  /\ UNCHANGED <<mensagem, callback_map>>
  /\ UNCHANGED callVars /\ UNCHANGED contextVars /\ UNCHANGED libraryVars
  /\ UNCHANGED brokerVars

-----------------------------------------------------------------------------
ThreadStep(t) ==
  \/ SubscribeAceito(t) \/ SubscribeRecusado(t) \/ DesfazerInsercao(t)
  \/ ApagarCallbacks(t) \/ Esperar(t)

AnswerStep(t) ==
  \/ SubscribeSucesso(t) \/ SubscribeInsuficiente(t) \/ SubscribeFalha(t)
  \/ NotificarFalha(t) \/ UnsubscribeSucesso(t) \/ UnsubscribeFalha(t)

\* The broker handles a request, and its answer arrives or is lost.
Atender(t) ==
  \E r \in {"sucesso", "falha"} :
    \/ \E g \in [Topicos -> QosDevolvidos] : AtenderSubscribe(t, g, r)
    \/ AtenderUnsubscribe(t, r)

BrokerStep(t) == Atender(t) \/ Descartar(t)

Call(t) ==
  \/ VetorVazio(t) \/ DesinscricaoRecusada(t)
  \/ \E S \in SUBSET Alcance[t] :
       \/ Desinscrever(t, S)
       \/ S # {} /\ \E cb \in [Topicos -> Callbacks] : Inscrever(t, S, cb)

MessageStep(l) ==
  \/ \E n \in Nomes : Chega(l, n)
  \/ Procurar(l)
  \/ \E ret \in {0, 1} : Tratar(l, ret)

Next ==
  \/ \E t \in Threads :
       Call(t) \/ ThreadStep(t) \/ BrokerStep(t) \/ AnswerStep(t)
  \/ \E l \in LibThreads : MessageStep(l)
  \/ Ligar \/ LigarSemSessao \/ Desligar

Spec == Init /\ [][Next]_vars

\* A runnable thread runs, a callback that is due is called and ends, and a
\* request that the broker can be asked is decided.  Nothing says that the
\* library gives up a request it cannot send (Descartar), nor that a connection
\* comes up again.
Fairness ==
  \A t \in Threads :
    WF_vars(ThreadStep(t)) /\ WF_vars(Atender(t)) /\ WF_vars(AnswerStep(t))

FairSpec == Spec /\ Fairness

-----------------------------------------------------------------------------
(* Properties.                                                             *)

\* Thread t is in a call that names topic n.
Nomeia(t, n) == pc[t] # "out" /\ n \in topicos[t]

\* No other thread ever names n.
Exclusivo(t, n) ==
  n \in Alcance[t] /\ \A u \in Threads \ {t} : n \notin Alcance[u]

\* The broker granted n, and it has not been unsubscribed since.
Concedido(n) == n \in inscrito \cup perdidos

\* A callback in the map is one that the broker's session can reach: when no
\* call is under way, every topic of the map is subscribed, whichever threads
\* subscribed and unsubscribed it, in whatever order, with whatever outcome.
\* The one exception is a session that the broker itself lost: its callbacks
\* stay, but only those, and only until the topic is granted again.
HandlersAreSubscribed ==
  (\A t \in Threads : pc[t] = "out") =>
    \A n \in Topicos : callback_map[n] # Nenhum => Concedido(n)

\* A successful result is true of the topics that only its thread names, until
\* its next call: subscribed and with a callback, or neither of the two.  The
\* connection may have been lost and made again since: "do not erase the map of
\* callbacks, for in a next session we may recover the subscriptions".  With a
\* session that the broker itself lost it is the callback alone that is left.
SuccessIsInEffect ==
  \A t \in Threads, n \in Topicos : Exclusivo(t, n) =>
    /\ promessa[n] = "inscrito" => Concedido(n) /\ callback_map[n] # Nenhum
    /\ promessa[n] = "livre" => ~Concedido(n) /\ callback_map[n] = Nenhum

\* The callbacks of the call of t are to be erased: its answer is a failure, or
\* a SUBACK that refuses a topic.
SeraDesfeito(t) ==
  /\ pc[t] = "wait_s"
  /\ \/ resposta[t] = "falha"
     \/ resposta[t] = "sucesso" /\ \E n \in topicos[t] : Insuficiente(qos[t][n])

\* No refusal of the request of t is due, nor has one been reported.
SemRecusa(t) ==
  \/ t \in fila
  \/ resposta[t] = "sucesso" /\ ~SeraDesfeito(t)
  \/ t \in finalizada /\ res[t]

\* The subscription of n by t has succeeded, or is on its way to the broker and
\* back with nothing against it.
EmVigor(t, n) ==
  \/ promessa[n] = "inscrito"
  \/ pc[t] = "wait_s" /\ n \in topicos[t] /\ SemRecusa(t)

\* No message of a subscription is dropped for want of a callback, not even one
\* that comes before the SUBACK: the callbacks are inserted before the request,
\* and go no sooner than a refusal is reported.
NoMessageDropped ==
  [][\A l \in LibThreads, t \in Threads :
       /\ lib[l] = "lookup" /\ lib'[l] = "call"
       /\ Exclusivo(t, mensagem[l]) /\ EmVigor(t, mensagem[l])
       => callback'[l] # Nenhum]_vars

\* MQTTAsync.h says of the type of the callbacks given to subscribe(), that such
\* a callback is called "when a new message that matches a client subscription
\* has been received": after a subscribe() that returned true, so are those of a
\* filter with a wildcard.
MatchingMessageHandled ==
  [][\A l \in LibThreads, t \in Threads, f \in Topicos :
       /\ lib[l] = "lookup" /\ lib'[l] = "call"
       /\ <<f, mensagem[l]>> \in Corresponde
       /\ Exclusivo(t, f) /\ promessa[f] = "inscrito"
       => callback'[l] # Nenhum]_vars

\* Every call returns, if the library gives up the requests that it cannot send:
\* each path of sucesso() and falha() notifies its context.
CallsReturn ==
  (\A t \in Threads : WF_vars(Descartar(t))) =>
    \A t \in Threads : pc[t] # "out" ~> pc[t] = "out"

\* Whatever the library keeps, every call returns once the link stays up.
CallsReturnOnline ==
  <>[]ligado => \A t \in Threads : pc[t] # "out" ~> pc[t] = "out"

\* The temporaries of subscribe() and unsubscribe(), as the promise of Contexto
\* shows them.
Contexto ==
  INSTANCE Completion WITH
    Contextos <- Threads,
    phase <- [t \in Threads |->
                IF pc[t] \notin Pedindo THEN "idle"
                ELSE IF t \in finalizada THEN "answered" ELSE "pending"],
    answer <- res,
    returned <- retorno

\* A call returns the result that sucesso() or falha() gave to its own request,
\* which is answered once, or FALSE if the request was refused: an answer that
\* comes while unsubscribe() still erases its callbacks is not lost, and none is
\* left over from an earlier call, or given to a call that does not wait for it.
UsaContextos == Contexto!Spec

\* No wait is in vain: a call that waits, or is about to, has its request in the
\* hands of the library, or the answer is due or there.
NoCallStuck ==
  \A t \in Threads : pc[t] \in Pedindo =>
    t \in fila \/ resposta[t] # "nenhuma" \/ t \in finalizada

\* The comment of the Connect constructor: "every time that a new connection is
\* established, the session is reset".
SessionIsReset == [][~ligado /\ ligado' => inscrito' = {}]_vars

-----------------------------------------------------------------------------
(* The inductive invariant.                                                *)

\* A call has its request in the queue, or its answer due, or its context
\* finished, one at a time, and none of them once it has returned.
RequestInv ==
  \A t \in Threads :
    /\ t \in fila \/ resposta[t] # "nenhuma" \/ t \in finalizada =>
         pc[t] \in Pedindo
    /\ t \in fila => resposta[t] = "nenhuma" /\ t \notin finalizada
    /\ t \in finalizada => resposta[t] = "nenhuma"
    /\ resposta[t] = "notificar" => pc[t] = "wait_s"
    /\ topicos[t] \subseteq Alcance[t]

\* Thread u has a request in the queue that unsubscribes n.
Cancela(u, n) == u \in fila /\ pc[u] \in Unsubscribing /\ n \in topicos[u]

\* The call of t is a reason for n to be in the map: it is still to make its
\* request or to take the callback back, or its request in the queue subscribes
\* n with no later one that unsubscribes it.
Sustenta(t, n) ==
  /\ n \in topicos[t]
  /\ \/ pc[t] \in {"subscribeMany", "recusada", "erase"}
     \/ SeraDesfeito(t)
     \/ /\ pc[t] = "wait_s" /\ t \in fila
        /\ \A u \in Threads : Cancela(u, n) => u \in antes[t]

\* The subscription of n stands, and no request in the queue ends it.
Assente(n) == Concedido(n) /\ \A u \in Threads : ~Cancela(u, n)

\* Nothing is in the map without a reason.
MapInv ==
  \A n \in Topicos : callback_map[n] # Nenhum =>
    Assente(n) \/ \E t \in Threads : Sustenta(t, n)

\* What the call of t has done so far to a topic that only t names.
CallInv(t, n) ==
  /\ pc[t] \in {"subscribeMany", "recusada"} => callback_map[n] # Nenhum
  /\ pc[t] = "wait_s" =>
       /\ SemRecusa(t) \/ SeraDesfeito(t) => callback_map[n] # Nenhum
       /\ resposta[t] = "sucesso" /\ ~SeraDesfeito(t) => Concedido(n)
       /\ t \in finalizada /\ res[t] => Concedido(n)
  /\ pc[t] = "wait_u" => callback_map[n] = Nenhum
  /\ pc[t] \in Unsubscribing =>
       (resposta[t] = "sucesso" \/ (t \in finalizada /\ res[t])
        => ~Concedido(n))

\* What is known of a topic n that only t names.
Cumpre(t, n) ==
  IF Nomeia(t, n) THEN promessa[n] = "nada" /\ CallInv(t, n)
  ELSE /\ promessa[n] = "inscrito" =>
            Concedido(n) /\ callback_map[n] # Nenhum
       /\ promessa[n] = "livre" =>
            ~Concedido(n) /\ callback_map[n] = Nenhum

\* A broker that keeps its sessions loses no subscription.
SessionInv == perdidos # {} => SessaoPerdivel

OwnerInv ==
  \A t \in Threads, n \in Topicos : Exclusivo(t, n) => Cumpre(t, n)

IInv ==
  TypeOK /\ RequestInv /\ NoCallStuck /\ MapInv /\ OwnerInv /\ SessionInv
=============================================================================

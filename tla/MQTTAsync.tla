------------------------------ MODULE MQTTAsync ------------------------------
(***************************************************************************)
(* What MQTTAsync.h declares of one client of the library: what the        *)
(* application must have done before each call, and what the library may   *)
(* do in the background and report with callbacks.  The client is shown to *)
(* implement it, so that every call it makes is one that the header        *)
(* allows; a call that the library refuses changes nothing here.           *)
(***************************************************************************)
EXTENDS MQTTAsyncTipos

CONSTANTS
  Pedidos,            \* the requests that can be in hand: one for each caller
  LibThreads,         \* the library's threads that deliver messages
  Topicos,            \* the topics of subscriptions
  Nomes,              \* the topic names of messages
  Corresponde,        \* <<f, n>>: subscription f matches the name n
  Nenhum,             \* no message
  connectOptions, disconnectOptions, responseOptions   \* as the client fills them

VARIABLES
  cliente,       \* the handle is that of a client
  registrados,   \* setCallbacks() has succeeded
  conectado,     \* what isConnected() answers
  pedido,        \* [Pedidos -> the kind of the request accepted, or "none"]
  assunto,       \* [Pedidos -> the topics of that request]
  desfecho,      \* [Pedidos -> the callback due for it]
  perda,         \* connectionLost() is due
  sessao,        \* the subscriptions of the session, on client and server
  entrega        \* [LibThreads -> the message whose storage the application has]

requestVars == <<pedido, assunto, desfecho>>
linkVars == <<conectado, perda, sessao>>
vars == <<cliente, registrados, requestVars, linkVars, entrega>>

ConnectionRequests == {"connect", "disconnect"}
TopicRequests == {"subscribe", "unsubscribe"}

\* create() has given a client, or has not; the server may have a session.
Init ==
  /\ cliente \in BOOLEAN
  /\ registrados = FALSE
  /\ conectado = FALSE
  /\ pedido = [p \in Pedidos |-> "none"]
  /\ assunto = [p \in Pedidos |-> {}]
  /\ desfecho = [p \in Pedidos |-> "open"]
  /\ perda = FALSE
  /\ sessao \in SUBSET Topicos
  /\ entrega = [l \in LibThreads |-> Nenhum]

-----------------------------------------------------------------------------
(* The calls of the application.                                           *)

\* The client must be disconnected when the callbacks are set.
setCallbacks ==
  /\ cliente /\ ~conectado
  /\ registrados' = TRUE
  /\ UNCHANGED <<cliente, requestVars, linkVars, entrega>>

\* A request is accepted, to be answered in the background.
Aceitar(p, tipo, S) ==
  /\ cliente
  /\ pedido[p] = "none"
  /\ pedido' = [pedido EXCEPT ![p] = tipo]
  /\ assunto' = [assunto EXCEPT ![p] = S]
  /\ UNCHANGED <<cliente, registrados, desfecho, linkVars, entrega>>

\* Otherwise a connect or disconnect is answered MQTTASYNC_COMMAND_IGNORED.
SemComando == \A p \in Pedidos : pedido[p] \notin ConnectionRequests

\* The message arrived callback must be set before messages can come.
connect(p) ==
  /\ registrados /\ ~conectado /\ SemComando
  /\ Aceitar(p, "connect", {})

disconnect(p) == SemComando /\ Aceitar(p, "disconnect", {})

subscribeMany(p) ==
  \E S \in (SUBSET Topicos) \ {{}} : Aceitar(p, "subscribe", S)

\* Nothing forbids a count of 0.
unsubscribeMany(p) == \E S \in SUBSET Topicos : Aceitar(p, "unsubscribe", S)

\* The client is freed, when no request is left that would call back into it.
destroy ==
  /\ \A p \in Pedidos : pedido[p] = "none"
  /\ cliente' = FALSE /\ conectado' = FALSE /\ perda' = FALSE
  /\ UNCHANGED <<registrados, requestVars, sessao, entrega>>

-----------------------------------------------------------------------------
(* What the library does in the background.                                *)

\* The callback r of a request is set in its options.
Indicado(tipo, r) ==
  LET opts == CASE tipo = "connect" -> connectOptions
                [] tipo = "disconnect" -> disconnectOptions
                [] OTHER -> responseOptions
  IN  IF r = "sucesso" THEN opts.onSuccess # NULL ELSE opts.onFailure # NULL

\* A request in hand is decided, once.
Decidir(p, tipo, r) ==
  /\ pedido[p] = tipo /\ desfecho[p] = "open"
  /\ desfecho' = [desfecho EXCEPT ![p] = r]
  /\ UNCHANGED <<cliente, registrados, pedido, assunto, entrega>>

\* The previous session is resumed, unless cleansession is true; if the server
\* has none for this client, a new session is started.
Conecta(p) ==
  /\ Decidir(p, "connect", "sucesso")
  /\ conectado' = TRUE
  /\ sessao' \in {{}} \cup (IF connectOptions.cleansession = 0 THEN {sessao} ELSE {})
  /\ UNCHANGED perda

Desconecta(p) ==
  /\ Decidir(p, "disconnect", "sucesso")
  /\ conectado' = FALSE
  /\ UNCHANGED <<perda, sessao>>

\* The server grants some of the topics, and the answer may be lost.
Inscreve(p, r) ==
  /\ conectado
  /\ Decidir(p, "subscribe", r)
  /\ \E G \in SUBSET assunto[p] : sessao' = sessao \cup G
  /\ UNCHANGED <<conectado, perda>>

Desinscreve(p, r) ==
  /\ conectado
  /\ Decidir(p, "unsubscribe", r)
  /\ sessao' = sessao \ assunto[p]
  /\ UNCHANGED <<conectado, perda>>

\* A request fails, for one at its timeout, with no effect.
Fracassa(p) ==
  /\ pedido[p] # "none"
  /\ Decidir(p, pedido[p], "falha")
  /\ UNCHANGED linkVars

PerdeConexao ==
  /\ conectado
  /\ conectado' = FALSE /\ perda' = TRUE
  /\ UNCHANGED <<cliente, registrados, requestVars, sessao, entrega>>

\* The library connects again by itself only when it is asked to.
Reconecta ==
  /\ connectOptions.automaticReconnect # 0
  /\ cliente /\ registrados /\ ~conectado
  /\ conectado' = TRUE
  /\ UNCHANGED <<cliente, registrados, requestVars, perda, sessao, entrega>>

-----------------------------------------------------------------------------
(* The callbacks.                                                          *)

\* onSuccess() or onFailure() of a decided request, if it is set, begins: the
\* library has done with the request.
Reportar(p, r) ==
  /\ cliente
  /\ desfecho[p] = r
  /\ Indicado(pedido[p], r)
  /\ pedido' = [pedido EXCEPT ![p] = "none"]
  /\ assunto' = [assunto EXCEPT ![p] = {}]
  /\ desfecho' = [desfecho EXCEPT ![p] = "open"]
  /\ UNCHANGED <<cliente, registrados, linkVars, entrega>>

connectionLost ==
  /\ perda
  /\ perda' = FALSE
  /\ UNCHANGED <<cliente, registrados, requestVars, conectado, sessao, entrega>>

\* A message that matches a subscription is handed to the application, which
\* has its storage from here on.
messageArrived(l, n) ==
  /\ cliente /\ registrados /\ conectado
  /\ \E f \in sessao : <<f, n>> \in Corresponde
  /\ entrega[l] = Nenhum
  /\ entrega' = [entrega EXCEPT ![l] = n]
  /\ UNCHANGED <<cliente, registrados, requestVars, linkVars>>

\* The callback frees the message and its topic, and returns 1.  When it
\* returns 0 it has freed nothing, and the same message is delivered again.
freeMessage(l) ==
  /\ entrega[l] # Nenhum
  /\ entrega' = [entrega EXCEPT ![l] = Nenhum]
  /\ UNCHANGED <<cliente, registrados, requestVars, linkVars>>

-----------------------------------------------------------------------------
Application ==
  \/ setCallbacks \/ destroy
  \/ \E p \in Pedidos :
       connect(p) \/ disconnect(p) \/ subscribeMany(p) \/ unsubscribeMany(p)

Library ==
  \/ \E p \in Pedidos :
       \/ Conecta(p) \/ Desconecta(p) \/ Fracassa(p)
       \/ \E r \in {"sucesso", "falha"} :
            Inscreve(p, r) \/ Desinscreve(p, r) \/ Reportar(p, r)
  \/ PerdeConexao \/ Reconecta \/ connectionLost

Messages ==
  \E l \in LibThreads :
    freeMessage(l) \/ \E n \in Nomes : messageArrived(l, n)

Next == Application \/ Library \/ Messages

Spec == Init /\ [][Next]_vars
=============================================================================

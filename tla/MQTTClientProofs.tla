-------------------------- MODULE MQTTClientProofs --------------------------
(***************************************************************************)
(* MQTTClient, for any number of threads, any topics and callbacks: it     *)
(* implements both of its components, whose theorems it thereby inherits,  *)
(* and, with connection and subscriptions together, the application's side *)
(* of the library's contract.                                              *)
(***************************************************************************)
EXTENDS MQTTClient, TLAPS

USE ConstAssumption

\* The theorems of the components, under the substitutions of C and I.
CP == INSTANCE ConexaoProofs WITH
  pc <- pcC, retorno <- retornoC, res <- resC, finalizada <- finalizadaC

IP == INSTANCE InscricoesProofs WITH
  pc <- pcI, retorno <- retornoI, res <- resI, finalizada <- finalizadaI,
  ligado <- conectado

\* The constants of a client meet the assumptions of the components.
LEMMA Assumptions == CP!ConstAssumption /\ IP!ConstAssumption
  BY DEF CP!ConstAssumption, IP!ConstAssumption

-----------------------------------------------------------------------------
(* CP and IP extend the modules that C and I are: the same definitions,    *)
(* under two names.                                                        *)

\* Both name the same initial states of the connection.
LEMMA SameInitC == CP!Init <=> C!Init
  BY DEF
    CP!Init, C!Init, CP!Ops, C!Ops

\* Both name the same variables of the connection.
LEMMA SameVarsC == UNCHANGED CP!vars <=> UNCHANGED C!vars
  BY DEF
    CP!programVars, C!programVars, CP!contextVars, C!contextVars,
    CP!libraryVars, C!libraryVars, CP!historyVars, C!historyVars, CP!vars,
    C!vars

\* Both name the same steps of the connection.
LEMMA SameNextC == CP!Next <=> C!Next
  BY DEF
    CP!programVars, C!programVars, CP!contextVars, C!contextVars,
    CP!libraryVars, C!libraryVars, CP!historyVars, C!historyVars, CP!WaitsOn,
    C!WaitsOn, CP!Goto, C!Goto, CP!Retornar, C!Retornar, CP!Link, C!Link,
    CP!Chamar, C!Chamar, CP!EmUso, C!EmUso, CP!Travar, C!Travar, CP!Aceitar,
    C!Aceitar, CP!Sair, C!Sair, CP!Esperar, C!Esperar, CP!Conectar,
    C!Conectar, CP!TravarConexao, C!TravarConexao, CP!JaConectado,
    C!JaConectado, CP!AindaNao, C!AindaNao, CP!SetCallbacks, C!SetCallbacks,
    CP!ConexaoRecusada, C!ConexaoRecusada, CP!ConnectAceito, C!ConnectAceito,
    CP!Desconectar, C!Desconectar, CP!NaoConectado, C!NaoConectado,
    CP!AindaConectado, C!AindaConectado, CP!TravarDesconexao,
    C!TravarDesconexao, CP!DesconexaoRecusada, C!DesconexaoRecusada,
    CP!DisconnectAceito, C!DisconnectAceito, CP!Destrutor, C!Destrutor,
    CP!Destruir, C!Destruir, CP!InCall, C!InCall, CP!Ligar, C!Ligar,
    CP!Conecta, C!Conecta, CP!Desconecta, C!Desconecta, CP!Fracassa,
    C!Fracassa, CP!PerdeConexao, C!PerdeConexao, CP!Responder, C!Responder,
    CP!Sucesso, C!Sucesso, CP!Falha, C!Falha, CP!Perdida, C!Perdida,
    CP!ConnectStep, C!ConnectStep, CP!DisconnectStep, C!DisconnectStep,
    CP!ThreadStep, C!ThreadStep, CP!LibraryStep, C!LibraryStep, CP!Encerrado,
    C!Encerrado, CP!Next, C!Next, CP!vars, C!vars

\* Both name the same invariant of the connection.
LEMMA SameIInvC == CP!IInv <=> C!IInv
  BY DEF
    CP!IInv, C!IInv, CP!TypeOK, C!TypeOK, CP!LockInv, C!LockInv,
    CP!EveryCommandAwaited, C!EveryCommandAwaited, CP!CommandInv,
    C!CommandInv, CP!FinishedInv, C!FinishedInv, CP!CallbackPreconditions,
    C!CallbackPreconditions, CP!RegisteredInv, C!RegisteredInv,
    CP!LifetimeInv, C!LifetimeInv, CP!HistoryInv, C!HistoryInv,
    CP!CallResultObserved, C!CallResultObserved, CP!PCs, C!PCs, CP!Ops, C!Ops,
    CP!Connecting, C!Connecting, CP!Disconnecting, C!Disconnecting,
    CP!WaitsOn, C!WaitsOn, CP!Meta, C!Meta, CP!Link, C!Link, CP!InCall,
    C!InCall, CP!WaitInv, C!WaitInv

\* Both name the same initial states of the subscriptions.
LEMMA SameInitI == IP!Init <=> I!Init
  BY DEF
    IP!Init, I!Init

\* Both name the same variables of the subscriptions.
LEMMA SameVarsI == UNCHANGED IP!vars <=> UNCHANGED I!vars
  BY DEF
    IP!callVars, I!callVars, IP!contextVars, I!contextVars, IP!libraryVars,
    I!libraryVars, IP!brokerVars, I!brokerVars, IP!messageVars, I!messageVars,
    IP!vars, I!vars

\* Both name the same steps of the subscriptions.
LEMMA SameNextI == IP!Next <=> I!Next
<1>1. ASSUME NEW t \in Threads PROVE IP!ThreadStep(t) <=> I!ThreadStep(t)
  BY DEF
    IP!SubscribeAceito, I!SubscribeAceito, IP!SubscribeRecusado,
    I!SubscribeRecusado, IP!DesfazerInsercao, I!DesfazerInsercao,
    IP!ApagarCallbacks, I!ApagarCallbacks, IP!Esperar, I!Esperar,
    IP!Enfileirar, I!Enfileirar, IP!Apagar, I!Apagar, IP!Retornar, I!Retornar,
    IP!ThreadStep, I!ThreadStep, IP!callVars, I!callVars, IP!contextVars,
    I!contextVars, IP!libraryVars, I!libraryVars, IP!brokerVars, I!brokerVars,
    IP!messageVars, I!messageVars
<1>2. ASSUME NEW t \in Threads PROVE IP!AnswerStep(t) <=> I!AnswerStep(t)
  BY DEF
    IP!SubscribeSucesso, I!SubscribeSucesso, IP!SubscribeInsuficiente,
    I!SubscribeInsuficiente, IP!SubscribeFalha, I!SubscribeFalha,
    IP!NotificarFalha, I!NotificarFalha, IP!Desfazer, I!Desfazer,
    IP!UnsubscribeSucesso, I!UnsubscribeSucesso, IP!UnsubscribeFalha,
    I!UnsubscribeFalha, IP!NotificarUm, I!NotificarUm, IP!Insuficiente,
    I!Insuficiente, IP!QosRequisitado, I!QosRequisitado,
    IP!MQTT_BAD_SUBSCRIBE, I!MQTT_BAD_SUBSCRIBE, IP!Apagar, I!Apagar,
    IP!Unsubscribing, I!Unsubscribing, IP!AnswerStep, I!AnswerStep,
    IP!callVars, I!callVars, IP!contextVars, I!contextVars, IP!libraryVars,
    I!libraryVars, IP!brokerVars, I!brokerVars, IP!messageVars, I!messageVars
<1>3. ASSUME NEW t \in Threads PROVE IP!BrokerStep(t) <=> I!BrokerStep(t)
  BY DEF
    IP!AtenderSubscribe, I!AtenderSubscribe, IP!AtenderUnsubscribe,
    I!AtenderUnsubscribe, IP!Descartar, I!Descartar, IP!Desenfileirar,
    I!Desenfileirar, IP!QosDevolvidos, I!QosDevolvidos, IP!MQTT_BAD_SUBSCRIBE,
    I!MQTT_BAD_SUBSCRIBE, IP!Unsubscribing, I!Unsubscribing, IP!BrokerStep,
    I!BrokerStep, IP!Atender, I!Atender, IP!callVars, I!callVars, IP!contextVars, I!contextVars,
    IP!libraryVars, I!libraryVars, IP!brokerVars, I!brokerVars,
    IP!messageVars, I!messageVars
<1>4. ASSUME NEW t \in Threads PROVE IP!Call(t) <=> I!Call(t)
  BY DEF
    IP!VetorVazio, I!VetorVazio, IP!Desinscrever, I!Desinscrever,
    IP!DesinscricaoRecusada, I!DesinscricaoRecusada, IP!Inscrever,
    I!Inscrever, IP!Chamar, I!Chamar, IP!Enfileirar, I!Enfileirar, IP!Call,
    I!Call, IP!callVars, I!callVars, IP!contextVars, I!contextVars,
    IP!libraryVars, I!libraryVars, IP!brokerVars, I!brokerVars,
    IP!messageVars, I!messageVars
<1>5. ASSUME NEW l \in LibThreads PROVE IP!MessageStep(l) <=> I!MessageStep(l)
  BY DEF
    IP!Chega, I!Chega, IP!Procurar, I!Procurar, IP!Tratar, I!Tratar,
    IP!Consultar, I!Consultar, IP!MessageStep, I!MessageStep, IP!callVars,
    I!callVars, IP!contextVars, I!contextVars, IP!libraryVars, I!libraryVars,
    IP!brokerVars, I!brokerVars, IP!messageVars, I!messageVars
<1>6. /\ IP!Ligar <=> I!Ligar
      /\ IP!LigarSemSessao <=> I!LigarSemSessao
      /\ IP!Desligar <=> I!Desligar
  BY DEF
    IP!Ligar, I!Ligar, IP!LigarSemSessao, I!LigarSemSessao, IP!Desligar,
    I!Desligar, IP!CLEANSESSION, I!CLEANSESSION, IP!callVars, I!callVars,
    IP!contextVars, I!contextVars, IP!libraryVars, I!libraryVars,
    IP!brokerVars, I!brokerVars, IP!messageVars, I!messageVars
<1>7. QED
  BY <1>1, <1>2, <1>3, <1>4, <1>5, <1>6 DEF IP!Next, I!Next

\* Both name the same invariant of the subscriptions.
LEMMA SameIInvI == IP!IInv <=> I!IInv
<1>1. IP!TypeOK <=> I!TypeOK
  BY DEF
    IP!TypeOK, I!TypeOK, IP!Subscribing, I!Subscribing, IP!Unsubscribing,
    I!Unsubscribing, IP!QosDevolvidos, I!QosDevolvidos,
    IP!MQTT_BAD_SUBSCRIBE, I!MQTT_BAD_SUBSCRIBE
<1>2. IP!RequestInv <=> I!RequestInv
  BY DEF IP!RequestInv, I!RequestInv, IP!Pedindo, I!Pedindo
<1>3. ASSUME NEW t, NEW n
      PROVE  /\ IP!SeraDesfeito(t) <=> I!SeraDesfeito(t)
             /\ IP!SemRecusa(t) <=> I!SemRecusa(t)
             /\ IP!Cancela(t, n) <=> I!Cancela(t, n)
             /\ IP!Concedido(n) <=> I!Concedido(n)
             /\ IP!Nomeia(t, n) <=> I!Nomeia(t, n)
             /\ IP!Exclusivo(t, n) <=> I!Exclusivo(t, n)
             /\ pcI[t] \in IP!Unsubscribing <=> pcI[t] \in I!Unsubscribing
  BY DEF
    IP!SeraDesfeito, I!SeraDesfeito, IP!SemRecusa, I!SemRecusa, IP!Insuficiente, I!Insuficiente,
    IP!QosRequisitado, I!QosRequisitado, IP!MQTT_BAD_SUBSCRIBE,
    I!MQTT_BAD_SUBSCRIBE, IP!Cancela, I!Cancela,
    IP!Unsubscribing, I!Unsubscribing, IP!Concedido, I!Concedido, IP!Nomeia,
    I!Nomeia, IP!Exclusivo, I!Exclusivo
<1>4. ASSUME NEW n PROVE IP!Assente(n) <=> I!Assente(n)
  BY <1>3 DEF IP!Assente, I!Assente
<1>5. ASSUME NEW t, NEW n PROVE IP!Sustenta(t, n) <=> I!Sustenta(t, n)
  BY <1>3 DEF IP!Sustenta, I!Sustenta
<1>6. ASSUME NEW t, NEW n PROVE IP!CallInv(t, n) <=> I!CallInv(t, n)
  BY <1>3 DEF IP!CallInv, I!CallInv
<1>7. ASSUME NEW t, NEW n PROVE IP!Cumpre(t, n) <=> I!Cumpre(t, n)
  BY <1>3, <1>6 DEF IP!Cumpre, I!Cumpre
<1>8. IP!MapInv <=> I!MapInv
  BY <1>4, <1>5 DEF IP!MapInv, I!MapInv
<1>9. IP!OwnerInv <=> I!OwnerInv
  BY <1>3, <1>7 DEF IP!OwnerInv, I!OwnerInv
<1>10. IP!NoCallStuck <=> I!NoCallStuck
  BY DEF IP!NoCallStuck, I!NoCallStuck, IP!Pedindo, I!Pedindo
<1>11. QED
  BY <1>1, <1>2, <1>8, <1>9, <1>10 DEF IP!IInv, I!IInv, IP!SessionInv, I!SessionInv

-----------------------------------------------------------------------------
(* A step of the client is a step of each component, or none.              *)

\* The tuples of MQTTClient are those of the components.
LEMMA Tuples ==
  /\ UNCHANGED varsC <=> UNCHANGED C!vars
  /\ UNCHANGED varsI <=> UNCHANGED I!vars
  BY DEF varsC, C!vars, C!programVars, C!contextVars, C!libraryVars,
    C!historyVars, varsI, I!vars, I!callVars, I!contextVars, I!libraryVars,
    I!brokerVars, I!messageVars

\* Every step of the client is one of the connection, or leaves it alone.
LEMMA StepConexao == [Next]_vars => [C!Next]_(C!vars)
<1> SUFFICES ASSUME [Next]_vars PROVE C!Next \/ UNCHANGED C!vars
  OBVIOUS
<1>1. ASSUME NEW t \in Threads, Call(t), vivo PROVE C!Next \/ UNCHANGED C!vars
  BY <1>1, Tuples DEF Call, Conectar, Desconectar, Destrutor, VetorVazio, Inscrever,
     Desinscrever, Pedir, SoC, SoI, C!Next
<1>2. ASSUME NEW t \in Threads, ThreadStep(t), vivo PROVE C!Next \/ UNCHANGED C!vars
  BY <1>2, Tuples DEF ThreadStep, Pedir, SoC, SoI, Desce, C!Next, C!ThreadStep
<1>3. ASSUME NEW t \in Threads, Atender(t) \/ Desistir(t), vivo
      PROVE  C!Next \/ UNCHANGED C!vars
  BY <1>3, Tuples DEF Atender, Desistir, SoC, SoI, Sobe, Desce, C!Next, C!LibraryStep
<1>4. ASSUME NEW t \in Threads, Responder(t), vivo PROVE C!Next \/ UNCHANGED C!vars
  BY <1>4, Tuples DEF Responder, SoC, SoI, C!Next, C!LibraryStep
<1>5. ASSUME PerdeConexao \/ Perdida, vivo PROVE C!Next
  BY <1>5 DEF PerdeConexao, Perdida, SoC, C!Next
<1>6. ASSUME NEW l \in LibThreads,
             \/ \E ret \in {0, 1} : Tratar(l, ret)
             \/ \E n \in Nomes : Chegar(l, n)
      PROVE  UNCHANGED C!vars
  BY <1>6, Tuples DEF Tratar, Chegar, SoI
<1>7. ASSUME Encerrado \/ UNCHANGED vars PROVE UNCHANGED C!vars
  BY <1>7, Tuples DEF Encerrado, vars
<1>8. QED
  BY <1>1, <1>2, <1>3, <1>4, <1>5, <1>6, <1>7 DEF Next

\* Every step of the client is one of the subscriptions, or leaves them alone.
LEMMA StepInscricoes == [Next]_vars => [I!Next]_(I!vars)
<1> SUFFICES ASSUME [Next]_vars PROVE I!Next \/ UNCHANGED I!vars
  OBVIOUS
<1>1. ASSUME NEW t \in Threads, Call(t) PROVE I!Next \/ UNCHANGED I!vars
  <2>1. CASE Conectar(t) \/ Desconectar(t) \/ Destrutor(t)
    BY <2>1, Tuples DEF Conectar, Desconectar, Destrutor, SoC
  <2>2. CASE ~(Conectar(t) \/ Desconectar(t) \/ Destrutor(t))
    <3>1. I!Call(t)
      BY <1>1, <2>2 DEF Call, VetorVazio, Inscrever, Desinscrever, Pedir, SoI, I!Call
    <3>2. QED
      BY <3>1 DEF I!Next
  <2>3. QED
    BY <2>1, <2>2
<1>2. ASSUME NEW t \in Threads, ThreadStep(t) PROVE I!Next \/ UNCHANGED I!vars
  BY <1>2, Tuples DEF ThreadStep, Pedir, SoC, SoI, Desce, I!Next
<1>3. ASSUME NEW t \in Threads, Atender(t) \/ Desistir(t)
      PROVE  I!Next \/ UNCHANGED I!vars
  BY <1>3, Tuples DEF Atender, Desistir, SoC, SoI, Sobe, Desce, I!Next, I!BrokerStep
<1>4. ASSUME NEW t \in Threads, Responder(t) PROVE I!Next \/ UNCHANGED I!vars
  BY <1>4, Tuples DEF Responder, SoC, SoI, I!Next
<1>5. ASSUME PerdeConexao \/ Perdida PROVE I!Next \/ UNCHANGED I!vars
  BY <1>5, Tuples DEF PerdeConexao, Perdida, SoC, I!Next
<1>6. ASSUME NEW l \in LibThreads,
             \/ \E ret \in {0, 1} : Tratar(l, ret)
             \/ \E n \in Nomes : Chegar(l, n)
      PROVE  I!Next
  BY <1>6 DEF Tratar, Chegar, SoI, I!Next, I!MessageStep
<1>7. ASSUME Encerrado \/ UNCHANGED vars PROVE UNCHANGED I!vars
  BY <1>7, Tuples DEF Encerrado, vars
<1>8. QED
  BY <1>1, <1>2, <1>3, <1>4, <1>5, <1>6, <1>7 DEF Next

\* A client that is also subscribed on connects as Conexao says.
THEOREM ImplementsConexao == Spec => C!Spec
<1>1. Init => C!Init
  BY DEF Init
<1>2. QED
  BY <1>1, StepConexao, PTL DEF Spec, C!Spec

\* Its subscriptions are those of Inscricoes, with the link of Conexao as their
\* connection to the broker.
THEOREM ImplementsInscricoes == Spec => I!Spec
<1>1. Init => I!Init
  BY DEF Init
<1>2. QED
  BY <1>1, StepInscricoes, PTL DEF Spec, I!Spec

\* The inductive invariants of the components, proved for any threads, topics
\* and callbacks, are invariants of the client.
THEOREM ComponentInv == Spec => [](C!IInv /\ I!IInv)
<1>1. C!Spec => []C!IInv
  <2>1. CP!Spec => []CP!IInv
    BY CP!Invariance, Assumptions
  <2>2. [C!Next]_(C!vars) <=> [CP!Next]_(CP!vars)
    BY SameNextC, SameVarsC
  <2>3. QED
    BY <2>1, <2>2, SameInitC, SameIInvC, PTL DEF CP!Spec, C!Spec
<1>2. I!Spec => []I!IInv
  <2>1. IP!Spec => []IP!IInv
    BY IP!Invariance, Assumptions
  <2>2. [I!Next]_(I!vars) <=> [IP!Next]_(IP!vars)
    BY SameNextI, SameVarsI
  <2>3. QED
    BY <2>1, <2>2, SameInitI, SameIInvI, PTL DEF IP!Spec, I!Spec
<1>3. QED
  BY <1>1, <1>2, ImplementsConexao, ImplementsInscricoes, PTL

-----------------------------------------------------------------------------
(* The inductive invariant.                                                *)

\* What a step of conectar() or desconectar() does to the library.
LEMMA CallStep ==
  ASSUME C!IInv, NEW t \in Threads, C!ConnectStep(t) \/ C!DisconnectStep(t)
  PROVE  /\ pcC[t] # "out" /\ \A u \in Threads \ {t} : pcC'[u] = pcC[u]
         /\ UNCHANGED <<conectado, handle, destrutor>>
         /\ registrados => registrados'
         /\ \/ UNCHANGED comando
            \/ comando' = [comando EXCEPT ![t] = "disconnect"]
            \/ /\ comando' = [comando EXCEPT ![t] = "connect"]
               /\ handle /\ registrados
<1> USE DEF C!programVars, C!contextVars, C!libraryVars, C!historyVars, C!Goto,
            C!Sair, C!Travar, C!Retornar, C!IInv, C!TypeOK
<1>1. ASSUME C!TravarConexao(t) \/ C!TravarDesconexao(t)
      PROVE  /\ pcC[t] # "out" /\ \A u \in Threads \ {t} : pcC'[u] = pcC[u]
             /\ UNCHANGED C!libraryVars /\ UNCHANGED destrutor
  BY <1>1 DEF C!TravarConexao, C!TravarDesconexao
<1>2. ASSUME \/ C!JaConectado(t) \/ C!AindaNao(t) \/ C!ConexaoRecusada(t)
             \/ C!NaoConectado(t) \/ C!AindaConectado(t)
             \/ C!DesconexaoRecusada(t) \/ C!Esperar(t, "connect")
             \/ C!Esperar(t, "disconnect")
      PROVE  /\ pcC[t] # "out" /\ \A u \in Threads \ {t} : pcC'[u] = pcC[u]
             /\ UNCHANGED C!libraryVars /\ UNCHANGED destrutor
  BY <1>2 DEF C!JaConectado, C!AindaNao, C!ConexaoRecusada, C!NaoConectado,
     C!AindaConectado, C!DesconexaoRecusada, C!Esperar, C!WaitsOn
<1>3. pcC[t] = "connect" => registrados
  BY DEF C!CallbackPreconditions
<1>4. ASSUME C!SetCallbacks(t) \/ C!ConnectAceito(t) \/ C!DisconnectAceito(t)
      PROVE  pcC[t] # "out" /\ \A u \in Threads \ {t} : pcC'[u] = pcC[u]
  BY <1>4 DEF C!SetCallbacks, C!ConnectAceito, C!DisconnectAceito, C!Aceitar
<1>5. QED
  BY <1>1, <1>2, <1>3, <1>4 DEF C!ConnectStep, C!DisconnectStep, C!SetCallbacks,
     C!ConnectAceito, C!DisconnectAceito, C!Aceitar

\* A thread of which the library holds a command waits for it.
LEMMA CommandAwaited ==
  ASSUME C!IInv, NEW t \in Threads, comando[t] # "none" \/ desfecho[t] # "open"
  PROVE  /\ comando[t] \in {"connect", "disconnect"} /\ C!WaitsOn(t, comando[t])
         /\ pcC[t] # "out" /\ handle
<1>1. comando[t] # "none"
  BY DEF C!IInv, C!CommandInv
<1>2. QED
  BY <1>1 DEF C!IInv, C!TypeOK, C!Ops, C!EveryCommandAwaited, C!WaitsOn

\* What the library does with its commands leaves the calls where they are.
LEMMA CommandStep ==
  ASSUME C!IInv, NEW t \in Threads,
         \/ C!Conecta(t) \/ C!Desconecta(t) \/ C!Fracassa(t)
         \/ C!Sucesso(t) \/ C!Falha(t)
  PROVE  /\ UNCHANGED <<pcC, destrutor, handle, registrados>>
         /\ comando' \in {comando, [comando EXCEPT ![t] = "none"]}
         /\ conectado' \in {conectado, FALSE, comando[t] = "connect"}
  BY DEF C!Conecta, C!Desconecta, C!Fracassa, C!Sucesso, C!Falha, C!Responder,
     C!programVars, C!Ligar, C!IInv, C!TypeOK

\* The initial states.
LEMMA InitOwn == Init => CallInv /\ ClientInv
  BY DEF Init, C!Init, I!Init, CallInv, I!Subscribing, ClientInv

\* The answers, the broker and the messages leave the calls where they are.
LEMMA CallsStay ==
  ASSUME \/ \E t \in Threads : I!AnswerStep(t) \/ I!BrokerStep(t)
         \/ I!Ligar \/ I!LigarSemSessao \/ I!Desligar
         \/ \E l \in LibThreads : I!MessageStep(l)
  PROVE  UNCHANGED I!callVars
<1>1. ASSUME NEW t \in Threads, I!AnswerStep(t) PROVE UNCHANGED I!callVars
  BY <1>1 DEF I!AnswerStep, I!SubscribeSucesso, I!SubscribeInsuficiente, I!SubscribeFalha,
     I!NotificarFalha, I!UnsubscribeSucesso, I!UnsubscribeFalha, I!NotificarUm, I!Desfazer
<1>2. ASSUME NEW t \in Threads, I!BrokerStep(t) PROVE UNCHANGED I!callVars
  BY <1>2 DEF I!BrokerStep, I!Atender, I!AtenderSubscribe, I!AtenderUnsubscribe, I!Descartar
<1>3. I!Ligar \/ I!LigarSemSessao \/ I!Desligar => UNCHANGED I!callVars
  BY DEF I!Ligar, I!LigarSemSessao, I!Desligar
<1>4. ASSUME NEW l \in LibThreads, I!MessageStep(l) PROVE UNCHANGED I!callVars
  BY <1>4 DEF I!MessageStep, I!Chega, I!Procurar, I!Tratar
<1>5. QED
  BY <1>1, <1>2, <1>3, <1>4

\* A thread makes one call at a time, and none after the destructor has begun.
LEMMA StepCall == C!IInv /\ I!IInv /\ CallInv /\ [Next]_vars => CallInv'
<1> SUFFICES ASSUME C!IInv, I!IInv, CallInv, [Next]_vars PROVE CallInv'
  OBVIOUS
<1> USE DEF CallInv, I!Subscribing
<1>t. C!TypeOK /\ I!TypeOK
  BY DEF C!IInv, I!IInv
<1>i. ASSUME UNCHANGED varsI \/ UNCHANGED I!callVars PROVE UNCHANGED <<pcI, topicos>>
  BY <1>i DEF varsI, I!callVars
<1>c. ASSUME UNCHANGED varsC PROVE UNCHANGED <<pcC, destrutor>>
  BY <1>c DEF varsC
<1>s. ASSUME UNCHANGED <<pcC, destrutor, pcI, topicos>> PROVE CallInv'
  BY <1>s
<1>1. ASSUME NEW t \in Threads, Conectar(t) \/ Desconectar(t) PROVE CallInv'
  BY <1>1, <1>i, <1>t DEF Conectar, Desconectar, Livre, SoC, C!Conectar, C!Desconectar,
     C!Chamar, C!Goto, C!EmUso, C!TypeOK
<1>2. ASSUME NEW t \in Threads, Destrutor(t) PROVE CallInv'
  BY <1>2, <1>i, <1>t DEF Destrutor, Livre, SoC
<1>3. ASSUME NEW t \in Threads, VetorVazio(t) PROVE CallInv'
  BY <1>3, <1>c, <1>s DEF VetorVazio, Pedir, SoI, I!VetorVazio
<1>4. ASSUME NEW t \in Threads, NEW S \in SUBSET Alcance[t],
             \/ Desinscrever(t, S)
             \/ S # {} /\ \E cb \in [Topicos -> Callbacks] : Inscrever(t, S, cb)
      PROVE  CallInv'
  BY <1>4, <1>c, <1>t DEF Desinscrever, Inscrever, Livre, Pedir, SoI, I!Desinscrever,
     I!DesinscricaoRecusada, I!Inscrever, I!Chamar, C!EmUso, I!TypeOK
<1>5. ASSUME NEW t \in Threads, C!ConnectStep(t) \/ C!DisconnectStep(t), UNCHANGED varsI
      PROVE  CallInv'
  BY <1>5, <1>i, CallStep
<1>6. ASSUME NEW t \in Threads, C!Destruir(t), UNCHANGED <<pcI, topicos>>
      PROVE  CallInv'
  BY <1>6, <1>t DEF C!Destruir, C!Goto, C!TypeOK
<1>7. ASSUME NEW t \in Threads, I!ThreadStep(t), UNCHANGED varsC PROVE CallInv'
  BY <1>7, <1>c, <1>t DEF I!ThreadStep, I!SubscribeAceito, I!SubscribeRecusado,
     I!DesfazerInsercao, I!ApagarCallbacks, I!Esperar, I!Retornar, I!TypeOK
<1>8. ASSUME NEW t \in Threads,
             \/ C!Conecta(t) \/ C!Desconecta(t) \/ C!Fracassa(t)
             \/ C!Sucesso(t) \/ C!Falha(t),
             UNCHANGED <<pcI, topicos>>
      PROVE  CallInv'
  BY <1>8, <1>s, CommandStep
<1>9. ASSUME C!PerdeConexao \/ C!Perdida, UNCHANGED <<pcI, topicos>> PROVE CallInv'
  BY <1>9, <1>s DEF C!PerdeConexao, C!Perdida, C!programVars
<1>10. ASSUME I!Ligar \/ I!LigarSemSessao \/ I!Desligar PROVE UNCHANGED <<pcI, topicos>>
  BY <1>10, <1>i, CallsStay
<1>11. ASSUME NEW t \in Threads, I!AnswerStep(t) \/ I!BrokerStep(t), UNCHANGED varsC
       PROVE  CallInv'
  BY <1>11, <1>i, <1>c, <1>s, CallsStay
<1>12. ASSUME NEW l \in LibThreads, I!MessageStep(l), UNCHANGED varsC PROVE CallInv'
  BY <1>12, <1>i, <1>c, <1>s, CallsStay
<1>13. ASSUME NEW t \in Threads, Call(t) PROVE CallInv'
  BY <1>13, <1>1, <1>2, <1>3, <1>4 DEF Call
<1>14. ASSUME NEW t \in Threads, ThreadStep(t) PROVE CallInv'
  BY <1>14, <1>5, <1>6, <1>7, <1>10, <1>i DEF ThreadStep, SoC, Desce, Pedir, SoI
<1>15. ASSUME NEW t \in Threads, Atender(t) \/ Desistir(t) PROVE CallInv'
  BY <1>15, <1>8, <1>10, <1>11, <1>i DEF Atender, Desistir, SoC, SoI, Sobe, Desce, I!BrokerStep
<1>16. ASSUME NEW t \in Threads, Responder(t) PROVE CallInv'
  BY <1>16, <1>8, <1>11, <1>i DEF Responder, SoC, SoI
<1>17. ASSUME PerdeConexao \/ Perdida PROVE CallInv'
  BY <1>17, <1>9, <1>10, <1>i DEF PerdeConexao, Perdida, SoC
<1>18. ASSUME NEW l \in LibThreads,
              \/ \E ret \in {0, 1} : Tratar(l, ret)
              \/ \E n \in Nomes : Chegar(l, n)
       PROVE  CallInv'
  BY <1>18, <1>12 DEF Tratar, Chegar, SoI, I!MessageStep
<1>19. CASE Encerrado \/ UNCHANGED vars
  BY <1>19, <1>i, <1>c, <1>s DEF Encerrado, vars
<1>20. QED
  BY <1>13, <1>14, <1>15, <1>16, <1>17, <1>18, <1>19 DEF Next

\* What the subscriptions' requests, answers and messages do to ClientInv.
LEMMA RequestStep ==
  ASSUME I!IInv, ClientInv, UNCHANGED varsC,
         \/ \E t \in Threads : I!AnswerStep(t) \/ I!BrokerStep(t)
         \/ \E l \in LibThreads : I!MessageStep(l)
         \/ \E t \in Threads :
              (I!Call(t) \/ I!ThreadStep(t)) /\ (handle \/ UNCHANGED fila)
  PROVE  ClientInv'
<1> USE DEF ClientInv
<1>t. I!TypeOK
  BY DEF I!IInv
<1>c. UNCHANGED <<conectado, comando, registrados, handle>>
  BY DEF varsC
<1>s. ASSUME UNCHANGED <<fila, resposta>> PROVE ClientInv'
  BY <1>s, <1>c
<1>1. ASSUME NEW t \in Threads, I!AnswerStep(t) PROVE ClientInv'
  <2>1. /\ fila' = fila /\ resposta[t] # "nenhuma"
        /\ \E r : resposta' = [resposta EXCEPT ![t] = r]
    BY <1>1 DEF I!AnswerStep, I!SubscribeSucesso, I!SubscribeInsuficiente,
       I!SubscribeFalha, I!NotificarFalha, I!UnsubscribeSucesso, I!UnsubscribeFalha,
       I!NotificarUm, I!Desfazer
  <2>2. QED
    BY <2>1, <1>c, <1>t DEF I!TypeOK
<1>2. ASSUME NEW t \in Threads, I!BrokerStep(t) PROVE ClientInv'
  <2>1. /\ t \in fila /\ fila' = fila \ {t}
        /\ \E r : resposta' = [resposta EXCEPT ![t] = r]
    BY <1>2 DEF I!BrokerStep, I!Atender, I!AtenderSubscribe, I!AtenderUnsubscribe, I!Descartar,
       I!Desenfileirar
  <2>2. QED
    BY <2>1, <1>c, <1>t DEF I!TypeOK
<1>3. ASSUME NEW l \in LibThreads, I!MessageStep(l) PROVE ClientInv'
  BY <1>3, <1>s DEF I!MessageStep, I!Chega, I!Procurar, I!Tratar, I!libraryVars
<1>4. ASSUME NEW t \in Threads, I!Call(t) \/ I!ThreadStep(t), handle \/ UNCHANGED fila
      PROVE  ClientInv'
  <2>1. UNCHANGED resposta
    BY <1>4 DEF I!Call, I!VetorVazio, I!DesinscricaoRecusada, I!Desinscrever, I!Inscrever,
       I!ThreadStep, I!SubscribeAceito, I!SubscribeRecusado, I!DesfazerInsercao,
       I!ApagarCallbacks, I!Esperar, I!Enfileirar, I!libraryVars
  <2>2. QED
    BY <1>4, <2>1, <1>c
<1>5. QED
  BY <1>1, <1>2, <1>3, <1>4, <1>s

\* The link comes up only for a connect() that was given with the callbacks set,
\* and requests are made, and answered, during the life of the client.
LEMMA StepClient ==
  C!IInv /\ I!IInv /\ CallInv /\ ClientInv /\ [Next]_vars => ClientInv'
<1> SUFFICES ASSUME C!IInv, I!IInv, CallInv, ClientInv, [Next]_vars PROVE ClientInv'
  OBVIOUS
<1> USE DEF ClientInv
<1>t. C!TypeOK /\ I!TypeOK
  BY DEF C!IInv, I!IInv
<1>i. ASSUME UNCHANGED varsI PROVE UNCHANGED <<fila, resposta>>
  BY <1>i DEF varsI
<1>l. ASSUME I!Ligar \/ I!LigarSemSessao \/ I!Desligar
      PROVE  UNCHANGED <<fila, resposta>>
  BY <1>l DEF I!Ligar, I!LigarSemSessao, I!Desligar, I!libraryVars
<1>1. ASSUME NEW t \in Threads, Conectar(t) \/ Desconectar(t) \/ Destrutor(t)
      PROVE  ClientInv'
  BY <1>1, <1>i DEF Conectar, Desconectar, Destrutor, SoC, C!Conectar, C!Desconectar,
     C!Destrutor, C!Chamar, C!libraryVars
<1>2. ASSUME NEW t \in Threads, Call(t), ~(Conectar(t) \/ Desconectar(t) \/ Destrutor(t))
      PROVE  ClientInv'
  <2>1. UNCHANGED varsC /\ (handle \/ UNCHANGED fila)
    BY <1>2 DEF Call, VetorVazio, Desinscrever, Inscrever, Pedir, SoI
  <2>2. I!Call(t)
    BY <1>2 DEF Call, VetorVazio, Desinscrever, Inscrever, Pedir, SoI, I!Call
  <2>3. QED
    BY <2>1, <2>2, RequestStep
<1>3. ASSUME NEW t \in Threads, C!ConnectStep(t) \/ C!DisconnectStep(t), UNCHANGED varsI
      PROVE  ClientInv'
  BY <1>3, <1>i, <1>t, CallStep DEF C!TypeOK
<1>4. ASSUME NEW t \in Threads, C!Destruir(t), UNCHANGED <<fila, resposta>>
      PROVE  ClientInv'
  <2>1. destrutor = t /\ destrutor # NoThread
    BY <1>4 DEF C!Destruir, C!IInv, C!LifetimeInv
  <2>2. \A u \in Threads : pcI[u] = "out" /\ (u # t => pcC[u] = "out")
    BY <2>1 DEF CallInv, C!IInv, C!LifetimeInv
  <2>3. \A u \in Threads : u \notin fila /\ resposta[u] = "nenhuma"
    BY <2>2 DEF I!IInv, I!RequestInv, I!Pedindo
  <2>4. \A u \in Threads : comando[u] = "none"
    BY <1>4, <2>2, CommandAwaited DEF C!Destruir, C!WaitsOn
  <2>5. QED
    BY <1>4, <2>3, <2>4 DEF C!Destruir
<1>5. ASSUME NEW t \in Threads, UNCHANGED <<fila, resposta>>,
             \/ C!Conecta(t) \/ C!Desconecta(t) \/ C!Fracassa(t)
             \/ C!Sucesso(t) \/ C!Falha(t)
      PROVE  ClientInv'
  BY <1>5, <1>t, CommandStep DEF C!TypeOK
<1>6. ASSUME C!PerdeConexao \/ C!Perdida, UNCHANGED <<fila, resposta>> PROVE ClientInv'
  <2>1. conectado' \in {conectado, FALSE} /\ UNCHANGED <<handle, registrados, comando>>
    BY <1>6 DEF C!PerdeConexao, C!Perdida, C!Ligar
  <2>2. conectado' => conectado
    BY <2>1
  <2>3. QED
    BY <1>6, <2>1, <2>2
<1>7. ASSUME NEW t \in Threads, ThreadStep(t) PROVE ClientInv'
  BY <1>7, <1>3, <1>4, <1>l, <1>i, RequestStep DEF ThreadStep, SoC, Desce, Pedir, SoI
<1>8. ASSUME NEW t \in Threads, Atender(t) \/ Desistir(t) PROVE ClientInv'
  BY <1>8, <1>5, <1>l, <1>i, RequestStep DEF Atender, Desistir, SoC, SoI, Sobe, Desce,
     I!BrokerStep
<1>9. ASSUME NEW t \in Threads, Responder(t) PROVE ClientInv'
  BY <1>9, <1>5, <1>i, RequestStep DEF Responder, SoC, SoI
<1>10. CASE PerdeConexao \/ Perdida
  BY <1>10, <1>6, <1>l, <1>i DEF PerdeConexao, Perdida, SoC
<1>11. ASSUME NEW l \in LibThreads,
              \/ \E ret \in {0, 1} : Tratar(l, ret)
              \/ \E n \in Nomes : Chegar(l, n)
       PROVE  ClientInv'
  BY <1>11, RequestStep DEF Tratar, Chegar, SoI, I!MessageStep
<1>12. CASE Encerrado \/ UNCHANGED vars
  BY <1>12, <1>i DEF Encerrado, vars, varsC
<1>13. QED
  BY <1>1, <1>2, <1>7, <1>8, <1>9, <1>10, <1>11, <1>12 DEF Next

\* The inductive invariant of a client.
THEOREM Invariance == Spec => []IInv
<1>1. Init => CallInv /\ ClientInv
  BY InitOwn
<1>2. C!IInv /\ I!IInv /\ CallInv /\ ClientInv /\ [Next]_vars => CallInv' /\ ClientInv'
  BY StepCall, StepClient
<1>3. QED
  BY <1>1, <1>2, ComponentInv, PTL DEF Spec, IInv

\* Every variable keeps its type, for any threads, topics and callbacks.
THEOREM TypeCorrect == Spec => []TypeOK
<1>1. IInv => TypeOK
  BY DEF IInv, C!IInv, I!IInv, TypeOK
<1>2. QED
  BY <1>1, Invariance, PTL

-----------------------------------------------------------------------------
(* The client implements the application's side of the library's contract. *)

\* A request is in the hands of the library on one component only.
LEMMA OneRequest ==
  ASSUME IInv, NEW t \in Threads
  PROVE  /\ comando[t] # "none" \/ pcC[t] # "out" \/ pcI[t] = "out" =>
              t \notin fila /\ resposta[t] = "nenhuma"
         /\ pcI[t] # "out" => comando[t] = "none"
         /\ t \in fila => resposta[t] = "nenhuma"
         /\ t \in fila \/ resposta[t] # "nenhuma" => pcI[t] # "out" /\ handle
         /\ comando[t] = "none" => desfecho[t] = "open"
<1>1. comando[t] # "none" => pcC[t] # "out"
  BY CommandAwaited DEF IInv
<1>2. pcC[t] # "out" => pcI[t] = "out"
  BY DEF IInv, CallInv
<1>3. /\ pcI[t] = "out" => t \notin fila /\ resposta[t] = "nenhuma"
      /\ t \in fila => resposta[t] = "nenhuma"
  BY DEF IInv, I!IInv, I!RequestInv, I!Pedindo
<1>4. comando[t] = "none" => desfecho[t] = "open"
  BY DEF IInv, C!IInv, C!CommandInv
<1>5. t \in fila \/ resposta[t] # "nenhuma" => handle
  BY DEF IInv, ClientInv
<1>6. QED
  BY <1>1, <1>2, <1>3, <1>4, <1>5

\* In the initial state the library holds nothing of the client.
LEMMA InitBiblioteca == Init => Biblioteca!Init
  BY DEF Init, C!Init, I!Init, Biblioteca!Init, Pedido, Assunto, Desfecho, Devida, Entrega

\* A step of thread t changes what the library holds for t only.
LEMMA OneChanges ==
  ASSUME NEW t \in Threads,
         \A u \in Threads \ {t} :
           /\ UNCHANGED <<comando[u], desfecho[u], pcI[u], topicos[u], resposta[u]>>
           /\ u \in fila' <=> u \in fila
  PROVE  /\ [u \in Threads |-> Pedido(u)]' =
              [[u \in Threads |-> Pedido(u)] EXCEPT ![t] = Pedido(t)']
         /\ [u \in Threads |-> Assunto(u)]' =
              [[u \in Threads |-> Assunto(u)] EXCEPT ![t] = Assunto(t)']
         /\ [u \in Threads |-> Desfecho(u)]' =
              [[u \in Threads |-> Desfecho(u)] EXCEPT ![t] = Desfecho(t)']
<1>1. \A u \in Threads \ {t} :
        Pedido(u)' = Pedido(u) /\ Assunto(u)' = Assunto(u) /\ Desfecho(u)' = Desfecho(u)
  BY DEF Pedido, Assunto, Desfecho, Devida
<1>2. QED
  BY <1>1

\* What the contract does not see.
LEMMA Invisivel ==
  ASSUME UNCHANGED <<handle, registrados, conectado, perda, inscrito, Entrega>>,
         \A t \in Threads :
           UNCHANGED Pedido(t) /\ UNCHANGED Assunto(t) /\ UNCHANGED Desfecho(t)
  PROVE  UNCHANGED Biblioteca!vars
  BY DEF Biblioteca!vars, Biblioteca!requestVars, Biblioteca!linkVars

\* The steps of the connection, and of the link that goes with them.
LEMMA StepBibliotecaC ==
  ASSUME IInv, NEW t \in Threads,
         UNCHANGED <<pcI, topicos, fila, resposta, lib, mensagem>>,
         \/ /\ \/ C!ConnectStep(t) \/ C!DisconnectStep(t) \/ C!Destruir(t)
               \/ C!Desconecta(t) \/ C!Fracassa(t) \/ C!Sucesso(t) \/ C!Falha(t)
            /\ UNCHANGED inscrito
         \/ C!Conecta(t) /\ inscrito' \in {{}, inscrito}
  PROVE  Biblioteca!Next \/ UNCHANGED Biblioteca!vars
<1> DEFINE Passo == Biblioteca!Next \/ UNCHANGED Biblioteca!vars
<1> USE DEF Biblioteca!requestVars, Biblioteca!linkVars
<1>t. C!TypeOK /\ I!TypeOK
  BY DEF IInv, C!IInv, I!IInv
<1>e. UNCHANGED Entrega
  BY DEF Entrega
<1>v. ASSUME UNCHANGED <<handle, registrados, comando, desfecho, conectado, perda, inscrito>>
      PROVE  Passo
  BY <1>v, <1>e, Invisivel DEF Pedido, Assunto, Desfecho, Devida
<1>p. ASSUME comando[t] # "none" \/ pcC[t] # "out"
      PROVE  /\ Pedido(t) = comando[t] /\ Desfecho(t) = desfecho[t] /\ Assunto(t) = {}
             /\ Pedido(t)' = comando'[t] /\ Desfecho(t)' = desfecho'[t] /\ Assunto(t)' = {}
  BY <1>p, OneRequest DEF Pedido, Assunto, Desfecho, Devida
<1>u. ASSUME \A u \in Threads \ {t} : UNCHANGED <<comando[u], desfecho[u]>>
      PROVE  /\ [u \in Threads |-> Pedido(u)]' =
                  [[u \in Threads |-> Pedido(u)] EXCEPT ![t] = Pedido(t)']
             /\ [u \in Threads |-> Assunto(u)]' =
                  [[u \in Threads |-> Assunto(u)] EXCEPT ![t] = Assunto(t)']
             /\ [u \in Threads |-> Desfecho(u)]' =
                  [[u \in Threads |-> Desfecho(u)] EXCEPT ![t] = Desfecho(t)']
  BY <1>u, OneChanges
<1>1. ASSUME C!SetCallbacks(t), UNCHANGED inscrito PROVE Passo
  <2>1. /\ handle /\ ~conectado /\ registrados' = TRUE
        /\ UNCHANGED <<handle, comando, desfecho, conectado, perda>>
    BY <1>1 DEF C!SetCallbacks, IInv, C!IInv, C!CallbackPreconditions
  <2>2. \A u \in Threads :
          UNCHANGED Pedido(u) /\ UNCHANGED Assunto(u) /\ UNCHANGED Desfecho(u)
    BY <2>1 DEF Pedido, Assunto, Desfecho, Devida
  <2>3. Biblioteca!setCallbacks
    BY <1>1, <1>e, <2>1, <2>2 DEF Biblioteca!setCallbacks
  <2>4. QED
    BY <2>3 DEF Biblioteca!Next, Biblioteca!Application
<1>a. ASSUME C!ConnectAceito(t) \/ C!DisconnectAceito(t)
      PROVE  /\ handle /\ pcC[t] # "out" /\ desfecho[t] = "open"
             /\ UNCHANGED <<handle, registrados, conectado, perda, desfecho>>
             /\ \A u \in Threads : comando[u] = "none"
  <2>1. pcC[t] \in {"connect", "disconnect"}
    BY <1>a DEF C!ConnectAceito, C!DisconnectAceito
  <2>2. \A u \in Threads : pcC[u] \notin {"wait_c", "wait_d"}
    BY <2>1 DEF IInv, C!IInv, C!LockInv, C!Connecting, C!Disconnecting
  <2>3. \A u \in Threads : comando[u] = "none"
    BY <2>2, CommandAwaited DEF IInv, C!WaitsOn
  <2>4. QED
    BY <1>a, <2>1, <2>3, OneRequest DEF C!ConnectAceito, C!DisconnectAceito, C!Aceitar
<1>n. ASSUME \A u \in Threads : comando[u] = "none" PROVE Biblioteca!SemComando
  BY <1>n DEF Biblioteca!SemComando, Biblioteca!ConnectionRequests, Pedido, Devida
<1>2. ASSUME C!ConnectAceito(t), UNCHANGED inscrito PROVE Passo
  <2>1. registrados /\ ~conectado
    BY <1>2 DEF C!ConnectAceito, IInv, C!IInv, C!CallbackPreconditions
  <2>2. comando' = [comando EXCEPT ![t] = "connect"]
    BY <1>2 DEF C!ConnectAceito, C!Aceitar
  <2>3. Pedido(t) = "none" /\ Pedido(t)' = "connect" /\ Assunto(t)' = {}
        /\ Desfecho(t)' = Desfecho(t)
    BY <1>2, <1>a, <1>p, <1>t, <2>2 DEF C!TypeOK
  <2>4. \A u \in Threads \ {t} : UNCHANGED <<comando[u], desfecho[u]>>
    BY <1>2, <1>a, <1>t, <2>2 DEF C!TypeOK
  <2>5. UNCHANGED [u \in Threads |-> Desfecho(u)]
    BY <1>u, <2>3, <2>4
  <2>6. Biblioteca!connect(t)
    BY <1>2, <1>a, <1>n, <1>u, <1>e, <2>1, <2>3, <2>4, <2>5
       DEF Biblioteca!connect, Biblioteca!Aceitar
  <2>7. QED
    BY <2>6 DEF Biblioteca!Next, Biblioteca!Application
<1>3. ASSUME C!DisconnectAceito(t), UNCHANGED inscrito PROVE Passo
  <2>2. comando' = [comando EXCEPT ![t] = "disconnect"]
    BY <1>3 DEF C!DisconnectAceito, C!Aceitar
  <2>3. Pedido(t) = "none" /\ Pedido(t)' = "disconnect" /\ Assunto(t)' = {}
        /\ Desfecho(t)' = Desfecho(t)
    BY <1>3, <1>a, <1>p, <1>t, <2>2 DEF C!TypeOK
  <2>4. \A u \in Threads \ {t} : UNCHANGED <<comando[u], desfecho[u]>>
    BY <1>3, <1>a, <1>t, <2>2 DEF C!TypeOK
  <2>5. UNCHANGED [u \in Threads |-> Desfecho(u)]
    BY <1>u, <2>3, <2>4
  <2>6. Biblioteca!disconnect(t)
    BY <1>3, <1>a, <1>n, <1>u, <1>e, <2>3, <2>4, <2>5
       DEF Biblioteca!disconnect, Biblioteca!Aceitar
  <2>7. QED
    BY <2>6 DEF Biblioteca!Next, Biblioteca!Application
<1>4. ASSUME \/ C!TravarConexao(t) \/ C!TravarDesconexao(t) \/ C!JaConectado(t)
             \/ C!AindaNao(t) \/ C!ConexaoRecusada(t) \/ C!NaoConectado(t)
             \/ C!AindaConectado(t) \/ C!DesconexaoRecusada(t)
             \/ C!Esperar(t, "connect") \/ C!Esperar(t, "disconnect"),
             UNCHANGED inscrito
      PROVE  Passo
  <2>1. UNCHANGED C!libraryVars
    BY <1>4 DEF C!TravarConexao, C!TravarDesconexao, C!Travar, C!JaConectado, C!AindaNao,
       C!ConexaoRecusada, C!NaoConectado, C!AindaConectado, C!DesconexaoRecusada,
       C!Esperar, C!Sair
  <2>2. QED
    BY <1>4, <1>v, <2>1 DEF C!libraryVars
<1>5. ASSUME C!Destruir(t), UNCHANGED inscrito PROVE Passo
  <2>1. destrutor = t /\ destrutor # NoThread
    BY <1>5 DEF C!Destruir, IInv, C!IInv, C!LifetimeInv
  <2>2. \A u \in Threads : pcI[u] = "out" /\ pcC[u] \notin {"wait_c", "wait_d"}
    BY <1>5, <2>1 DEF C!Destruir, IInv, CallInv, C!IInv, C!LifetimeInv
  <2>3. \A u \in Threads : Pedido(u) = "none"
    BY <2>2, OneRequest, CommandAwaited DEF Pedido, Devida, IInv, C!WaitsOn
  <2>4. /\ handle' = FALSE /\ conectado' = FALSE /\ perda' = FALSE
        /\ UNCHANGED <<registrados, comando, desfecho>>
    BY <1>5 DEF C!Destruir
  <2>5. \A u \in Threads :
          UNCHANGED Pedido(u) /\ UNCHANGED Assunto(u) /\ UNCHANGED Desfecho(u)
    BY <2>4 DEF Pedido, Assunto, Desfecho, Devida
  <2>6. Biblioteca!destroy
    BY <1>5, <1>e, <2>3, <2>4, <2>5 DEF Biblioteca!destroy
  <2>7. QED
    BY <2>6 DEF Biblioteca!Next, Biblioteca!Application
<1>d. ASSUME NEW r \in {"sucesso", "falha"}, comando[t] # "none", desfecho[t] = "open",
             UNCHANGED <<handle, registrados, comando>>,
             desfecho' = [desfecho EXCEPT ![t] = r]
      PROVE  Biblioteca!Decidir(t, comando[t], r)
  <2>1. /\ Pedido(t) = comando[t] /\ Pedido(t)' = Pedido(t) /\ Assunto(t)' = Assunto(t)
        /\ Desfecho(t) = "open" /\ Desfecho(t)' = r
    BY <1>d, <1>p, <1>t DEF C!TypeOK
  <2>2. \A u \in Threads \ {t} : UNCHANGED <<comando[u], desfecho[u]>>
    BY <1>d, <1>t DEF C!TypeOK
  <2>3. /\ UNCHANGED [u \in Threads |-> Pedido(u)]
        /\ UNCHANGED [u \in Threads |-> Assunto(u)]
    BY <1>u, <2>1, <2>2
  <2>4. QED
    BY <1>d, <1>u, <1>e, <2>1, <2>2, <2>3 DEF Biblioteca!Decidir
<1>6. ASSUME C!Conecta(t), inscrito' \in {{}, inscrito} PROVE Passo
  <2>1. Biblioteca!Decidir(t, "connect", "sucesso")
    BY <1>6, <1>d DEF C!Conecta
  <2>2. C!ConnectOpts.cleansession = 0
    BY DEF C!ConnectOpts, C!connectOptions_initializer
  <2>3. Biblioteca!Conecta(t)
    BY <1>6, <2>1, <2>2 DEF C!Conecta, C!Ligar, Biblioteca!Conecta
  <2>4. QED
    BY <2>3 DEF Biblioteca!Next, Biblioteca!Library
<1>7. ASSUME C!Desconecta(t), UNCHANGED inscrito PROVE Passo
  <2>1. Biblioteca!Decidir(t, "disconnect", "sucesso")
    BY <1>7, <1>d DEF C!Desconecta
  <2>2. Biblioteca!Desconecta(t)
    BY <1>7, <2>1 DEF C!Desconecta, C!Ligar, Biblioteca!Desconecta
  <2>3. QED
    BY <2>2 DEF Biblioteca!Next, Biblioteca!Library
<1>8. ASSUME C!Fracassa(t), UNCHANGED inscrito PROVE Passo
  <2>1. Biblioteca!Decidir(t, comando[t], "falha")
    BY <1>8, <1>d DEF C!Fracassa
  <2>2. Pedido(t) = comando[t] /\ Pedido(t) # "none"
    BY <1>8, <1>p DEF C!Fracassa
  <2>3. Biblioteca!Fracassa(t)
    BY <1>8, <2>1, <2>2 DEF C!Fracassa, Biblioteca!Fracassa
  <2>4. QED
    BY <2>3 DEF Biblioteca!Next, Biblioteca!Library
<1>9. ASSUME NEW r \in {"sucesso", "falha"}, NEW ok \in BOOLEAN, desfecho[t] = r,
             C!Responder(t, ok), UNCHANGED inscrito
      PROVE  Passo
  <2>1. comando[t] \in {"connect", "disconnect"} /\ handle
    BY <1>9, CommandAwaited DEF IInv
  <2>2. Biblioteca!Indicado(comando[t], r)
    BY <2>1 DEF Biblioteca!Indicado, C!ConnectOpts, C!DisconnectOpts,
       C!connectOptions_initializer, C!disconnectOptions_initializer, C!NULL, Biblioteca!NULL
  <2>3. /\ comando' = [comando EXCEPT ![t] = "none"]
        /\ desfecho' = [desfecho EXCEPT ![t] = "open"]
        /\ UNCHANGED <<handle, conectado, registrados, perda>>
    BY <1>9 DEF C!Responder
  <2>4. /\ Pedido(t) = comando[t] /\ Desfecho(t) = r
        /\ Pedido(t)' = "none" /\ Assunto(t)' = {} /\ Desfecho(t)' = "open"
    BY <1>9, <1>p, <1>t, <2>1, <2>3 DEF C!TypeOK
  <2>5. \A u \in Threads \ {t} : UNCHANGED <<comando[u], desfecho[u]>>
    BY <1>t, <2>3 DEF C!TypeOK
  <2>6. Biblioteca!Reportar(t, r)
    BY <1>9, <1>u, <1>e, <2>1, <2>2, <2>3, <2>4, <2>5 DEF Biblioteca!Reportar
  <2>7. QED
    BY <2>6 DEF Biblioteca!Next, Biblioteca!Library
<1>10. QED
  BY <1>1, <1>2, <1>3, <1>4, <1>5, <1>6, <1>7, <1>8, <1>9 DEF C!ConnectStep,
     C!DisconnectStep, C!Sucesso, C!Falha

\* The steps of the subscriptions, the answers to them, and the messages.
LEMMA StepBibliotecaI ==
  ASSUME IInv, UNCHANGED varsC,
         \/ \E t \in Threads :
              \/ I!Call(t) /\ pcC[t] = "out" /\ (handle \/ UNCHANGED fila)
              \/ I!ThreadStep(t) /\ (handle \/ UNCHANGED fila)
              \/ I!BrokerStep(t) \/ I!AnswerStep(t)
         \/ \E l \in LibThreads : I!MessageStep(l)
  PROVE  Biblioteca!Next \/ UNCHANGED Biblioteca!vars
<1> DEFINE Passo == Biblioteca!Next \/ UNCHANGED Biblioteca!vars
<1> USE DEF Biblioteca!requestVars, Biblioteca!linkVars
<1>t. C!TypeOK /\ I!TypeOK
  BY DEF IInv, C!IInv, I!IInv
<1>c. UNCHANGED <<handle, registrados, comando, desfecho, conectado, perda>>
  BY DEF varsC
<1>e. ASSUME UNCHANGED <<lib, mensagem>> PROVE UNCHANGED Entrega
  BY <1>e DEF Entrega
<1>u. ASSUME NEW t \in Threads,
             \A u \in Threads \ {t} :
               /\ UNCHANGED <<pcI[u], topicos[u], resposta[u]>>
               /\ u \in fila' <=> u \in fila
      PROVE  /\ [u \in Threads |-> Pedido(u)]' =
                  [[u \in Threads |-> Pedido(u)] EXCEPT ![t] = Pedido(t)']
             /\ [u \in Threads |-> Assunto(u)]' =
                  [[u \in Threads |-> Assunto(u)] EXCEPT ![t] = Assunto(t)']
             /\ [u \in Threads |-> Desfecho(u)]' =
                  [[u \in Threads |-> Desfecho(u)] EXCEPT ![t] = Desfecho(t)']
  BY <1>c, <1>u, OneChanges
\* The library accepts a request of thread t.
<1>a. ASSUME NEW t \in Threads, NEW tipo \in {"subscribe", "unsubscribe"},
             NEW S \in SUBSET Topicos,
             comando[t] = "none", t \notin fila, resposta[t] = "nenhuma", handle,
             fila' = fila \cup {t}, topicos'[t] = S,
             pcI'[t] = IF tipo = "subscribe" THEN "wait_s" ELSE "erase",
             \A u \in Threads \ {t} : UNCHANGED <<pcI[u], topicos[u]>>,
             UNCHANGED <<resposta, inscrito, lib, mensagem>>
      PROVE  Biblioteca!Aceitar(t, tipo, S)
  <2>1. /\ Pedido(t) = "none" /\ Pedido(t)' = tipo /\ Assunto(t)' = S
        /\ Desfecho(t)' = Desfecho(t)
    BY <1>a, <1>c DEF Pedido, Assunto, Desfecho, Devida
  <2>2. UNCHANGED [u \in Threads |-> Desfecho(u)]
    BY <1>a, <1>u, <2>1
  <2>3. QED
    BY <1>a, <1>c, <1>e, <1>u, <2>1, <2>2 DEF Biblioteca!Aceitar
\* The library decides the request of thread t.
<1>d. ASSUME NEW t \in Threads, NEW r \in {"sucesso", "falha"}, t \in fila,
             t \notin fila', \A u \in Threads \ {t} : u \in fila' <=> u \in fila,
             resposta' = [resposta EXCEPT ![t] = r],
             UNCHANGED <<pcI, topicos, lib, mensagem>>
      PROVE  /\ Pedido(t) = IF pcI[t] = "wait_s" THEN "subscribe" ELSE "unsubscribe"
             /\ Biblioteca!Decidir(t, Pedido(t), r)
             /\ Assunto(t) = topicos[t]
  <2>1. comando[t] = "none" /\ desfecho[t] = "open" /\ resposta[t] = "nenhuma"
    BY <1>d, OneRequest
  <2>2. /\ Pedido(t)' = Pedido(t) /\ Assunto(t)' = Assunto(t)
        /\ Desfecho(t) = "open" /\ Desfecho(t)' = r /\ Assunto(t) = topicos[t]
        /\ Pedido(t) = IF pcI[t] = "wait_s" THEN "subscribe" ELSE "unsubscribe"
    BY <1>d, <1>c, <1>t, <2>1 DEF Pedido, Assunto, Desfecho, Devida, I!TypeOK
  <2>3. \A u \in Threads \ {t} : UNCHANGED <<pcI[u], topicos[u], resposta[u]>>
    BY <1>d, <1>t DEF I!TypeOK
  <2>4. /\ UNCHANGED [u \in Threads |-> Pedido(u)]
        /\ UNCHANGED [u \in Threads |-> Assunto(u)]
    BY <1>d, <1>u, <2>2, <2>3
  <2>5. QED
    BY <1>d, <1>c, <1>e, <1>u, <2>2, <2>3, <2>4 DEF Biblioteca!Decidir
<1>1. ASSUME NEW t \in Threads, I!SubscribeAceito(t), handle \/ UNCHANGED fila PROVE Passo
  <2>1. /\ pcI[t] = "subscribeMany" /\ t \notin fila /\ resposta[t] = "nenhuma"
        /\ topicos[t] \in (SUBSET Topicos) \ {{}} /\ comando[t] = "none"
    BY <1>1, <1>t, OneRequest DEF I!SubscribeAceito, IInv, CallInv, I!IInv, I!RequestInv,
       I!Pedindo, I!Subscribing, I!TypeOK
  <2>2. /\ pcI' = [pcI EXCEPT ![t] = "wait_s"] /\ fila' = fila \cup {t}
        /\ UNCHANGED <<topicos, resposta, inscrito, lib, mensagem>>
    BY <1>1 DEF I!SubscribeAceito, I!Enfileirar, I!brokerVars, I!messageVars
  <2>3. Biblioteca!Aceitar(t, "subscribe", topicos[t])
    BY <1>1, <1>a, <1>t, <2>1, <2>2 DEF I!TypeOK
  <2>4. Biblioteca!subscribeMany(t)
    BY <2>1, <2>3 DEF Biblioteca!subscribeMany
  <2>5. QED
    BY <2>4 DEF Biblioteca!Next, Biblioteca!Application
<1>2. ASSUME NEW t \in Threads, NEW S \in SUBSET Alcance[t], pcC[t] = "out",
             I!Desinscrever(t, S), handle \/ UNCHANGED fila
      PROVE  Passo
  <2>1. /\ pcI[t] = "out" /\ t \notin fila /\ resposta[t] = "nenhuma"
        /\ S \in SUBSET Topicos /\ comando[t] = "none"
    BY <1>2, OneRequest, CommandAwaited DEF I!Desinscrever, IInv
  <2>2. /\ pcI' = [pcI EXCEPT ![t] = "erase"] /\ fila' = fila \cup {t}
        /\ topicos' = [topicos EXCEPT ![t] = S]
        /\ UNCHANGED <<resposta, inscrito, lib, mensagem>>
    BY <1>2 DEF I!Desinscrever, I!Chamar, I!Enfileirar, I!brokerVars, I!messageVars
  <2>3. Biblioteca!Aceitar(t, "unsubscribe", S)
    BY <1>2, <1>a, <1>t, <2>1, <2>2 DEF I!TypeOK
  <2>4. Biblioteca!unsubscribeMany(t)
    BY <2>1, <2>3 DEF Biblioteca!unsubscribeMany
  <2>5. QED
    BY <2>4 DEF Biblioteca!Next, Biblioteca!Application
\* The steps of a call that the library does not see.
<1>i. ASSUME NEW t \in Threads, t \notin fila, resposta[t] = "nenhuma",
             \A u \in Threads \ {t} : UNCHANGED <<pcI[u], topicos[u]>>,
             UNCHANGED <<fila, resposta, inscrito, lib, mensagem>>
      PROVE  Passo
  <2>1. \A u \in Threads :
          UNCHANGED Pedido(u) /\ UNCHANGED Assunto(u) /\ UNCHANGED Desfecho(u)
    BY <1>i, <1>c DEF Pedido, Assunto, Desfecho, Devida
  <2>2. QED
    BY <1>i, <1>c, <1>e, <2>1, Invisivel
<1>3. ASSUME NEW t \in Threads,
             \/ I!VetorVazio(t) \/ I!DesinscricaoRecusada(t) \/ I!SubscribeRecusado(t)
             \/ I!DesfazerInsercao(t) \/ I!Esperar(t)
             \/ \E S, cb : I!Inscrever(t, S, cb)
      PROVE  Passo
  <2>1. t \notin fila /\ resposta[t] = "nenhuma"
    BY <1>3 DEF I!VetorVazio, I!DesinscricaoRecusada, I!SubscribeRecusado,
       I!DesfazerInsercao, I!Esperar, I!Inscrever, IInv, I!IInv, I!RequestInv, I!Pedindo
  <2>2. UNCHANGED <<fila, resposta, inscrito, lib, mensagem>>
    BY <1>3 DEF I!VetorVazio, I!DesinscricaoRecusada, I!SubscribeRecusado,
       I!DesfazerInsercao, I!Esperar, I!Inscrever, I!libraryVars, I!brokerVars, I!messageVars
  <2>3. \A u \in Threads \ {t} : UNCHANGED <<pcI[u], topicos[u]>>
    BY <1>3, <1>t DEF I!VetorVazio, I!DesinscricaoRecusada, I!SubscribeRecusado,
       I!DesfazerInsercao, I!Esperar, I!Inscrever, I!Chamar, I!Retornar, I!TypeOK
  <2>4. QED
    BY <1>i, <2>1, <2>2, <2>3
<1>4. ASSUME NEW t \in Threads, I!ApagarCallbacks(t) PROVE Passo
  <2>1. /\ pcI[t] = "erase" /\ pcI' = [pcI EXCEPT ![t] = "wait_u"]
        /\ UNCHANGED <<fila, resposta, topicos, inscrito, lib, mensagem>>
    BY <1>4 DEF I!ApagarCallbacks, I!libraryVars, I!brokerVars, I!messageVars
  <2>2. \A u \in Threads : pcI[u] = "wait_s" <=> pcI'[u] = "wait_s"
    BY <1>t, <2>1 DEF I!TypeOK
  <2>3. \A u \in Threads :
          UNCHANGED Pedido(u) /\ UNCHANGED Assunto(u) /\ UNCHANGED Desfecho(u)
    BY <1>c, <2>1, <2>2 DEF Pedido, Assunto, Desfecho, Devida
  <2>4. QED
    BY <1>c, <1>e, <2>1, <2>3, Invisivel
<1>5. ASSUME NEW t \in Threads, NEW g \in [Topicos -> I!QosDevolvidos],
             NEW r \in {"sucesso", "falha"}, I!AtenderSubscribe(t, g, r)
      PROVE  Passo
  <2>1. pcI[t] = "wait_s" /\ t \in fila /\ conectado
    BY <1>5 DEF I!AtenderSubscribe
  <2>2. /\ fila' = fila \ {t} /\ resposta' = [resposta EXCEPT ![t] = r]
        /\ UNCHANGED <<pcI, topicos, lib, mensagem>>
        /\ \E G \in SUBSET topicos[t] : inscrito' = inscrito \cup G
    BY <1>5 DEF I!AtenderSubscribe, I!Desenfileirar, I!callVars, I!messageVars
  <2>3. Biblioteca!Decidir(t, "subscribe", r) /\ Assunto(t) = topicos[t]
    BY <1>d, <2>1, <2>2
  <2>4. Biblioteca!Inscreve(t, r)
    BY <1>c, <2>1, <2>2, <2>3 DEF Biblioteca!Inscreve
  <2>5. QED
    BY <2>4 DEF Biblioteca!Next, Biblioteca!Library
<1>6. ASSUME NEW t \in Threads, NEW r \in {"sucesso", "falha"}, I!AtenderUnsubscribe(t, r)
      PROVE  Passo
  <2>1. pcI[t] # "wait_s" /\ t \in fila /\ conectado
    BY <1>6 DEF I!AtenderUnsubscribe, I!Unsubscribing
  <2>2. /\ fila' = fila \ {t} /\ resposta' = [resposta EXCEPT ![t] = r]
        /\ UNCHANGED <<pcI, topicos, lib, mensagem>>
        /\ inscrito' = inscrito \ topicos[t]
    BY <1>6 DEF I!AtenderUnsubscribe, I!Desenfileirar, I!callVars, I!messageVars
  <2>3. Biblioteca!Decidir(t, "unsubscribe", r) /\ Assunto(t) = topicos[t]
    BY <1>d, <2>1, <2>2
  <2>4. Biblioteca!Desinscreve(t, r)
    BY <1>c, <2>1, <2>2, <2>3 DEF Biblioteca!Desinscreve
  <2>5. QED
    BY <2>4 DEF Biblioteca!Next, Biblioteca!Library
<1>7. ASSUME NEW t \in Threads, I!Descartar(t) PROVE Passo
  <2>1. /\ t \in fila /\ fila' = fila \ {t}
        /\ resposta' = [resposta EXCEPT ![t] = "falha"]
        /\ UNCHANGED <<pcI, topicos, lib, mensagem, inscrito>>
    BY <1>7 DEF I!Descartar, I!Desenfileirar, I!callVars, I!brokerVars, I!messageVars
  <2>2. Biblioteca!Decidir(t, Pedido(t), "falha") /\ Pedido(t) # "none"
    BY <1>d, <2>1
  <2>3. Biblioteca!Fracassa(t)
    BY <1>c, <2>1, <2>2 DEF Biblioteca!Fracassa
  <2>4. QED
    BY <2>3 DEF Biblioteca!Next, Biblioteca!Library
\* The callback of a request of thread t begins.
<1>r. ASSUME NEW t \in Threads, NEW r \in {"nenhuma", "notificar"}, Devida(t),
             resposta' = [resposta EXCEPT ![t] = r],
             UNCHANGED <<pcI, topicos, fila, lib, mensagem, inscrito>>
      PROVE  Passo
  <2>1. comando[t] = "none" /\ desfecho[t] = "open" /\ t \notin fila /\ handle
    BY <1>r, OneRequest DEF Devida
  <2>2. /\ Pedido(t) \in {"subscribe", "unsubscribe"} /\ Desfecho(t) = resposta[t]
        /\ Pedido(t)' = "none" /\ Assunto(t)' = {} /\ Desfecho(t)' = "open"
    BY <1>r, <1>c, <1>t, <2>1 DEF Pedido, Assunto, Desfecho, Devida, I!TypeOK
  <2>3. Biblioteca!Indicado(Pedido(t), resposta[t])
    BY <1>r, <2>2 DEF Devida, Biblioteca!Indicado, I!ResponseOpts,
       I!responseOptions_initializer, I!NULL, Biblioteca!NULL
  <2>4. \A u \in Threads \ {t} : UNCHANGED <<pcI[u], topicos[u], resposta[u]>>
    BY <1>r, <1>t DEF I!TypeOK
  <2>5. Biblioteca!Reportar(t, resposta[t])
    BY <1>r, <1>c, <1>e, <1>u, <2>1, <2>2, <2>3, <2>4 DEF Biblioteca!Reportar
  <2>6. QED
    BY <1>r, <2>5 DEF Devida, Biblioteca!Next, Biblioteca!Library
<1>8. ASSUME NEW t \in Threads, I!AnswerStep(t) PROVE Passo
  <2>1. UNCHANGED <<pcI, topicos, fila, lib, mensagem, inscrito>>
    BY <1>8 DEF I!AnswerStep, I!SubscribeSucesso, I!SubscribeInsuficiente,
       I!SubscribeFalha, I!NotificarFalha, I!UnsubscribeSucesso, I!UnsubscribeFalha,
       I!NotificarUm, I!Desfazer, I!callVars, I!brokerVars, I!messageVars
  <2>2. CASE I!NotificarFalha(t)
    <3>1. resposta[t] = "notificar" /\ resposta' = [resposta EXCEPT ![t] = "nenhuma"]
      BY <2>2 DEF I!NotificarFalha, I!NotificarUm
    <3>2. \A u \in Threads :
            UNCHANGED Pedido(u) /\ UNCHANGED Assunto(u) /\ UNCHANGED Desfecho(u)
      BY <1>c, <1>t, <2>1, <3>1 DEF Pedido, Assunto, Desfecho, Devida, I!TypeOK
    <3>3. QED
      BY <1>c, <1>e, <2>1, <3>2, Invisivel
  <2>3. CASE ~I!NotificarFalha(t)
    <3>1. /\ Devida(t)
          /\ \E r \in {"nenhuma", "notificar"} : resposta' = [resposta EXCEPT ![t] = r]
      BY <1>8, <2>3 DEF Devida, I!AnswerStep, I!SubscribeSucesso, I!SubscribeInsuficiente,
         I!SubscribeFalha, I!UnsubscribeSucesso, I!UnsubscribeFalha, I!NotificarUm,
         I!Desfazer
    <3>2. QED
      BY <1>r, <2>1, <3>1
  <2>4. QED
    BY <2>2, <2>3
<1>9. ASSUME NEW l \in LibThreads, I!MessageStep(l) PROVE Passo
  <2>1. /\ UNCHANGED <<pcI, topicos, fila, resposta, inscrito>>
        /\ \A u \in Threads :
             UNCHANGED Pedido(u) /\ UNCHANGED Assunto(u) /\ UNCHANGED Desfecho(u)
    <3>1. UNCHANGED <<pcI, topicos, fila, resposta, inscrito>>
      BY <1>9 DEF I!MessageStep, I!Chega, I!Procurar, I!Tratar, I!callVars,
         I!libraryVars, I!brokerVars
    <3>2. QED
      BY <1>c, <3>1 DEF Pedido, Assunto, Desfecho, Devida
  <2>2. ASSUME NEW n \in Nomes, I!Chega(l, n) PROVE Passo
    <3>1. /\ lib' = [lib EXCEPT ![l] = "lookup"] /\ mensagem' = [mensagem EXCEPT ![l] = n]
          /\ lib[l] = "idle" /\ conectado
          /\ \E f \in inscrito : <<f, n>> \in Corresponde
      BY <2>2 DEF I!Chega
    <3>2. handle /\ registrados
      BY <3>1 DEF IInv, ClientInv
    <3>3. Entrega[l] = Nenhum /\ Entrega' = [Entrega EXCEPT ![l] = n]
      BY <1>t, <3>1 DEF Entrega, I!TypeOK
    <3>4. Biblioteca!messageArrived(l, n)
      BY <1>c, <2>1, <3>1, <3>2, <3>3 DEF Biblioteca!messageArrived
    <3>5. QED
      BY <3>4 DEF Biblioteca!Next, Biblioteca!Messages
  <2>3. ASSUME I!Procurar(l) \/ I!Tratar(l, 0) PROVE Passo
    <3>1. UNCHANGED Entrega
      BY <1>t, <2>3 DEF I!Procurar, I!Tratar, I!TypeOK, Entrega
    <3>2. QED
      BY <1>c, <2>1, <3>1, Invisivel
  <2>4. ASSUME I!Tratar(l, 1) PROVE Passo
    <3>1. lib' = [lib EXCEPT ![l] = "idle"] /\ lib[l] = "call" /\ UNCHANGED mensagem
      BY <2>4 DEF I!Tratar
    <3>2. Entrega[l] # Nenhum
      BY <1>t, <3>1 DEF I!TypeOK, Entrega, ConstAssumption
    <3>3. Entrega' = [Entrega EXCEPT ![l] = Nenhum]
      BY <1>t, <3>1 DEF I!TypeOK, Entrega
    <3>4. Biblioteca!freeMessage(l)
      BY <1>c, <2>1, <3>2, <3>3 DEF Biblioteca!freeMessage
    <3>5. QED
      BY <3>4 DEF Biblioteca!Next, Biblioteca!Messages
  <2>5. QED
    BY <1>9, <2>2, <2>3, <2>4 DEF I!MessageStep
<1>10. ASSUME NEW t \in Threads, I!Call(t), pcC[t] = "out", handle \/ UNCHANGED fila
       PROVE  Passo
  BY <1>10, <1>2, <1>3 DEF I!Call
<1>11. ASSUME NEW t \in Threads, I!ThreadStep(t), handle \/ UNCHANGED fila PROVE Passo
  BY <1>11, <1>1, <1>3, <1>4 DEF I!ThreadStep
<1>12. ASSUME NEW t \in Threads, I!BrokerStep(t) PROVE Passo
  BY <1>12, <1>5, <1>6, <1>7 DEF I!BrokerStep, I!Atender
<1>13. QED
  BY <1>8, <1>9, <1>10, <1>11, <1>12

\* Each step of the client is a call that the contract allows, each step of the
\* library one that it foresees, or neither of the two.
LEMMA StepBiblioteca ==
  IInv /\ [Next]_vars => Biblioteca!Next \/ UNCHANGED Biblioteca!vars
<1> SUFFICES ASSUME IInv, [Next]_vars
             PROVE  Biblioteca!Next \/ UNCHANGED Biblioteca!vars
  OBVIOUS
<1> DEFINE Passo == Biblioteca!Next \/ UNCHANGED Biblioteca!vars
           Parado == UNCHANGED <<pcI, topicos, fila, resposta, lib, mensagem>>
<1>i. ASSUME UNCHANGED varsI PROVE Parado /\ UNCHANGED inscrito
  BY <1>i DEF varsI
<1>l. ASSUME I!Ligar \/ I!LigarSemSessao \/ I!Desligar
      PROVE  Parado /\ inscrito' \in {{}, inscrito} /\ (I!Desligar => UNCHANGED inscrito)
  BY <1>l DEF I!Ligar, I!LigarSemSessao, I!Desligar, I!CLEANSESSION, I!callVars,
     I!libraryVars, I!messageVars
<1>q. ASSUME UNCHANGED <<handle, registrados, comando, desfecho, conectado, perda>>,
             UNCHANGED varsI
      PROVE  Passo
  <2>1. \A u \in Threads :
          UNCHANGED Pedido(u) /\ UNCHANGED Assunto(u) /\ UNCHANGED Desfecho(u)
    BY <1>q, <1>i DEF Pedido, Assunto, Desfecho, Devida
  <2>2. UNCHANGED Entrega
    BY <1>q, <1>i DEF Entrega
  <2>3. QED
    BY <1>q, <1>i, <2>1, <2>2, Invisivel
<1>1. ASSUME NEW t \in Threads, Call(t) PROVE Passo
  <2>1. CASE Conectar(t) \/ Desconectar(t) \/ Destrutor(t)
    BY <2>1, <1>q DEF Conectar, Desconectar, Destrutor, SoC, C!Conectar, C!Desconectar,
       C!Destrutor, C!Chamar, C!libraryVars
  <2>2. CASE ~(Conectar(t) \/ Desconectar(t) \/ Destrutor(t))
    <3>1. UNCHANGED varsC /\ (handle \/ UNCHANGED fila) /\ I!Call(t) /\ pcC[t] = "out"
      BY <1>1, <2>2 DEF Call, VetorVazio, Desinscrever, Inscrever, Livre, Pedir, SoI, I!Call
    <3>2. QED
      BY <3>1, StepBibliotecaI
  <2>3. QED
    BY <2>1, <2>2
<1>2. ASSUME NEW t \in Threads, ThreadStep(t) PROVE Passo
  <2>1. CASE Pedir(I!ThreadStep(t))
    BY <2>1, StepBibliotecaI DEF Pedir, SoI
  <2>2. CASE ~Pedir(I!ThreadStep(t))
    BY <1>2, <2>2, <1>i, <1>l, StepBibliotecaC DEF ThreadStep, SoC, Desce
  <2>3. QED
    BY <2>1, <2>2
<1>3. ASSUME NEW t \in Threads, Atender(t) \/ Desistir(t) PROVE Passo
  <2>1. CASE UNCHANGED varsC /\ I!BrokerStep(t)
    BY <2>1, StepBibliotecaI
  <2>2. CASE ~(UNCHANGED varsC /\ I!BrokerStep(t))
    BY <1>3, <2>2, <1>i, <1>l, StepBibliotecaC DEF Atender, Desistir, SoC, SoI, Sobe, Desce,
       I!BrokerStep
  <2>3. QED
    BY <2>1, <2>2
<1>4. ASSUME NEW t \in Threads, Responder(t) PROVE Passo
  BY <1>4, <1>i, StepBibliotecaC, StepBibliotecaI DEF Responder, SoC, SoI
<1>5. CASE PerdeConexao
  <2>1. /\ conectado /\ conectado' = FALSE /\ perda' = TRUE /\ Parado /\ UNCHANGED inscrito
        /\ UNCHANGED <<handle, registrados, comando, desfecho>>
    BY <1>5, <1>l DEF PerdeConexao, C!PerdeConexao, C!Ligar
  <2>2. \A u \in Threads :
          UNCHANGED Pedido(u) /\ UNCHANGED Assunto(u) /\ UNCHANGED Desfecho(u)
    BY <2>1 DEF Pedido, Assunto, Desfecho, Devida
  <2>3. Biblioteca!PerdeConexao
    BY <2>1, <2>2 DEF Biblioteca!PerdeConexao, Biblioteca!requestVars, Entrega
  <2>4. QED
    BY <2>3 DEF Biblioteca!Next, Biblioteca!Library
<1>6. CASE Perdida
  <2>1. /\ perda /\ perda' = FALSE /\ Parado /\ UNCHANGED inscrito
        /\ UNCHANGED <<handle, conectado, registrados, comando, desfecho>>
    BY <1>6, <1>i DEF Perdida, SoC, C!Perdida
  <2>2. \A u \in Threads :
          UNCHANGED Pedido(u) /\ UNCHANGED Assunto(u) /\ UNCHANGED Desfecho(u)
    BY <2>1 DEF Pedido, Assunto, Desfecho, Devida
  <2>3. Biblioteca!connectionLost
    BY <2>1, <2>2 DEF Biblioteca!connectionLost, Biblioteca!requestVars, Entrega
  <2>4. QED
    BY <2>3 DEF Biblioteca!Next, Biblioteca!Library
<1>7. ASSUME NEW l \in LibThreads,
             \/ \E ret \in {0, 1} : Tratar(l, ret)
             \/ \E n \in Nomes : Chegar(l, n)
      PROVE  Passo
  BY <1>7, StepBibliotecaI DEF Tratar, Chegar, SoI, I!MessageStep
<1>8. CASE Encerrado \/ UNCHANGED vars
  BY <1>8, <1>q DEF Encerrado, vars, varsC
<1>9. QED
  BY <1>1, <1>2, <1>3, <1>4, <1>5, <1>6, <1>7, <1>8 DEF Next

\* Whatever its threads do, a client uses the library as its contract allows:
\* connection, subscriptions and messages together.
THEOREM ClienteRespeitaBiblioteca == Spec => RespeitaBiblioteca
  BY Invariance, InitBiblioteca, StepBiblioteca, PTL
     DEF Spec, RespeitaBiblioteca, Biblioteca!Spec
=============================================================================

--------------------------- MODULE MQTTTestProofs ---------------------------
(***************************************************************************)
(* MQTTTest, for any number of rounds and of library threads: it is one of *)
(* the uses of a client that MQTTClient describes, whose theorems it       *)
(* thereby inherits, and it has an inductive invariant of its own, from    *)
(* which its properties follow.                                            *)
(***************************************************************************)
EXTENDS MQTTTest, TLAPS

USE ConstAssumption

\* The theorems of MQTTClient, under the substitution of K.
KP == INSTANCE MQTTClientProofs WITH
  Threads <- {Main}, Nomes <- Topicos, Corresponde <- {<<n, n>> : n \in Topicos},
  Callbacks <- {"mensagemRecebida", "mensagemTruncada"},
  Alcance <- [t \in {Main} |-> Topicos]

\* The constants of the program meet the assumptions of a client.
LEMMA Assumptions == KP!ConstAssumption
  BY DEF KP!ConstAssumption, Main, NoThread, Nenhum, Topicos

-----------------------------------------------------------------------------
(* KP extends the module that K is: the same definitions, under two names. *)

\* Both name the same initial states.
LEMMA SameInit == KP!Init <=> K!Init
  BY DEF KP!Init, K!Init, KP!C!Init, K!C!Init, KP!C!Ops, K!C!Ops, KP!I!Init, K!I!Init

\* Both name the same variables.
LEMMA SameVars == UNCHANGED KP!vars <=> UNCHANGED K!vars
  BY DEF KP!vars, K!vars, KP!varsC, K!varsC, KP!varsI, K!varsI

\* Both name the same steps of the connection.
LEMMA SameConexao ==
  ASSUME NEW t \in {Main}
  PROVE  /\ KP!C!EmUso <=> K!C!EmUso
         /\ KP!C!Conectar(t) <=> K!C!Conectar(t)
         /\ KP!C!Desconectar(t) <=> K!C!Desconectar(t)
         /\ KP!C!Destrutor(t) <=> K!C!Destrutor(t)
         /\ KP!C!ConnectStep(t) <=> K!C!ConnectStep(t)
         /\ KP!C!DisconnectStep(t) <=> K!C!DisconnectStep(t)
         /\ KP!C!Destruir(t) <=> K!C!Destruir(t)
         /\ KP!C!Conecta(t) <=> K!C!Conecta(t)
         /\ KP!C!Desconecta(t) <=> K!C!Desconecta(t)
         /\ KP!C!Fracassa(t) <=> K!C!Fracassa(t)
         /\ KP!C!Sucesso(t) <=> K!C!Sucesso(t)
         /\ KP!C!Falha(t) <=> K!C!Falha(t)
         /\ KP!C!PerdeConexao <=> K!C!PerdeConexao
         /\ KP!C!Perdida <=> K!C!Perdida
         /\ KP!C!Encerrado <=> K!C!Encerrado
  BY DEF KP!C!programVars, K!C!programVars, KP!C!contextVars, K!C!contextVars,
     KP!C!libraryVars, K!C!libraryVars, KP!C!historyVars, K!C!historyVars,
     KP!C!WaitsOn, K!C!WaitsOn, KP!C!Goto, K!C!Goto, KP!C!Retornar, K!C!Retornar,
     KP!C!Link, K!C!Link, KP!C!Chamar, K!C!Chamar, KP!C!EmUso, K!C!EmUso,
     KP!C!Travar, K!C!Travar, KP!C!Aceitar, K!C!Aceitar, KP!C!Sair, K!C!Sair,
     KP!C!Esperar, K!C!Esperar, KP!C!Conectar, K!C!Conectar, KP!C!TravarConexao,
     K!C!TravarConexao, KP!C!JaConectado, K!C!JaConectado, KP!C!AindaNao,
     K!C!AindaNao, KP!C!SetCallbacks, K!C!SetCallbacks, KP!C!ConexaoRecusada,
     K!C!ConexaoRecusada, KP!C!ConnectAceito, K!C!ConnectAceito, KP!C!Desconectar,
     K!C!Desconectar, KP!C!NaoConectado, K!C!NaoConectado, KP!C!AindaConectado,
     K!C!AindaConectado, KP!C!TravarDesconexao, K!C!TravarDesconexao,
     KP!C!DesconexaoRecusada, K!C!DesconexaoRecusada, KP!C!DisconnectAceito,
     K!C!DisconnectAceito, KP!C!Destrutor, K!C!Destrutor, KP!C!Destruir,
     K!C!Destruir, KP!C!InCall, K!C!InCall, KP!C!Ligar, K!C!Ligar, KP!C!Conecta,
     K!C!Conecta, KP!C!Desconecta, K!C!Desconecta, KP!C!Fracassa, K!C!Fracassa,
     KP!C!PerdeConexao, K!C!PerdeConexao, KP!C!Responder, K!C!Responder,
     KP!C!Sucesso, K!C!Sucesso, KP!C!Falha, K!C!Falha, KP!C!Perdida, K!C!Perdida,
     KP!C!ConnectStep, K!C!ConnectStep, KP!C!DisconnectStep, K!C!DisconnectStep,
     KP!C!ThreadStep, K!C!ThreadStep, KP!C!LibraryStep, K!C!LibraryStep,
     KP!C!Encerrado, K!C!Encerrado, KP!C!vars, K!C!vars

\* Both name the same steps of the subscriptions.
LEMMA SameInscricoes ==
  ASSUME NEW t \in {Main}, NEW S, NEW cb, NEW l, NEW n, NEW ret
  PROVE  /\ KP!I!ThreadStep(t) <=> K!I!ThreadStep(t)
         /\ KP!I!AnswerStep(t) <=> K!I!AnswerStep(t)
         /\ KP!I!Atender(t) <=> K!I!Atender(t)
         /\ KP!I!Descartar(t) <=> K!I!Descartar(t)
         /\ KP!I!Inscrever(t, S, cb) <=> K!I!Inscrever(t, S, cb)
         /\ KP!I!Desinscrever(t, S) <=> K!I!Desinscrever(t, S)
         /\ KP!I!DesinscricaoRecusada(t) <=> K!I!DesinscricaoRecusada(t)
         /\ KP!I!VetorVazio(t) <=> K!I!VetorVazio(t)
         /\ KP!I!Chega(l, n) <=> K!I!Chega(l, n)
         /\ KP!I!Procurar(l) <=> K!I!Procurar(l)
         /\ KP!I!Tratar(l, ret) <=> K!I!Tratar(l, ret)
         /\ KP!I!Ligar <=> K!I!Ligar
         /\ KP!I!LigarSemSessao <=> K!I!LigarSemSessao
         /\ KP!I!Desligar <=> K!I!Desligar
<1>1. KP!I!ThreadStep(t) <=> K!I!ThreadStep(t)
  BY DEF KP!I!SubscribeAceito, K!I!SubscribeAceito, KP!I!SubscribeRecusado,
     K!I!SubscribeRecusado, KP!I!DesfazerInsercao, K!I!DesfazerInsercao,
     KP!I!ApagarCallbacks, K!I!ApagarCallbacks, KP!I!Esperar, K!I!Esperar,
     KP!I!Enfileirar, K!I!Enfileirar, KP!I!Apagar, K!I!Apagar, KP!I!Retornar,
     K!I!Retornar, KP!I!ThreadStep, K!I!ThreadStep, KP!I!callVars, K!I!callVars,
     KP!I!contextVars, K!I!contextVars, KP!I!libraryVars, K!I!libraryVars,
     KP!I!brokerVars, K!I!brokerVars, KP!I!messageVars, K!I!messageVars
<1>2. KP!I!AnswerStep(t) <=> K!I!AnswerStep(t)
  BY DEF KP!I!SubscribeSucesso, K!I!SubscribeSucesso, KP!I!SubscribeInsuficiente,
     K!I!SubscribeInsuficiente, KP!I!SubscribeFalha, K!I!SubscribeFalha,
     KP!I!UnsubscribeSucesso, K!I!UnsubscribeSucesso, KP!I!UnsubscribeFalha,
     K!I!UnsubscribeFalha, KP!I!NotificarFalha, K!I!NotificarFalha, KP!I!Desfazer,
     K!I!Desfazer, KP!I!NotificarUm, K!I!NotificarUm, KP!I!Insuficiente,
     K!I!Insuficiente, KP!I!QosRequisitado, K!I!QosRequisitado,
     KP!I!MQTT_BAD_SUBSCRIBE, K!I!MQTT_BAD_SUBSCRIBE, KP!I!Apagar, K!I!Apagar,
     KP!I!Unsubscribing, K!I!Unsubscribing, KP!I!AnswerStep, K!I!AnswerStep,
     KP!I!callVars, K!I!callVars, KP!I!contextVars, K!I!contextVars,
     KP!I!libraryVars, K!I!libraryVars, KP!I!brokerVars, K!I!brokerVars,
     KP!I!messageVars, K!I!messageVars
<1>3. KP!I!Descartar(t) <=> K!I!Descartar(t)
  BY DEF KP!I!Descartar, K!I!Descartar, KP!I!Desenfileirar, K!I!Desenfileirar,
     KP!I!callVars, K!I!callVars, KP!I!contextVars, K!I!contextVars, KP!I!brokerVars,
     K!I!brokerVars, KP!I!messageVars, K!I!messageVars
<1>a. KP!I!Atender(t) <=> K!I!Atender(t)
  <2>1. KP!I!QosDevolvidos = K!I!QosDevolvidos
    BY DEF KP!I!QosDevolvidos, K!I!QosDevolvidos, KP!I!MQTT_BAD_SUBSCRIBE,
       K!I!MQTT_BAD_SUBSCRIBE
  <2>2. ASSUME NEW g, NEW r
        PROVE  /\ KP!I!AtenderSubscribe(t, g, r) <=> K!I!AtenderSubscribe(t, g, r)
               /\ KP!I!AtenderUnsubscribe(t, r) <=> K!I!AtenderUnsubscribe(t, r)
    BY DEF KP!I!AtenderSubscribe, K!I!AtenderSubscribe, KP!I!AtenderUnsubscribe,
       K!I!AtenderUnsubscribe, KP!I!Desenfileirar, K!I!Desenfileirar,
       KP!I!MQTT_BAD_SUBSCRIBE, K!I!MQTT_BAD_SUBSCRIBE, KP!I!Unsubscribing,
       K!I!Unsubscribing, KP!I!callVars, K!I!callVars, KP!I!contextVars,
       K!I!contextVars, KP!I!messageVars, K!I!messageVars
  <2>3. QED
    BY <2>1, <2>2 DEF KP!I!Atender, K!I!Atender
<1>4. /\ KP!I!Inscrever(t, S, cb) <=> K!I!Inscrever(t, S, cb)
      /\ KP!I!Desinscrever(t, S) <=> K!I!Desinscrever(t, S)
      /\ KP!I!DesinscricaoRecusada(t) <=> K!I!DesinscricaoRecusada(t)
      /\ KP!I!VetorVazio(t) <=> K!I!VetorVazio(t)
  BY DEF KP!I!VetorVazio, K!I!VetorVazio, KP!I!Desinscrever, K!I!Desinscrever,
     KP!I!DesinscricaoRecusada, K!I!DesinscricaoRecusada, KP!I!Inscrever,
     K!I!Inscrever, KP!I!Chamar, K!I!Chamar, KP!I!Enfileirar, K!I!Enfileirar,
     KP!I!callVars, K!I!callVars, KP!I!contextVars, K!I!contextVars,
     KP!I!libraryVars, K!I!libraryVars, KP!I!brokerVars, K!I!brokerVars,
     KP!I!messageVars, K!I!messageVars
<1>5. /\ KP!I!Chega(l, n) <=> K!I!Chega(l, n)
      /\ KP!I!Procurar(l) <=> K!I!Procurar(l)
      /\ KP!I!Tratar(l, ret) <=> K!I!Tratar(l, ret)
  BY DEF KP!I!Chega, K!I!Chega, KP!I!Procurar, K!I!Procurar, KP!I!Tratar, K!I!Tratar,
     KP!I!Consultar, K!I!Consultar, KP!I!callVars, K!I!callVars, KP!I!contextVars,
     K!I!contextVars, KP!I!libraryVars, K!I!libraryVars, KP!I!brokerVars,
     K!I!brokerVars, KP!I!messageVars, K!I!messageVars
<1>6. /\ KP!I!Ligar <=> K!I!Ligar
      /\ KP!I!LigarSemSessao <=> K!I!LigarSemSessao
      /\ KP!I!Desligar <=> K!I!Desligar
  BY DEF KP!I!Ligar, K!I!Ligar, KP!I!LigarSemSessao, K!I!LigarSemSessao,
     KP!I!Desligar, K!I!Desligar, KP!I!CLEANSESSION, K!I!CLEANSESSION, KP!I!callVars,
     K!I!callVars, KP!I!contextVars, K!I!contextVars, KP!I!libraryVars,
     K!I!libraryVars, KP!I!brokerVars, K!I!brokerVars, KP!I!messageVars,
     K!I!messageVars
<1>7. QED
  BY <1>1, <1>2, <1>3, <1>a, <1>4, <1>5, <1>6

\* Both name the same steps of a client.
LEMMA SameNext == KP!Next <=> K!Next
<1>1. ASSUME NEW t \in {Main} PROVE KP!Call(t) <=> K!Call(t)
  BY SameConexao, SameInscricoes DEF KP!Call, K!Call, KP!Conectar, K!Conectar,
     KP!Desconectar, K!Desconectar, KP!Destrutor, K!Destrutor, KP!VetorVazio,
     K!VetorVazio, KP!Desinscrever, K!Desinscrever, KP!Inscrever, K!Inscrever,
     KP!Livre, K!Livre, KP!Pedir, K!Pedir, KP!SoC, K!SoC, KP!SoI, K!SoI,
     KP!varsC, K!varsC, KP!varsI, K!varsI
<1>2. ASSUME NEW t \in {Main} PROVE KP!ThreadStep(t) <=> K!ThreadStep(t)
  BY SameConexao, SameInscricoes DEF KP!ThreadStep, K!ThreadStep, KP!Desce, K!Desce,
     KP!Pedir, K!Pedir, KP!SoC, K!SoC, KP!SoI, K!SoI, KP!varsC, K!varsC, KP!varsI,
     K!varsI
<1>3. ASSUME NEW t \in {Main} PROVE KP!Atender(t) <=> K!Atender(t)
  BY SameConexao, SameInscricoes DEF KP!Atender, K!Atender, KP!Sobe, K!Sobe, KP!Desce,
     K!Desce, KP!SoC, K!SoC, KP!SoI, K!SoI, KP!varsC, K!varsC, KP!varsI, K!varsI
<1>4. ASSUME NEW t \in {Main}
      PROVE  (KP!Desistir(t) <=> K!Desistir(t)) /\ (KP!Responder(t) <=> K!Responder(t))
  BY SameConexao, SameInscricoes DEF KP!Desistir, K!Desistir, KP!Responder,
     K!Responder, KP!SoC, K!SoC, KP!SoI, K!SoI, KP!varsC, K!varsC, KP!varsI, K!varsI
<1>5. (KP!PerdeConexao <=> K!PerdeConexao) /\ (KP!Perdida <=> K!Perdida)
  BY SameConexao, SameInscricoes DEF KP!PerdeConexao, K!PerdeConexao, KP!Perdida,
     K!Perdida, KP!SoC, K!SoC, KP!varsI, K!varsI
<1>6. ASSUME NEW l, NEW n, NEW ret
      PROVE  (KP!Tratar(l, ret) <=> K!Tratar(l, ret)) /\ (KP!Chegar(l, n) <=> K!Chegar(l, n))
  BY SameInscricoes DEF KP!Tratar, K!Tratar, KP!Chegar, K!Chegar, KP!SoI, K!SoI,
     KP!varsC, K!varsC
<1>7. KP!Encerrado <=> K!Encerrado
  BY SameConexao, SameVars DEF KP!Encerrado, K!Encerrado
<1>8. QED
  BY <1>1, <1>2, <1>3, <1>4, <1>5, <1>6, <1>7 DEF KP!Next, K!Next

\* Both name the same invariant of a client.
LEMMA SameIInv == KP!IInv <=> K!IInv
<1>c. KP!C!IInv <=> K!C!IInv
  BY DEF KP!C!IInv, K!C!IInv, KP!C!TypeOK, K!C!TypeOK, KP!C!LockInv, K!C!LockInv,
     KP!C!EveryCommandAwaited, K!C!EveryCommandAwaited, KP!C!CommandInv,
     K!C!CommandInv, KP!C!FinishedInv, K!C!FinishedInv, KP!C!CallbackPreconditions,
     K!C!CallbackPreconditions, KP!C!RegisteredInv, K!C!RegisteredInv,
     KP!C!LifetimeInv, K!C!LifetimeInv, KP!C!HistoryInv, K!C!HistoryInv,
     KP!C!CallResultObserved, K!C!CallResultObserved, KP!C!PCs, K!C!PCs, KP!C!Ops,
     K!C!Ops, KP!C!Connecting, K!C!Connecting, KP!C!Disconnecting, K!C!Disconnecting,
     KP!C!WaitsOn, K!C!WaitsOn, KP!C!Meta, K!C!Meta, KP!C!Link, K!C!Link,
     KP!C!InCall, K!C!InCall, KP!C!WaitInv, K!C!WaitInv
<1>i. KP!I!IInv <=> K!I!IInv
  <2>1. KP!I!TypeOK <=> K!I!TypeOK
    BY DEF
      KP!I!TypeOK, K!I!TypeOK, KP!I!Subscribing, K!I!Subscribing, KP!I!Unsubscribing,
      K!I!Unsubscribing, KP!I!QosDevolvidos, K!I!QosDevolvidos,
      KP!I!MQTT_BAD_SUBSCRIBE, K!I!MQTT_BAD_SUBSCRIBE
  <2>2. KP!I!RequestInv <=> K!I!RequestInv
    BY DEF KP!I!RequestInv, K!I!RequestInv, KP!I!Pedindo, K!I!Pedindo
  <2>3. ASSUME NEW t, NEW n
        PROVE  /\ KP!I!SeraDesfeito(t) <=> K!I!SeraDesfeito(t)
               /\ KP!I!Cancela(t, n) <=> K!I!Cancela(t, n)
               /\ KP!I!Concedido(n) <=> K!I!Concedido(n)
               /\ KP!I!Nomeia(t, n) <=> K!I!Nomeia(t, n)
               /\ KP!I!Exclusivo(t, n) <=> K!I!Exclusivo(t, n)
               /\ pcI[t] \in KP!I!Unsubscribing <=> pcI[t] \in K!I!Unsubscribing
    BY DEF
      KP!I!SeraDesfeito, K!I!SeraDesfeito, KP!I!Insuficiente, K!I!Insuficiente,
      KP!I!QosRequisitado, K!I!QosRequisitado, KP!I!MQTT_BAD_SUBSCRIBE,
      K!I!MQTT_BAD_SUBSCRIBE, KP!I!Cancela, K!I!Cancela,
      KP!I!Unsubscribing, K!I!Unsubscribing, KP!I!Concedido, K!I!Concedido, KP!I!Nomeia,
      K!I!Nomeia, KP!I!Exclusivo, K!I!Exclusivo
  <2>4. ASSUME NEW n PROVE KP!I!Assente(n) <=> K!I!Assente(n)
    BY <2>3 DEF KP!I!Assente, K!I!Assente
  <2>5. ASSUME NEW t, NEW n PROVE KP!I!Sustenta(t, n) <=> K!I!Sustenta(t, n)
    BY <2>3 DEF KP!I!Sustenta, K!I!Sustenta
  <2>6. ASSUME NEW t, NEW n PROVE KP!I!CallInv(t, n) <=> K!I!CallInv(t, n)
    BY <2>3 DEF KP!I!CallInv, K!I!CallInv, KP!I!SemRecusa, K!I!SemRecusa
  <2>7. ASSUME NEW t, NEW n PROVE KP!I!Cumpre(t, n) <=> K!I!Cumpre(t, n)
    BY <2>3, <2>6 DEF KP!I!Cumpre, K!I!Cumpre
  <2>8. KP!I!MapInv <=> K!I!MapInv
    BY <2>4, <2>5 DEF KP!I!MapInv, K!I!MapInv
  <2>9. KP!I!OwnerInv <=> K!I!OwnerInv
    BY <2>3, <2>7 DEF KP!I!OwnerInv, K!I!OwnerInv
  <2>10. KP!I!NoCallStuck <=> K!I!NoCallStuck
    BY DEF KP!I!NoCallStuck, K!I!NoCallStuck, KP!I!Pedindo, K!I!Pedindo
  <2>11. QED
    BY <2>1, <2>2, <2>8, <2>9, <2>10 DEF KP!I!IInv, K!I!IInv, KP!I!SessionInv,
       K!I!SessionInv
<1>1. KP!CallInv <=> K!CallInv
  BY DEF KP!CallInv, K!CallInv, KP!I!Subscribing, K!I!Subscribing
<1>2. KP!ClientInv <=> K!ClientInv
  BY DEF KP!ClientInv, K!ClientInv
<1>3. QED
  BY <1>c, <1>i, <1>1, <1>2 DEF KP!IInv, K!IInv

-----------------------------------------------------------------------------
(* The program is a use of a client.                                       *)

\* The topics of main() are in the reach of its thread, with their callbacks.
LEMMA Chamadas ==
  /\ Topicos \in SUBSET [t \in {Main} |-> Topicos][Main] /\ Topicos # {}
  /\ Retirados \in SUBSET [t \in {Main} |-> Topicos][Main]
  /\ Tratadores \in [Topicos -> {"mensagemRecebida", "mensagemTruncada"}]
<1>1. "esp32/topic1" \in Retirados /\ Retirados \subseteq Topicos
  BY DEF Topicos, Retirados
<1>2. Tratadores \in [Topicos -> {"mensagemRecebida", "mensagemTruncada"}]
  BY DEF Tratadores
<1>3. [t \in {Main} |-> Topicos][Main] = Topicos
  OBVIOUS
<1>4. {Topicos, Retirados} \subseteq SUBSET Topicos /\ Topicos # {}
  BY <1>1
<1>5. QED
  BY <1>2, <1>3, <1>4

\* Every step of the program is one that a client may take, or a stutter.
LEMMA StepCliente == [Next]_vars => [K!Next]_(K!vars)
<1> SUFFICES ASSUME [Next]_vars PROVE K!Next \/ UNCHANGED K!vars
  OBVIOUS
<1>1. ASSUME Conectar \/ Desconectar \/ Retornar, vivo PROVE K!Next
  BY <1>1 DEF Conectar, Desconectar, Retornar, K!Next, K!Call
<1>2. ASSUME Subscribe \/ Unsubscribe, vivo PROVE K!Next
  <2>1. K!Call(Main)
    BY <1>2, Chamadas DEF Subscribe, Unsubscribe, K!Call
  <2>2. QED
    BY <1>2, <2>1 DEF K!Next
<1>3. ASSUME MainStep \/ Atender \/ Desistir \/ Responder, vivo PROVE K!Next
  BY <1>3 DEF MainStep, Atender, Desistir, Responder, Fora, Em, K!Next
<1>4. ASSUME PerdeConexao \/ Perdida, vivo PROVE K!Next
  BY <1>4 DEF PerdeConexao, Perdida, Fora, Em, K!Next
<1>5. ASSUME NEW l \in LibThreads, Tratar(l) \/ \E n \in Topicos : Chegar(l, n), vivo
      PROVE  K!Next
  BY <1>5 DEF Tratar, Mensagem, Chegar, Fora, Em, K!Next
<1>6. ASSUME Encerrado \/ UNCHANGED vars PROVE UNCHANGED K!vars
  BY <1>6 DEF Encerrado, vars, K!vars
<1>7. QED
  BY <1>1, <1>2, <1>3, <1>4, <1>5, <1>6 DEF Next

\* mqtt-test uses its client as MQTTClient says that programs do, with the
\* library and the broker that it has there: what is proved of every client is
\* true of this one.
THEOREM ImplementsClient == Spec => K!Spec
<1>1. Init => K!Init
  BY DEF Init
<1>2. QED
  BY <1>1, StepCliente, PTL DEF Spec, K!Spec

\* A specification of a client, under the one name and the other.
LEMMA SameSpec == K!Spec => KP!Spec
<1>1. [K!Next]_(K!vars) <=> [KP!Next]_(KP!vars)
  BY SameNext, SameVars
<1>2. QED
  BY <1>1, SameInit, PTL DEF KP!Spec, K!Spec

\* The inductive invariant of a client is one of the program.
THEOREM ComponentInv == Spec => []K!IInv
<1>1. KP!Spec => []KP!IInv
  BY KP!Invariance, Assumptions
<1>2. QED
  BY <1>1, ImplementsClient, SameSpec, SameIInv, PTL

\* The connection of the program is one that Conexao describes.
THEOREM ImplementsConexao == Spec => KP!C!Spec
<1>1. KP!Spec => KP!C!Spec
  BY KP!ImplementsConexao, Assumptions
<1>2. QED
  BY <1>1, ImplementsClient, SameSpec, PTL

\* Its subscriptions are those of Inscricoes, on the link of that connection.
THEOREM ImplementsInscricoes == Spec => KP!I!Spec
<1>1. KP!Spec => KP!I!Spec
  BY KP!ImplementsInscricoes, Assumptions
<1>2. QED
  BY <1>1, ImplementsClient, SameSpec, PTL

\* Connection and subscriptions together use the library as its contract allows,
\* whatever main() does with them.
THEOREM ProgramaRespeitaBiblioteca == Spec => KP!RespeitaBiblioteca
<1>1. KP!Spec => KP!RespeitaBiblioteca
  BY KP!ClienteRespeitaBiblioteca, Assumptions
<1>2. QED
  BY <1>1, ImplementsClient, SameSpec, PTL

-----------------------------------------------------------------------------
(* What the steps of the connection do to the part of it that MQTTTest's   *)
(* own invariant relates to the subscriptions.                             *)

\* The thread of main() alone: the tests on pcC are on its one component.
LEMMA CallStep ==
  ASSUME K!C!IInv, K!C!ConnectStep(Main) \/ K!C!DisconnectStep(Main)
  PROVE  /\ pcC[Main] # "out"
         /\ UNCHANGED <<conectado, handle, desfecho, perda, destrutor>>
         /\ registrados => registrados'
         /\ \/ UNCHANGED comando
            \/ /\ comando[Main] = "none" /\ handle
               /\ \/ comando' = [comando EXCEPT ![Main] = "disconnect"]
                  \/ /\ comando' = [comando EXCEPT ![Main] = "connect"]
                     /\ registrados
<1> USE DEF K!C!programVars, K!C!contextVars, K!C!libraryVars, K!C!historyVars,
            K!C!Goto, K!C!Sair, K!C!Travar, K!C!Retornar, K!C!IInv
<1>1. ASSUME K!C!TravarConexao(Main) \/ K!C!TravarDesconexao(Main)
      PROVE  pcC[Main] # "out" /\ UNCHANGED K!C!libraryVars /\ UNCHANGED destrutor
  BY <1>1 DEF K!C!TravarConexao, K!C!TravarDesconexao
<1>2. ASSUME \/ K!C!JaConectado(Main) \/ K!C!AindaNao(Main) \/ K!C!ConexaoRecusada(Main)
             \/ K!C!NaoConectado(Main) \/ K!C!AindaConectado(Main)
             \/ K!C!DesconexaoRecusada(Main) \/ K!C!Esperar(Main, "connect")
             \/ K!C!Esperar(Main, "disconnect")
      PROVE  pcC[Main] # "out" /\ UNCHANGED K!C!libraryVars /\ UNCHANGED destrutor
  BY <1>2 DEF K!C!JaConectado, K!C!AindaNao, K!C!ConexaoRecusada, K!C!NaoConectado,
     K!C!AindaConectado, K!C!DesconexaoRecusada, K!C!Esperar, K!C!WaitsOn
<1>3. ASSUME pcC[Main] \in {"connect", "disconnect"} PROVE comando[Main] = "none"
  BY <1>3 DEF K!C!TypeOK, K!C!EveryCommandAwaited, K!C!WaitsOn, K!C!Ops
<1>4. pcC[Main] = "connect" => registrados
  BY DEF K!C!CallbackPreconditions
<1>5. QED
  BY <1>1, <1>2, <1>3, <1>4 DEF K!C!ConnectStep, K!C!DisconnectStep, K!C!SetCallbacks,
     K!C!ConnectAceito, K!C!DisconnectAceito, K!C!Aceitar

\* A request that the library holds belongs to a wait of main(), which leaves
\* its thread where it is.
LEMMA CommandStep ==
  ASSUME K!C!IInv,
         \/ K!C!Conecta(Main) \/ K!C!Desconecta(Main) \/ K!C!Fracassa(Main)
         \/ K!C!Sucesso(Main) \/ K!C!Falha(Main)
  PROVE  /\ comando[Main] \in {"connect", "disconnect"}
         /\ comando[Main] = "connect" => pcC[Main] = "wait_c"
         /\ comando[Main] = "disconnect" => pcC[Main] = "wait_d"
         /\ handle
         /\ UNCHANGED <<pcC, destrutor, handle, registrados, perda>>
<1>1. comando[Main] # "none"
  BY DEF K!C!IInv, K!C!CommandInv, K!C!Conecta, K!C!Desconecta, K!C!Fracassa,
     K!C!Sucesso, K!C!Falha
<1>2. /\ comando[Main] \in {"connect", "disconnect"}
      /\ comando[Main] = "connect" => pcC[Main] = "wait_c"
      /\ comando[Main] = "disconnect" => pcC[Main] = "wait_d"
      /\ handle
  BY <1>1 DEF K!C!IInv, K!C!TypeOK, K!C!Ops, K!C!EveryCommandAwaited, K!C!WaitsOn
<1>3. UNCHANGED <<pcC, destrutor, handle, registrados, perda>>
  BY DEF K!C!Conecta, K!C!Desconecta, K!C!Fracassa, K!C!Sucesso, K!C!Falha,
     K!C!Responder, K!C!programVars
<1>4. QED
  BY <1>2, <1>3

-----------------------------------------------------------------------------
(* The inductive invariant.                                                *)

\* The steps of the subscriptions' calls stay in the operation they are in.
LEMMA TopicStep ==
  ASSUME K!I!IInv, K!I!ThreadStep(Main)
  PROVE  /\ pcI[Main] # "out"
         /\ \/ pcI'[Main] = "out"
            \/ /\ UNCHANGED topicos
               /\ pcI[Main] \in K!I!Subscribing /\ pcI'[Main] \in K!I!Subscribing
            \/ /\ UNCHANGED topicos
               /\ pcI[Main] \in K!I!Unsubscribing /\ pcI'[Main] \in K!I!Unsubscribing
  BY DEF K!I!ThreadStep, K!I!SubscribeAceito, K!I!SubscribeRecusado,
     K!I!DesfazerInsercao, K!I!ApagarCallbacks, K!I!Esperar, K!I!Retornar,
     K!I!Subscribing, K!I!Unsubscribing, K!I!IInv, K!I!TypeOK

\* The answers, the broker and the messages leave the calls where they are.
LEMMA CallsStay ==
  ASSUME \/ K!I!AnswerStep(Main) \/ K!I!BrokerStep(Main) \/ K!I!Ligar \/ K!I!LigarSemSessao
         \/ K!I!Desligar \/ \E l \in LibThreads : K!I!MessageStep(l)
  PROVE  UNCHANGED K!I!callVars
<1>1. K!I!AnswerStep(Main) => UNCHANGED K!I!callVars
  BY DEF K!I!AnswerStep, K!I!SubscribeSucesso, K!I!SubscribeInsuficiente,
     K!I!SubscribeFalha, K!I!NotificarFalha, K!I!UnsubscribeSucesso,
     K!I!UnsubscribeFalha, K!I!Desfazer, K!I!NotificarUm
<1>2. K!I!BrokerStep(Main) => UNCHANGED K!I!callVars
  BY DEF K!I!BrokerStep, K!I!Atender, K!I!AtenderSubscribe,
     K!I!AtenderUnsubscribe, K!I!Descartar
<1>3. K!I!Ligar \/ K!I!LigarSemSessao \/ K!I!Desligar => UNCHANGED K!I!callVars
  BY DEF K!I!Ligar, K!I!LigarSemSessao, K!I!Desligar
<1>4. ASSUME NEW l \in LibThreads, K!I!MessageStep(l) PROVE UNCHANGED K!I!callVars
  BY <1>4 DEF K!I!MessageStep, K!I!Chega, K!I!Procurar, K!I!Tratar
<1>5. QED
  BY <1>1, <1>2, <1>3, <1>4

\* main() goes past conectar() only with the client that create() gave it.
LEMMA StepHandle ==
  K!C!IInv /\ PhaseInv /\ K!ClientInv /\ HandleInv /\ [Next]_vars => HandleInv'
<1> SUFFICES ASSUME K!C!IInv, PhaseInv, K!ClientInv, HandleInv, [Next]_vars PROVE HandleInv'
  OBVIOUS
<1> USE DEF HandleInv, K!C!Connecting
<1>t. K!C!TypeOK
  BY DEF K!C!IInv
<1>s. ASSUME UNCHANGED <<pcC, retornoC, handle, linha>> PROVE HandleInv'
  BY <1>s
<1>1. CASE Conectar
  BY <1>1, <1>t DEF Conectar, K!Conectar, K!SoC, K!C!Conectar, K!C!Chamar, K!C!Goto,
     K!C!TypeOK
<1>2. CASE Subscribe \/ Unsubscribe
  BY <1>2 DEF Subscribe, Unsubscribe, K!Inscrever, K!Desinscrever, K!Pedir, K!SoI,
     K!Livre, K!varsC
<1>3. CASE Desconectar
  BY <1>3 DEF Desconectar, K!Desconectar, K!SoC, K!C!Desconectar, K!C!Chamar,
     K!C!libraryVars
<1>4. CASE Retornar
  BY <1>4 DEF Retornar, K!Destrutor, K!SoC
<1>5. ASSUME K!C!ConnectStep(Main), UNCHANGED linha PROVE HandleInv'
  <2>1. UNCHANGED handle
    BY <1>5, CallStep
  <2>2. CASE linha = "conectar"
    <3>1. destrutor # Main
      BY <2>2 DEF PhaseInv
    <3>2. /\ pcC'[Main] \in K!C!Connecting \cup {"lock_c", "out"}
          /\ pcC'[Main] = "out" /\ retornoC'[Main] => handle
      BY <1>5, <1>t, <3>1 DEF K!ClientInv, K!C!IInv, K!C!LifetimeInv, K!C!TypeOK,
         K!C!ConnectStep, K!C!TravarConexao, K!C!Travar, K!C!JaConectado,
         K!C!AindaNao, K!C!SetCallbacks, K!C!ConexaoRecusada, K!C!ConnectAceito,
         K!C!Aceitar, K!C!Esperar, K!C!Sair, K!C!Retornar, K!C!Goto, K!C!WaitsOn
    <3>3. QED
      BY <1>5, <2>1, <2>2, <3>2
  <2>3. QED
    BY <1>5, <2>1, <2>2
<1>6. ASSUME K!C!DisconnectStep(Main), UNCHANGED linha PROVE HandleInv'
  <2>1. linha # "conectar"
    BY <1>6 DEF K!C!DisconnectStep, K!C!NaoConectado, K!C!AindaConectado,
       K!C!TravarDesconexao, K!C!Travar, K!C!DesconexaoRecusada, K!C!DisconnectAceito,
       K!C!Esperar, K!C!WaitsOn
  <2>2. UNCHANGED handle
    BY <1>6, CallStep
  <2>3. QED
    BY <1>6, <2>1, <2>2
<1>7. ASSUME K!C!Destruir(Main), UNCHANGED linha PROVE HandleInv'
  BY <1>7 DEF K!C!Destruir, K!C!IInv, K!C!LifetimeInv, PhaseInv
<1>8. ASSUME \/ K!C!Conecta(Main) \/ K!C!Desconecta(Main) \/ K!C!Fracassa(Main)
             \/ K!C!Sucesso(Main) \/ K!C!Falha(Main) \/ K!C!PerdeConexao \/ K!C!Perdida,
             UNCHANGED linha
      PROVE  HandleInv'
  BY <1>8, <1>s DEF K!C!Conecta, K!C!Desconecta, K!C!Fracassa, K!C!Sucesso, K!C!Falha,
     K!C!Responder, K!C!PerdeConexao, K!C!Perdida, K!C!programVars
<1>9. ASSUME UNCHANGED K!varsC, UNCHANGED linha PROVE HandleInv'
  BY <1>9, <1>s DEF K!varsC
<1>10. QED
  BY <1>1, <1>2, <1>3, <1>4, <1>5, <1>6, <1>7, <1>8, <1>9 DEF Next, vars, MainStep,
     K!ThreadStep, Fora, Em, Atender, K!Atender, Desistir, K!Desistir, Responder,
     K!Responder, K!SoC, K!SoI, K!Pedir, K!Sobe, K!Desce, PerdeConexao,
     K!PerdeConexao, Perdida, K!Perdida, Tratar, Mensagem, K!Tratar, Chegar, K!Chegar,
     Encerrado, K!Encerrado

\* The lines of main() keep the calls of the two components apart.
LEMMA StepPhase ==
  /\ K!C!IInv /\ K!I!IInv /\ linha \in Linhas /\ rodada \in 0 .. RODADAS /\ PhaseInv
  /\ [Next]_vars
  => linha' \in Linhas /\ rodada' \in 0 .. RODADAS /\ PhaseInv'
<1> SUFFICES ASSUME K!C!IInv, K!I!IInv, linha \in Linhas, rodada \in 0 .. RODADAS,
                    PhaseInv, [Next]_vars
             PROVE  linha' \in Linhas /\ rodada' \in 0 .. RODADAS /\ PhaseInv'
  OBVIOUS
<1> DEFINE Mantem == linha' \in Linhas /\ rodada' \in 0 .. RODADAS /\ PhaseInv'
<1> USE DEF PhaseInv, EmChamada, Linhas
<1>s. ASSUME UNCHANGED <<pcC, conectado, destrutor, pcI, topicos, linha, rodada>>
      PROVE  Mantem
  BY <1>s DEF K!I!Subscribing, K!I!Unsubscribing
<1>c. ASSUME K!C!IInv PROVE pcC \in [{Main} -> K!C!PCs] /\ NoThread # Main
  BY <1>c DEF K!C!IInv, K!C!TypeOK, Main, NoThread
<1>1. CASE Conectar
  <2>1. /\ K!Livre(Main) /\ linha' = "conectar" /\ rodada' = rodada + 1 /\ rodada < RODADAS
        /\ UNCHANGED K!varsI
    BY <1>1 DEF Conectar, K!Conectar, K!SoC
  <2>2. UNCHANGED destrutor /\ destrutor # Main
    BY <1>1, <1>c DEF Conectar, K!Conectar, K!SoC, K!C!Conectar, K!C!EmUso
  <2>3. QED
    BY <2>1, <2>2 DEF K!Livre, K!varsI
<1>2. CASE Desconectar
  <2>1. K!Livre(Main) /\ linha' = "desconectar" /\ linha # "inicio" /\ UNCHANGED <<rodada, K!varsI>>
    BY <1>2 DEF Desconectar, K!Desconectar, K!SoC
  <2>2. UNCHANGED destrutor /\ destrutor # Main
    BY <1>2, <1>c DEF Desconectar, K!Desconectar, K!SoC, K!C!Desconectar, K!C!EmUso
  <2>3. QED
    BY <2>1, <2>2 DEF K!Livre, K!varsI
<1>3. CASE Retornar
  <2>1. K!Livre(Main) /\ linha' = "destrutor" /\ linha # "inicio" /\ UNCHANGED <<rodada, K!varsI>>
    BY <1>3 DEF Retornar, Falhou, K!Destrutor, K!SoC
  <2>2. QED
    BY <2>1 DEF K!Livre, K!varsI
<1>4. CASE Subscribe
  <2>1. /\ K!Livre(Main) /\ linha' = "subscribe" /\ linha # "inicio" /\ linha # "destrutor"
        /\ UNCHANGED <<rodada, K!varsC>>
        /\ K!I!Chamar(Main, Topicos, "subscribeMany")
    BY <1>4 DEF Subscribe, K!Inscrever, K!Pedir, K!SoI, K!I!Inscrever
  <2>2. pcI'[Main] = "subscribeMany" /\ topicos'[Main] = Topicos
    BY <2>1 DEF K!I!Chamar, K!I!IInv, K!I!TypeOK
  <2>3. QED
    BY <2>1, <2>2 DEF K!Livre, K!varsC, K!I!Subscribing
<1>5. CASE Unsubscribe
  <2>1. /\ K!Livre(Main) /\ linha' = "unsubscribe" /\ linha # "inicio" /\ linha # "destrutor"
        /\ UNCHANGED <<rodada, K!varsC>>
    BY <1>5 DEF Unsubscribe, K!Desinscrever, K!Pedir, K!SoI
  <2>2. \/ pcI'[Main] = "erase" /\ topicos'[Main] = Retirados
        \/ pcI'[Main] = "out"
    BY <1>5 DEF Unsubscribe, K!Desinscrever, K!Pedir, K!SoI, K!I!Desinscrever,
       K!I!DesinscricaoRecusada, K!I!Chamar, K!I!IInv, K!I!TypeOK
  <2>3. QED
    BY <2>1, <2>2 DEF K!Livre, K!varsC, K!I!Unsubscribing
<1>6. ASSUME K!C!ConnectStep(Main) \/ K!C!DisconnectStep(Main),
             UNCHANGED <<K!varsI, linha, rodada>>
      PROVE  Mantem
  BY <1>6, CallStep DEF K!varsI
<1>7. ASSUME K!C!Destruir(Main), UNCHANGED <<pcI, topicos, linha, rodada>> PROVE Mantem
  <2>1. destrutor = Main /\ pcC[Main] # "out" /\ UNCHANGED destrutor
    BY <1>7 DEF K!C!Destruir, K!C!IInv, K!C!LifetimeInv
  <2>2. QED
    BY <1>7, <2>1
<1>8. ASSUME K!I!ThreadStep(Main), UNCHANGED <<K!varsC, linha, rodada>> PROVE Mantem
  BY <1>8, TopicStep DEF K!varsC, K!I!Subscribing, K!I!Unsubscribing
<1>9. ASSUME \/ K!C!Conecta(Main) \/ K!C!Desconecta(Main) \/ K!C!Fracassa(Main)
             \/ K!C!Sucesso(Main) \/ K!C!Falha(Main),
             UNCHANGED <<pcI, topicos, linha, rodada>>
      PROVE  Mantem
  <2>1. pcC[Main] # "out" /\ UNCHANGED <<pcC, destrutor>>
    BY <1>9, CommandStep
  <2>2. QED
    BY <1>9, <2>1
<1>10. ASSUME K!C!PerdeConexao \/ K!C!Perdida, UNCHANGED <<pcI, topicos, linha, rodada>>
       PROVE  Mantem
  <2>1. UNCHANGED <<pcC, destrutor>> /\ (conectado \/ UNCHANGED conectado)
    BY <1>10 DEF K!C!PerdeConexao, K!C!Perdida, K!C!programVars
  <2>2. QED
    BY <1>10, <2>1
<1>11. ASSUME UNCHANGED K!I!callVars PROVE UNCHANGED <<pcI, topicos>>
  BY <1>11 DEF K!I!callVars
<1>12. CASE MainStep
  <2>1. UNCHANGED K!varsI => UNCHANGED <<pcI, topicos>>
    BY DEF K!varsI
  <2>2. QED
    BY <1>6, <1>7, <1>8, <1>11, <1>12, <2>1, CallsStay DEF MainStep, K!ThreadStep, Fora, Em,
       K!SoC, K!SoI, K!Pedir, K!Desce
<1>13. CASE Atender \/ Desistir
  <2>1. UNCHANGED K!varsI => UNCHANGED <<pcI, topicos>>
    BY DEF K!varsI
  <2>2. ASSUME Em(K!SoI(K!I!BrokerStep(Main))) PROVE Mantem
    BY <2>2, <1>s, <1>11, CallsStay DEF Fora, Em, K!SoI, K!varsC
  <2>3. QED
    BY <1>9, <1>11, <1>13, <2>1, <2>2, CallsStay DEF Atender, K!Atender, Fora, Em, Desistir,
       K!Desistir, K!SoC, K!SoI, K!Sobe, K!Desce, K!I!BrokerStep
<1>14. CASE Responder
  <2>1. UNCHANGED K!varsI => UNCHANGED <<pcI, topicos>>
    BY DEF K!varsI
  <2>2. ASSUME Em(K!SoI(K!I!AnswerStep(Main))) PROVE Mantem
    BY <2>2, <1>s, <1>11, CallsStay DEF Fora, Em, K!SoI, K!varsC
  <2>3. QED
    BY <1>9, <1>14, <2>1, <2>2 DEF Responder, K!Responder, Fora, Em, K!SoC
<1>15. CASE PerdeConexao \/ Perdida
  <2>1. UNCHANGED K!varsI => UNCHANGED <<pcI, topicos>>
    BY DEF K!varsI
  <2>2. QED
    BY <1>10, <1>11, <1>15, <2>1, CallsStay DEF PerdeConexao, K!PerdeConexao, Fora, Em,
       Perdida, K!Perdida, K!SoC
<1>16. ASSUME NEW l \in LibThreads, Tratar(l) \/ \E n \in Topicos : Chegar(l, n)
       PROVE  Mantem
  <2>1. K!I!MessageStep(l) /\ UNCHANGED <<K!varsC, linha, rodada>>
    BY <1>16 DEF Tratar, Mensagem, K!Tratar, Fora, Em, Chegar, K!Chegar, K!SoI,
       K!I!MessageStep
  <2>2. QED
    BY <2>1, <1>s, <1>11, CallsStay DEF K!varsC
<1>17. CASE Encerrado \/ UNCHANGED vars
  BY <1>17, <1>s DEF Encerrado, K!Encerrado, vars, K!varsC, K!varsI
<1>18. QED
  BY <1>1, <1>2, <1>3, <1>4, <1>5, <1>12, <1>13, <1>14, <1>15, <1>16, <1>17 DEF Next

\* A subscribe() that succeeds has all of its topics in the session.
LEMMA StepListen ==
  K!C!IInv /\ K!I!IInv /\ PhaseInv /\ PhaseInv' /\ ListenInv /\ [Next]_vars => ListenInv'
<1> SUFFICES ASSUME K!C!IInv, K!I!IInv, PhaseInv, PhaseInv', ListenInv, [Next]_vars
             PROVE  ListenInv'
  OBVIOUS
<1> USE DEF EmChamada, K!I!callVars, K!I!contextVars, K!I!libraryVars, K!I!brokerVars,
            K!I!messageVars
<1>t. K!I!TypeOK /\ K!I!RequestInv
  BY DEF K!I!IInv
<1>s. ASSUME UNCHANGED <<pcI, topicos, retornoI, promessa, resI, finalizadaI, callback_map,
                         resposta, qos, inscrito>>,
             UNCHANGED linha \/ linha' # "subscribe"
      PROVE  ListenInv'
  BY <1>s DEF ListenInv, K!I!SeraDesfeito
<1>1. CASE Conectar \/ Desconectar \/ Retornar
  BY <1>1, <1>s DEF Conectar, Desconectar, Retornar, K!Conectar, K!Desconectar,
     K!Destrutor, K!SoC, K!varsI
<1>2. CASE Subscribe
  <2>1. pcI'[Main] = "subscribeMany"
    BY <1>2, <1>t DEF Subscribe, K!Inscrever, K!Pedir, K!SoI, K!I!Inscrever,
       K!I!Chamar, K!I!TypeOK
  <2>2. \A n \in Topicos : callback_map'[n] \in {Nenhum, Tratadores[n]}
    BY <1>2 DEF Subscribe, K!Inscrever, K!Pedir, K!SoI, K!I!Inscrever, ListenInv
  <2>3. QED
    BY <2>1, <2>2 DEF ListenInv
<1>3. CASE Unsubscribe
  <2>1. linha' = "unsubscribe" /\ pcI'[Main] # "wait_s" /\ UNCHANGED callback_map
    BY <1>3, <1>t DEF Unsubscribe, K!Desinscrever, K!Pedir, K!SoI, K!I!Desinscrever,
       K!I!DesinscricaoRecusada, K!I!Chamar, K!I!TypeOK
  <2>2. QED
    BY <2>1 DEF ListenInv
<1>4. ASSUME K!I!SubscribeAceito(Main) \/ K!I!SubscribeRecusado(Main), UNCHANGED linha
      PROVE  ListenInv'
  <2>1. resposta[Main] = "nenhuma" /\ Main \notin finalizadaI
    BY <1>4, <1>t DEF K!I!SubscribeAceito, K!I!SubscribeRecusado, K!I!RequestInv,
       K!I!Pedindo, K!I!TypeOK
  <2>2. UNCHANGED <<callback_map, resposta, finalizadaI>> /\ pcI'[Main] # "out"
    BY <1>4, <1>t DEF K!I!SubscribeAceito, K!I!SubscribeRecusado, K!I!Enfileirar,
       K!I!TypeOK
  <2>3. QED
    BY <2>1, <2>2 DEF ListenInv
<1>5. ASSUME K!I!DesfazerInsercao(Main), UNCHANGED linha PROVE ListenInv'
  BY <1>5, <1>t DEF K!I!DesfazerInsercao, K!I!Apagar, K!I!Retornar, K!I!TypeOK,
     ListenInv
<1>6. ASSUME K!I!ApagarCallbacks(Main), UNCHANGED linha PROVE ListenInv'
  BY <1>6, <1>t DEF K!I!ApagarCallbacks, K!I!Apagar, K!I!TypeOK, ListenInv
<1>7. ASSUME K!I!Esperar(Main), UNCHANGED linha PROVE ListenInv'
  <2>1. pcI'[Main] = "out" /\ retornoI'[Main] = resI[Main] /\ Main \in finalizadaI
    BY <1>7, <1>t DEF K!I!Esperar, K!I!Retornar, K!I!TypeOK
  <2>2. UNCHANGED <<callback_map, inscrito>>
    BY <1>7 DEF K!I!Esperar
  <2>3. ASSUME linha = "subscribe", resI[Main]
        PROVE  inscrito = Topicos /\ \A n \in Topicos : promessa'[n] = "inscrito"
    <3>1. pcI[Main] = "wait_s" /\ topicos[Main] = Topicos
      BY <1>7, <2>3 DEF K!I!Esperar, PhaseInv, K!I!Subscribing
    <3>2. inscrito = Topicos
      BY <2>1, <2>3, <3>1 DEF ListenInv
    <3>3. QED
      BY <1>7, <2>3, <3>1, <3>2 DEF K!I!Esperar, K!I!Retornar
  <2>4. QED
    BY <1>7, <2>1, <2>2, <2>3 DEF ListenInv
<1>8. ASSUME NEW g \in [Topicos -> K!I!QosDevolvidos], NEW r \in {"sucesso", "falha"},
             K!I!AtenderSubscribe(Main, g, r), UNCHANGED linha
      PROVE  ListenInv'
  <2>1. /\ pcI[Main] = "wait_s" /\ topicos[Main] = Topicos /\ Main \notin finalizadaI
        /\ UNCHANGED <<pcI, topicos, finalizadaI, callback_map>>
    BY <1>8, <1>t DEF K!I!AtenderSubscribe, PhaseInv, K!I!RequestInv,
       K!I!Unsubscribing
  <2>2. ASSUME resposta'[Main] = "sucesso", ~K!I!SeraDesfeito(Main)' PROVE inscrito' = Topicos
    <3>1. \A n \in Topicos : qos'[Main][n] = g[n]
      BY <1>8, <2>1, <1>t DEF K!I!AtenderSubscribe, K!I!TypeOK
    <3>2. \A n \in Topicos : g[n] # K!I!MQTT_BAD_SUBSCRIBE
      BY <2>1, <2>2, <3>1 DEF K!I!SeraDesfeito, K!I!Insuficiente
    <3>3. QED
      BY <1>8, <2>1, <3>2, <1>t DEF K!I!AtenderSubscribe, K!I!TypeOK
  <2>3. QED
    BY <2>1, <2>2 DEF ListenInv
<1>9. ASSUME NEW r \in {"sucesso", "falha"}, K!I!AtenderUnsubscribe(Main, r), UNCHANGED linha
      PROVE  ListenInv'
  BY <1>9 DEF K!I!AtenderUnsubscribe, K!I!Unsubscribing, ListenInv, PhaseInv
<1>10. ASSUME K!I!Descartar(Main), UNCHANGED linha PROVE ListenInv'
  BY <1>10, <1>t DEF K!I!Descartar, K!I!RequestInv, K!I!TypeOK, ListenInv
<1>11. ASSUME K!I!SubscribeSucesso(Main), UNCHANGED linha PROVE ListenInv'
  <2>1. ~K!I!SeraDesfeito(Main) /\ resposta[Main] = "sucesso" /\ pcI[Main] = "wait_s"
    BY <1>11 DEF K!I!SubscribeSucesso, K!I!SeraDesfeito
  <2>2. QED
    BY <1>11, <2>1 DEF K!I!SubscribeSucesso, K!I!NotificarUm, ListenInv
<1>12. ASSUME K!I!SubscribeInsuficiente(Main) \/ K!I!SubscribeFalha(Main), UNCHANGED linha
       PROVE  ListenInv'
  <2>1. /\ resposta'[Main] = "notificar" /\ Main \notin finalizadaI'
        /\ pcI'[Main] = "wait_s"
    BY <1>12, <1>t DEF K!I!SubscribeInsuficiente, K!I!SubscribeFalha, K!I!Desfazer,
       K!I!RequestInv, K!I!TypeOK
  <2>2. \A n \in Topicos : callback_map'[n] \in {Nenhum, Tratadores[n]}
    BY <1>12 DEF K!I!SubscribeInsuficiente, K!I!SubscribeFalha, K!I!Desfazer,
       K!I!Apagar, ListenInv
  <2>3. QED
    BY <2>1, <2>2 DEF ListenInv
<1>n. ASSUME K!I!NotificarFalha(Main), UNCHANGED linha PROVE ListenInv'
  BY <1>n, <1>t DEF K!I!NotificarFalha, K!I!NotificarUm, K!I!TypeOK, ListenInv
<1>13. ASSUME K!I!UnsubscribeSucesso(Main) \/ K!I!UnsubscribeFalha(Main), UNCHANGED linha
       PROVE  ListenInv'
  BY <1>13 DEF K!I!UnsubscribeSucesso, K!I!UnsubscribeFalha, K!I!NotificarUm,
     K!I!Unsubscribing, ListenInv
<1>14. ASSUME K!I!Desligar \/ \E l \in LibThreads : K!I!MessageStep(l), UNCHANGED linha
       PROVE  ListenInv'
  BY <1>14, <1>s DEF K!I!Desligar, K!I!MessageStep, K!I!Chega, K!I!Procurar,
     K!I!Tratar
<1>15. ASSUME Em(K!Sobe(K!C!Conecta(Main))) PROVE ListenInv'
  <2>1. pcC[Main] = "wait_c" /\ UNCHANGED linha
    BY <1>15, CommandStep DEF Fora, Em, K!Sobe, K!C!Conecta
  <2>2. linha # "subscribe" /\ pcI[Main] = "out"
    BY <2>1 DEF PhaseInv
  <2>3. UNCHANGED <<pcI, callback_map>>
    BY <1>15 DEF Fora, Em, K!Sobe, K!I!Ligar, K!I!LigarSemSessao
  <2>4. QED
    BY <2>1, <2>2, <2>3 DEF ListenInv
<1>16. ASSUME UNCHANGED K!varsI, UNCHANGED linha PROVE ListenInv'
  BY <1>16, <1>s DEF K!varsI
<1>17. CASE MainStep
  BY <1>17, <1>4, <1>5, <1>6, <1>7, <1>14, <1>16 DEF MainStep, K!ThreadStep, Fora, Em,
     K!SoC, K!SoI, K!Pedir, K!Desce, K!I!ThreadStep
<1>18. CASE Atender \/ Desistir
  BY <1>18, <1>8, <1>9, <1>10, <1>14, <1>15, <1>16 DEF Atender, K!Atender, Fora, Em,
     Desistir, K!Desistir, K!SoC, K!SoI, K!Desce, K!I!Atender
<1>19. CASE Responder
  BY <1>19, <1>11, <1>12, <1>n, <1>13, <1>16 DEF Responder, K!Responder, Fora, Em, K!SoC, K!SoI,
     K!Pedir, K!I!AnswerStep
<1>20. CASE PerdeConexao \/ Perdida
  BY <1>20, <1>14, <1>16 DEF PerdeConexao, K!PerdeConexao, Fora, Em, Perdida, K!Perdida,
     K!SoC
<1>21. ASSUME NEW l \in LibThreads, Tratar(l) \/ \E n \in Topicos : Chegar(l, n)
       PROVE  ListenInv'
  BY <1>21, <1>14 DEF Tratar, Mensagem, K!Tratar, Fora, Em, Chegar, K!Chegar, K!SoI,
     K!I!MessageStep
<1>22. CASE Encerrado \/ UNCHANGED vars
  BY <1>22, <1>16 DEF Encerrado, K!Encerrado, vars
<1>23. QED
  BY <1>1, <1>2, <1>3, <1>17, <1>18, <1>19, <1>20, <1>21, <1>22 DEF Next

\* What is known of a topic, every one of which belongs to the thread of main().
LEMMA TopicKnown ==
  ASSUME K!I!IInv, NEW n \in Topicos
  PROVE  K!I!Cumpre(Main, n)
<1>1. K!I!Exclusivo(Main, n)
  BY DEF K!I!Exclusivo
<1>2. QED
  BY <1>1 DEF K!I!IInv, K!I!OwnerInv

\* The promises of a round are those of the calls that it has made.
LEMMA StepPromise ==
  /\ K!I!IInv /\ PhaseInv /\ ListenInv /\ PromiseInv /\ [Next]_vars => PromiseInv'
<1> SUFFICES ASSUME K!I!IInv, PhaseInv, ListenInv, PromiseInv, [Next]_vars
             PROVE  PromiseInv'
  OBVIOUS
<1> USE DEF EmChamada
<1>t. K!I!TypeOK
  BY DEF K!I!IInv
<1>s. ASSUME UNCHANGED <<pcI, retornoI, promessa, linha, rodada>> PROVE PromiseInv'
  BY <1>s DEF PromiseInv
<1>1. CASE Conectar \/ Desconectar \/ Retornar
  BY <1>1 DEF Conectar, Desconectar, Retornar, K!Conectar, K!Desconectar, K!Destrutor,
     K!SoC, K!Livre, PhaseInv, PromiseInv, K!varsI
<1>2. CASE Subscribe
  <2>1. linha' = "subscribe" /\ \A n \in Topicos : promessa'[n] = "nada"
    BY <1>2 DEF Subscribe, K!Inscrever, K!Pedir, K!SoI, K!I!Inscrever, K!I!Chamar
  <2>2. QED
    BY <2>1 DEF PromiseInv
<1>3. CASE Unsubscribe
  <2>1. /\ linha' = "unsubscribe" /\ Retirados \subseteq Topicos
        /\ \A n \in Topicos : promessa[n] = "inscrito"
    BY <1>3 DEF Unsubscribe, K!Desinscrever, K!Pedir, K!SoI, K!Livre, ListenInv,
       Retirados, Topicos
  <2>2. /\ \A n \in Topicos : promessa'[n] \in {"nada", promessa[n]}
        /\ \/ pcI'[Main] = "out" /\ retornoI'[Main] = FALSE
           \/ /\ pcI'[Main] = "erase"
              /\ \A n \in Topicos \ Retirados : promessa'[n] = promessa[n]
    BY <1>3, <1>t DEF Unsubscribe, K!Desinscrever, K!Pedir, K!SoI, K!I!Desinscrever,
       K!I!DesinscricaoRecusada, K!I!Chamar, K!I!TypeOK
  <2>3. QED
    BY <2>1, <2>2 DEF PromiseInv
<1>4. ASSUME K!I!SubscribeAceito(Main) \/ K!I!SubscribeRecusado(Main) \/ K!I!ApagarCallbacks(Main),
             UNCHANGED <<linha, rodada>>
      PROVE  PromiseInv'
  BY <1>4, <1>t DEF K!I!SubscribeAceito, K!I!SubscribeRecusado, K!I!ApagarCallbacks,
     K!I!TypeOK, PromiseInv
<1>5. ASSUME K!I!DesfazerInsercao(Main), UNCHANGED <<linha, rodada>> PROVE PromiseInv'
  BY <1>5 DEF K!I!DesfazerInsercao, K!I!Retornar, PhaseInv, K!I!Unsubscribing,
     PromiseInv
<1>6. ASSUME K!I!Esperar(Main), UNCHANGED <<linha, rodada>> PROVE PromiseInv'
  <2>1. linha \in {"subscribe", "unsubscribe"}
    BY <1>6 DEF K!I!Esperar, PhaseInv
  <2>2. ASSUME linha = "unsubscribe"
        PROVE  /\ pcI'[Main] = "out" /\ retornoI'[Main] = resI[Main]
               /\ resI[Main] => \A n \in Topicos :
                    promessa'[n] = IF n \in Retirados THEN "livre" ELSE "inscrito"
    <3>1. pcI[Main] = "wait_u" /\ topicos[Main] = Retirados
      BY <1>6, <2>2 DEF K!I!Esperar, PhaseInv, K!I!Unsubscribing
    <3>2. \A n \in Topicos \ Retirados : promessa[n] = "inscrito"
      BY <2>2, <3>1 DEF PromiseInv
    <3>3. QED
      BY <1>6, <3>1, <3>2, <1>t DEF K!I!Esperar, K!I!Retornar, K!I!TypeOK
  <2>3. ASSUME linha = "subscribe"
        PROVE  \A n \in Topicos : promessa'[n] \in {"inscrito", promessa[n]}
    BY <1>6, <2>3 DEF K!I!Esperar, K!I!Retornar, PhaseInv, K!I!Subscribing
  <2>4. ASSUME linha = "unsubscribe", ~resI[Main] PROVE UNCHANGED promessa
    BY <1>6, <2>4, <1>t DEF K!I!Esperar, K!I!Retornar, K!I!TypeOK
  <2>5. QED
    BY <1>6, <2>1, <2>2, <2>3, <2>4 DEF PromiseInv
<1>7. ASSUME UNCHANGED K!varsI \/ UNCHANGED K!I!callVars, UNCHANGED <<linha, rodada>>
      PROVE  PromiseInv'
  BY <1>7, <1>s DEF K!varsI, K!I!callVars
<1>8. CASE MainStep
  BY <1>8, <1>4, <1>5, <1>6, <1>7, CallsStay DEF MainStep, K!ThreadStep, Fora, Em, K!SoC,
     K!SoI, K!Pedir, K!Desce, K!I!ThreadStep
<1>9. CASE Atender \/ Desistir
  BY <1>9, <1>7, CallsStay DEF Atender, K!Atender, Fora, Em, Desistir, K!Desistir, K!SoC,
     K!SoI, K!Sobe, K!Desce, K!I!BrokerStep
<1>10. CASE Responder
  BY <1>10, <1>7, CallsStay DEF Responder, K!Responder, Fora, Em, K!SoC, K!SoI
<1>11. CASE PerdeConexao \/ Perdida
  BY <1>11, <1>7, CallsStay DEF PerdeConexao, K!PerdeConexao, Fora, Em, Perdida, K!Perdida,
     K!SoC
<1>12. ASSUME NEW l \in LibThreads, Tratar(l) \/ \E n \in Topicos : Chegar(l, n)
       PROVE  PromiseInv'
  BY <1>12, <1>7, CallsStay DEF Tratar, Mensagem, K!Tratar, Fora, Em, Chegar, K!Chegar, K!SoI,
     K!Pedir, K!I!MessageStep
<1>13. CASE Encerrado \/ UNCHANGED vars
  BY <1>13, <1>7 DEF Encerrado, K!Encerrado, vars
<1>14. QED
  BY <1>1, <1>2, <1>3, <1>8, <1>9, <1>10, <1>11, <1>12, <1>13 DEF Next

\* A message that is not overtaken keeps its subscription and its link.
LEMMA StepMessage ==
  /\ K!C!IInv /\ K!I!IInv /\ K!ClientInv /\ MessageInv /\ [Next]_vars
  => MessageInv'
<1> SUFFICES ASSUME K!C!IInv, K!I!IInv, K!ClientInv, MessageInv, [Next]_vars
             PROVE  MessageInv'
  OBVIOUS
<1> USE DEF Ocupadas, K!I!callVars, K!I!contextVars, K!I!libraryVars, K!I!brokerVars,
            K!I!messageVars
<1>t. K!I!TypeOK /\ K!I!RequestInv /\ K!C!TypeOK
  BY DEF K!I!IInv, K!C!IInv
<1>c. ASSUME UNCHANGED <<pcI, topicos, promessa, resI, finalizadaI, lib, mensagem,
                         ultrapassadas, pcC, handle, conectado, perda, destrutor,
                         comando, desfecho>>
      PROVE  MessageInv'
  BY <1>c DEF MessageInv
<1>d. ASSUME UNCHANGED <<lib, mensagem, ultrapassadas, pcC, destrutor, handle, conectado,
                         perda, comando, desfecho>>,
             \A l \in Ocupadas \ ultrapassadas :
               /\ promessa'[mensagem[l]] # "livre"
               /\ pcI'[Main] \in K!I!Unsubscribing /\ Main \in finalizadaI'
                    /\ resI'[Main] => mensagem[l] \notin topicos'[Main]
      PROVE  MessageInv'
  BY <1>d DEF MessageInv
<1>1. ASSUME K!C!Conectar(Main) \/ K!C!Desconectar(Main) \/ K!C!Destrutor(Main), K!Livre(Main),
             UNCHANGED K!varsI, UNCHANGED ultrapassadas
      PROVE  MessageInv'
  <2>1. UNCHANGED <<handle, conectado, perda, comando, desfecho>>
    BY <1>1 DEF K!C!Conectar, K!C!Desconectar, K!C!Destrutor, K!C!Chamar,
       K!C!libraryVars
  <2>2. destrutor # Main
    BY <1>1, <1>t DEF K!C!Conectar, K!C!Desconectar, K!C!Destrutor, K!C!EmUso, Main,
       NoThread
  <2>3. QED
    BY <1>1, <2>1, <2>2 DEF MessageInv, K!varsI
<1>2. CASE Conectar \/ Desconectar \/ Retornar
  BY <1>2, <1>1 DEF Conectar, Desconectar, Retornar, K!Conectar, K!Desconectar,
     K!Destrutor, K!SoC
<1>3. CASE Subscribe
  <2>1. K!I!Inscrever(Main, Topicos, Tratadores) /\ UNCHANGED <<K!varsC, ultrapassadas>>
    BY <1>3 DEF Subscribe, K!Inscrever, K!Pedir, K!SoI
  <2>2. /\ pcI'[Main] = "subscribeMany" /\ UNCHANGED <<lib, mensagem>>
        /\ \A n \in Topicos : promessa'[n] = "nada"
    BY <2>1, <1>t DEF K!I!Inscrever, K!I!Chamar, K!I!TypeOK
  <2>3. QED
    BY <2>1, <2>2, <1>t DEF MessageInv, K!varsC, K!I!TypeOK, K!I!Unsubscribing
<1>4. CASE Unsubscribe
  <2>1. /\ K!I!Desinscrever(Main, Retirados) \/ K!I!DesinscricaoRecusada(Main)
        /\ UNCHANGED <<K!varsC, ultrapassadas>> /\ pcI[Main] = "out"
    BY <1>4 DEF Unsubscribe, K!Desinscrever, K!Pedir, K!SoI, K!Livre
  <2>2. Main \notin finalizadaI
    BY <2>1, <1>t DEF K!I!RequestInv, K!I!Pedindo
  <2>3. /\ UNCHANGED <<lib, mensagem, finalizadaI>>
        /\ \A n \in Topicos : promessa'[n] \in {"nada", promessa[n]}
    BY <2>1 DEF K!I!Desinscrever, K!I!DesinscricaoRecusada, K!I!Chamar
  <2>4. QED
    BY <2>1, <2>2, <2>3, <1>t DEF MessageInv, K!varsC, K!I!TypeOK
<1>5. ASSUME K!I!SubscribeAceito(Main) \/ K!I!SubscribeRecusado(Main) \/ K!I!ApagarCallbacks(Main),
             UNCHANGED <<K!varsC, ultrapassadas>>
      PROVE  MessageInv'
  <2>1. /\ UNCHANGED <<topicos, promessa, resI, finalizadaI, lib, mensagem>>
        /\ pcI'[Main] \in K!I!Unsubscribing => pcI[Main] \in K!I!Unsubscribing
    BY <1>5, <1>t DEF K!I!SubscribeAceito, K!I!SubscribeRecusado, K!I!ApagarCallbacks,
       K!I!TypeOK, K!I!Unsubscribing
  <2>2. QED
    BY <1>5, <1>d, <2>1 DEF K!varsC, MessageInv
<1>6. ASSUME K!I!DesfazerInsercao(Main), UNCHANGED <<K!varsC, ultrapassadas>> PROVE MessageInv'
  <2>1. pcI'[Main] = "out" /\ UNCHANGED <<promessa, lib, mensagem>>
    <3>1. promessa' = [n \in Topicos |-> promessa[n]]
      BY <1>6 DEF K!I!DesfazerInsercao, K!I!Retornar
    <3>2. QED
      BY <1>6, <3>1, <1>t DEF K!I!DesfazerInsercao, K!I!Retornar, K!I!TypeOK
  <2>2. QED
    BY <1>6, <1>d, <2>1 DEF K!varsC, MessageInv, K!I!Unsubscribing
<1>7. ASSUME K!I!Esperar(Main), UNCHANGED <<K!varsC, ultrapassadas>> PROVE MessageInv'
  <2>1. pcI'[Main] = "out" /\ UNCHANGED <<lib, mensagem>>
    BY <1>7, <1>t DEF K!I!Esperar, K!I!Retornar, K!I!TypeOK
  <2>2. ASSUME NEW l \in Ocupadas \ ultrapassadas
        PROVE  promessa'[mensagem[l]] # "livre"
    BY <1>7, <2>2, <1>t DEF K!I!Esperar, K!I!Retornar, MessageInv, K!I!TypeOK,
       K!I!Unsubscribing
  <2>3. QED
    BY <1>7, <1>d, <2>1, <2>2 DEF K!varsC, K!I!Unsubscribing
<1>8. ASSUME K!C!ConnectStep(Main) \/ K!C!DisconnectStep(Main), UNCHANGED <<K!varsI, ultrapassadas>>
      PROVE  MessageInv'
  BY <1>8, CallStep DEF MessageInv, K!varsI
<1>9. ASSUME K!C!Destruir(Main), UNCHANGED <<pcI, topicos, promessa, resI, finalizadaI, lib,
                                           mensagem, ultrapassadas>>
      PROVE  MessageInv'
  <2>1. destrutor = Main /\ UNCHANGED destrutor /\ pcC'[Main] = "out" /\ ~handle'
    BY <1>9, <1>t DEF K!C!Destruir, K!C!Goto, K!C!IInv, K!C!LifetimeInv, K!C!TypeOK
  <2>2. QED
    BY <1>9, <2>1 DEF MessageInv
<1>10. ASSUME K!C!Conecta(Main) \/ K!C!Desconecta(Main) \/ K!C!Fracassa(Main),
              UNCHANGED <<pcI, topicos, promessa, resI, finalizadaI, lib, mensagem, ultrapassadas>>
       PROVE  MessageInv'
  <2>1. handle /\ UNCHANGED <<pcC, destrutor, handle, perda, comando>>
    BY <1>10, CommandStep DEF K!C!Conecta, K!C!Desconecta, K!C!Fracassa
  <2>2. \/ conectado'
        \/ comando[Main] = "disconnect" /\ desfecho'[Main] = "sucesso"
        \/ UNCHANGED conectado /\ desfecho[Main] = "open"
    BY <1>10, <1>t DEF K!C!Conecta, K!C!Desconecta, K!C!Fracassa, K!C!Ligar,
       K!C!TypeOK
  <2>3. QED
    BY <1>10, <2>1, <2>2 DEF MessageInv
<1>11. ASSUME K!C!PerdeConexao, UNCHANGED <<pcI, topicos, promessa, resI, finalizadaI, lib,
                                          mensagem, ultrapassadas>>
       PROVE  MessageInv'
  BY <1>11 DEF K!C!PerdeConexao, K!C!Ligar, K!C!programVars, K!ClientInv, MessageInv
<1>12. ASSUME K!I!BrokerStep(Main), UNCHANGED <<K!varsC, ultrapassadas>> PROVE MessageInv'
  <2>1. UNCHANGED <<pcI, topicos, promessa, resI, finalizadaI, lib, mensagem>>
    BY <1>12 DEF K!I!BrokerStep, K!I!Atender, K!I!AtenderSubscribe,
       K!I!AtenderUnsubscribe, K!I!Descartar
  <2>2. QED
    BY <1>12, <1>c, <2>1 DEF K!varsC
<1>13. ASSUME K!I!Ligar \/ K!I!LigarSemSessao \/ K!I!Desligar
       PROVE  UNCHANGED <<pcI, topicos, promessa, resI, finalizadaI, lib, mensagem>>
  BY <1>13 DEF K!I!Ligar, K!I!LigarSemSessao, K!I!Desligar
<1>14. CASE MainStep
  BY <1>14, <1>5, <1>6, <1>7, <1>8, <1>9, <1>13 DEF MainStep, K!ThreadStep, Fora, Em, K!SoC,
     K!SoI, K!Pedir, K!Desce, K!I!ThreadStep, K!varsI
<1>15. CASE Atender \/ Desistir
  BY <1>15, <1>10, <1>12, <1>13 DEF Atender, K!Atender, Fora, Em, Desistir, K!Desistir,
     K!SoC, K!SoI, K!Sobe, K!Desce, K!I!BrokerStep, K!varsI
<1>a. CASE Responder /\ K!SoC(K!C!Sucesso(Main) \/ K!C!Falha(Main))
  <2>1. /\ handle /\ UNCHANGED <<handle, perda, conectado, K!varsI>>
        /\ comando[Main] = "disconnect" /\ desfecho[Main] = "sucesso" =>
             Ocupadas \subseteq ultrapassadas'
    BY <1>a, CommandStep DEF Responder, Encerradas, K!SoC, K!C!Sucesso, K!C!Falha,
       K!C!Responder
  <2>2. QED
    BY <1>a, <2>1 DEF Responder, MessageInv, K!varsI
<1>b. CASE Responder /\ K!SoI(K!I!AnswerStep(Main))
  <2>1. UNCHANGED <<K!varsC, pcI, topicos, promessa>>
    BY <1>b, CallsStay DEF K!SoI
  <2>2. /\ UNCHANGED <<lib, mensagem>>
        /\ \/ UNCHANGED <<resI, finalizadaI>> \/ resI'[Main] = FALSE
           \/ pcI[Main] = "wait_s"
           \/ pcI[Main] \in K!I!Unsubscribing /\ resposta[Main] = "sucesso"
    BY <1>b, <1>t DEF K!SoI, K!I!AnswerStep, K!I!SubscribeSucesso,
       K!I!SubscribeInsuficiente, K!I!SubscribeFalha, K!I!NotificarFalha,
       K!I!UnsubscribeSucesso, K!I!UnsubscribeFalha, K!I!Desfazer, K!I!NotificarUm,
       K!I!TypeOK
  <2>3. "wait_s" \notin K!I!Unsubscribing
    BY DEF K!I!Unsubscribing
  <2>4. ASSUME NEW l \in Ocupadas \ ultrapassadas',
               pcI[Main] \in K!I!Unsubscribing, Main \in finalizadaI', resI'[Main]
        PROVE  mensagem[l] \notin topicos[Main]
    BY <1>b, <2>2, <2>3, <2>4 DEF Responder, Encerradas, MessageInv
  <2>5. QED
    BY <1>b, <2>1, <2>2, <2>4 DEF Responder, MessageInv, K!varsC
<1>16. CASE Responder
  BY <1>16, <1>a, <1>b DEF Responder, K!Responder, Em
<1>p. CASE Perdida
  <2>1. UNCHANGED lib /\ ultrapassadas' = Ocupadas
    BY <1>p DEF Perdida, Em, K!Perdida, K!SoC, K!varsI
  <2>2. QED
    BY <2>1 DEF MessageInv
<1>17. CASE PerdeConexao
  BY <1>17, <1>11, <1>13 DEF PerdeConexao, K!PerdeConexao, Fora, Em
<1>18. ASSUME NEW l \in LibThreads, Tratar(l) PROVE MessageInv'
  <2>1. /\ UNCHANGED <<pcI, topicos, promessa, resI, finalizadaI, mensagem, K!varsC>>
        /\ Ocupadas' \ ultrapassadas' \subseteq Ocupadas \ ultrapassadas
    BY <1>18, <1>t DEF Tratar, Mensagem, K!Tratar, Em, K!SoI, K!I!Procurar,
       K!I!Tratar, K!I!TypeOK
  <2>2. QED
    BY <2>1 DEF MessageInv, K!varsC
<1>19. ASSUME NEW l \in LibThreads, NEW n \in Topicos, Chegar(l, n) PROVE MessageInv'
  <2>1. /\ n \in inscrito /\ conectado
        /\ UNCHANGED <<pcI, topicos, promessa, resI, finalizadaI, K!varsC, ultrapassadas>>
    BY <1>19 DEF Chegar, K!Chegar, Fora, Em, K!SoI, K!I!Chega
  <2>2. /\ Ocupadas' \subseteq Ocupadas \cup {l}
        /\ mensagem' = [mensagem EXCEPT ![l] = n]
    BY <1>19, <1>t DEF Chegar, K!Chegar, Fora, Em, K!SoI, K!I!Chega, K!I!TypeOK
  <2>3. K!I!Cumpre(Main, n) /\ K!I!Concedido(n)
    BY <2>1, TopicKnown DEF K!I!Concedido
  <2>4. promessa[n] # "livre"
    BY <2>3 DEF K!I!Cumpre
  <2>5. ASSUME pcI[Main] \in K!I!Unsubscribing, Main \in finalizadaI, resI[Main]
        PROVE  n \notin topicos[Main]
    BY <2>3, <2>5 DEF K!I!Cumpre, K!I!Nomeia, K!I!CallInv, K!I!Unsubscribing
  <2>6. handle
    BY <2>1 DEF K!ClientInv
  <2>7. ASSUME NEW k \in Ocupadas' \ ultrapassadas'
        PROVE  \/ mensagem'[k] = n /\ k = l
               \/ mensagem'[k] = mensagem[k] /\ k \in Ocupadas \ ultrapassadas
    BY <2>1, <2>2, <2>7, <1>t DEF K!I!TypeOK
  <2>8. QED
    BY <2>1, <2>4, <2>5, <2>6, <2>7 DEF MessageInv, K!varsC
<1>20. CASE Encerrado \/ UNCHANGED vars
  BY <1>20, <1>c DEF Encerrado, K!Encerrado, vars, K!varsC, K!varsI
<1>21. QED
  BY <1>2, <1>3, <1>4, <1>14, <1>15, <1>16, <1>p, <1>17, <1>18, <1>19, <1>20 DEF Next

\* Only the messages move the library's threads, and other steps overtake none
\* but those under way.
LEMMA OnlyMessages ==
  ultrapassadas \subseteq Ocupadas /\ [Next]_vars =>
    \/ UNCHANGED lib /\ ultrapassadas' \subseteq ultrapassadas \cup Ocupadas
    \/ \E l \in LibThreads :
         /\ K!I!MessageStep(l)
         /\ \/ ultrapassadas' \subseteq Ocupadas'
            \/ UNCHANGED ultrapassadas /\ \E n \in Topicos : K!I!Chega(l, n)
<1> SUFFICES ASSUME ultrapassadas \subseteq Ocupadas, [Next]_vars
             PROVE  \/ UNCHANGED lib /\ ultrapassadas' \subseteq ultrapassadas \cup Ocupadas
                    \/ \E l \in LibThreads :
                         /\ K!I!MessageStep(l)
                         /\ \/ ultrapassadas' \subseteq Ocupadas'
                            \/ /\ UNCHANGED ultrapassadas
                               /\ \E n \in Topicos : K!I!Chega(l, n)
  OBVIOUS
<1> DEFINE Alheio == UNCHANGED lib /\ ultrapassadas' \subseteq ultrapassadas \cup Ocupadas
<1> USE DEF K!I!messageVars
<1>1. K!I!AnswerStep(Main) => UNCHANGED lib
  BY DEF K!I!AnswerStep, K!I!SubscribeSucesso, K!I!SubscribeInsuficiente,
     K!I!SubscribeFalha, K!I!NotificarFalha, K!I!UnsubscribeSucesso,
     K!I!UnsubscribeFalha, K!I!Desfazer, K!I!NotificarUm
<1>2. ASSUME Atender \/ Desistir PROVE Alheio
  BY <1>2 DEF Atender, Desistir, Fora, Em, K!Atender, K!Desistir, K!SoC, K!SoI, K!Sobe,
     K!Desce, K!I!Atender, K!I!AtenderSubscribe, K!I!AtenderUnsubscribe,
     K!I!Descartar, K!I!Ligar, K!I!LigarSemSessao, K!I!Desligar, K!varsI
<1>3. K!I!ThreadStep(Main) => UNCHANGED lib
  BY DEF K!I!ThreadStep, K!I!SubscribeAceito, K!I!SubscribeRecusado,
     K!I!DesfazerInsercao, K!I!ApagarCallbacks, K!I!Esperar
<1>4. ASSUME MainStep PROVE Alheio
  BY <1>3, <1>4 DEF MainStep, Fora, Em, K!ThreadStep, K!Pedir, K!SoC, K!SoI, K!Desce,
     K!I!Desligar, K!varsI
<1>5. ASSUME Conectar \/ Desconectar \/ Retornar PROVE Alheio
  BY <1>5 DEF Conectar, Desconectar, Retornar, K!Conectar, K!Desconectar, K!Destrutor,
     K!SoC, K!varsI
<1>6. ASSUME Subscribe \/ Unsubscribe PROVE Alheio
  BY <1>6 DEF Subscribe, Unsubscribe, K!Inscrever, K!Desinscrever, K!Pedir, K!SoI,
     K!I!DesinscricaoRecusada, K!I!Desinscrever, K!I!Inscrever
<1>7. ASSUME Responder \/ PerdeConexao \/ Perdida PROVE Alheio
  <2>1. UNCHANGED lib
    BY <1>1, <1>7 DEF Responder, PerdeConexao, Perdida, Fora, Em, K!Responder,
       K!PerdeConexao, K!Perdida, K!SoC, K!SoI, K!I!Desligar, K!varsI
  <2>2. ultrapassadas' \subseteq ultrapassadas \cup Ocupadas
    BY <1>7 DEF Responder, PerdeConexao, Perdida, Fora, Encerradas
  <2>3. QED
    BY <2>1, <2>2
<1>8. ASSUME NEW l \in LibThreads, Tratar(l)
      PROVE  K!I!MessageStep(l) /\ ultrapassadas' \subseteq Ocupadas'
  <2>1. K!I!MessageStep(l)
    BY <1>8 DEF Tratar, Mensagem, Em, K!Tratar, K!SoI, K!I!MessageStep
  <2>2. UNCHANGED K!varsC /\ ultrapassadas' = {k \in ultrapassadas : lib'[k] # "idle"}
    BY <1>8 DEF Tratar, Mensagem, Em, K!Tratar, K!SoI
  <2>3. QED
    BY <2>1, <2>2 DEF Ocupadas
<1>9. ASSUME NEW l \in LibThreads, NEW n \in Topicos, Chegar(l, n)
      PROVE  K!I!MessageStep(l) /\ K!I!Chega(l, n) /\ UNCHANGED ultrapassadas
  BY <1>9 DEF Chegar, Fora, Em, K!Chegar, K!SoI, K!I!MessageStep
<1>10. ASSUME Encerrado \/ UNCHANGED vars PROVE Alheio
  BY <1>10 DEF Encerrado, vars, K!varsI
<1>11. QED
  BY <1>2, <1>4, <1>5, <1>6, <1>7, <1>8, <1>9, <1>10 DEF Next

\* The messages overtaken are under way, and no message comes before the first
\* connection.
LEMMA StepFirst ==
  /\ K!I!IInv /\ PhaseInv /\ FirstInv /\ ultrapassadas \subseteq Ocupadas /\ [Next]_vars
  => FirstInv' /\ ultrapassadas' \subseteq Ocupadas'
<1> SUFFICES ASSUME K!I!IInv, PhaseInv, FirstInv, ultrapassadas \subseteq Ocupadas,
                    [Next]_vars
             PROVE  FirstInv' /\ ultrapassadas' \subseteq Ocupadas'
  OBVIOUS
<1>t. K!I!TypeOK
  BY DEF K!I!IInv
<1>1. linha' = "inicio" => linha = "inicio"
  BY DEF Next, Conectar, Subscribe, Unsubscribe, Desconectar, Retornar, MainStep,
     Atender, Desistir, Responder, PerdeConexao, Perdida, Tratar, Mensagem, Chegar,
     Fora, Em, Encerrado, vars
<1>2. ASSUME linha = "inicio" PROVE UNCHANGED lib
  BY <1>2, OnlyMessages DEF PhaseInv, FirstInv, Ocupadas, K!I!MessageStep, K!I!Chega,
     K!I!Procurar, K!I!Tratar
<1>3. FirstInv'
  BY <1>1, <1>2 DEF FirstInv, Ocupadas
<1>4. ASSUME NEW l \in LibThreads, NEW n \in Topicos, K!I!Chega(l, n)
      PROVE  Ocupadas \subseteq Ocupadas'
  BY <1>4, <1>t DEF K!I!Chega, Ocupadas, K!I!TypeOK
<1>5. UNCHANGED lib => Ocupadas' = Ocupadas
  BY DEF Ocupadas
<1>6. ultrapassadas' \subseteq Ocupadas'
  BY <1>4, <1>5, OnlyMessages
<1>7. QED
  BY <1>3, <1>6

-----------------------------------------------------------------------------
(* The theorems.                                                           *)

\* The inductive invariant holds in every reachable state.
THEOREM Invariance == Spec => []IInv
<1> DEFINE Proprio == /\ linha \in Linhas /\ rodada \in 0 .. RODADAS
                      /\ ultrapassadas \subseteq Ocupadas
                      /\ PhaseInv /\ HandleInv /\ ListenInv /\ PromiseInv
                      /\ MessageInv /\ FirstInv
<1>1. Init => Proprio
  BY DEF Init, K!Init, K!C!Init, K!I!Init, Linhas, PhaseInv, EmChamada, HandleInv,
     ListenInv, PromiseInv, MessageInv, FirstInv, Ocupadas, Main, NoThread
<1>2. K!IInv /\ K!IInv' /\ Proprio /\ [Next]_vars => Proprio'
  <2> SUFFICES ASSUME K!IInv, K!IInv', Proprio, [Next]_vars PROVE Proprio'
    OBVIOUS
  <2>c. K!C!IInv /\ K!I!IInv /\ K!ClientInv /\ K!ClientInv'
    BY DEF K!IInv
  <2>1. linha' \in Linhas /\ rodada' \in 0 .. RODADAS /\ PhaseInv'
    BY <2>c, StepPhase
  <2>2. HandleInv' /\ PromiseInv'
    BY <2>c, StepHandle, StepPromise
  <2>3. ListenInv'
    BY <2>c, <2>1, StepListen
  <2>4. MessageInv'
    BY <2>c, StepMessage
  <2>5. FirstInv' /\ ultrapassadas' \subseteq Ocupadas'
    BY <2>c, StepFirst
  <2>6. QED
    BY <2>1, <2>2, <2>3, <2>4, <2>5
<1>3. K!IInv /\ Proprio => IInv
  BY DEF IInv
<1>4. QED
  BY <1>1, <1>2, <1>3, ComponentInv, PTL DEF Spec

\* Every variable of the program and of its components keeps its type.
THEOREM TypeCorrect == Spec => []TypeOK
<1>1. IInv => TypeOK
  BY DEF IInv, K!IInv, TypeOK, K!TypeOK, K!C!IInv, K!I!IInv
<1>2. QED
  BY <1>1, Invariance, PTL

\* After a subscribe() that returned true, in any round, whatever sessions were
\* lost and requests failed before: the three topics are in the session, each
\* with its own callback.
THEOREM SubscribedRoundListens == Spec => []RoundListens
<1>1. IInv => RoundListens
  <2> SUFFICES ASSUME IInv, linha = "subscribe", ~EmChamada, retornoI[Main]
               PROVE  inscrito = Topicos /\ callback_map = Tratadores
    BY DEF RoundListens
  <2>1. /\ inscrito = Topicos
        /\ \A n \in Topicos : promessa[n] = "inscrito"
        /\ \A n \in Topicos : callback_map[n] \in {Nenhum, Tratadores[n]}
    BY DEF IInv, K!IInv, ListenInv
  <2>2. \A n \in Topicos : callback_map[n] # Nenhum
    BY <2>1, TopicKnown DEF IInv, K!IInv, K!I!Cumpre, K!I!Nomeia, EmChamada
  <2>3. callback_map = [n \in Topicos |-> callback_map[n]]
    BY DEF IInv, K!IInv, K!I!IInv, K!I!TypeOK
  <2>4. Tratadores = [n \in Topicos |-> Tratadores[n]]
    BY DEF Tratadores
  <2>5. QED
    BY <2>1, <2>2, <2>3, <2>4
<1>2. QED
  BY <1>1, Invariance, PTL

\* With any number of threads, no message callback runs on a topic after
\* unsubscribe() has returned true of it, but for a message that was under way when
\* the answer was reported.
THEOREM UnsubscribedIsQuiet == Spec => []NoLateMessage
<1>1. IInv => NoLateMessage
  BY DEF IInv, K!IInv, MessageInv, NoLateMessage
<1>2. QED
  BY <1>1, Invariance, PTL

\* And the client is not destroyed under a message that came later than the answer
\* of desconectar(), or the report of the loss, that ended its link.
THEOREM DestroyIsQuiet == Spec => []QuietDestroy
<1>1. IInv => QuietDestroy
  <2> SUFFICES ASSUME IInv, pcC[Main] = "destroy", ~conectado, ~perda,
                      NEW l \in Ocupadas \ ultrapassadas
               PROVE  FALSE
    BY DEF QuietDestroy
  <2>1. comando[Main] = "none"
    BY DEF IInv, K!IInv, K!C!IInv, K!C!EveryCommandAwaited, K!C!WaitsOn
  <2>2. QED
    BY <2>1 DEF IInv, K!IInv, MessageInv
<1>2. QED
  BY <1>1, Invariance, PTL

\* A message that finds no callback comes where the program expects it: before
\* its first subscription, while or after its topic is unsubscribed, or when the
\* program has failed.
THEOREM DropsHaveReasons == Spec => DropsAreExpected
<1> DEFINE Descartada(l) == lib[l] = "lookup" /\ callback'[l] = Nenhum /\ lib'[l] = "call"
           Razao(l) == \/ rodada = 1 /\ linha = "conectar"
                       \/ /\ mensagem[l] \in Retirados
                          /\ (linha = "unsubscribe" /\ EmChamada) \/ l \in ultrapassadas
                       \/ Fracassada
<1>1. ASSUME IInv, [Next]_vars, NEW l \in LibThreads, Descartada(l) PROVE Razao(l)
  <2> DEFINE n == mensagem[l]
  <2>t. K!I!TypeOK /\ n \in Topicos
    BY <1>1 DEF IInv, K!IInv, K!I!IInv, K!I!TypeOK
  <2>1. callback_map[n] = Nenhum
    <3>1. UNCHANGED lib \/ \E k \in LibThreads : K!I!MessageStep(k)
      BY <1>1, OnlyMessages DEF IInv
    <3>2. K!I!Procurar(l)
      BY <1>1, <2>t, <3>1 DEF K!I!MessageStep, K!I!Chega, K!I!Procurar, K!I!Tratar,
         K!I!TypeOK
    <3>3. QED
      BY <1>1, <2>t, <3>2 DEF K!I!Procurar, K!I!Consultar, K!I!TypeOK
  <2>2. /\ promessa[n] = "livre" => Razao(l)
        /\ linha # "inicio" /\ linha \in Linhas
    BY <1>1, <2>t DEF IInv, K!IInv, MessageInv, FirstInv, PromiseInv, Ocupadas
  <2> SUFFICES ASSUME promessa[n] # "livre" PROVE Razao(l)
    BY <2>2
  <2>3. ~K!I!Nomeia(Main, n) => promessa[n] = "nada"
    BY <1>1, <2>t, <2>1, <2>2, TopicKnown DEF IInv, K!IInv, K!I!Cumpre, K!I!TypeOK
  <2>4. K!I!Nomeia(Main, n) => K!I!CallInv(Main, n)
    BY <1>1, <2>t, TopicKnown DEF IInv, K!IInv, K!I!Cumpre
  <2>5. CASE linha = "conectar" \/ linha = "desconectar"
    <3>1. ~K!I!Nomeia(Main, n) /\ rodada > 0
      BY <1>1, <2>5 DEF IInv, K!IInv, PhaseInv, EmChamada, K!I!Nomeia
    <3>2. rodada = 1 /\ linha = "conectar"
      BY <1>1, <2>t, <2>3, <2>5, <3>1 DEF IInv, K!IInv, PromiseInv
    <3>3. QED
      BY <3>2
  <2>6. CASE linha = "subscribe" /\ EmChamada
    <3>1. K!I!Nomeia(Main, n) /\ pcI[Main] \in K!I!Subscribing
      BY <1>1, <2>t, <2>6 DEF IInv, K!IInv, PhaseInv, EmChamada, K!I!Nomeia
    <3>2. pcI[Main] = "wait_s" /\ ~K!I!SemRecusa(Main) /\ ~K!I!SeraDesfeito(Main)
      BY <2>1, <2>4, <3>1 DEF K!I!CallInv, K!I!Subscribing
    <3>3. \/ resposta[Main] = "notificar"
          \/ Main \in finalizadaI /\ ~resI[Main]
      BY <1>1, <3>2 DEF IInv, K!IInv, K!I!IInv, K!I!TypeOK, K!I!NoCallStuck,
         K!I!Pedindo, K!I!SemRecusa, K!I!SeraDesfeito
    <3>4. QED
      BY <3>2, <3>3 DEF Fracassada
  <2>7. CASE linha = "subscribe" /\ ~EmChamada
    <3>1. ~K!I!Nomeia(Main, n)
      BY <2>7 DEF EmChamada, K!I!Nomeia
    <3>2. ~retornoI[Main]
      BY <1>1, <2>t, <2>3, <2>7, <3>1 DEF IInv, K!IInv, ListenInv
    <3>3. QED
      BY <2>7, <3>2 DEF Fracassada
  <2>8. CASE linha = "unsubscribe" /\ EmChamada
    <3>1. topicos[Main] = Retirados
      BY <1>1, <2>8 DEF IInv, K!IInv, PhaseInv
    <3>2. n \notin Retirados => promessa[n] = "inscrito"
      BY <1>1, <2>t, <2>8 DEF IInv, K!IInv, PromiseInv
    <3>3. QED
      BY <2>3, <2>8, <3>1, <3>2 DEF K!I!Nomeia
  <2>9. CASE linha = "unsubscribe" /\ ~EmChamada
    <3>1. ~K!I!Nomeia(Main, n)
      BY <2>9 DEF EmChamada, K!I!Nomeia
    <3>2. ~retornoI[Main]
      BY <1>1, <2>t, <2>2, <2>3, <2>9, <3>1 DEF IInv, K!IInv, PromiseInv
    <3>3. QED
      BY <2>9, <3>2 DEF Fracassada
  <2>10. CASE linha = "destrutor"
    BY <2>10 DEF Fracassada
  <2>11. QED
    BY <2>2, <2>5, <2>6, <2>7, <2>8, <2>9, <2>10 DEF Linhas
<1>2. IInv /\ [Next]_vars =>
        [\A l \in LibThreads : Descartada(l) => Razao(l)]_vars
  BY <1>1
<1>3. QED
  BY <1>2, Invariance, PTL DEF DropsAreExpected, Spec

=============================================================================

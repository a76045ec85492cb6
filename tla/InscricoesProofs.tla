--------------------------- MODULE InscricoesProofs ---------------------------
(***************************************************************************)
(* Inscricoes, for any sets of threads, topics and callbacks: the inductive*)
(* invariant and the safety properties it gives.                           *)
(***************************************************************************)
EXTENDS Inscricoes, TLAPS

USE ConstAssumption

\* The constructed client satisfies the invariant, whatever session the broker
\* has kept.
LEMMA InitIInv == Init => IInv
<1> SUFFICES ASSUME Init PROVE IInv
  OBVIOUS
<1>1. TypeOK
  BY DEF Init, TypeOK, Subscribing, Unsubscribing, QosDevolvidos
<1>2. RequestInv
  BY DEF Init, RequestInv
<1>3. MapInv
  BY DEF Init, MapInv
<1>4. OwnerInv
  BY DEF Init, OwnerInv, Cumpre, Nomeia
<1>5. SessionInv
  BY DEF Init, SessionInv
<1>6. NoCallStuck
  BY DEF Init, NoCallStuck, Pedindo
<1>7. QED
  BY <1>1, <1>2, <1>3, <1>4, <1>5, <1>6 DEF IInv

\* Every step keeps the types.
LEMMA StepType == TypeOK /\ [Next]_vars => TypeOK'
<1> SUFFICES ASSUME TypeOK, [Next]_vars PROVE TypeOK'
  OBVIOUS
<1> USE DEF Subscribing, Unsubscribing, QosDevolvidos, callVars, contextVars, libraryVars, brokerVars, messageVars
<1>1. ASSUME NEW t \in Threads, VetorVazio(t) PROVE TypeOK'
  BY <1>1 DEF VetorVazio, TypeOK
<1>2. ASSUME NEW t \in Threads, DesinscricaoRecusada(t) PROVE TypeOK'
  BY <1>2 DEF DesinscricaoRecusada, TypeOK
<1>3. ASSUME NEW t \in Threads, SubscribeAceito(t) PROVE TypeOK'
  BY <1>3 DEF SubscribeAceito, Enfileirar, TypeOK
<1>4. ASSUME NEW t \in Threads, SubscribeRecusado(t) PROVE TypeOK'
  BY <1>4 DEF SubscribeRecusado, TypeOK
<1>5. ASSUME NEW t \in Threads, DesfazerInsercao(t) PROVE TypeOK'
  BY <1>5 DEF DesfazerInsercao, Apagar, Retornar, TypeOK
<1>6. ASSUME NEW t \in Threads, ApagarCallbacks(t) PROVE TypeOK'
  BY <1>6 DEF ApagarCallbacks, Apagar, TypeOK
<1>7. ASSUME NEW t \in Threads, Esperar(t) PROVE TypeOK'
  BY <1>7 DEF Esperar, Retornar, TypeOK
<1>8. ASSUME NEW t \in Threads, Descartar(t) PROVE TypeOK'
  BY <1>8 DEF Descartar, Desenfileirar, TypeOK
<1>9. ASSUME NEW t \in Threads, SubscribeSucesso(t) \/ NotificarFalha(t) PROVE TypeOK'
  <2>1. CASE SubscribeSucesso(t)
    BY <2>1 DEF SubscribeSucesso, NotificarUm, TypeOK
  <2>2. CASE NotificarFalha(t)
    BY <2>2 DEF NotificarFalha, NotificarUm, TypeOK
  <2>3. QED
    BY <1>9, <2>1, <2>2
<1>10. ASSUME NEW t \in Threads, SubscribeInsuficiente(t) PROVE TypeOK'
  BY <1>10 DEF SubscribeInsuficiente, Desfazer, Apagar, TypeOK
<1>11. ASSUME NEW t \in Threads, SubscribeFalha(t) PROVE TypeOK'
  BY <1>11 DEF SubscribeFalha, Desfazer, Apagar, TypeOK
<1>12. ASSUME NEW t \in Threads, UnsubscribeSucesso(t) PROVE TypeOK'
  BY <1>12 DEF UnsubscribeSucesso, NotificarUm, TypeOK
<1>13. ASSUME NEW t \in Threads, UnsubscribeFalha(t) PROVE TypeOK'
  BY <1>13 DEF UnsubscribeFalha, NotificarUm, TypeOK
<1>14. ASSUME NEW t \in Threads, NEW S \in SUBSET Alcance[t],
             Desinscrever(t, S)
      PROVE TypeOK'
  BY <1>14 DEF Desinscrever, Chamar, Enfileirar, TypeOK
<1>15. ASSUME NEW t \in Threads, NEW S \in (SUBSET Alcance[t]) \ {{}}, NEW cb \in [Topicos -> Callbacks],
             Inscrever(t, S, cb)
      PROVE TypeOK'
  BY <1>15 DEF Inscrever, Chamar, TypeOK
<1>16. ASSUME NEW t \in Threads, NEW g \in [Topicos -> QosDevolvidos],
             NEW r \in {"sucesso", "falha"},
             AtenderSubscribe(t, g, r)
      PROVE TypeOK'
  BY <1>16 DEF AtenderSubscribe, Desenfileirar, TypeOK
<1>17. ASSUME NEW t \in Threads, NEW r \in {"sucesso", "falha"},
             AtenderUnsubscribe(t, r)
      PROVE TypeOK'
  BY <1>17 DEF AtenderUnsubscribe, Desenfileirar, TypeOK
<1>18. ASSUME NEW l \in LibThreads, MessageStep(l) PROVE TypeOK'
  <2>1. ASSUME NEW n \in Nomes, Chega(l, n) PROVE TypeOK'
    BY <2>1 DEF Chega, TypeOK
  <2>2. CASE Procurar(l)
    BY <2>2 DEF Procurar, Consultar, TypeOK
  <2>3. ASSUME NEW ret \in {0, 1}, Tratar(l, ret) PROVE TypeOK'
    BY <2>3 DEF Tratar, TypeOK
  <2>4. QED
    BY <1>18, <2>1, <2>2, <2>3 DEF MessageStep
<1>19. CASE Ligar
  BY <1>19 DEF Ligar, CLEANSESSION, TypeOK
<1>20. CASE Desligar
  BY <1>20 DEF Desligar, TypeOK
<1>21. CASE LigarSemSessao
  BY <1>21 DEF LigarSemSessao, TypeOK
<1>22. CASE UNCHANGED vars
  BY <1>22 DEF vars, TypeOK
<1>23. ASSUME NEW t \in Threads, Call(t) PROVE TypeOK'
  BY <1>1, <1>2, <1>14, <1>15, <1>23 DEF Call
<1>24. QED
  BY <1>3, <1>4, <1>5, <1>6, <1>7, <1>8, <1>9, <1>10, <1>11, <1>12, <1>13,
     <1>16, <1>17, <1>18, <1>19, <1>20, <1>21, <1>22, <1>23
     DEF Next, ThreadStep, BrokerStep, Atender, AnswerStep

\* Every step keeps a request in one place: in the queue, answered, or finished.
LEMMA StepRequest == TypeOK /\ RequestInv /\ [Next]_vars => RequestInv'
<1> SUFFICES ASSUME TypeOK, RequestInv, [Next]_vars PROVE RequestInv'
  OBVIOUS
<1> USE DEF TypeOK, Subscribing, Unsubscribing, Pedindo,
            callVars, contextVars, libraryVars, brokerVars, messageVars
<1>1. ASSUME NEW t \in Threads, VetorVazio(t) PROVE RequestInv'
  BY <1>1 DEF VetorVazio, RequestInv
<1>2. ASSUME NEW t \in Threads, DesinscricaoRecusada(t) PROVE RequestInv'
  BY <1>2 DEF DesinscricaoRecusada, RequestInv
<1>3. ASSUME NEW t \in Threads, SubscribeAceito(t) PROVE RequestInv'
  BY <1>3 DEF SubscribeAceito, Enfileirar, RequestInv
<1>4. ASSUME NEW t \in Threads, SubscribeRecusado(t) PROVE RequestInv'
  BY <1>4 DEF SubscribeRecusado, RequestInv
<1>5. ASSUME NEW t \in Threads, DesfazerInsercao(t) PROVE RequestInv'
  BY <1>5 DEF DesfazerInsercao, Apagar, Retornar, RequestInv
<1>6. ASSUME NEW t \in Threads, ApagarCallbacks(t) PROVE RequestInv'
  BY <1>6 DEF ApagarCallbacks, Apagar, RequestInv
<1>7. ASSUME NEW t \in Threads, Esperar(t) PROVE RequestInv'
  BY <1>7 DEF Esperar, Retornar, RequestInv
<1>8. ASSUME NEW t \in Threads, Descartar(t) PROVE RequestInv'
  BY <1>8 DEF Descartar, Desenfileirar, RequestInv
<1>9. ASSUME NEW t \in Threads, SubscribeSucesso(t) \/ NotificarFalha(t) PROVE RequestInv'
  BY <1>9 DEF SubscribeSucesso, NotificarFalha, NotificarUm, RequestInv
<1>10. ASSUME NEW t \in Threads, SubscribeInsuficiente(t) PROVE RequestInv'
  BY <1>10 DEF SubscribeInsuficiente, Desfazer, Apagar, RequestInv
<1>11. ASSUME NEW t \in Threads, SubscribeFalha(t) PROVE RequestInv'
  BY <1>11 DEF SubscribeFalha, Desfazer, Apagar, RequestInv
<1>12. ASSUME NEW t \in Threads, UnsubscribeSucesso(t) PROVE RequestInv'
  BY <1>12 DEF UnsubscribeSucesso, NotificarUm, RequestInv
<1>13. ASSUME NEW t \in Threads, UnsubscribeFalha(t) PROVE RequestInv'
  BY <1>13 DEF UnsubscribeFalha, NotificarUm, RequestInv
<1>14. ASSUME NEW t \in Threads, NEW S \in SUBSET Alcance[t],
             Desinscrever(t, S)
      PROVE RequestInv'
  BY <1>14 DEF Desinscrever, Chamar, Enfileirar, RequestInv
<1>15. ASSUME NEW t \in Threads, NEW S \in (SUBSET Alcance[t]) \ {{}}, NEW cb \in [Topicos -> Callbacks],
             Inscrever(t, S, cb)
      PROVE RequestInv'
  BY <1>15 DEF Inscrever, Chamar, RequestInv
<1>16. ASSUME NEW t \in Threads, NEW g \in [Topicos -> QosDevolvidos],
             NEW r \in {"sucesso", "falha"},
             AtenderSubscribe(t, g, r)
      PROVE RequestInv'
  BY <1>16 DEF AtenderSubscribe, Desenfileirar, RequestInv
<1>17. ASSUME NEW t \in Threads, NEW r \in {"sucesso", "falha"},
             AtenderUnsubscribe(t, r)
      PROVE RequestInv'
  BY <1>17 DEF AtenderUnsubscribe, Desenfileirar, RequestInv
<1>18. ASSUME NEW l \in LibThreads, MessageStep(l) PROVE RequestInv'
  BY <1>18 DEF MessageStep, Chega, Procurar, Tratar, RequestInv
<1>19. CASE Ligar
  BY <1>19 DEF Ligar, CLEANSESSION, RequestInv
<1>20. CASE Desligar
  BY <1>20 DEF Desligar, RequestInv
<1>21. CASE LigarSemSessao
  BY <1>21 DEF LigarSemSessao, RequestInv
<1>22. CASE UNCHANGED vars
  BY <1>22 DEF vars, RequestInv
<1>23. ASSUME NEW t \in Threads, Call(t) PROVE RequestInv'
  BY <1>1, <1>2, <1>14, <1>15, <1>23 DEF Call
<1>24. QED
  BY <1>3, <1>4, <1>5, <1>6, <1>7, <1>8, <1>9, <1>10, <1>11, <1>12, <1>13,
     <1>16, <1>17, <1>18, <1>19, <1>20, <1>21, <1>22, <1>23
     DEF Next, ThreadStep, BrokerStep, Atender, AnswerStep

\* Every step keeps a reason for each entry of the map.
LEMMA StepMap == TypeOK /\ RequestInv /\ MapInv /\ [Next]_vars => MapInv'
<1> SUFFICES ASSUME TypeOK, RequestInv, MapInv, [Next]_vars PROVE MapInv'
  OBVIOUS
<1> USE DEF TypeOK, RequestInv, Subscribing, Unsubscribing, Pedindo,
            callVars, contextVars, libraryVars, brokerVars, messageVars
<1>1. ASSUME NEW t \in Threads, VetorVazio(t) PROVE MapInv'
  BY <1>1 DEF VetorVazio,
     MapInv, Sustenta, Assente, Concedido, Cancela, SeraDesfeito
<1>2. ASSUME NEW t \in Threads, DesinscricaoRecusada(t) PROVE MapInv'
  BY <1>2 DEF DesinscricaoRecusada,
     MapInv, Sustenta, Assente, Concedido, Cancela, SeraDesfeito
<1>3. ASSUME NEW t \in Threads, SubscribeAceito(t) PROVE MapInv'
  BY <1>3 DEF SubscribeAceito, Enfileirar,
     MapInv, Sustenta, Assente, Concedido, Cancela, SeraDesfeito
<1>4. ASSUME NEW t \in Threads, SubscribeRecusado(t) PROVE MapInv'
  BY <1>4 DEF SubscribeRecusado,
     MapInv, Sustenta, Assente, Concedido, Cancela, SeraDesfeito
<1>5. ASSUME NEW t \in Threads, DesfazerInsercao(t) PROVE MapInv'
  <2> SUFFICES ASSUME NEW n \in Topicos, callback_map'[n] # Nenhum
               PROVE  Assente(n)' \/ \E u \in Threads : Sustenta(u, n)'
    BY DEF MapInv
  <2>1. Assente(n) \/ \E u \in Threads : Sustenta(u, n)
    BY <1>5 DEF DesfazerInsercao, Apagar, Retornar, MapInv
  <2>2. ASSUME NEW u \in Threads, u # t, Sustenta(u, n) PROVE Sustenta(u, n)'
    BY <1>5, <2>2 DEF DesfazerInsercao, Apagar, Retornar, Sustenta, Cancela, SeraDesfeito
  <2>3. ASSUME Sustenta(t, n) PROVE FALSE
    BY <1>5, <2>3 DEF DesfazerInsercao, Apagar, Retornar, Sustenta, Cancela, SeraDesfeito
  <2>4. ASSUME Assente(n) PROVE Assente(n)'
    BY <1>5, <2>4 DEF DesfazerInsercao, Apagar, Retornar, Assente, Concedido, Cancela
  <2>5. QED
    BY <2>1, <2>2, <2>3, <2>4
<1>6. ASSUME NEW t \in Threads, ApagarCallbacks(t) PROVE MapInv'
  <2> SUFFICES ASSUME NEW n \in Topicos, callback_map'[n] # Nenhum
               PROVE  Assente(n)' \/ \E u \in Threads : Sustenta(u, n)'
    BY DEF MapInv
  <2>1. n \notin topicos[t] /\ (Assente(n) \/ \E u \in Threads : Sustenta(u, n))
    BY <1>6 DEF ApagarCallbacks, Apagar, MapInv
  <2>2. ASSUME NEW u \in Threads, Sustenta(u, n) PROVE Sustenta(u, n)'
    BY <1>6, <2>1, <2>2 DEF ApagarCallbacks, Apagar, Sustenta, Cancela, SeraDesfeito
  <2>3. ASSUME Assente(n) PROVE Assente(n)'
    BY <1>6, <2>3 DEF ApagarCallbacks, Apagar, Assente, Concedido, Cancela
  <2>4. QED
    BY <2>1, <2>2, <2>3
<1>7. ASSUME NEW t \in Threads, Esperar(t) PROVE MapInv'
  <2> SUFFICES ASSUME NEW n \in Topicos, callback_map'[n] # Nenhum
               PROVE  Assente(n)' \/ \E u \in Threads : Sustenta(u, n)'
    BY DEF MapInv
  <2>1. Assente(n) \/ \E u \in Threads : Sustenta(u, n)
    BY <1>7 DEF Esperar, Retornar, MapInv
  <2>2. ASSUME NEW u \in Threads, u # t, Sustenta(u, n) PROVE Sustenta(u, n)'
    BY <1>7, <2>2 DEF Esperar, Retornar, Sustenta, Cancela, SeraDesfeito
  <2>3. ASSUME Sustenta(t, n) PROVE FALSE
    BY <1>7, <2>3 DEF Esperar, Retornar, Sustenta, Cancela, SeraDesfeito
  <2>4. ASSUME Assente(n) PROVE Assente(n)'
    BY <1>7, <2>4 DEF Esperar, Retornar, Assente, Concedido, Cancela
  <2>5. QED
    BY <2>1, <2>2, <2>3, <2>4
<1>8. ASSUME NEW t \in Threads, Descartar(t) PROVE MapInv'
  BY <1>8 DEF Descartar, Desenfileirar,
     MapInv, Sustenta, Assente, Concedido, Cancela, SeraDesfeito
<1>9. ASSUME NEW t \in Threads, SubscribeSucesso(t) \/ NotificarFalha(t) PROVE MapInv'
  <2> SUFFICES ASSUME NEW n \in Topicos, callback_map'[n] # Nenhum
               PROVE  Assente(n)' \/ \E u \in Threads : Sustenta(u, n)'
    BY DEF MapInv
  <2>1. Assente(n) \/ \E u \in Threads : Sustenta(u, n)
    BY <1>9 DEF SubscribeSucesso, NotificarFalha, NotificarUm, MapInv
  <2>2. ASSUME NEW u \in Threads, u # t, Sustenta(u, n) PROVE Sustenta(u, n)'
    BY <1>9, <2>2 DEF SubscribeSucesso, NotificarFalha, NotificarUm, Sustenta, Cancela, SeraDesfeito
  <2>3. ASSUME Sustenta(t, n) PROVE FALSE
    BY <1>9, <2>3 DEF SubscribeSucesso, NotificarFalha, NotificarUm, Sustenta, Cancela, SeraDesfeito
  <2>4. ASSUME Assente(n) PROVE Assente(n)'
    BY <1>9, <2>4 DEF SubscribeSucesso, NotificarFalha, NotificarUm, Assente, Concedido, Cancela
  <2>5. QED
    BY <2>1, <2>2, <2>3, <2>4
<1>10. ASSUME NEW t \in Threads, SubscribeInsuficiente(t) PROVE MapInv'
  <2> SUFFICES ASSUME NEW n \in Topicos, callback_map'[n] # Nenhum
               PROVE  Assente(n)' \/ \E u \in Threads : Sustenta(u, n)'
    BY DEF MapInv
  <2>1. Assente(n) \/ \E u \in Threads : Sustenta(u, n)
    BY <1>10 DEF SubscribeInsuficiente, Desfazer, Apagar, MapInv
  <2>2. ASSUME NEW u \in Threads, u # t, Sustenta(u, n) PROVE Sustenta(u, n)'
    BY <1>10, <2>2 DEF SubscribeInsuficiente, Desfazer, Apagar, Sustenta, Cancela, SeraDesfeito
  <2>3. ASSUME Sustenta(t, n) PROVE FALSE
    BY <1>10, <2>3 DEF SubscribeInsuficiente, Desfazer, Apagar, Sustenta, Cancela, SeraDesfeito
  <2>4. ASSUME Assente(n) PROVE Assente(n)'
    BY <1>10, <2>4 DEF SubscribeInsuficiente, Desfazer, Apagar, Assente, Concedido, Cancela
  <2>5. QED
    BY <2>1, <2>2, <2>3, <2>4
<1>11. ASSUME NEW t \in Threads, SubscribeFalha(t) PROVE MapInv'
  <2> SUFFICES ASSUME NEW n \in Topicos, callback_map'[n] # Nenhum
               PROVE  Assente(n)' \/ \E u \in Threads : Sustenta(u, n)'
    BY DEF MapInv
  <2>1. Assente(n) \/ \E u \in Threads : Sustenta(u, n)
    BY <1>11 DEF SubscribeFalha, Desfazer, Apagar, MapInv
  <2>2. ASSUME NEW u \in Threads, u # t, Sustenta(u, n) PROVE Sustenta(u, n)'
    BY <1>11, <2>2 DEF SubscribeFalha, Desfazer, Apagar, Sustenta, Cancela, SeraDesfeito
  <2>3. ASSUME Sustenta(t, n) PROVE FALSE
    BY <1>11, <2>3 DEF SubscribeFalha, Desfazer, Apagar, Sustenta, Cancela, SeraDesfeito
  <2>4. ASSUME Assente(n) PROVE Assente(n)'
    BY <1>11, <2>4 DEF SubscribeFalha, Desfazer, Apagar, Assente, Concedido, Cancela
  <2>5. QED
    BY <2>1, <2>2, <2>3, <2>4
<1>12. ASSUME NEW t \in Threads, UnsubscribeSucesso(t) PROVE MapInv'
  <2> SUFFICES ASSUME NEW n \in Topicos, callback_map'[n] # Nenhum
               PROVE  Assente(n)' \/ \E u \in Threads : Sustenta(u, n)'
    BY DEF MapInv
  <2>1. Assente(n) \/ \E u \in Threads : Sustenta(u, n)
    BY <1>12 DEF UnsubscribeSucesso, NotificarUm, MapInv
  <2>2. ASSUME NEW u \in Threads, Sustenta(u, n) PROVE Sustenta(u, n)'
    BY <1>12, <2>2 DEF UnsubscribeSucesso, NotificarUm, Sustenta, Cancela, SeraDesfeito
  <2>3. ASSUME Assente(n) PROVE Assente(n)'
    BY <1>12, <2>3 DEF UnsubscribeSucesso, NotificarUm, Assente, Concedido, Cancela
  <2>4. QED
    BY <2>1, <2>2, <2>3
<1>13. ASSUME NEW t \in Threads, UnsubscribeFalha(t) PROVE MapInv'
  <2> SUFFICES ASSUME NEW n \in Topicos, callback_map'[n] # Nenhum
               PROVE  Assente(n)' \/ \E u \in Threads : Sustenta(u, n)'
    BY DEF MapInv
  <2>1. Assente(n) \/ \E u \in Threads : Sustenta(u, n)
    BY <1>13 DEF UnsubscribeFalha, NotificarUm, MapInv
  <2>2. ASSUME NEW u \in Threads, Sustenta(u, n) PROVE Sustenta(u, n)'
    BY <1>13, <2>2 DEF UnsubscribeFalha, NotificarUm, Sustenta, Cancela, SeraDesfeito
  <2>3. ASSUME Assente(n) PROVE Assente(n)'
    BY <1>13, <2>3 DEF UnsubscribeFalha, NotificarUm, Assente, Concedido, Cancela
  <2>4. QED
    BY <2>1, <2>2, <2>3
<1>14. ASSUME NEW t \in Threads, NEW S \in SUBSET Alcance[t],
             Desinscrever(t, S)
      PROVE MapInv'
  <2> SUFFICES ASSUME NEW n \in Topicos, callback_map'[n] # Nenhum
               PROVE  Assente(n)' \/ \E u \in Threads : Sustenta(u, n)'
    BY DEF MapInv
  <2>1. CASE n \in S
    <3>1. Sustenta(t, n)'
      BY <1>14, <2>1 DEF Desinscrever, Chamar, Enfileirar, Sustenta
    <3>2. QED
      BY <3>1
  <2>2. CASE n \notin S
    <3>1. Assente(n) \/ \E u \in Threads : Sustenta(u, n)
      BY <1>14, <2>2 DEF Desinscrever, Chamar, Enfileirar, MapInv
    <3>2. ASSUME NEW u \in Threads, Sustenta(u, n) PROVE Sustenta(u, n)'
      BY <1>14, <2>2, <3>2 DEF Desinscrever, Chamar, Enfileirar, Sustenta, Cancela, SeraDesfeito
    <3>3. ASSUME Assente(n) PROVE Assente(n)'
      BY <1>14, <2>2, <3>3 DEF Desinscrever, Chamar, Enfileirar, Assente, Concedido, Cancela
    <3>4. QED
      BY <3>1, <3>2, <3>3
  <2>3. QED
    BY <2>1, <2>2
<1>15. ASSUME NEW t \in Threads, NEW S \in (SUBSET Alcance[t]) \ {{}}, NEW cb \in [Topicos -> Callbacks],
             Inscrever(t, S, cb)
      PROVE MapInv'
  <2> SUFFICES ASSUME NEW n \in Topicos, callback_map'[n] # Nenhum
               PROVE  Assente(n)' \/ \E u \in Threads : Sustenta(u, n)'
    BY DEF MapInv
  <2>1. CASE n \in S
    <3>1. Sustenta(t, n)'
      BY <1>15, <2>1 DEF Inscrever, Chamar, Sustenta
    <3>2. QED
      BY <3>1
  <2>2. CASE n \notin S
    <3>1. Assente(n) \/ \E u \in Threads : Sustenta(u, n)
      BY <1>15, <2>2 DEF Inscrever, Chamar, MapInv
    <3>2. ASSUME NEW u \in Threads, Sustenta(u, n) PROVE Sustenta(u, n)'
      BY <1>15, <2>2, <3>2 DEF Inscrever, Chamar, Sustenta, Cancela, SeraDesfeito
    <3>3. ASSUME Assente(n) PROVE Assente(n)'
      BY <1>15, <2>2, <3>3 DEF Inscrever, Chamar, Assente, Concedido, Cancela
    <3>4. QED
      BY <3>1, <3>2, <3>3
  <2>3. QED
    BY <2>1, <2>2
<1>16. ASSUME NEW t \in Threads, NEW g \in [Topicos -> QosDevolvidos],
             NEW r \in {"sucesso", "falha"},
             AtenderSubscribe(t, g, r)
      PROVE MapInv'
  <2> SUFFICES ASSUME NEW n \in Topicos, callback_map'[n] # Nenhum
               PROVE  Assente(n)' \/ \E u \in Threads : Sustenta(u, n)'
    BY DEF MapInv
  <2>1. Assente(n) \/ \E u \in Threads : Sustenta(u, n)
    BY <1>16 DEF AtenderSubscribe, Desenfileirar, MapInv
  <2>2. ASSUME NEW u \in Threads, u # t, Sustenta(u, n) PROVE Sustenta(u, n)'
    BY <1>16, <2>2 DEF AtenderSubscribe, Desenfileirar, Sustenta, Cancela, SeraDesfeito
  <2>3. ASSUME Assente(n) PROVE Assente(n)'
    BY <1>16, <2>3 DEF AtenderSubscribe, Desenfileirar, Assente, Concedido, Cancela
  <2>4. ASSUME Sustenta(t, n) PROVE Assente(n)' \/ Sustenta(t, n)'
    <3>1. n \in topicos[t] /\ \A u \in Threads : ~Cancela(u, n)'
      BY <1>16, <2>4 DEF AtenderSubscribe, Desenfileirar, Sustenta, Cancela, SeraDesfeito
    <3>2. CASE r = "falha"
      BY <1>16, <3>1, <3>2 DEF AtenderSubscribe, Desenfileirar, Sustenta, SeraDesfeito
    <3>3. CASE r = "sucesso"
      <4>1. qos'[t][n] = g[n]
        BY <1>16, <3>1 DEF AtenderSubscribe, Desenfileirar
      <4>2. CASE g[n] = MQTT_BAD_SUBSCRIBE
        <5>1. SeraDesfeito(t)'
          BY <1>16, <3>1, <3>3, <4>1, <4>2 DEF AtenderSubscribe, Desenfileirar, SeraDesfeito, Insuficiente
        <5>2. QED
          BY <1>16, <3>1, <5>1 DEF AtenderSubscribe, Desenfileirar, Sustenta
      <4>3. CASE g[n] # MQTT_BAD_SUBSCRIBE
        BY <1>16, <3>1, <4>3 DEF AtenderSubscribe, Desenfileirar, Assente, Concedido
      <4>4. QED
        BY <4>2, <4>3
    <3>4. QED
      BY <3>2, <3>3
  <2>5. QED
    BY <2>1, <2>2, <2>3, <2>4
<1>17. ASSUME NEW t \in Threads, NEW r \in {"sucesso", "falha"},
             AtenderUnsubscribe(t, r)
      PROVE MapInv'
  <2> SUFFICES ASSUME NEW n \in Topicos, callback_map'[n] # Nenhum
               PROVE  Assente(n)' \/ \E u \in Threads : Sustenta(u, n)'
    BY DEF MapInv
  <2>1. Assente(n) \/ \E u \in Threads : Sustenta(u, n)
    BY <1>17 DEF AtenderUnsubscribe, Desenfileirar, MapInv
  <2>2. ASSUME NEW u \in Threads, u # t, Sustenta(u, n) PROVE Sustenta(u, n)'
    BY <1>17, <2>2 DEF AtenderUnsubscribe, Desenfileirar, Sustenta, Cancela, SeraDesfeito
  <2>3. ASSUME Sustenta(t, n) PROVE Sustenta(t, n)'
    BY <1>17, <2>3 DEF AtenderUnsubscribe, Desenfileirar, Sustenta, Cancela, SeraDesfeito
  <2>4. ASSUME Assente(n) PROVE Assente(n)'
    BY <1>17, <2>4 DEF AtenderUnsubscribe, Desenfileirar, Assente, Concedido, Cancela
  <2>5. QED
    BY <2>1, <2>2, <2>3, <2>4
<1>18. ASSUME NEW l \in LibThreads, MessageStep(l) PROVE MapInv'
  <2>1. /\ UNCHANGED <<pc, topicos, callback_map, fila, antes, resposta, qos>>
        /\ UNCHANGED <<inscrito, perdidos>>
    BY <1>18 DEF MessageStep, Chega, Procurar, Tratar
  <2>2. QED
    BY <2>1 DEF MapInv, Sustenta, Assente, Concedido, Cancela, SeraDesfeito
<1>19. CASE Ligar
  <2>1. UNCHANGED <<pc, topicos, callback_map, fila, antes, resposta, qos>> /\ UNCHANGED <<inscrito, perdidos>>
    BY <1>19 DEF Ligar, CLEANSESSION
  <2>2. QED
    BY <2>1 DEF MapInv, Sustenta, Assente, Concedido, Cancela, SeraDesfeito
<1>20. CASE Desligar
  BY <1>20 DEF Desligar,
     MapInv, Sustenta, Assente, Concedido, Cancela, SeraDesfeito
<1>21. CASE LigarSemSessao
  BY <1>21 DEF LigarSemSessao,
     MapInv, Sustenta, Assente, Concedido, Cancela, SeraDesfeito
<1>22. CASE UNCHANGED vars
  BY <1>22 DEF vars,
     MapInv, Sustenta, Assente, Concedido, Cancela, SeraDesfeito
<1>23. ASSUME NEW t \in Threads, Call(t) PROVE MapInv'
  BY <1>1, <1>2, <1>14, <1>15, <1>23 DEF Call
<1>24. QED
  BY <1>3, <1>4, <1>5, <1>6, <1>7, <1>8, <1>9, <1>10, <1>11, <1>12, <1>13,
     <1>16, <1>17, <1>18, <1>19, <1>20, <1>21, <1>22, <1>23
     DEF Next, ThreadStep, BrokerStep, Atender, AnswerStep

\* Every step keeps what a call has promised its exclusive topics.
LEMMA StepOwner == TypeOK /\ RequestInv /\ OwnerInv /\ [Next]_vars => OwnerInv'
<1> SUFFICES ASSUME TypeOK, RequestInv, OwnerInv, [Next]_vars PROVE OwnerInv'
  OBVIOUS
<1> USE DEF TypeOK, RequestInv, Subscribing, Unsubscribing, Pedindo,
            callVars, contextVars, libraryVars, brokerVars, messageVars
<1>1. ASSUME NEW t \in Threads, VetorVazio(t) PROVE OwnerInv'
  BY <1>1 DEF VetorVazio,
     OwnerInv, Cumpre, CallInv, Concedido, Nomeia, Exclusivo, SeraDesfeito, SemRecusa
<1>2. ASSUME NEW t \in Threads, DesinscricaoRecusada(t) PROVE OwnerInv'
  BY <1>2 DEF DesinscricaoRecusada,
     OwnerInv, Cumpre, CallInv, Concedido, Nomeia, Exclusivo, SeraDesfeito, SemRecusa
<1>3. ASSUME NEW t \in Threads, SubscribeAceito(t) PROVE OwnerInv'
  BY <1>3 DEF SubscribeAceito, Enfileirar,
     OwnerInv, Cumpre, CallInv, Concedido, Nomeia, Exclusivo, SeraDesfeito, SemRecusa
<1>4. ASSUME NEW t \in Threads, SubscribeRecusado(t) PROVE OwnerInv'
  BY <1>4 DEF SubscribeRecusado,
     OwnerInv, Cumpre, CallInv, Concedido, Nomeia, Exclusivo, SeraDesfeito, SemRecusa
<1>5. ASSUME NEW t \in Threads, DesfazerInsercao(t) PROVE OwnerInv'
  BY <1>5 DEF DesfazerInsercao, Apagar, Retornar,
     OwnerInv, Cumpre, CallInv, Concedido, Nomeia, Exclusivo, SeraDesfeito, SemRecusa
<1>6. ASSUME NEW t \in Threads, ApagarCallbacks(t) PROVE OwnerInv'
  BY <1>6 DEF ApagarCallbacks, Apagar,
     OwnerInv, Cumpre, CallInv, Concedido, Nomeia, Exclusivo, SeraDesfeito, SemRecusa
<1>7. ASSUME NEW t \in Threads, Esperar(t) PROVE OwnerInv'
  BY <1>7 DEF Esperar, Retornar,
     OwnerInv, Cumpre, CallInv, Concedido, Nomeia, Exclusivo, SeraDesfeito, SemRecusa
<1>8. ASSUME NEW t \in Threads, Descartar(t) PROVE OwnerInv'
  BY <1>8 DEF Descartar, Desenfileirar,
     OwnerInv, Cumpre, CallInv, Concedido, Nomeia, Exclusivo, SeraDesfeito, SemRecusa
<1>9. ASSUME NEW t \in Threads, SubscribeSucesso(t) \/ NotificarFalha(t) PROVE OwnerInv'
  <2>1. CASE SubscribeSucesso(t)
    BY <2>1 DEF SubscribeSucesso, NotificarUm,
       OwnerInv, Cumpre, CallInv, Concedido, Nomeia, Exclusivo, SeraDesfeito, SemRecusa
  <2>2. CASE NotificarFalha(t)
    BY <2>2 DEF NotificarFalha, NotificarUm,
       OwnerInv, Cumpre, CallInv, Concedido, Nomeia, Exclusivo, SeraDesfeito, SemRecusa
  <2>3. QED
    BY <1>9, <2>1, <2>2
<1>10. ASSUME NEW t \in Threads, SubscribeInsuficiente(t) PROVE OwnerInv'
  BY <1>10 DEF SubscribeInsuficiente, Desfazer, Apagar,
     OwnerInv, Cumpre, CallInv, Concedido, Nomeia, Exclusivo, SeraDesfeito, SemRecusa
<1>11. ASSUME NEW t \in Threads, SubscribeFalha(t) PROVE OwnerInv'
  BY <1>11 DEF SubscribeFalha, Desfazer, Apagar,
     OwnerInv, Cumpre, CallInv, Concedido, Nomeia, Exclusivo, SeraDesfeito, SemRecusa
<1>12. ASSUME NEW t \in Threads, UnsubscribeSucesso(t) PROVE OwnerInv'
  BY <1>12 DEF UnsubscribeSucesso, NotificarUm,
     OwnerInv, Cumpre, CallInv, Concedido, Nomeia, Exclusivo, SeraDesfeito, SemRecusa
<1>13. ASSUME NEW t \in Threads, UnsubscribeFalha(t) PROVE OwnerInv'
  BY <1>13 DEF UnsubscribeFalha, NotificarUm,
     OwnerInv, Cumpre, CallInv, Concedido, Nomeia, Exclusivo, SeraDesfeito, SemRecusa
<1>14. ASSUME NEW t \in Threads, NEW S \in SUBSET Alcance[t],
             Desinscrever(t, S)
      PROVE OwnerInv'
  BY <1>14 DEF Desinscrever, Chamar, Enfileirar,
     OwnerInv, Cumpre, CallInv, Concedido, Nomeia, Exclusivo, SeraDesfeito, SemRecusa
<1>15. ASSUME NEW t \in Threads, NEW S \in (SUBSET Alcance[t]) \ {{}}, NEW cb \in [Topicos -> Callbacks],
             Inscrever(t, S, cb)
      PROVE OwnerInv'
  BY <1>15 DEF Inscrever, Chamar,
     OwnerInv, Cumpre, CallInv, Concedido, Nomeia, Exclusivo, SeraDesfeito, SemRecusa
<1>16. ASSUME NEW t \in Threads, NEW g \in [Topicos -> QosDevolvidos],
             NEW r \in {"sucesso", "falha"},
             AtenderSubscribe(t, g, r)
      PROVE OwnerInv'
  <2> SUFFICES ASSUME NEW u \in Threads, NEW n \in Topicos, Exclusivo(u, n)
               PROVE  Cumpre(u, n)'
    BY DEF Exclusivo, OwnerInv
  <2>1. Cumpre(u, n)
    BY DEF OwnerInv
  <2>2. CASE u # t \/ n \notin topicos[t]
    <3>1. n \notin topicos[t]
      BY <2>2 DEF Exclusivo
    <3>2. Concedido(n)' <=> Concedido(n)
      BY <1>16, <3>1 DEF AtenderSubscribe, Concedido
    <3>3. QED
      BY <1>16, <2>1, <2>2, <3>1, <3>2
         DEF AtenderSubscribe, Desenfileirar, Cumpre, Nomeia, CallInv, SeraDesfeito, SemRecusa
  <2>3. CASE u = t /\ n \in topicos[t]
    <3>1. qos'[t][n] = g[n]
      BY <1>16, <2>3 DEF AtenderSubscribe
    <3>2. resposta'[t] = "sucesso" /\ ~SeraDesfeito(t)' => Concedido(n)'
      BY <1>16, <2>3, <3>1 DEF AtenderSubscribe, SeraDesfeito, Insuficiente, Concedido
    <3>3. QED
      BY <1>16, <2>1, <2>3, <3>2
         DEF AtenderSubscribe, Desenfileirar, Cumpre, Nomeia, CallInv, SemRecusa
  <2>4. QED
    BY <2>2, <2>3
<1>17. ASSUME NEW t \in Threads, NEW r \in {"sucesso", "falha"},
             AtenderUnsubscribe(t, r)
      PROVE OwnerInv'
  BY <1>17 DEF AtenderUnsubscribe, Desenfileirar,
     OwnerInv, Cumpre, CallInv, Concedido, Nomeia, Exclusivo, SeraDesfeito, SemRecusa
<1>18. ASSUME NEW l \in LibThreads, MessageStep(l) PROVE OwnerInv'
  BY <1>18 DEF MessageStep, Chega, Procurar, Tratar,
     OwnerInv, Cumpre, CallInv, Concedido, Nomeia, Exclusivo, SeraDesfeito, SemRecusa
<1>19. CASE Ligar
  <2>1. UNCHANGED <<callVars, contextVars, callback_map, libraryVars>> /\ UNCHANGED <<inscrito, perdidos>>
    BY <1>19 DEF Ligar, CLEANSESSION
  <2>2. QED
    BY <2>1 DEF OwnerInv, Cumpre, CallInv, Concedido, Nomeia, Exclusivo, SeraDesfeito, SemRecusa
<1>20. CASE Desligar
  BY <1>20 DEF Desligar,
     OwnerInv, Cumpre, CallInv, Concedido, Nomeia, Exclusivo, SeraDesfeito, SemRecusa
<1>21. CASE LigarSemSessao
  BY <1>21 DEF LigarSemSessao,
     OwnerInv, Cumpre, CallInv, Concedido, Nomeia, Exclusivo, SeraDesfeito, SemRecusa
<1>22. CASE UNCHANGED vars
  BY <1>22 DEF vars,
     OwnerInv, Cumpre, CallInv, Concedido, Nomeia, Exclusivo, SeraDesfeito, SemRecusa
<1>23. ASSUME NEW t \in Threads, Call(t) PROVE OwnerInv'
  BY <1>1, <1>2, <1>14, <1>15, <1>23 DEF Call
<1>24. QED
  BY <1>3, <1>4, <1>5, <1>6, <1>7, <1>8, <1>9, <1>10, <1>11, <1>12, <1>13,
     <1>16, <1>17, <1>18, <1>19, <1>20, <1>21, <1>22, <1>23
     DEF Next, ThreadStep, BrokerStep, Atender, AnswerStep

\* Only the loss of a session by the broker leaves subscriptions lost.
LEMMA StepSession == SessionInv /\ [Next]_vars => SessionInv'
<1> SUFFICES ASSUME SessionInv, [Next]_vars PROVE SessionInv'
  OBVIOUS
<1> USE DEF SessionInv
<1>1. CASE LigarSemSessao
  BY <1>1 DEF LigarSemSessao
<1>2. ASSUME perdidos' \subseteq perdidos PROVE SessionInv'
  BY <1>2
<1>3. CASE UNCHANGED vars
  BY <1>3 DEF vars, brokerVars
<1>4. ASSUME NEW l \in LibThreads, MessageStep(l) PROVE UNCHANGED perdidos
  BY <1>4 DEF MessageStep, Chega, Procurar, Tratar, brokerVars
<1>5. ASSUME NEW t \in Threads, BrokerStep(t) PROVE perdidos' \subseteq perdidos
  BY <1>5 DEF BrokerStep, Atender, AtenderSubscribe, AtenderUnsubscribe, Descartar,
         brokerVars
<1>6. ASSUME NEW t \in Threads, Call(t) \/ ThreadStep(t) \/ AnswerStep(t)
      PROVE  UNCHANGED perdidos
  BY <1>6 DEF Call, ThreadStep, AnswerStep, VetorVazio, DesinscricaoRecusada,
         Desinscrever, Inscrever, SubscribeAceito, SubscribeRecusado,
         DesfazerInsercao, ApagarCallbacks, Esperar, SubscribeSucesso,
         SubscribeInsuficiente, SubscribeFalha, NotificarFalha, UnsubscribeSucesso,
         UnsubscribeFalha, NotificarUm, Desfazer, brokerVars
<1>7. CASE Ligar \/ Desligar
  BY <1>7 DEF Ligar, Desligar
<1>8. QED
  BY <1>1, <1>2, <1>3, <1>4, <1>5, <1>6, <1>7 DEF Next

\* A call that waits keeps its request in the library until it is answered, and
\* its answer until it takes it.
LEMMA StepStuck == TypeOK /\ RequestInv /\ NoCallStuck /\ [Next]_vars => NoCallStuck'
<1> SUFFICES ASSUME TypeOK, RequestInv, NoCallStuck, [Next]_vars PROVE NoCallStuck'
  OBVIOUS
<1> USE DEF TypeOK, Subscribing, Unsubscribing, Pedindo, NoCallStuck,
            callVars, contextVars, libraryVars, brokerVars, messageVars
<1>1. ASSUME NEW t \in Threads, Call(t) PROVE NoCallStuck'
  BY <1>1 DEF Call, VetorVazio, DesinscricaoRecusada, Desinscrever, Inscrever, Chamar, Enfileirar
<1>2. ASSUME NEW t \in Threads, SubscribeAceito(t) \/ ApagarCallbacks(t) PROVE NoCallStuck'
  BY <1>2 DEF SubscribeAceito, ApagarCallbacks, Enfileirar
<1>3. ASSUME NEW t \in Threads, SubscribeRecusado(t) PROVE NoCallStuck'
  BY <1>3 DEF SubscribeRecusado
<1>4. ASSUME NEW t \in Threads, DesfazerInsercao(t) \/ Esperar(t) PROVE NoCallStuck'
  BY <1>4 DEF DesfazerInsercao, Esperar, Retornar
<1>5. ASSUME NEW t \in Threads, BrokerStep(t) PROVE NoCallStuck'
  BY <1>5 DEF BrokerStep, Atender, AtenderSubscribe, AtenderUnsubscribe, Descartar, Desenfileirar
<1>6. ASSUME NEW t \in Threads, AnswerStep(t) PROVE NoCallStuck'
  BY <1>6 DEF AnswerStep, SubscribeSucesso, SubscribeInsuficiente, SubscribeFalha,
     NotificarFalha, UnsubscribeSucesso, UnsubscribeFalha, NotificarUm, Desfazer
<1>7. ASSUME UNCHANGED callVars, UNCHANGED contextVars, UNCHANGED libraryVars PROVE NoCallStuck'
  BY <1>7
<1>8. ASSUME NEW l \in LibThreads, MessageStep(l) PROVE NoCallStuck'
  BY <1>7, <1>8 DEF MessageStep, Chega, Procurar, Tratar
<1>9. CASE Ligar \/ LigarSemSessao \/ Desligar \/ UNCHANGED vars
  BY <1>7, <1>9 DEF Ligar, LigarSemSessao, Desligar, vars
<1>10. QED
  BY <1>1, <1>2, <1>3, <1>4, <1>5, <1>6, <1>8, <1>9 DEF Next, ThreadStep

-----------------------------------------------------------------------------
\* The inductive invariant holds in every reachable state.
THEOREM Invariance == Spec => []IInv
<1>1. IInv /\ [Next]_vars => IInv'
  BY StepType, StepRequest, StepStuck, StepMap, StepOwner, StepSession DEF IInv
<1>2. QED
  BY InitIInv, <1>1, PTL DEF Spec

\* Every variable keeps its type.
THEOREM TypeCorrect == Spec => []TypeOK
<1>1. IInv => TypeOK
  BY DEF IInv
<1>2. QED
  BY <1>1, Invariance, PTL

\* With no call under way, every callback of the map is of a topic subscribed
\* in the broker's session, or in one that the broker itself has lost.
THEOREM CallbacksAreReachable == Spec => []HandlersAreSubscribed
<1>1. IInv => HandlersAreSubscribed
  BY DEF IInv, TypeOK, RequestInv, MapInv, HandlersAreSubscribed, Sustenta,
         Assente, SeraDesfeito, Pedindo
<1>2. QED
  BY <1>1, Invariance, PTL

\* subscribe() and unsubscribe() return true only of what is then in effect.
THEOREM SuccessHolds == Spec => []SuccessIsInEffect
<1>1. IInv => SuccessIsInEffect
  BY DEF IInv, OwnerInv, Cumpre, SuccessIsInEffect
<1>2. QED
  BY <1>1, Invariance, PTL

\* A message of a subscription in effect, or on its way, finds its callback.
THEOREM MessagesFindCallbacks == Spec => NoMessageDropped
<1> DEFINE Handled ==
      \A l \in LibThreads, t \in Threads :
        /\ lib[l] = "lookup" /\ lib'[l] = "call"
        /\ Exclusivo(t, mensagem[l]) /\ EmVigor(t, mensagem[l])
        => callback'[l] # Nenhum
<1>1. IInv /\ [Next]_vars => [Handled]_vars
  <2> SUFFICES ASSUME IInv, Next,
                      NEW l \in LibThreads, NEW t \in Threads,
                      lib[l] = "lookup", lib'[l] = "call",
                      Exclusivo(t, mensagem[l]), EmVigor(t, mensagem[l])
               PROVE  callback'[l] # Nenhum
    OBVIOUS
  <2> USE DEF IInv, TypeOK
  <2>0. mensagem[l] \in Topicos
    BY DEF Exclusivo
  <2>1. callback_map[mensagem[l]] # Nenhum
    BY <2>0 DEF OwnerInv, Cumpre, CallInv, Nomeia, EmVigor
  <2>2. callback'[l] = callback_map[mensagem[l]]
    <3>1. CASE Procurar(l)
      BY <2>0, <3>1 DEF Procurar, Consultar
    <3>2. ASSUME NEW k \in LibThreads, MessageStep(k) PROVE Procurar(l)
      BY <3>2 DEF MessageStep, Chega, Procurar, Tratar
    <3>3. CASE UNCHANGED messageVars
      BY <3>3 DEF messageVars
    <3>4. QED
      BY <3>1, <3>2, <3>3
         DEF Next, Call, ThreadStep, BrokerStep, Atender, AnswerStep, VetorVazio,
             DesinscricaoRecusada, Desinscrever, Inscrever, SubscribeAceito,
             SubscribeRecusado, DesfazerInsercao, ApagarCallbacks, Esperar,
             AtenderSubscribe, AtenderUnsubscribe, Descartar, Ligar, Desligar,
             LigarSemSessao, SubscribeSucesso, SubscribeInsuficiente, SubscribeFalha,
             NotificarFalha, UnsubscribeSucesso, UnsubscribeFalha, NotificarUm, Desfazer
  <2>3. QED
    BY <2>1, <2>2
<1>2. QED
  BY <1>1, Invariance, PTL DEF Spec, NoMessageDropped
-----------------------------------------------------------------------------
(* Topics without wildcards.                                               *)

\* No level of the filter is a wildcard.
Literal(filtro) == \A i \in 1 .. Len(filtro) : filtro[i] \notin {"+", "#"}

\* A filter without wildcards matches the name equal to it, and no other.
LEMMA LiteralCasa ==
  ASSUME NEW f \in Seq(STRING), NEW n \in Seq(STRING), Literal(f)
  PROVE  Casa(f, n) <=> f = n
<1>1. ~(f # <<>> /\ f[Len(f)] = "#")
  BY DEF Literal
<1>2. Casa(f, n) <=> Len(n) = Len(f) /\ \A i \in 1 .. Len(f) : f[i] \in {"+", n[i]}
  BY <1>1 DEF Casa
<1>3. Casa(f, n) => Len(n) = Len(f) /\ \A i \in 1 .. Len(f) : f[i] = n[i]
  BY <1>2 DEF Literal
<1>4. QED
  BY <1>2, <1>3

\* What MatchingMessageHandled says of the filters that have no wildcard.
PlainMessageHandled ==
  [][\A l \in LibThreads, t \in Threads, f \in Topicos :
       /\ lib[l] = "lookup" /\ lib'[l] = "call"
       /\ Literal(f) /\ <<f, mensagem[l]>> \in Corresponde
       /\ Exclusivo(t, f) /\ promessa[f] = "inscrito"
       => callback'[l] # Nenhum]_vars

\* With topics matched as MQTTAsync.h says, every message that matches a filter
\* without wildcards that subscribe() subscribed finds its callback, also when
\* filters with wildcards are subscribed beside it: only those lose messages.
THEOREM PlainTopicsAreHandled ==
  ASSUME Topicos \subseteq Seq(STRING), Nomes \subseteq Seq(STRING),
         Corresponde \subseteq {p \in Topicos \X Nomes : Casa(p[1], p[2])}
  PROVE  Spec => PlainMessageHandled
<1> DEFINE Plain ==
      \A l \in LibThreads, t \in Threads, f \in Topicos :
        /\ lib[l] = "lookup" /\ lib'[l] = "call"
        /\ Literal(f) /\ <<f, mensagem[l]>> \in Corresponde
        /\ Exclusivo(t, f) /\ promessa[f] = "inscrito"
        => callback'[l] # Nenhum
<1> DEFINE Handled ==
      \A l \in LibThreads, t \in Threads :
        /\ lib[l] = "lookup" /\ lib'[l] = "call"
        /\ Exclusivo(t, mensagem[l]) /\ EmVigor(t, mensagem[l])
        => callback'[l] # Nenhum
<1>1. ASSUME NEW f \in Topicos, NEW n, Literal(f), <<f, n>> \in Corresponde PROVE f = n
  BY <1>1, LiteralCasa
<1>2. [Handled]_vars => [Plain]_vars
  BY <1>1 DEF EmVigor
<1>3. QED
  BY <1>2, MessagesFindCallbacks, PTL DEF NoMessageDropped, PlainMessageHandled

-----------------------------------------------------------------------------
(* The contexts of the calls.                                              *)

\* subscribe() and unsubscribe() never wait for an answer that is not to come.
THEOREM CallsAreNotStuck == Spec => []NoCallStuck
<1>1. IInv => NoCallStuck
  BY DEF IInv
<1>2. QED
  BY <1>1, Invariance, PTL

\* The answer, the return of a result and the refusal of a request are steps of
\* the promise, and nothing else touches a context.
LEMMA StepContexto ==
  TypeOK /\ RequestInv /\ [Next]_vars => Contexto!Next \/ UNCHANGED Contexto!vars
<1> SUFFICES ASSUME TypeOK, RequestInv, [Next]_vars
             PROVE  Contexto!Next \/ UNCHANGED Contexto!vars
  OBVIOUS
<1> DEFINE Fica == UNCHANGED Contexto!vars
<1> USE DEF TypeOK, Pedindo, callVars, contextVars, libraryVars, Contexto!vars
<1>1. ASSUME NEW t \in Threads, VetorVazio(t) \/ DesinscricaoRecusada(t)
      PROVE  Contexto!Refuse(t)
  BY <1>1 DEF VetorVazio, DesinscricaoRecusada, Contexto!Refuse
<1>2. ASSUME NEW t \in Threads, DesfazerInsercao(t) PROVE Contexto!Refuse(t)
  BY <1>2 DEF DesfazerInsercao, Retornar, Contexto!Refuse
<1>3. ASSUME NEW t \in Threads, NEW S \in SUBSET Topicos, Desinscrever(t, S)
      PROVE  Contexto!Accept(t)
  BY <1>3 DEF Desinscrever, Chamar, RequestInv, Contexto!Accept, Contexto!Uso!Accept
<1>4. ASSUME NEW t \in Threads, SubscribeAceito(t) PROVE Contexto!Accept(t)
  BY <1>4 DEF SubscribeAceito, RequestInv, Contexto!Accept, Contexto!Uso!Accept
<1>5. ASSUME NEW t \in Threads, Esperar(t) PROVE Contexto!Return(t)
  BY <1>5 DEF Esperar, Retornar, Contexto!Return, Contexto!Uso!Take
<1>6. ASSUME NEW t \in Threads, NEW ok \in BOOLEAN, resposta[t] # "nenhuma", NotificarUm(t, ok)
      PROVE  Contexto!Answer(t, ok)
  BY <1>6 DEF NotificarUm, RequestInv, Contexto!Answer, Contexto!Uso!Answer
<1>7. ASSUME NEW t \in Threads, NEW S, NEW cb, Inscrever(t, S, cb) PROVE Fica
  BY <1>7 DEF Inscrever, Chamar
<1>8. ASSUME NEW t \in Threads, SubscribeRecusado(t) \/ ApagarCallbacks(t) PROVE Fica
  BY <1>8 DEF SubscribeRecusado, ApagarCallbacks
<1>9. ASSUME UNCHANGED callVars, UNCHANGED contextVars PROVE Fica
  BY <1>9
<1>10. ASSUME NEW t \in Threads, BrokerStep(t) PROVE Fica
  BY <1>9, <1>10 DEF BrokerStep, Atender, AtenderSubscribe, AtenderUnsubscribe, Descartar
<1>11. ASSUME NEW l \in LibThreads, MessageStep(l) PROVE Fica
  BY <1>9, <1>11 DEF MessageStep, Chega, Procurar, Tratar
<1>12. CASE Ligar \/ LigarSemSessao \/ Desligar \/ UNCHANGED vars
  BY <1>9, <1>12 DEF Ligar, LigarSemSessao, Desligar, vars
<1>13. ASSUME NEW t \in Threads, Call(t) PROVE Contexto!Next \/ Fica
  BY <1>1, <1>3, <1>7, <1>13 DEF Call, Contexto!Next
<1>14. ASSUME NEW t \in Threads, ThreadStep(t) PROVE Contexto!Next \/ Fica
  BY <1>2, <1>4, <1>5, <1>8, <1>14 DEF ThreadStep, Contexto!Next
<1>15. ASSUME NEW t \in Threads, AnswerStep(t) PROVE Contexto!Next \/ Fica
  <2>1. CASE SubscribeInsuficiente(t) \/ SubscribeFalha(t)
    BY <1>9, <2>1 DEF SubscribeInsuficiente, SubscribeFalha, Desfazer
  <2>2. CASE resposta[t] # "nenhuma" /\ \E ok \in BOOLEAN : NotificarUm(t, ok)
    BY <1>6, <2>2 DEF Contexto!Next
  <2>3. QED
    BY <1>15, <2>1, <2>2 DEF AnswerStep, SubscribeSucesso, NotificarFalha,
       UnsubscribeSucesso, UnsubscribeFalha
<1>16. QED
  BY <1>10, <1>11, <1>12, <1>13, <1>14, <1>15 DEF Next

\* subscribe() and unsubscribe() return the result of their own request.
THEOREM InscricoesUsaContextos == Spec => UsaContextos
<1>1. Init => Contexto!Init
  BY DEF Init, Pedindo, Contexto!Init, Contexto!Uso!Init
<1>2. IInv => TypeOK /\ RequestInv
  BY DEF IInv
<1>3. QED
  BY <1>1, <1>2, StepContexto, Invariance, PTL DEF Spec, UsaContextos, Contexto!Spec
=============================================================================

---------------------------- MODULE ConexaoProofs ----------------------------
(***************************************************************************)
(* Conexao, for any set of threads: the inductive invariant and the safety *)
(* properties it gives.                                                    *)
(***************************************************************************)
EXTENDS Conexao, TLAPS

USE ConstAssumption

\* The constructed client satisfies the invariant.
LEMMA InitIInv == Init => IInv
<1> SUFFICES ASSUME Init PROVE IInv
  OBVIOUS
<1> USE DEF Init, Ops, PCs, Connecting, Disconnecting
<1>1. TypeOK
  BY DEF TypeOK
<1>2. LockInv /\ EveryCommandAwaited /\ CommandInv /\ FinishedInv
  BY DEF LockInv, EveryCommandAwaited, CommandInv, FinishedInv
<1>3. CallbackPreconditions /\ RegisteredInv /\ LifetimeInv
  BY DEF CallbackPreconditions, RegisteredInv, LifetimeInv
<1>4. HistoryInv /\ CallResultObserved /\ WaitInv
  BY DEF HistoryInv, InCall, CallResultObserved, WaitInv, WaitsOn
<1>5. QED
  BY <1>1, <1>2, <1>3, <1>4 DEF IInv

\* Every step keeps the types.
LEMMA StepType == TypeOK /\ CommandInv /\ [Next]_vars => TypeOK'
<1> SUFFICES ASSUME TypeOK, CommandInv, [Next]_vars PROVE TypeOK'
  OBVIOUS
<1> USE DEF TypeOK, Ops, PCs, Connecting, Disconnecting, Goto, WaitsOn, Link, programVars,
            contextVars, libraryVars, historyVars
<1>1. ASSUME NEW t \in Threads, Conectar(t) PROVE TypeOK'
  BY <1>1 DEF Conectar, Chamar, EmUso
<1>2. ASSUME NEW t \in Threads, TravarConexao(t) PROVE TypeOK'
  BY <1>2 DEF TravarConexao, Travar
<1>3. ASSUME NEW t \in Threads, JaConectado(t) PROVE TypeOK'
  BY <1>3 DEF JaConectado, Sair, Retornar
<1>4. ASSUME NEW t \in Threads, AindaNao(t) PROVE TypeOK'
  BY <1>4 DEF AindaNao
<1>5. ASSUME NEW t \in Threads, SetCallbacks(t) PROVE TypeOK'
  BY <1>5 DEF SetCallbacks
<1>6. ASSUME NEW t \in Threads, ConexaoRecusada(t) PROVE TypeOK'
  BY <1>6 DEF ConexaoRecusada, Sair, Retornar
<1>7. ASSUME NEW t \in Threads, ConnectAceito(t) PROVE TypeOK'
  BY <1>7 DEF ConnectAceito, Aceitar
<1>8. ASSUME NEW t \in Threads, Desconectar(t) PROVE TypeOK'
  BY <1>8 DEF Desconectar, Chamar, EmUso
<1>9. ASSUME NEW t \in Threads, NaoConectado(t) PROVE TypeOK'
  BY <1>9 DEF NaoConectado, Retornar
<1>10. ASSUME NEW t \in Threads, AindaConectado(t) PROVE TypeOK'
  BY <1>10 DEF AindaConectado
<1>11. ASSUME NEW t \in Threads, TravarDesconexao(t) PROVE TypeOK'
  BY <1>11 DEF TravarDesconexao, Travar
<1>12. ASSUME NEW t \in Threads, DesconexaoRecusada(t) PROVE TypeOK'
  BY <1>12 DEF DesconexaoRecusada, Sair, Retornar
<1>13. ASSUME NEW t \in Threads, DisconnectAceito(t) PROVE TypeOK'
  BY <1>13 DEF DisconnectAceito, Aceitar
<1>14. ASSUME NEW t \in Threads, Destrutor(t) PROVE TypeOK'
  BY <1>14 DEF Destrutor, Chamar, EmUso
<1>15. ASSUME NEW t \in Threads, Destruir(t) PROVE TypeOK'
  BY <1>15 DEF Destruir
<1>16. ASSUME NEW t \in Threads, Conecta(t) PROVE TypeOK'
  BY <1>16 DEF Conecta, Ligar
<1>17. ASSUME NEW t \in Threads, Desconecta(t) PROVE TypeOK'
  BY <1>17 DEF Desconecta, Ligar
<1>18. ASSUME NEW t \in Threads, Fracassa(t) PROVE TypeOK'
  BY <1>18 DEF Fracassa
<1>19. ASSUME NEW t \in Threads, Sucesso(t) PROVE TypeOK'
  BY <1>19 DEF Sucesso, Responder
<1>20. ASSUME NEW t \in Threads, Falha(t) PROVE TypeOK'
  BY <1>20 DEF Falha, Responder
<1>21. ASSUME NEW t \in Threads, NEW op \in Ops, Esperar(t, op) PROVE TypeOK'
  BY <1>21 DEF Esperar, Sair, Retornar
<1>22. CASE PerdeConexao
  BY <1>22 DEF PerdeConexao, Ligar
<1>23. CASE Perdida
  BY <1>23 DEF Perdida
<1>24. CASE UNCHANGED vars
  BY <1>24 DEF vars
<1>25. QED
  BY <1>1, <1>2, <1>3, <1>4, <1>5, <1>6, <1>7, <1>8, <1>9, <1>10, <1>11, <1>12,
     <1>13, <1>14, <1>15, <1>16, <1>17, <1>18, <1>19, <1>20, <1>21, <1>22, <1>23, <1>24
     DEF Next, ThreadStep, ConnectStep, DisconnectStep, LibraryStep, Encerrado, Ops

\* Every step preserves the inductive invariant.
LEMMA StepIInv == IInv /\ [Next]_vars => IInv'
<1> SUFFICES ASSUME IInv, [Next]_vars PROVE IInv'
  OBVIOUS
<1>t. TypeOK /\ TypeOK'
  BY StepType DEF IInv
<1> DEFINE Rest ==
      /\ LockInv /\ EveryCommandAwaited /\ CommandInv /\ FinishedInv
      /\ CallbackPreconditions /\ RegisteredInv /\ LifetimeInv /\ HistoryInv
      /\ CallResultObserved /\ WaitInv
<1> USE <1>t DEF TypeOK, IInv, LockInv, EveryCommandAwaited, CommandInv,
      FinishedInv, CallbackPreconditions, RegisteredInv, LifetimeInv,
      HistoryInv, CallResultObserved, WaitInv, Ops, PCs, Connecting, Disconnecting,
      InCall, Meta, Link, WaitsOn, Goto, programVars, contextVars, libraryVars,
      historyVars
<1>1. ASSUME NEW t \in Threads, Conectar(t) PROVE Rest'
  BY <1>1 DEF Conectar, Chamar, EmUso
<1>2. ASSUME NEW t \in Threads, TravarConexao(t) PROVE Rest'
  BY <1>2 DEF TravarConexao, Travar
<1>3. ASSUME NEW t \in Threads, JaConectado(t) PROVE Rest'
  BY <1>3 DEF JaConectado, Sair, Retornar
<1>4. ASSUME NEW t \in Threads, AindaNao(t) PROVE Rest'
  BY <1>4 DEF AindaNao
<1>5. ASSUME NEW t \in Threads, SetCallbacks(t) PROVE Rest'
  BY <1>5 DEF SetCallbacks
<1>6. ASSUME NEW t \in Threads, ConexaoRecusada(t) PROVE Rest'
  BY <1>6 DEF ConexaoRecusada, Sair, Retornar
<1>7. ASSUME NEW t \in Threads, ConnectAceito(t) PROVE Rest'
  BY <1>7 DEF ConnectAceito, Aceitar
<1>8. ASSUME NEW t \in Threads, Desconectar(t) PROVE Rest'
  BY <1>8 DEF Desconectar, Chamar, EmUso
<1>9. ASSUME NEW t \in Threads, NaoConectado(t) PROVE Rest'
  BY <1>9 DEF NaoConectado, Retornar
<1>10. ASSUME NEW t \in Threads, AindaConectado(t) PROVE Rest'
  BY <1>10 DEF AindaConectado
<1>11. ASSUME NEW t \in Threads, TravarDesconexao(t) PROVE Rest'
  BY <1>11 DEF TravarDesconexao, Travar
<1>12. ASSUME NEW t \in Threads, DesconexaoRecusada(t) PROVE Rest'
  BY <1>12 DEF DesconexaoRecusada, Sair, Retornar
<1>13. ASSUME NEW t \in Threads, DisconnectAceito(t) PROVE Rest'
  BY <1>13 DEF DisconnectAceito, Aceitar
<1>14. ASSUME NEW t \in Threads, Destrutor(t) PROVE Rest'
  BY <1>14 DEF Destrutor, Chamar, EmUso
<1>15. ASSUME NEW t \in Threads, Destruir(t) PROVE Rest'
  BY <1>15 DEF Destruir
<1>16. ASSUME NEW t \in Threads, Conecta(t) PROVE Rest'
  BY <1>16 DEF Conecta, Ligar
<1>17. ASSUME NEW t \in Threads, Desconecta(t) PROVE Rest'
  BY <1>17 DEF Desconecta, Ligar
<1>18. ASSUME NEW t \in Threads, Fracassa(t) PROVE Rest'
  BY <1>18 DEF Fracassa
<1>19. ASSUME NEW t \in Threads, Sucesso(t) PROVE Rest'
  BY <1>19 DEF Sucesso, Responder
<1>20. ASSUME NEW t \in Threads, Falha(t) PROVE Rest'
  BY <1>20 DEF Falha, Responder
<1>21. ASSUME NEW t \in Threads, NEW op \in Ops, Esperar(t, op) PROVE Rest'
  BY <1>21 DEF Esperar, Sair, Retornar
<1>22. CASE PerdeConexao
  BY <1>22 DEF PerdeConexao, Ligar
<1>23. CASE Perdida
  BY <1>23 DEF Perdida
<1>24. CASE UNCHANGED vars
  BY <1>24 DEF vars
<1>25. QED
  BY <1>1, <1>2, <1>3, <1>4, <1>5, <1>6, <1>7, <1>8, <1>9, <1>10, <1>11, <1>12,
     <1>13, <1>14, <1>15, <1>16, <1>17, <1>18, <1>19, <1>20, <1>21, <1>22, <1>23, <1>24
     DEF Next, ThreadStep, ConnectStep, DisconnectStep, LibraryStep, Encerrado, Ops

-----------------------------------------------------------------------------
\* The inductive invariant holds in every reachable state.
THEOREM Invariance == Spec => []IInv
  BY InitIInv, StepIInv, PTL DEF Spec

\* Every variable keeps its type.
THEOREM TypeCorrect == Spec => []TypeOK
<1>1. IInv => TypeOK
  BY DEF IInv
<1>2. QED
  BY <1>1, Invariance, PTL

\* The comment of Connect::despachar(): no two threads have a connect() or a
\* disconnect() under way at once.
THEOREM CommandsExclude == Spec => []OneCommandAtATime
<1>1. IInv => OneCommandAtATime
  BY DEF IInv, EveryCommandAwaited, OneCommandAtATime
<1>2. QED
  BY <1>1, Invariance, PTL

\* The check of conectado() still holds at setCallbacks() and connect().
THEOREM PreconditionsHold == Spec => []CallbackPreconditions
<1>1. IInv => CallbackPreconditions
  BY DEF IInv
<1>2. QED
  BY <1>1, Invariance, PTL

\* conectar() and desconectar() never return a stale success.
THEOREM SuccessIsObserved == Spec => []CallResultObserved
<1>1. IInv => CallResultObserved
  BY DEF IInv
<1>2. QED
  BY <1>1, Invariance, PTL

\* No command, and so no callback, outlives the wait for it or the client.
THEOREM CommandsAreAwaited == Spec => []EveryCommandAwaited
<1>1. IInv => EveryCommandAwaited
  BY DEF IInv
<1>2. QED
  BY <1>1, Invariance, PTL

\* conectar() and desconectar() never wait in vain, for an answer or for the
\* mutex.
THEOREM CallsAreNotStuck == Spec => []NoCallStuck
<1>1. IInv => NoCallStuck
  <2> SUFFICES ASSUME IInv, NEW t \in Threads, pc[t] # "out", ~Segue(t)
               PROVE  /\ pc[t] \in {"lock_c", "lock_d"}
                      /\ \E u \in Threads \ {t} : conexao_mtx = u /\ Segue(u)
    BY DEF NoCallStuck
  <2>1. ASSUME NEW u \in Threads, pc[u] \in Connecting \cup Disconnecting PROVE Segue(u)
    BY <2>1 DEF IInv, WaitInv, Segue, Pode, Ops, Connecting, Disconnecting
  <2>2. pc[t] \in {"lock_c", "lock_d"} /\ conexao_mtx # NoThread
    BY DEF IInv, WaitInv, Segue, Pode, Ops
  <2>3. PICK u \in Threads : conexao_mtx = u
    BY <2>2 DEF IInv, TypeOK
  <2>4. pc[u] \in Connecting \cup Disconnecting
    BY <2>3 DEF IInv, LockInv
  <2>5. u # t
    BY <2>2, <2>4 DEF Connecting, Disconnecting
  <2>6. QED
    BY <2>1, <2>2, <2>3, <2>4, <2>5
<1>2. QED
  BY <1>1, Invariance, PTL
-----------------------------------------------------------------------------
\* No two threads wait at once, not even on different contexts.
LEMMA OneWaits ==
  ASSUME IInv, NEW t \in Threads, NEW u \in Threads, NEW op \in Ops, NEW o \in Ops,
         WaitsOn(t, op), WaitsOn(u, o)
  PROVE  t = u /\ op = o
  BY DEF IInv, LockInv, WaitsOn, Ops, Connecting, Disconnecting

\* A step that changes neither the contexts nor who waits on them is none of the
\* rendezvous.
LEMMA WaitsStay ==
  ASSUME UNCHANGED <<res, finalizada>>,
         \A u \in Threads, op \in Ops : WaitsOn(u, op)' <=> WaitsOn(u, op)
  PROVE  UNCHANGED Uso!vars
  BY DEF Uso!vars

\* The request, the answer and the end of the wait are steps of the rendezvous,
\* and no other step touches a context.
LEMMA StepUso == IInv /\ [Next]_vars => Uso!Next \/ UNCHANGED Uso!vars
<1> SUFFICES ASSUME IInv, [Next]_vars PROVE Uso!Next \/ UNCHANGED Uso!vars
  OBVIOUS
<1> DEFINE Fica == UNCHANGED Uso!vars
<1>t. TypeOK
  BY DEF IInv
<1> USE DEF Goto
<1>1. ASSUME NEW t \in Threads,
             \/ Conectar(t) \/ TravarConexao(t) \/ JaConectado(t) \/ AindaNao(t)
             \/ SetCallbacks(t) \/ ConexaoRecusada(t)
      PROVE  Fica
  BY <1>1, <1>t, WaitsStay DEF TypeOK, WaitsOn, contextVars, Conectar, TravarConexao, JaConectado,
     AindaNao, SetCallbacks, ConexaoRecusada, Chamar, Travar, Sair, Retornar
<1>2. ASSUME NEW t \in Threads,
             \/ Desconectar(t) \/ NaoConectado(t) \/ AindaConectado(t)
             \/ TravarDesconexao(t) \/ DesconexaoRecusada(t)
      PROVE  Fica
  BY <1>2, <1>t, WaitsStay DEF TypeOK, WaitsOn, contextVars, Desconectar, NaoConectado,
     AindaConectado, TravarDesconexao, DesconexaoRecusada, Chamar, Travar, Sair, Retornar
<1>3. ASSUME NEW t \in Threads, Destrutor(t) \/ Destruir(t) PROVE Fica
  BY <1>3, <1>t, WaitsStay DEF TypeOK, WaitsOn, contextVars, Destrutor, Destruir, Chamar
<1>4. ASSUME NEW t \in Threads, Conecta(t) \/ Desconecta(t) \/ Fracassa(t) PROVE Fica
  BY <1>4, WaitsStay DEF WaitsOn, contextVars, programVars, Conecta, Desconecta, Fracassa
<1>5. CASE PerdeConexao \/ Perdida
  BY <1>5, WaitsStay DEF WaitsOn, contextVars, programVars, PerdeConexao, Perdida
<1>6. ASSUME NEW t \in Threads, NEW op \in Ops, NEW label,
             Aceitar(t, op, label), pc[t] \in {"connect", "disconnect"},
             label = IF op = "connect" THEN "wait_c" ELSE "wait_d"
      PROVE  Uso!Accept(op)
  <2>1. \A u \in Threads, o \in Ops : ~WaitsOn(u, o)
    BY <1>6 DEF IInv, LockInv, WaitsOn, Connecting, Disconnecting
  <2>2. \A o \in Ops : ~finalizada[o]
    BY <2>1 DEF IInv, FinishedInv
  <2>3. \A o \in Ops : (\A u \in Threads : ~WaitsOn(u, o)') <=> o # op
    BY <1>6, <1>t, <2>1 DEF Aceitar, WaitsOn, TypeOK, Ops
  <2>4. UNCHANGED <<res, finalizada>>
    BY <1>6 DEF Aceitar, contextVars
  <2>5. QED
    BY <2>1, <2>2, <2>3, <2>4 DEF Uso!Accept
<1>7. ASSUME NEW t \in Threads, NEW ok \in BOOLEAN, desfecho[t] # "open", Responder(t, ok)
      PROVE  \E op \in Ops : Uso!Answer(op, ok)
  <2>1. PICK op \in Ops : comando[t] = op /\ WaitsOn(t, op)
    BY <1>7, <1>t DEF IInv, CommandInv, EveryCommandAwaited, TypeOK
  <2>2. ~finalizada[op]
    BY <2>1, OneWaits DEF IInv, FinishedInv, Ops
  <2>3. \A u \in Threads, o \in Ops : WaitsOn(u, o)' <=> WaitsOn(u, o)
    BY <1>7 DEF Responder, WaitsOn, programVars
  <2>4. finalizada' = [finalizada EXCEPT ![op] = TRUE] /\ res' = [res EXCEPT ![op] = ok]
    BY <1>7, <2>1 DEF Responder
  <2>5. \A o \in Ops : (\A u \in Threads : ~WaitsOn(u, o)') <=> \A u \in Threads : ~WaitsOn(u, o)
    BY <2>3
  <2>6. finalizada'[op] /\ \A o \in Ops \ {op} : finalizada'[o] = finalizada[o]
    BY <1>t, <2>4 DEF TypeOK
  <2>7. Uso!Answer(op, ok)
    BY <2>1, <2>2, <2>4, <2>5, <2>6 DEF Uso!Answer
  <2>8. QED
    BY <2>7
<1>8. ASSUME NEW t \in Threads, NEW op \in Ops, Esperar(t, op) PROVE Uso!Take(op)
  <2>1. WaitsOn(t, op) /\ finalizada[op]
    BY <1>8 DEF Esperar
  <2>2. \A u \in Threads, o \in Ops : ~WaitsOn(u, o)'
    BY <1>8, <1>t, <2>1, OneWaits DEF Esperar, Sair, Retornar, WaitsOn, TypeOK
  <2>3. \A o \in Ops \ {op} : \A u \in Threads : ~WaitsOn(u, o)
    BY <2>1, OneWaits
  <2>4. QED
    BY <1>8, <2>1, <2>2, <2>3 DEF Esperar, Uso!Take
<1>9. CASE UNCHANGED vars
  BY <1>9, WaitsStay DEF vars, programVars, contextVars, WaitsOn
<1>10. QED
  <2>1. ASSUME NEW t \in Threads, ConnectAceito(t) \/ DisconnectAceito(t) PROVE Uso!Next
    BY <2>1, <1>6 DEF ConnectAceito, DisconnectAceito, Uso!Next, Ops
  <2>2. ASSUME NEW t \in Threads, Sucesso(t) \/ Falha(t) PROVE Uso!Next
    BY <2>2, <1>7 DEF Sucesso, Falha, Uso!Next
  <2>3. ASSUME NEW t \in Threads, NEW op \in Ops, Esperar(t, op) PROVE Uso!Next
    BY <2>3, <1>8 DEF Uso!Next
  <2>4. QED
    BY <1>1, <1>2, <1>3, <1>4, <1>5, <1>9, <2>1, <2>2, <2>3
       DEF Next, ThreadStep, ConnectStep, DisconnectStep, LibraryStep, Encerrado, Ops

\* The contexts that all threads share are used as Contexto assumes: by one call
\* at a time.
THEOREM ConexaoUsaContextos == Spec => UsaContextos
<1>1. Init => Uso!Init
  BY DEF Init, WaitsOn, Uso!Init
<1>2. QED
  BY <1>1, StepUso, Invariance, PTL DEF Spec, UsaContextos, Uso!Spec
-----------------------------------------------------------------------------
\* A call of either operation, up to its request and from its answer on, does
\* nothing that the library's contract sees.
LEMMA CallsStutter ==
  ASSUME NEW t \in Threads,
         \/ Conectar(t) \/ TravarConexao(t) \/ JaConectado(t) \/ AindaNao(t)
         \/ ConexaoRecusada(t) \/ Desconectar(t) \/ NaoConectado(t)
         \/ AindaConectado(t) \/ TravarDesconexao(t) \/ DesconexaoRecusada(t)
         \/ Destrutor(t) \/ \E op \in Ops : Esperar(t, op)
  PROVE  UNCHANGED libraryVars
  BY DEF Conectar, TravarConexao, JaConectado, AindaNao, ConexaoRecusada,
         Desconectar, NaoConectado, AindaConectado, TravarDesconexao,
         DesconexaoRecusada, Destrutor, Esperar, Chamar, Travar, Sair

\* In the initial state the library holds nothing of the client.
LEMMA InitBiblioteca == Init => Biblioteca!Init
  BY DEF Init, Biblioteca!Init

\* Each step of the client is a call that the contract allows, each step of the
\* library one that it foresees, or neither of the two.
LEMMA StepBiblioteca ==
  IInv /\ [Next]_vars => Biblioteca!Next \/ UNCHANGED Biblioteca!vars
<1> SUFFICES ASSUME IInv, [Next]_vars
             PROVE  Biblioteca!Next \/ UNCHANGED Biblioteca!vars
  OBVIOUS
<1> DEFINE Passo == Biblioteca!Next \/ UNCHANGED Biblioteca!vars
<1>t. TypeOK /\ EveryCommandAwaited /\ LockInv /\ CallbackPreconditions /\ LifetimeInv
  BY DEF IInv
<1>s. ASSUME UNCHANGED libraryVars PROVE Passo
  BY <1>s DEF libraryVars, Biblioteca!vars, Biblioteca!requestVars, Biblioteca!linkVars
<1>1. ASSUME NEW t \in Threads, SetCallbacks(t) PROVE Passo
  <2>1. Biblioteca!setCallbacks
    BY <1>1, <1>t DEF SetCallbacks, CallbackPreconditions, Biblioteca!setCallbacks,
       Biblioteca!requestVars, Biblioteca!linkVars
  <2>2. QED
    BY <2>1 DEF Biblioteca!Next, Biblioteca!Application
<1>2. ASSUME NEW t \in Threads, pc[t] \in {"connect", "disconnect"}
      PROVE  comando[t] = "none" /\ Biblioteca!SemComando
  BY <1>2, <1>t DEF TypeOK, EveryCommandAwaited, LockInv, Connecting, Disconnecting,
     WaitsOn, Ops, Biblioteca!SemComando, Biblioteca!ConnectionRequests
<1>3. ASSUME NEW t \in Threads, ConnectAceito(t) PROVE Passo
  <2>1. registrados /\ ~conectado
    BY <1>3, <1>t DEF ConnectAceito, CallbackPreconditions
  <2>2. Biblioteca!connect(t)
    BY <1>3, <1>2, <2>1 DEF ConnectAceito, Aceitar, Biblioteca!connect, Biblioteca!Aceitar,
       Biblioteca!linkVars
  <2>3. QED
    BY <2>2 DEF Biblioteca!Next, Biblioteca!Application
<1>4. ASSUME NEW t \in Threads, DisconnectAceito(t) PROVE Passo
  <2>1. Biblioteca!disconnect(t)
    BY <1>4, <1>2 DEF DisconnectAceito, Aceitar, Biblioteca!disconnect, Biblioteca!Aceitar,
       Biblioteca!linkVars
  <2>2. QED
    BY <2>1 DEF Biblioteca!Next, Biblioteca!Application
<1>5. ASSUME NEW t \in Threads, Destruir(t) PROVE Passo
  <2>1. \A u \in Threads : pc[u] \notin {"wait_c", "wait_d"}
    BY <1>5, <1>t DEF Destruir, LifetimeInv, TypeOK
  <2>2. \A u \in Threads : comando[u] = "none"
    BY <2>1, <1>t DEF EveryCommandAwaited, WaitsOn, Ops
  <2>3. Biblioteca!destroy
    BY <1>5, <2>2 DEF Destruir, Biblioteca!destroy, Biblioteca!requestVars
  <2>4. QED
    BY <2>3 DEF Biblioteca!Next, Biblioteca!Application
<1>6. ASSUME NEW t \in Threads, Conecta(t) PROVE Passo
  <2>1. Biblioteca!Conecta(t)
    BY <1>6 DEF Conecta, Ligar, ConnectOpts, Biblioteca!Conecta, Biblioteca!Decidir
  <2>2. QED
    BY <2>1 DEF Biblioteca!Next, Biblioteca!Library
<1>7. ASSUME NEW t \in Threads, Desconecta(t) PROVE Passo
  <2>1. Biblioteca!Desconecta(t)
    BY <1>7 DEF Desconecta, Ligar, Biblioteca!Desconecta, Biblioteca!Decidir
  <2>2. QED
    BY <2>1 DEF Biblioteca!Next, Biblioteca!Library
<1>8. ASSUME NEW t \in Threads, Fracassa(t) PROVE Passo
  <2>1. Biblioteca!Fracassa(t)
    BY <1>8 DEF Fracassa, Biblioteca!Fracassa, Biblioteca!Decidir, Biblioteca!linkVars
  <2>2. QED
    BY <2>1 DEF Biblioteca!Next, Biblioteca!Library
<1>9. ASSUME NEW t \in Threads, NEW r \in {"sucesso", "falha"}, NEW ok \in BOOLEAN,
             desfecho[t] = r, Responder(t, ok)
      PROVE  Passo
  <2>1. comando[t] \in Ops
    BY <1>9, <1>t DEF IInv, CommandInv, TypeOK
  <2>2. handle
    BY <2>1, <1>t DEF EveryCommandAwaited, Ops
  <2>3. Biblioteca!Indicado(comando[t], r)
    BY <2>1 DEF Ops, Biblioteca!Indicado, ConnectOpts, DisconnectOpts,
       connectOptions_initializer, disconnectOptions_initializer, NULL, Biblioteca!NULL
  <2>4. Biblioteca!Reportar(t, r)
    BY <1>9, <2>2, <2>3 DEF Responder, Biblioteca!Reportar, Biblioteca!linkVars
  <2>5. QED
    BY <2>4 DEF Biblioteca!Next, Biblioteca!Library
<1>10. CASE PerdeConexao
  <2>1. Biblioteca!PerdeConexao
    BY <1>10 DEF PerdeConexao, Ligar, Biblioteca!PerdeConexao, Biblioteca!requestVars
  <2>2. QED
    BY <2>1 DEF Biblioteca!Next, Biblioteca!Library
<1>11. CASE Perdida
  <2>1. Biblioteca!connectionLost
    BY <1>11 DEF Perdida, Biblioteca!connectionLost, Biblioteca!requestVars
  <2>2. QED
    BY <2>1 DEF Biblioteca!Next, Biblioteca!Library
<1>12. CASE UNCHANGED vars
  BY <1>12, <1>s DEF vars
<1>13. QED
  BY <1>s, <1>1, <1>3, <1>4, <1>5, <1>6, <1>7, <1>8, <1>9, <1>10, <1>11, <1>12,
     CallsStutter
     DEF Next, ThreadStep, ConnectStep, DisconnectStep, LibraryStep, Encerrado,
         Sucesso, Falha, Ops

\* Any number of threads on one client use the library as its contract allows.
THEOREM ConexaoRespeitaBiblioteca == Spec => RespeitaBiblioteca
  BY Invariance, InitBiblioteca, StepBiblioteca, PTL
     DEF Spec, RespeitaBiblioteca, Biblioteca!Spec
=============================================================================

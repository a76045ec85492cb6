--------------------------- MODULE ContextoProofs ---------------------------
(***************************************************************************)
(* Contexto, for any sets of contexts and of library threads: the          *)
(* inductive invariant, the safety properties it gives, and the refinement *)
(* of Completion.                                                          *)
(***************************************************************************)
EXTENDS Contexto, TLAPS

USE ConstAssumption

\* A client just built, with no call under way, satisfies the invariant.
LEMMA InitIInv == Init => IInv
  BY DEF Init, IInv, TypeOK, MutexInv, CallbackInv, CallerInv, NoLostWakeup,
         CallerPCs, Waiting, CallbackPCs

\* No step of a caller or of a callback stores a value of another type.
LEMMA StepType == TypeOK /\ [Next]_vars => TypeOK'
<1> SUFFICES ASSUME TypeOK, [Next]_vars PROVE TypeOK'
  OBVIOUS
<1> USE DEF TypeOK, CallerPCs, Waiting, CallbackPCs, callerVars, libVars
<1>1. ASSUME NEW c \in Contextos, Construir(c)
      PROVE TypeOK'
  BY <1>1 DEF Construir
<1>2. ASSUME NEW c \in Contextos, Aceita(c)
      PROVE TypeOK'
  BY <1>2 DEF Aceita
<1>3. ASSUME NEW c \in Contextos, Recusada(c)
      PROVE TypeOK'
  BY <1>3 DEF Recusada
<1>4. ASSUME NEW c \in Contextos, Travar(c)
      PROVE TypeOK'
  BY <1>4 DEF Travar
<1>5. ASSUME NEW c \in Contextos, NaoFinalizada(c)
      PROVE TypeOK'
  BY <1>5 DEF NaoFinalizada
<1>6. ASSUME NEW c \in Contextos, Dormir(c)
      PROVE TypeOK'
  BY <1>6 DEF Dormir
<1>7. ASSUME NEW c \in Contextos, DespertarEspurio(c)
      PROVE TypeOK'
  BY <1>7 DEF DespertarEspurio
<1>8. ASSUME NEW c \in Contextos, Concluir(c)
      PROVE TypeOK'
  BY <1>8 DEF Concluir
<1>9. ASSUME NEW c \in Contextos, Retornar(c)
      PROVE TypeOK'
  BY <1>9 DEF Retornar
<1>10. ASSUME NEW l \in LibThreads, EscreverRes(l)
      PROVE TypeOK'
  BY <1>10 DEF EscreverRes
<1>11. ASSUME NEW l \in LibThreads, NotificarTravar(l)
      PROVE TypeOK'
  BY <1>11 DEF NotificarTravar
<1>12. ASSUME NEW l \in LibThreads, NotificarMarcar(l)
      PROVE TypeOK'
  BY <1>12 DEF NotificarMarcar
<1>13. ASSUME NEW l \in LibThreads, NotificarUm(l)
      PROVE TypeOK'
  BY <1>13 DEF NotificarUm
<1>14. ASSUME NEW l \in LibThreads, NotificarDestravar(l)
      PROVE TypeOK'
  BY <1>14 DEF NotificarDestravar
<1>15. ASSUME NEW c \in Contextos, NEW l \in LibThreads, NEW ok \in BOOLEAN,
              IniciarCallback(l, c, ok)
       PROVE TypeOK'
  BY <1>15 DEF IniciarCallback
<1>16. CASE UNCHANGED vars
  BY <1>16 DEF vars
<1>17. QED
  BY <1>1, <1>2, <1>3, <1>4, <1>5, <1>6, <1>7, <1>8,
     <1>9, <1>10, <1>11, <1>12, <1>13, <1>14, <1>15, <1>16
     DEF Next, CallerStep, CallbackStep

\* Every step preserves the strengthened invariant.
LEMMA StepIInv == IInv /\ [Next]_vars => IInv'
<1> SUFFICES ASSUME IInv, [Next]_vars PROVE IInv'
  OBVIOUS
<1>t. TypeOK /\ TypeOK'
  BY StepType DEF IInv
<1> DEFINE Rest == MutexInv /\ CallbackInv /\ CallerInv /\ NoLostWakeup
<1> USE <1>t DEF TypeOK, IInv, MutexInv, CallbackInv, CallerInv, NoLostWakeup,
            InCallback, Waiting, CallbackPCs, CallerPCs, callerVars, libVars
<1>1. ASSUME NEW c \in Contextos, Construir(c)
      PROVE Rest'
  BY <1>1 DEF Construir
<1>2. ASSUME NEW c \in Contextos, Aceita(c)
      PROVE Rest'
  BY <1>2 DEF Aceita
<1>3. ASSUME NEW c \in Contextos, Recusada(c)
      PROVE Rest'
  BY <1>3 DEF Recusada
<1>4. ASSUME NEW c \in Contextos, Travar(c)
      PROVE Rest'
  BY <1>4 DEF Travar
<1>5. ASSUME NEW c \in Contextos, NaoFinalizada(c)
      PROVE Rest'
  BY <1>5 DEF NaoFinalizada
<1>6. ASSUME NEW c \in Contextos, Dormir(c)
      PROVE Rest'
  BY <1>6 DEF Dormir
<1>7. ASSUME NEW c \in Contextos, DespertarEspurio(c)
      PROVE Rest'
  BY <1>7 DEF DespertarEspurio
<1>8. ASSUME NEW c \in Contextos, Concluir(c)
      PROVE Rest'
  BY <1>8 DEF Concluir
<1>9. ASSUME NEW c \in Contextos, Retornar(c)
      PROVE Rest'
  BY <1>9 DEF Retornar
<1>10. ASSUME NEW c \in Contextos, NEW l \in LibThreads, NEW ok \in BOOLEAN,
              IniciarCallback(l, c, ok)
       PROVE Rest'
  BY <1>10 DEF IniciarCallback
<1>11. ASSUME NEW l \in LibThreads, EscreverRes(l)
       PROVE Rest'
  BY <1>11 DEF EscreverRes
<1>12. ASSUME NEW l \in LibThreads, NotificarTravar(l)
       PROVE Rest'
  BY <1>12 DEF NotificarTravar
<1>13. ASSUME NEW l \in LibThreads, NotificarMarcar(l)
       PROVE Rest'
  BY <1>13 DEF NotificarMarcar
<1>14. ASSUME NEW l \in LibThreads, NotificarUm(l)
       PROVE Rest'
  BY <1>14 DEF NotificarUm
<1>15. ASSUME NEW l \in LibThreads, NotificarDestravar(l)
       PROVE Rest'
  BY <1>15 DEF NotificarDestravar
<1>16. CASE UNCHANGED vars
  BY <1>16 DEF vars
<1>17. QED
  BY <1>1, <1>2, <1>3, <1>4, <1>5, <1>6, <1>7, <1>8, <1>9, <1>10, <1>11,
     <1>12, <1>13, <1>14, <1>15, <1>16 DEF Next, CallerStep, CallbackStep

-----------------------------------------------------------------------------
\* The strengthened invariant holds in every reachable state.
THEOREM Invariance == Spec => []IInv
  BY InitIInv, StepIInv, PTL DEF Spec

\* Every variable keeps its type.
THEOREM TypeCorrect == Spec => []TypeOK
<1>1. IInv => TypeOK
  BY DEF IInv
<1>2. QED
  BY <1>1, Invariance, PTL

\* No callback ever touches a destroyed context: the temporaries built by
\* subscribe() and unsubscribe() outlive sucesso() and falha().
THEOREM CallbacksStayInLifetime == Spec => []NoDanglingContext
<1>1. IInv => NoDanglingContext
  BY DEF IInv, TypeOK, CallbackInv, CallerInv, NoDanglingContext, Waiting
<1>2. QED
  BY <1>1, Invariance, PTL

\* No caller sleeps on a finished request without a notification coming.
THEOREM WakeupsAreNotLost == Spec => []NoLostWakeup
<1>1. IInv => NoLostWakeup
  BY DEF IInv
<1>2. QED
  BY <1>1, Invariance, PTL

\* The comment of esperar(): once _finalizada is set, _res is consistent.
THEOREM ResultIsConsistent == Spec => []ResConsistente
<1>1. IInv => ResConsistente
  BY DEF IInv, TypeOK, CallbackInv, CallerInv, ResConsistente, InCallback
<1>2. QED
  BY <1>1, Invariance, PTL

\* Every step of the rendezvous is a step of the promise, or a stutter.
LEMMA StepRefines == IInv /\ [Next]_vars => [Promise!Next]_(Promise!vars)
<1> SUFFICES ASSUME IInv, [Next]_vars PROVE [Promise!Next]_(Promise!vars)
  OBVIOUS
<1> DEFINE Stays == UNCHANGED Promise!vars
<1> USE DEF IInv, TypeOK, CallerInv, Waiting, CallerPCs, callerVars, libVars,
            Promise!vars
<1>1. ASSUME NEW c \in Contextos, Construir(c) PROVE Stays
  BY <1>1 DEF Construir
<1>2. ASSUME NEW c \in Contextos, Aceita(c) PROVE Promise!Accept(c)
  BY <1>2 DEF Aceita, Promise!Accept, Promise!Uso!Accept
<1>3. ASSUME NEW c \in Contextos, Recusada(c) PROVE Promise!Refuse(c)
  BY <1>3 DEF Recusada, Promise!Refuse
<1>4. ASSUME NEW c \in Contextos, Travar(c) PROVE Stays
  BY <1>4 DEF Travar
<1>5. ASSUME NEW c \in Contextos, NaoFinalizada(c) PROVE Stays
  BY <1>5 DEF NaoFinalizada
<1>6. ASSUME NEW c \in Contextos, Dormir(c) PROVE Stays
  BY <1>6 DEF Dormir
<1>7. ASSUME NEW c \in Contextos, DespertarEspurio(c) PROVE Stays
  BY <1>7 DEF DespertarEspurio
<1>8. ASSUME NEW c \in Contextos, Concluir(c) PROVE Promise!Return(c)
  BY <1>8 DEF Concluir, Promise!Return, Promise!Uso!Take
<1>9. ASSUME NEW c \in Contextos, Retornar(c) PROVE Stays
  BY <1>9 DEF Retornar
<1>10. ASSUME NEW c \in Contextos, NEW l \in LibThreads, NEW ok \in BOOLEAN,
              IniciarCallback(l, c, ok)
       PROVE Promise!Answer(c, ok)
  BY <1>10 DEF IniciarCallback, Promise!Answer, Promise!Uso!Answer
<1>11. ASSUME NEW l \in LibThreads,
              \/ EscreverRes(l) \/ NotificarTravar(l)
              \/ NotificarMarcar(l) \/ NotificarDestravar(l)
       PROVE Stays
  BY <1>11 DEF EscreverRes, NotificarTravar, NotificarMarcar,
               NotificarDestravar
<1>12. ASSUME NEW l \in LibThreads, NotificarUm(l) PROVE Stays
  BY <1>12 DEF NotificarUm
<1>13. CASE UNCHANGED vars
  BY <1>13 DEF vars
<1>14. QED
  BY <1>1, <1>2, <1>3, <1>4, <1>5, <1>6, <1>7, <1>8, <1>9, <1>10, <1>11,
     <1>12, <1>13 DEF Next, CallerStep, CallbackStep, Promise!Next

\* The rendezvous implements Completion: a call returns the answer of its own
\* request.
THEOREM ContextoImplementsCompletion == Spec => ImplementsCompletion
<1>1. Init => Promise!Init
  BY DEF Init, Promise!Init, Promise!Uso!Init, Waiting
<1>2. QED
  BY <1>1, StepRefines, Invariance, PTL DEF Spec, ImplementsCompletion, Promise!Spec
=============================================================================

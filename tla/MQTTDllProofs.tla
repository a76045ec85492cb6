---------------------------- MODULE MQTTDllProofs ----------------------------
(***************************************************************************)
(* MQTTDll, for any number of threads and of functions: the inductive      *)
(* invariant and the safety properties it gives.                           *)
(***************************************************************************)
EXTENDS MQTTDll, TLAPS

USE ConstAssumption DEF create, strerror

\* Before the first constructor the table is empty.
LEMMA InitIInv == Init => IInv
<1> SUFFICES ASSUME Init PROVE IInv
  OBVIOUS
<1>1. TypeOK
  <2>1. alvo \in [Threads -> 1 .. N] /\ armazenados \in 0 .. N
    BY DEF Init
  <2>2. pc \in [Threads -> Loading \cup {"none", "lock", "ready", "test", "call"}]
    BY DEF Init
  <2>3. QED
    BY <2>1, <2>2 DEF Init, TypeOK
<1>2. LoadInv
  BY DEF Init, LoadInv, Loading
<1>3. NoNullCall /\ LoadedIsComplete /\ HandleInv
  BY DEF Init, NoNullCall, LoadedIsComplete, HandleInv
<1>4. QED
  BY <1>1, <1>2, <1>3 DEF IInv

\* Every step keeps the types.
LEMMA StepType == TypeOK /\ [Next]_vars => TypeOK'
<1> SUFFICES ASSUME TypeOK, [Next]_vars PROVE TypeOK'
  OBVIOUS
<1> USE DEF Goto, Loading
<1>1. ASSUME NEW t \in Threads, Construir(t) PROVE TypeOK'
  BY <1>1 DEF Construir, TypeOK
<1>2. ASSUME NEW t \in Threads, Travar(t) PROVE TypeOK'
  BY <1>2 DEF Travar, TypeOK
<1>3. ASSUME NEW t \in Threads, JaCarregada(t) PROVE TypeOK'
  BY <1>3 DEF JaCarregada, Carregou, Entrar, TypeOK
<1>4. ASSUME NEW t \in Threads, NaoCarregou(t) PROVE TypeOK'
  BY <1>4 DEF NaoCarregou, Carregou, Entrar, TypeOK
<1>5. ASSUME NEW t \in Threads, Carregar(t) PROVE TypeOK'
  BY <1>5 DEF Carregar, TypeOK
<1>6. ASSUME NEW t \in Threads, Armazenar(t) PROVE TypeOK'
  BY <1>6 DEF Armazenar, TypeOK
<1>7. ASSUME NEW t \in Threads, Armazenou(t) PROVE TypeOK'
  BY <1>7 DEF Armazenou, Carregou, Entrar, TypeOK
<1>8. ASSUME NEW t \in Threads, Testar(t) PROVE TypeOK'
  BY <1>8 DEF Testar, TypeOK
<1>9. ASSUME NEW t \in Threads, SemFuncao(t) PROVE TypeOK'
  BY <1>9 DEF SemFuncao, Entrar, TypeOK
<1>10. ASSUME NEW t \in Threads, Destruir(t) PROVE TypeOK'
  BY <1>10 DEF Destruir, TypeOK
<1>11. ASSUME NEW t \in Threads, NEW f \in 2 .. N, Chamar(t, f) PROVE TypeOK'
  BY <1>11 DEF Chamar, Entrar, TypeOK
<1>12. ASSUME NEW t \in Threads, NEW ok \in BOOLEAN, Invocar(t, ok) PROVE TypeOK'
  BY <1>12 DEF Invocar, Entrar, TypeOK
<1>13. CASE UNCHANGED vars
  BY <1>13 DEF vars, TypeOK
<1>14. QED
  BY <1>1, <1>2, <1>3, <1>4, <1>5, <1>6, <1>7, <1>8, <1>9, <1>10, <1>11, <1>12, <1>13
     DEF Next, ConstructorStep, WrapperStep

\* Every step preserves the inductive invariant.
LEMMA StepIInv == IInv /\ [Next]_vars => IInv'
<1> SUFFICES ASSUME IInv, [Next]_vars PROVE IInv'
  OBVIOUS
<1>t. TypeOK /\ TypeOK'
  BY StepType DEF IInv
<1> USE <1>t DEF Goto, Loading, Aponta
<1>1. ASSUME NEW t \in Threads, Construir(t) PROVE IInv'
  BY <1>1 DEF Construir, IInv, TypeOK, LoadInv, NoNullCall, LoadedIsComplete, HandleInv
<1>2. ASSUME NEW t \in Threads, Travar(t) PROVE IInv'
  BY <1>2 DEF Travar, IInv, TypeOK, LoadInv, NoNullCall, LoadedIsComplete, HandleInv
<1>3. ASSUME NEW t \in Threads, JaCarregada(t) PROVE IInv'
  BY <1>3 DEF JaCarregada, Carregou, Entrar, IInv, TypeOK, LoadInv, NoNullCall, LoadedIsComplete, HandleInv
<1>4. ASSUME NEW t \in Threads, NaoCarregou(t) PROVE IInv'
  BY <1>4 DEF NaoCarregou, Carregou, Entrar, IInv, TypeOK, LoadInv, NoNullCall, LoadedIsComplete, HandleInv
<1>5. ASSUME NEW t \in Threads, Carregar(t) PROVE IInv'
  BY <1>5 DEF Carregar, IInv, TypeOK, LoadInv, NoNullCall, LoadedIsComplete, HandleInv
<1>6. ASSUME NEW t \in Threads, Armazenar(t) PROVE IInv'
  BY <1>6 DEF Armazenar, IInv, TypeOK, LoadInv, NoNullCall, LoadedIsComplete, HandleInv
<1>7. ASSUME NEW t \in Threads, Armazenou(t) PROVE IInv'
  BY <1>7 DEF Armazenou, Carregou, Entrar, IInv, TypeOK, LoadInv, NoNullCall, LoadedIsComplete, HandleInv
<1>8. ASSUME NEW t \in Threads, Testar(t) PROVE IInv'
  BY <1>8 DEF Testar, IInv, TypeOK, LoadInv, NoNullCall, LoadedIsComplete, HandleInv
<1>9. ASSUME NEW t \in Threads, SemFuncao(t) PROVE IInv'
  BY <1>9 DEF SemFuncao, Entrar, IInv, TypeOK, LoadInv, NoNullCall, LoadedIsComplete, HandleInv
<1>10. ASSUME NEW t \in Threads, Destruir(t) PROVE IInv'
  BY <1>10 DEF Destruir, IInv, TypeOK, LoadInv, NoNullCall, LoadedIsComplete, HandleInv
<1>11. ASSUME NEW t \in Threads, NEW f \in 2 .. N, Chamar(t, f) PROVE IInv'
  BY <1>11 DEF Chamar, Entrar, IInv, TypeOK, LoadInv, NoNullCall, LoadedIsComplete, HandleInv
<1>12. ASSUME NEW t \in Threads, NEW ok \in BOOLEAN, Invocar(t, ok) PROVE IInv'
  BY <1>12 DEF Invocar, Entrar, IInv, TypeOK, LoadInv, NoNullCall, LoadedIsComplete, HandleInv
<1>13. CASE UNCHANGED vars
  BY <1>13 DEF vars, IInv, TypeOK, LoadInv, NoNullCall, LoadedIsComplete, HandleInv
<1>14. QED
  BY <1>1, <1>2, <1>3, <1>4, <1>5, <1>6, <1>7, <1>8, <1>9, <1>10, <1>11, <1>12, <1>13
     DEF Next, ConstructorStep, WrapperStep

-----------------------------------------------------------------------------
\* The inductive invariant holds in every reachable state.
THEOREM Invariance == Spec => []IInv
  BY InitIInv, StepIInv, PTL DEF Spec

\* Every variable keeps its type.
THEOREM TypeCorrect == Spec => []TypeOK
<1>1. IInv => TypeOK
  BY DEF IInv
<1>2. QED
  BY <1>1, Invariance, PTL

\* The wrappers of MQTTDll.h never jump to NULL.
THEOREM WrappersAreSafe == Spec => []NoNullCall
<1>1. IInv => NoNullCall
  BY DEF IInv
<1>2. QED
  BY <1>1, Invariance, PTL

\* A constructor whose load() succeeded has every pointer of the table.
THEOREM LoadIsComplete == Spec => []LoadedIsComplete
<1>1. IInv => LoadedIsComplete
  BY DEF IInv
<1>2. QED
  BY <1>1, Invariance, PTL

\* A client that came by its handle without a load() of its own waits for the
\* rest of the table no longer than the load() that is under way.
THEOREM HandleGetsTable == Spec => []MissingOnlyWhileLoading
<1>1. IInv => MissingOnlyWhileLoading
  <2> SUFFICES ASSUME IInv, NEW t \in Threads, handle[t],
                      NEW f \in Exports, ~Aponta(f)
               PROVE  \E u \in Threads \ {t} : pc[u] = "store"
    BY DEF MissingOnlyWhileLoading
  <2>1. hDll /\ pc[t] # "store"
    BY DEF IInv, HandleInv, Loading
  <2>2. armazenados # N
    BY DEF Aponta
  <2>3. QED
    BY <2>1, <2>2 DEF IInv, LoadInv
<1>2. QED
  BY <1>1, Invariance, PTL
=============================================================================

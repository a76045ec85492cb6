------------------------------- MODULE MQTTDll -------------------------------
(***************************************************************************)
(* MQTTDll and the constructor of MQTTClient: the one static table of the  *)
(* library's functions.  Constructors load it under _dll_mtx, and every    *)
(* wrapper reads it with no lock, also while a later constructor retries   *)
(* the load that an earlier one failed.                                    *)
(*                                                                         *)
(* Each thread owns one client at a time.  A wrapper reads its pointer     *)
(* twice, in the test and in the call, and load() stores the pointers one  *)
(* by one, in order, so a pointer is known from how many are stored.       *)
(***************************************************************************)
EXTENDS Naturals

CONSTANTS
  Threads,     \* the threads that build, use and destroy clients
  NoThread,    \* the owner of a free mutex
  N,           \* the number of functions of the table
  Exports      \* those that the DLL found by LoadLibrary exports

\* load() stores create first and strerror last.
create == 1
strerror == N

\* The DLL of the repository exports strerror, the wrapper without a test.
ASSUME ConstAssumption ==
  /\ NoThread \notin Threads
  /\ N \in Nat /\ create < strerror
  /\ Exports \subseteq 1 .. N
  /\ strerror \in Exports

VARIABLES
  pc,          \* where each thread is
  alvo,        \* [Threads -> the function whose wrapper it is in]
  carregada,   \* [Threads -> load() returned true to its constructor]
  handle,      \* [Threads -> create() gave its client a handle]
  hDll,        \* hDll is not NULL
  armazenados, \* how many of the pointers load() has stored
  dll_mtx      \* the owner of MQTTClient::_dll_mtx

vars == <<pc, alvo, carregada, handle, hDll, armazenados, dll_mtx>>

Loading == {"load", "store"}

TypeOK ==
  /\ pc \in [Threads -> Loading \cup {"none", "lock", "ready", "test", "call"}]
  /\ alvo \in [Threads -> 1 .. N]
  /\ carregada \in [Threads -> BOOLEAN]
  /\ handle \in [Threads -> BOOLEAN]
  /\ hDll \in BOOLEAN
  /\ armazenados \in 0 .. N
  /\ dll_mtx \in Threads \cup {NoThread}

Init ==
  /\ pc = [t \in Threads |-> "none"]
  /\ alvo = [t \in Threads |-> create]
  /\ carregada = [t \in Threads |-> FALSE]
  /\ handle = [t \in Threads |-> FALSE]
  /\ hDll = FALSE
  /\ armazenados = 0
  /\ dll_mtx = NoThread

\* fptr_f is not NULL: as initialized, or as GetProcAddress() returned it.
Aponta(f) == IF f <= armazenados THEN f \in Exports ELSE f = strerror

Goto(t, label) == pc' = [pc EXCEPT ![t] = label]

\* The wrapper of f is called; strerror() has no test of its pointer.
Entrar(t, f) ==
  /\ alvo' = [alvo EXCEPT ![t] = f]
  /\ Goto(t, IF f = strerror THEN "call" ELSE "test")

-----------------------------------------------------------------------------
(* MQTTClient's constructor.                                               *)

Construir(t) ==
  /\ pc[t] = "none"
  /\ Goto(t, "lock")
  /\ carregada' = [carregada EXCEPT ![t] = FALSE]
  /\ UNCHANGED <<alvo, handle, hDll, armazenados, dll_mtx>>

\* Defect: load() runs without _dll_mtx.
SemTravar(t) ==
  /\ pc[t] = "lock"
  /\ Goto(t, "load")
  /\ UNCHANGED <<alvo, carregada, handle, hDll, armazenados, dll_mtx>>

Travar(t) ==
  /\ pc[t] = "lock"
  /\ dll_mtx = NoThread
  /\ dll_mtx' = t
  /\ Goto(t, "load")
  /\ UNCHANGED <<alvo, carregada, handle, hDll, armazenados>>

\* load() returns ok, the mutex is released, and the constructor calls create().
Carregou(t, ok) ==
  /\ carregada' = [carregada EXCEPT ![t] = ok]
  /\ dll_mtx' = NoThread
  /\ Entrar(t, create)
  /\ UNCHANGED handle

JaCarregada(t) ==
  /\ pc[t] = "load" /\ hDll
  /\ Carregou(t, TRUE)
  /\ UNCHANGED <<hDll, armazenados>>

\* LoadLibrary() fails: a constructor that comes later tries again.
NaoCarregou(t) ==
  /\ pc[t] = "load" /\ ~hDll
  /\ Carregou(t, FALSE)
  /\ UNCHANGED <<hDll, armazenados>>

\* LoadLibrary() succeeds.
Carregar(t) ==
  /\ pc[t] = "load" /\ ~hDll
  /\ hDll' = TRUE
  /\ Goto(t, "store")
  /\ UNCHANGED <<alvo, carregada, handle, armazenados, dll_mtx>>

\* Defect: one pointer more than the table has.
ArmazenarDemais(t) ==
  /\ pc[t] = "store" /\ armazenados <= N
  /\ armazenados' = armazenados + 1
  /\ UNCHANGED <<pc, alvo, carregada, handle, hDll, dll_mtx>>

\* load() stores the next pointer, NULL where the DLL has no such function.
Armazenar(t) ==
  /\ pc[t] = "store" /\ armazenados < N
  /\ armazenados' = armazenados + 1
  /\ UNCHANGED <<pc, alvo, carregada, handle, hDll, dll_mtx>>

\* Defect: load() gives up at the first function that the DLL does not export.
ArmazenouOuDesistiu(t) ==
  /\ pc[t] = "store" /\ armazenados + 1 \notin Exports
  /\ Carregou(t, armazenados = N)
  /\ UNCHANGED <<hDll, armazenados>>

Armazenou(t) ==
  /\ pc[t] = "store" /\ armazenados = N
  /\ Carregou(t, TRUE)
  /\ UNCHANGED <<hDll, armazenados>>

-----------------------------------------------------------------------------
(* The wrappers.                                                           *)

\* An operation of the client, or its destructor, calls a wrapper.
Chamar(t, f) ==
  /\ pc[t] = "ready"
  /\ Entrar(t, f)
  /\ UNCHANGED <<carregada, handle, hDll, armazenados, dll_mtx>>

\* Defect: the wrapper calls without a test.
NaoTestar(t) ==
  /\ pc[t] = "test"
  /\ Goto(t, "call")
  /\ UNCHANGED <<alvo, carregada, handle, hDll, armazenados, dll_mtx>>

\* The test finds a pointer.
Testar(t) ==
  /\ pc[t] = "test" /\ Aponta(alvo[t])
  /\ Goto(t, "call")
  /\ UNCHANGED <<alvo, carregada, handle, hDll, armazenados, dll_mtx>>

\* The test finds NULL: MQTTASYNC_FAILURE, which the caller reports with the
\* text of strerror(), or nothing where a wrapper has no result.
SemFuncao(t) ==
  /\ pc[t] = "test" /\ ~Aponta(alvo[t])
  /\ \/ Entrar(t, strerror)
     \/ Goto(t, "ready") /\ UNCHANGED alvo
  /\ UNCHANGED <<carregada, handle, hDll, armazenados, dll_mtx>>

\* The function runs and returns, with an error that the caller reports, or
\* without; create() gives a handle only when it succeeds.
Invocar(t, ok) ==
  /\ pc[t] = "call"
  /\ IF ok \/ alvo[t] = strerror THEN Goto(t, "ready") /\ UNCHANGED alvo
     ELSE Entrar(t, strerror)
  /\ handle' = [handle EXCEPT ![t] = IF alvo[t] = create THEN ok ELSE @]
  /\ UNCHANGED <<carregada, hDll, armazenados, dll_mtx>>

\* The client is destroyed; the DLL stays loaded.
Destruir(t) ==
  /\ pc[t] = "ready"
  /\ Goto(t, "none")
  /\ handle' = [handle EXCEPT ![t] = FALSE]
  /\ UNCHANGED <<alvo, carregada, hDll, armazenados, dll_mtx>>

-----------------------------------------------------------------------------
ConstructorStep(t) ==
  \/ Construir(t) \/ Travar(t) \/ JaCarregada(t) \/ NaoCarregou(t)
  \/ Carregar(t) \/ Armazenar(t) \/ Armazenou(t)

WrapperStep(t) ==
  \/ \E f \in (2 .. N) : Chamar(t, f)
  \/ Testar(t) \/ SemFuncao(t)
  \/ \E ok \in BOOLEAN : Invocar(t, ok)
  \/ Destruir(t)

Next == \E t \in Threads : ConstructorStep(t) \/ WrapperStep(t)

Spec == Init /\ [][Next]_vars

-----------------------------------------------------------------------------
(* Properties.                                                             *)

\* No wrapper ever calls a NULL pointer, although it tests and calls it with no
\* lock while another thread may be storing the table, and although strerror()
\* is called without a test.
NoNullCall == \A t \in Threads : pc[t] = "call" => Aponta(alvo[t])

\* A constructor to which load() returned true has the whole table, also when
\* it was another constructor that stored it.
LoadedIsComplete == \A t \in Threads : carregada[t] => armazenados = N

\* A client that got its handle although its own load() failed, because create()
\* found the pointer that a later constructor had just stored, soon has the rest
\* too: an exported function is missing to a client with a handle only while
\* load() is at work on another thread, so a lasting client is never crippled.
MissingOnlyWhileLoading ==
  \A t \in Threads : handle[t] /\ (\E f \in Exports : ~Aponta(f)) =>
    \E u \in Threads \ {t} : pc[u] = "store"

-----------------------------------------------------------------------------
\* The inductive invariant: one constructor at a time is in load(), and outside
\* load() the table is all there or not there at all.
LoadInv ==
  /\ \A t \in Threads : dll_mtx = t <=> pc[t] \in Loading
  /\ \A t \in Threads : pc[t] = "store" => hDll
  /\ hDll => armazenados = N \/ \E t \in Threads : pc[t] = "store"
  /\ ~hDll => armazenados = 0

\* A handle comes from the DLL, and no client has one while it is built.
HandleInv ==
  \A t \in Threads : handle[t] => hDll /\ pc[t] \notin Loading \cup {"none", "lock"}

IInv ==
  TypeOK /\ LoadInv /\ NoNullCall /\ LoadedIsComplete /\ HandleInv
=============================================================================

------------------------------ MODULE Contexto ------------------------------
(***************************************************************************)
(* MQTTClient::Contexto: the rendezvous between the thread that calls      *)
(* despachar() and the paho thread that later runs sucesso() or falha().   *)
(* The caller blocks in esperar() on a condition variable; the callback    *)
(* stores the result and wakes it with notificar_um().                     *)
(*                                                                         *)
(* Every access to shared memory is a step of its own, so callbacks,       *)
(* callers and spurious wakeups interleave as finely as in the program.    *)
(* A context of Efemeros is the temporary object that subscribe() and      *)
(* unsubscribe() build on the caller's stack and destroy on return; the    *)
(* others are the members _conexao and _desconexao, built once and reused. *)
(* Each context has one caller at a time: a temporary belongs to the       *)
(* thread that built it, and module Conexao shows that _conexao_mtx gives  *)
(* each member a single user.                                              *)
(***************************************************************************)

CONSTANTS
  Contextos,    \* the context objects
  Efemeros,     \* those that live only for one call
  LibThreads,   \* the library's threads that run callbacks
  NoThread,     \* the owner of a free mutex
  Caller        \* the owner of a mutex held by the context's caller

ASSUME ConstAssumption ==
  /\ Efemeros \subseteq Contextos
  /\ NoThread # Caller
  /\ NoThread \notin LibThreads
  /\ Caller \notin LibThreads

VARIABLES
  pc,               \* where the caller of each context is
  res,              \* Contexto::_res
  finalizada,       \* Contexto::_finalizada
  finalizada_mtx,   \* the owner of Contexto::_finalizada_mtx
  alive,            \* the object exists: built and not yet destroyed
  request,          \* the library holds an accepted request it has not answered
  lib,              \* [LibThreads -> the callback step the thread is at]
  ctx,              \* [LibThreads -> the context of the callback it runs]
  retorno,          \* what the last despachar() on the context returned
  verdict           \* the result the callback of the last request stores

vars == <<pc, res, finalizada, finalizada_mtx, alive, request, lib, ctx,
          retorno, verdict>>

callerVars == <<pc, retorno>>
libVars == <<lib, ctx, verdict>>

-----------------------------------------------------------------------------
\* The caller is inside esperar(), or about to enter it.
Waiting == {"esperar", "predicate", "block", "asleep", "awake"}

CallerPCs == Waiting \cup {"out", "dispatch", "return"}

\* The steps of a callback: _res, then the four statements of notificar_um().
CallbackPCs == {"res", "lock", "set", "notify", "unlock"}

TypeOK ==
  /\ pc \in [Contextos -> CallerPCs]
  /\ res \in [Contextos -> BOOLEAN]
  /\ finalizada \in [Contextos -> BOOLEAN]
  /\ finalizada_mtx \in [Contextos -> LibThreads \cup {NoThread, Caller}]
  /\ alive \in [Contextos -> BOOLEAN]
  /\ request \in [Contextos -> BOOLEAN]
  /\ lib \in [LibThreads -> CallbackPCs \cup {"idle"}]
  /\ ctx \in [LibThreads -> Contextos]
  /\ retorno \in [Contextos -> BOOLEAN]
  /\ verdict \in [Contextos -> BOOLEAN]

Init ==
  /\ pc = [c \in Contextos |-> "out"]
  /\ res = [c \in Contextos |-> FALSE]
  /\ finalizada = [c \in Contextos |-> FALSE]
  /\ finalizada_mtx = [c \in Contextos |-> NoThread]
  /\ alive = [c \in Contextos |-> c \notin Efemeros]
  /\ request = [c \in Contextos |-> FALSE]
  /\ lib = [l \in LibThreads |-> "idle"]
  /\ ctx \in [LibThreads -> Contextos]
  /\ retorno = [c \in Contextos |-> FALSE]
  /\ verdict = [c \in Contextos |-> FALSE]

-----------------------------------------------------------------------------
(* The caller.                                                             *)

\* A call begins.  A temporary is constructed with _res and _finalizada at
\* their default initializers; a member keeps the values it has.
Construir(c) ==
  /\ pc[c] = "out"
  /\ pc' = [pc EXCEPT ![c] = "dispatch"]
  /\ alive' = [alive EXCEPT ![c] = TRUE]
  /\ res' = [res EXCEPT ![c] = @ /\ c \notin Efemeros]
  /\ finalizada' = [finalizada EXCEPT ![c] = @ /\ c \notin Efemeros]
  /\ UNCHANGED <<finalizada_mtx, request, retorno>> /\ UNCHANGED libVars

\* The library call in despachar() returned MQTTASYNC_SUCCESS: the request is
\* accepted, and may be answered before the caller reaches esperar().
Aceita(c) ==
  /\ pc[c] = "dispatch"
  /\ pc' = [pc EXCEPT ![c] = "esperar"]
  /\ request' = [request EXCEPT ![c] = TRUE]
  /\ UNCHANGED <<res, finalizada, finalizada_mtx, alive, retorno>>
  /\ UNCHANGED libVars

\* The library call returned an error: despachar() returns false.
Recusada(c) ==
  /\ pc[c] = "dispatch"
  /\ pc' = [pc EXCEPT ![c] = "return"]
  /\ retorno' = [retorno EXCEPT ![c] = FALSE]
  /\ UNCHANGED <<res, finalizada, finalizada_mtx, alive, request>>
  /\ UNCHANGED libVars

\* The caller takes _finalizada_mtx: on entry to esperar(), or when a wakeup
\* makes wait() take it again.
Travar(c) ==
  /\ pc[c] \in {"esperar", "awake"}
  /\ finalizada_mtx[c] = NoThread
  /\ finalizada_mtx' = [finalizada_mtx EXCEPT ![c] = Caller]
  /\ pc' = [pc EXCEPT ![c] = "predicate"]
  /\ UNCHANGED <<res, finalizada, alive, request, retorno>>
  /\ UNCHANGED libVars

\* wait() evaluates the predicate to false.
NaoFinalizada(c) ==
  /\ pc[c] = "predicate"
  /\ ~finalizada[c]
  /\ pc' = [pc EXCEPT ![c] = "block"]
  /\ UNCHANGED <<res, finalizada, finalizada_mtx, alive, request, retorno>>
  /\ UNCHANGED libVars

\* wait() releases the mutex and joins the waiters in one atomic step.
Dormir(c) ==
  /\ pc[c] = "block"
  /\ pc' = [pc EXCEPT ![c] = "asleep"]
  /\ finalizada_mtx' = [finalizada_mtx EXCEPT ![c] = NoThread]
  /\ UNCHANGED <<res, finalizada, alive, request, retorno>>
  /\ UNCHANGED libVars

\* A condition variable may wake its waiter with no notification.
DespertarEspurio(c) ==
  /\ pc[c] = "asleep"
  /\ pc' = [pc EXCEPT ![c] = "awake"]
  /\ UNCHANGED <<res, finalizada, finalizada_mtx, alive, request, retorno>>
  /\ UNCHANGED libVars

\* Defect: _finalizada stays set for the next call.
ConcluirSemRearmar(c) ==
  /\ pc[c] = "predicate"
  /\ finalizada[c]
  /\ retorno' = [retorno EXCEPT ![c] = res[c]]
  /\ finalizada_mtx' = [finalizada_mtx EXCEPT ![c] = NoThread]
  /\ pc' = [pc EXCEPT ![c] = "return"]
  /\ UNCHANGED <<res, finalizada, alive, request>> /\ UNCHANGED libVars

\* wait() returns: _finalizada is reset for the next call, _res is read, and
\* the destructor of the unique_lock releases the mutex.
Concluir(c) ==
  /\ pc[c] = "predicate"
  /\ finalizada[c]
  /\ finalizada' = [finalizada EXCEPT ![c] = FALSE]
  /\ retorno' = [retorno EXCEPT ![c] = res[c]]
  /\ finalizada_mtx' = [finalizada_mtx EXCEPT ![c] = NoThread]
  /\ pc' = [pc EXCEPT ![c] = "return"]
  /\ UNCHANGED <<res, alive, request>> /\ UNCHANGED libVars

\* despachar() returns to the public method; a temporary is destroyed.
Retornar(c) ==
  /\ pc[c] = "return"
  /\ pc' = [pc EXCEPT ![c] = "out"]
  /\ alive' = [alive EXCEPT ![c] = c \notin Efemeros]
  /\ UNCHANGED <<res, finalizada, finalizada_mtx, request, retorno>>
  /\ UNCHANGED libVars

-----------------------------------------------------------------------------
(* The library's threads.                                                  *)

\* A free library thread picks an accepted request it has the outcome of, and
\* enters sucesso() or falha() with the context of that request.
IniciarCallback(l, c, ok) ==
  /\ lib[l] = "idle"
  /\ request[c]
  /\ request' = [request EXCEPT ![c] = FALSE]
  /\ lib' = [lib EXCEPT ![l] = "res"]
  /\ ctx' = [ctx EXCEPT ![l] = c]
  /\ verdict' = [verdict EXCEPT ![c] = ok]
  /\ UNCHANGED <<res, finalizada, finalizada_mtx, alive>>
  /\ UNCHANGED callerVars

\* Defect: falha() counts on _res being false already.
EscreverSoSucesso(l) ==
  /\ lib[l] = "res"
  /\ res' = [res EXCEPT ![ctx[l]] = @ \/ verdict[ctx[l]]]
  /\ lib' = [lib EXCEPT ![l] = "lock"]
  /\ UNCHANGED <<finalizada, finalizada_mtx, alive, request, ctx, verdict>>
  /\ UNCHANGED callerVars

\* sucesso() stores true and falha() stores false, with no lock held.
EscreverRes(l) ==
  /\ lib[l] = "res"
  /\ res' = [res EXCEPT ![ctx[l]] = verdict[ctx[l]]]
  /\ lib' = [lib EXCEPT ![l] = "lock"]
  /\ UNCHANGED <<finalizada, finalizada_mtx, alive, request, ctx, verdict>>
  /\ UNCHANGED callerVars

\* Defect: notificar_um() goes ahead without the mutex.
NotificarSemTravar(l) ==
  /\ lib[l] = "lock"
  /\ lib' = [lib EXCEPT ![l] = "set"]
  /\ UNCHANGED <<res, finalizada, finalizada_mtx, alive, request, ctx, verdict>>
  /\ UNCHANGED callerVars

\* Defect: the mutex is recorded as the context's, not as the thread's.
NotificarTravarErrado(l) ==
  /\ lib[l] = "lock"
  /\ finalizada_mtx[ctx[l]] = NoThread
  /\ finalizada_mtx' = [finalizada_mtx EXCEPT ![ctx[l]] = ctx[l]]
  /\ lib' = [lib EXCEPT ![l] = "set"]
  /\ UNCHANGED <<res, finalizada, alive, request, ctx, verdict>>
  /\ UNCHANGED callerVars

\* notificar_um() takes _finalizada_mtx.
NotificarTravar(l) ==
  /\ lib[l] = "lock"
  /\ finalizada_mtx[ctx[l]] = NoThread
  /\ finalizada_mtx' = [finalizada_mtx EXCEPT ![ctx[l]] = l]
  /\ lib' = [lib EXCEPT ![l] = "set"]
  /\ UNCHANGED <<res, finalizada, alive, request, ctx, verdict>>
  /\ UNCHANGED callerVars

\* Defect: the mutex is released before notify_one().
NotificarMarcarDestravando(l) ==
  /\ lib[l] = "set"
  /\ finalizada' = [finalizada EXCEPT ![ctx[l]] = TRUE]
  /\ finalizada_mtx' = [finalizada_mtx EXCEPT ![ctx[l]] = NoThread]
  /\ lib' = [lib EXCEPT ![l] = "notify"]
  /\ UNCHANGED <<res, alive, request, ctx, verdict>>
  /\ UNCHANGED callerVars

\* notificar_um() sets _finalizada.
NotificarMarcar(l) ==
  /\ lib[l] = "set"
  /\ finalizada' = [finalizada EXCEPT ![ctx[l]] = TRUE]
  /\ lib' = [lib EXCEPT ![l] = "notify"]
  /\ UNCHANGED <<res, finalizada_mtx, alive, request, ctx, verdict>>
  /\ UNCHANGED callerVars

\* Defect: notify_one() is left out.
NaoNotificar(l) ==
  /\ lib[l] = "notify"
  /\ lib' = [lib EXCEPT ![l] = "unlock"]
  /\ UNCHANGED <<pc, res, finalizada, finalizada_mtx, alive, request, ctx,
                 retorno, verdict>>

\* notify_one() wakes the caller if it sleeps, and is lost otherwise.
NotificarUm(l) ==
  /\ lib[l] = "notify"
  /\ pc' = [pc EXCEPT ![ctx[l]] = IF @ = "asleep" THEN "awake" ELSE @]
  /\ lib' = [lib EXCEPT ![l] = "unlock"]
  /\ UNCHANGED <<res, finalizada, finalizada_mtx, alive, request, ctx,
                 retorno, verdict>>

\* The lock_guard releases the mutex and the callback returns.
NotificarDestravar(l) ==
  /\ lib[l] = "unlock"
  /\ finalizada_mtx' = [finalizada_mtx EXCEPT ![ctx[l]] = NoThread]
  /\ lib' = [lib EXCEPT ![l] = "idle"]
  /\ UNCHANGED <<res, finalizada, alive, request, ctx, verdict>>
  /\ UNCHANGED callerVars

-----------------------------------------------------------------------------
\* The caller's own steps, once a call has begun.
CallerStep(c) ==
  \/ Aceita(c) \/ Recusada(c) \/ Travar(c) \/ NaoFinalizada(c)
  \/ Dormir(c) \/ Concluir(c) \/ Retornar(c)

CallbackStep(l) ==
  \/ EscreverRes(l) \/ NotificarTravar(l) \/ NotificarMarcar(l)
  \/ NotificarUm(l) \/ NotificarDestravar(l)

Next ==
  \/ \E c \in Contextos :
       \/ Construir(c)
       \/ CallerStep(c)
       \/ DespertarEspurio(c)
       \/ \E l \in LibThreads, ok \in BOOLEAN : IniciarCallback(l, c, ok)
  \/ \E l \in LibThreads : CallbackStep(l)

Spec == Init /\ [][Next]_vars

\* A runnable thread runs, and the library answers every request it accepted:
\* MQTTAsync.h states of the calls that they start a request whose success or
\* failure is notified by a callback.  No fairness makes a call begin or a
\* wakeup spurious.
Fairness ==
  /\ \A c \in Contextos : WF_vars(CallerStep(c))
  /\ \A l \in LibThreads : WF_vars(CallbackStep(l))
  /\ \A c \in Contextos :
       WF_vars(\E l \in LibThreads, ok \in BOOLEAN : IniciarCallback(l, c, ok))

FairSpec == Spec /\ Fairness

-----------------------------------------------------------------------------
(* Properties.                                                             *)

InCallback(l, c) == lib[l] # "idle" /\ ctx[l] = c

\* A callback never uses a context that its caller has destroyed: a temporary
\* of subscribe() or unsubscribe() outlives the last access of sucesso() or
\* falha(), because notificar_um() signals before it releases the mutex.
NoDanglingContext ==
  \A l \in LibThreads : lib[l] # "idle" => alive[ctx[l]]

\* A caller asleep on a finished request has its notification on the way: no
\* interleaving of the predicate, the blocking and notify_one() loses it.
NoLostWakeup ==
  \A c \in Contextos :
    pc[c] = "asleep" /\ finalizada[c] =>
      \E l \in LibThreads : lib[l] = "notify" /\ ctx[l] = c

\* The comment of esperar(): the mutex makes the value of _res consistent.
\* Once _finalizada is set, _res is the result of the current request and no
\* callback is still to write it.
ResConsistente ==
  \A c \in Contextos : finalizada[c] =>
    /\ res[c] = verdict[c]
    /\ ~request[c]
    /\ \A l \in LibThreads : InCallback(l, c) => lib[l] \in {"notify", "unlock"}

\* The inductive invariant behind the three properties above: who holds the
\* mutex, where the caller of a running callback must be, and how far the
\* callback has come when _finalizada is still false or already true.
MutexInv ==
  \A c \in Contextos :
    /\ finalizada_mtx[c] = Caller <=> pc[c] \in {"predicate", "block"}
    /\ \A l \in LibThreads :
         finalizada_mtx[c] = l <=>
           lib[l] \in {"set", "notify", "unlock"} /\ ctx[l] = c

CallbackInv ==
  \A l \in LibThreads : lib[l] # "idle" =>
    /\ pc[ctx[l]] \in Waiting
    /\ ~request[ctx[l]]
    /\ finalizada[ctx[l]] <=> lib[l] \in {"notify", "unlock"}
    /\ lib[l] # "res" => res[ctx[l]] = verdict[ctx[l]]
    /\ \A k \in LibThreads : InCallback(k, ctx[l]) => k = l

CallerInv ==
  \A c \in Contextos :
    /\ request[c] => pc[c] \in Waiting /\ ~finalizada[c]
    /\ finalizada[c] => pc[c] \in Waiting \ {"block"} /\ res[c] = verdict[c]
    /\ pc[c] # "out" => alive[c]

IInv == TypeOK /\ MutexInv /\ CallbackInv /\ CallerInv /\ NoLostWakeup

\* The rendezvous implements the promise of Completion: a call returns the
\* answer of its own request, never one left over from an earlier call.
Promise == INSTANCE Completion WITH
  phase <- [c \in Contextos |->
              IF pc[c] \notin Waiting THEN "idle"
              ELSE IF request[c] THEN "pending" ELSE "answered"],
  answer <- verdict,
  returned <- retorno

ImplementsCompletion == Promise!Spec

\* Every call on a context returns, unless its wait is woken spuriously for
\* ever: despachar() never blocks on an answered request.
EveryCallReturns ==
  \A c \in Contextos :
    \/ []<><<DespertarEspurio(c)>>_vars
    \/ (pc[c] = "dispatch" ~> pc[c] = "out")
=============================================================================

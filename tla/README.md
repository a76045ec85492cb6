# A TLA+ model of the asynchronous MQTT client wrapper

The repository is a C++ wrapper, `MQTTClient`, around the asynchronous Paho MQTT
library (`libpaho-mqtt3a.dll`, loaded at run time through `MQTTDll`), and a test
program, `mqtt-test`. The wrapper turns the library's calls with callbacks into
calls that block: each one hands a request to the library and sleeps until one
of the library's threads reports the outcome. This directory holds TLA+ models
of that code, their TLC runs, and TLAPS proofs about them. Paths below are
relative to `src/src/`.

## 1. Inventory

| Component | State | Operations | Talks to |
|---|---|---|---|
| `Contexto` (`MQTT/MQTTClient.h:22`, `MQTTClient.cpp:36-49`) | `_res`, `_finalizada`, a mutex, a condition variable | `esperar()`, `notificar_um()`, and the `_res` stores of `sucesso()` and `falha()` | the calling thread and a library thread |
| Connection (`Connect`, `Disconnect`, `conectado()`, destructor) | `_conexao_mtx`, `_primeira_tentativa`, the member contexts `_conexao` and `_desconexao` | `conectar()`, `desconectar()`, `~MQTTClient()`, the callbacks `sucesso`, `falha`, `perdida` | the library's `setCallbacks`, `connect`, `disconnect`, `isConnected`, `destroy` |
| Subscriptions (`Subscribe`, `Unsubscribe`, `mensagemRecebida`) | `_callback_map` under `_callback_map_slock`, one temporary context per call | `subscribe()`, `unsubscribe()`, their callbacks, message delivery | `subscribeMany`, `unsubscribeMany`, the broker's session |
| `MQTTDll` and the constructor | the static table of function pointers, `hDll`, `_dll_mtx` | `load()`, the wrappers, `MQTTClient::MQTTClient()` | `LoadLibrary`, `GetProcAddress`; every other component calls it |
| `mqtt-test` (`mqtt-test.cpp`) | a loop counter | 100 rounds of connect, subscribe, unsubscribe, disconnect; two message callbacks | `MQTTClient` |
| `MQTTAsync.h` (vendored) | none of its own: the state of the library's client behind it | the declarations of ten calls, their options, the callbacks; the rules for using them | `MQTTDll` calls it, its threads call the callbacks |
| Other Paho headers | none | declarations for persistence and MQTT 5, which the program does not use | - |
| Build files | none | CMake | - |

Interactions. Application threads call the public methods. The library runs the
callbacks on threads of its own, so the two sides share the contexts (under
`_finalizada_mtx`, except for `_res`) and the callback map (under a
reader/writer lock). Connecting and disconnecting exclude each other by
`_conexao_mtx`, which is held *across* the wait for the network. The pointer
table is written under `_dll_mtx` and read with no lock.

What is hard about it, and what makes each part correct:

* **Contexto.** A callback can come before, during or after the caller's test of
  `_finalizada`; the temporaries of `subscribe()` and `unsubscribe()` die as soon
  as the caller returns; the members are reused. Correct means: no callback uses
  a dead context, no wakeup is lost, the result returned is that of the call's
  own request, and an answered call returns.
* **Connection.** `desconectar()` tests `conectado()` before it takes the mutex;
  the connection can be lost at any point; `setCallbacks()` may fail and be
  tried again. Correct means: one command at a time, the library's preconditions
  hold when it is called, no command outlives the wait for it, a success was
  true at some moment of the call, the mutex is always released.
* **Subscriptions.** The map is changed before the request (`subscribe()`), after
  it (`unsubscribe()`) and in callbacks; the broker may grant some topics and
  refuse others; the session outlives the connection. Correct means: nothing
  stays in the map that the session cannot reach, a success is true, messages of
  a subscription find their callback, every call returns.
* **MQTTDll.** A second constructor may run during the first load, or after a
  failed one, while clients already use the table. Correct means: no NULL
  pointer is called, a load that returned true left a complete table, and a client
  that has its handle is not left without a function.
* **mqtt-test.** One thread does everything, so one call that blocks stops the
  program; a client is connected, disconnected and connected again with the map,
  the session and messages under way left over from the round before. Correct
  means: a round that subscribed listens, an unsubscribed topic is quiet,
  messages are dropped only where that must be expected, nothing is under way
  when the client is destroyed, the program ends.
* **The client as a whole, and the contract.** The library is used through two
  components that share one client and one link, by several threads. Correct means:
  every call of theirs together is one that `MQTTAsync.h` allows at that moment, and
  every callback that may be due is set.

`PROJECT.json` lists the hazards one by one, at their lines, with the properties
that cover them.

## 2. Modules

```
Rendezvous <--used by-- Completion <--implemented by-- Contexto        MQTTDll
    ^                       ^
    | implemented by        | implemented by
 Conexao                Inscricoes
    ^  composed by          ^
    +----- MQTTClient ------+ --implements--> MQTTAsync  (the library's contract,
               ^                                  ^       which Conexao implements too)
               | instantiated by                  |
            MQTTTest -----------------------------+

MQTTAsyncTipos: EXTENDed by Conexao, Inscricoes, MQTTClient, MQTTTest and MQTTAsync
```

`MCx.tla` gives the constants of `x` their values for TLC, `xProofs.tla` holds
the theorems about `x`. Names of definitions follow the code, in Portuguese
where the code is. Definitions introduced by a comment that starts with
`Defect:` describe a plausible bug in the definition they precede; no
specification uses them. They serve to confirm that each property can fail: with
the defect put in place of the original, TLC must find the property violated.

### Rendezvous and Completion - how a context is used, and what it promises

`Rendezvous` has three phases per context (idle, pending, answered): a request is made
with a context that has none, the library answers it once, the call that made it takes
the answer. `Completion` adds what the call returns: that answer, or false at once if
the request was refused. `Contexto` shows that the code of a context keeps the promise
to one caller at a time. The other side is shown where the contexts are used: the
members `_conexao` and `_desconexao`, which all threads share, are used as `Rendezvous`
says (`UsaContextos` of `Conexao`), and the temporaries of `subscribe()` and
`unsubscribe()` give their calls what `Completion` says (`UsaContextos` of
`Inscricoes`). Together these justify that `Conexao` and `Inscricoes` take storing a
result and finishing the wait as one step.

### Contexto - `MQTTClient.cpp:36-49` and the callers and callbacks around it

One action per access to shared memory. The caller of a context goes through
`Construir`, `Aceita` or `Recusada` (the library call inside `despachar()`),
`Travar`, `NaoFinalizada`, `Dormir`, `DespertarEspurio`, `Concluir`, `Retornar`:
the lock, the predicate, the atomic release-and-block of `wait()`, the wakeup
and the return. A callback is `EscreverRes` (with no lock, as in the code)
followed by the four steps of `notificar_um()`: `NotificarTravar`,
`NotificarMarcar`, `NotificarUm`, `NotificarDestravar`. `Efemeros` are the
contexts that `subscribe()` and `unsubscribe()` build on the stack: they are not
`alive` outside a call. The last access of a callback to the context is the
release of the mutex; whether the mutex still touches its own memory once
another thread can take it is below the grain of the model.

### Conexao - `conectar()`, `desconectar()`, `~MQTTClient()`, `perdida()`

`pc` follows each thread through the two `despachar()` bodies. Each test and each library
call is a step of its own; `Travar*` take `_conexao_mtx`, `Sair` is the
`lock_guard` going out of scope. The library is external: `Aceitar` gives it a
command, `Conecta`, `Desconecta` and `Fracassa` decide it, `Sucesso` and `Falha`
report it, `PerdeConexao` drops the link at any time, `Perdida` runs the
connection lost callback. A context is used through the promise of `Completion`:
storing the result and finishing the wait is one step, and so is `Esperar`.
`ultima` and `visto` are history variables: the states of the link that each
call saw.

Two modelling decisions deserve a word. `Perdida` has undefined behaviour
(section 5), so `vivo'` is chosen freely: the process ends or goes on. And
`Destrutor` begins only when no call is under way: destroying an object that
another thread is using is the owner's mistake, and the test program does not.

### Inscricoes - `subscribe()`, `unsubscribe()`, the callback map, messages

The vector of topics is a set, and its callbacks a function on that set. Each
section under `_callback_map_slock` is one step. `Inscrever` is the start of
`subscribe()` with the insertions (`insert()` does not overwrite);
`SubscribeAceito`/`SubscribeRecusado` are `subscribeMany()`; `DesfazerInsercao`
takes the callbacks back; `Desinscrever`/`DesinscricaoRecusada` are
`unsubscribeMany()`; `ApagarCallbacks` is the erasure that follows without
waiting for the answer. `unsubscribe()` does not test for an empty vector, as
`subscribe()` does (`VetorVazio`), so `Desinscrever` may be a request for no topic.
`SubscribeSucesso`, `SubscribeInsuficiente` (a topic refused or granted with a lower
QoS), `SubscribeFalha`, `UnsubscribeSucesso` and `UnsubscribeFalha` are the callbacks.
The two that refuse a subscription erase its callbacks under the lock (`Desfazer`) and
notify the context later (`NotificarFalha`); in between, the answer is
`"notificar"`, the call still waits, and a message on another thread finds no callback.
`Chega`, `Procurar` and `Tratar` are `mensagemRecebida()`: the lookup under the
shared lock, and the callback after it is released; a callback that returns 0
makes the library deliver the message again.

External: the library handles the accepted requests in the order it accepted
them (`fila`, and `antes`, the requests ahead of each), reaches the broker only
when connected (`AtenderSubscribe`, `AtenderUnsubscribe`), may lose an answer
that has had its effect, or give a request up (`Descartar`). `inscrito` is the
broker's session, kept when `CLEANSESSION = 0` over `Desligar` and `Ligar`, and
possibly left by an earlier process. `Alcance` says which topics each thread
names, so that properties can speak of topics with a single user as well as of
shared ones. `promessa` is history: what the last call that named a topic
returned.

What `NoMessageDropped` demands ends where the library begins to report a refusal: until
then, and after a success, a message finds its callback (`EmVigor`, `SemRecusa`). A
request whose SUBACK refuses a topic counts as refused from when that answer is due.

Topics are subscriptions and `Nomes` the names of messages; `Corresponde` relates
the two at the broker, equality for plain names and `Casa` of `MQTTAsyncTipos` for
wildcards. `Consultar` is the code's `find()`, by the name itself. With
`SessaoPerdivel` the broker may lose its session between two connections
(`LigarSemSessao`): `Connect::sucesso()` does not look at `sessionPresent`, so
nothing changes in the client, and `perdidos` remembers what was lost until it is
granted again.

### MQTTAsyncTipos and MQTTAsync - `MQTT/MQTTDll/MQTTAsync.h`

`MQTTAsyncTipos` has the structures that the client fills in, as their
initializers leave them, with the fields that the client sets or whose default it
relies on. `MQTTAsync` is the abstract specification of the library's client: the
application's calls (`setCallbacks`, `connect`, `disconnect`, `subscribeMany`,
`unsubscribeMany`, `freeMessage`, `destroy`), each guarded by what the header asks of
the application at that moment; what the library may do in the background
(`Conecta`, `Inscreve`, `PerdeConexao`, ...); and the callbacks. `Reportar` is enabled
only if the options of the request set the callback that is due (`Indicado`), and
`Reconecta` only if they ask for automatic reconnection. A behaviour of the client
that implements this specification has used the library as its header says.

The constructors of `Connect`, `Subscribe`, `Unsubscribe` and `Disconnect` are the
records `ConnectOpts`, `ResponseOpts` and `DisconnectOpts`; `RespeitaBiblioteca`, in
`Conexao` and in `MQTTClient`, is the contract with those records and a refinement
mapping.

### MQTTClient - one client and the threads that use it

The module instantiates `Conexao` (`C`) and `Inscricoes` (`I`), whose variable for the
link (`conectado`, `ligado`) is the same one. Any number of threads make any of the
public calls, each thread one at a time (`Livre`). A step is a step of one component
with the other unchanged (`SoC`, `SoI`), except where the link changes: a connection
that succeeds is also `Inscricoes`' `Ligar` or `LigarSemSessao` (`Sobe`), and a
disconnection, a loss and `destroy()` are also its `Desligar` (`Desce`). A request made
without a client is refused (`Pedir`). `Destrutor` begins when no thread is in a call;
after `destroy()` a message callback makes no further step (`Tratar`), since what it
would find is not defined.

`RespeitaBiblioteca` here is what neither component can say alone: requests, commands
and messages together keep to the contract. For example, `conectar()` and `subscribe()`
may be under way at once, but never two requests of one thread. That `destroy()` finds no
request in hand is not a result about the code: it follows from the owner destroying the
client when no thread is in a call, which is assumed.

### MQTTTest - `mqtt-test.cpp`

`main()` is `Conectar`, `Subscribe`, `Unsubscribe`, `Desconectar` and `Retornar`, one for
each line that makes a call; `linha` is the last of them and `rodada` the round.
`Falhou` is the `return -1` after a call that returned false: the client goes out of
scope and `~MQTTClient()` runs. `Tratar` runs the program's two callbacks, which
both return 1.

The module instantiates `MQTTClient` (`K`) with `main()` as its only thread. Each step
is a step of the client: a line of `main()` is a call with the program's arguments, and
the steps of a call and of the library leave `linha` and `rodada` alone (`Em`).

Two constants say what the header leaves open about the library:

* `Serial`: it has one thread for all callbacks, so that none begins while another is
  at work (`PodeChamar`). The header says only that callbacks run on another thread than
  the application's. No safety property and no theorem assumes it; it is a parameter of
  the run for liveness.
* `SessaoPerdivel`: the broker may lose the session.

`ultrapassadas` is history: the library's threads that were with a message when, on
another thread, the end of its subscription, or of the link, was reported
(`Encerradas`). The code does nothing about such a message: its callback may run after
`unsubscribe()` has returned, or in the memory of a client that was destroyed. `NoLateMessage`,
`QuietDestroy` and `DropsAreExpected` name these messages as their exceptions and speak
of all the others. With `Serial` there are none.

Whether the library gives up a request whose connection was lost (`Desistir`), or
keeps it for the next connection of a resumed session, is left to fairness
(section 4).

A message can come only for a subscription that the broker has: one that the broker
still sends after its UNSUBACK is not modelled, and `NoLateMessage` says nothing of it.

### MQTTDll - `MQTTDll.cpp:5-59`, the wrappers, the constructor

The table is known from the number of pointers stored so far, since `load()`
stores them in a fixed order; `Exports` are the functions that the DLL has, and
the others are stored as NULL. `Travar`, `JaCarregada`, `NaoCarregou`,
`Carregar`, `Armazenar`, `Armazenou` are the constructor under `_dll_mtx`;
`Chamar`, `Testar`, `SemFuncao`, `Invocar` are a wrapper, whose test and call
read the pointer separately and with no lock. The unsynchronized read is in C++
a data race; the outcomes modelled are those of an aligned pointer: the old
value or the new one.

## 3. Runs

| Run | Instance | States | What it shows |
|---|---|---|---|
| `contexto` | one member, one temporary, two library threads | 39 168 | `NoDanglingContext`, `NoLostWakeup`, `ResConsistente`, the refinement `ImplementsCompletion`, and `EveryCallReturns` |
| `conexao` | three threads | 710 333 | `OneCommandAtATime`, `CallbackPreconditions`, `CallResultObserved`, `EveryCommandAwaited`, `NoCallStuck`, and the refinements `RespeitaBiblioteca` and `UsaContextos` |
| `conexao_live` | two threads, fair | 26 612 | `LockReleased` |
| `conexao_loss` | two threads | stops at the violation | `LossIsSurvived` fails (section 5) |
| `inscricoes` | two threads, two topics (one shared), one library thread | 719 236 | `HandlersAreSubscribed`, `SuccessIsInEffect`, `NoCallStuck`, `NoMessageDropped` |
| `inscricoes_live` | the same threads with one topic, sessions may be lost, no messages, fair | 158 102 | the refinement `UsaContextos`, `CallsReturn`, `CallsReturnOnline` |
| `inscricoes_session` | two threads, two topics, no messages, fair | stops at the violation | `SessionIsReset` fails (section 5) |
| `curingas` | one thread, the filter `SENSOR/#` and the topic `SENSOR/1` | stops at the violation | `MatchingMessageHandled` fails (section 5) |
| `programa` | two rounds, two library threads, callbacks in any overlap, sessions may be lost | 507 918 | `RoundListens`, `NoLateMessage`, `QuietDestroy`, `DropsAreExpected` |
| `programa_live` | three rounds, one thread for all callbacks, sessions may be lost, fair | 50 461 | `Termina` and `StuckOnlyOffline` |
| `cliente` | two threads, one topic, one callback, one library thread, sessions may be lost | 277 950 | the refinement `RespeitaBiblioteca` of the whole client |
| `mqttdll` | three threads, four functions, one missing from the DLL | 159 971 | `NoNullCall`, `LoadedIsComplete`, `MissingOnlyWhileLoading` |

Each component's main run also checks the module's `TypeOK`. The runs `inscricoes` and
`cliente` have a VIEW, which leaves out the results that calls returned and results that
no context shows, and in `cliente` the history variables (`ultima`, `visto`,
`promessa`): no guard and no property of the run but `TypeOK` reads them, nor the
refinement mapping of `cliente`, so states that differ in them alone have the same
futures. `programa` has its two library threads as a symmetry set; it has no liveness
property.
No state constraint is used and no counter is unbounded: every instance is
explored completely.

Why these bounds are enough to see the interesting cases. *Contexto*: contexts
do not share anything but the library's threads, so two of them, one of each
kind, with two threads let the callbacks of both overlap and let a thread move
from one to the other; calls repeat without limit, so stale values would be
seen. *Conexao*: a race of `desconectar()` with `conectar()` needs two threads,
a third shows a command slipping in between the two and the destructor after
both. *Inscricoes*: a shared topic gives two callers that insert and erase the
same entry, an exclusive one gives a caller that nothing but the broker
disturbs, and both in one vector give a partial grant. One callback value is
enough for the properties, which tell a callback from none. *MQTTTest*: the
rounds differ only in being the first (a session of an earlier process, an empty
map), a later one (a map and a session left from the round before) or the last. For
liveness there are three rounds; for safety two, the last of which is also a later one,
since only the guards of `Conectar` and `Retornar` read the number of a round beyond the
first. Two library threads let a message overlap another one, an answer or a loss.
*MQTTClient*: one thread's `subscribe()` or `unsubscribe()` against another's `conectar()`, `desconectar()` or destructor needs two threads, both of them on
the topic, and one library thread brings messages in between; the contract
speaks of each topic by itself. *MQTTDll*: four
functions are create (tested, first), strerror (untested, last), a missing one
and an ordinary one; three threads are one that loads, one that waits for the
lock and one that uses the table after a failed load. The theorems remove the
bounds for everything but liveness.

The session is kept in `inscricoes` and may be lost in `inscricoes_live`, `cliente`,
`programa` and `programa_live`. A session lost at the broker leaves the client's map as
it is, so for the components it is a case that the theorems cover rather than a question
of its own; what it can do to the program is `RoundListens`: after a lost session the
stale callbacks must not keep the next round from subscribing.

Deadlock is checked in every run. In `Conexao`, `Encerrado` marks the states where
nothing is left to do: the client destroyed, or the process ended; `MQTTClient` and
`MQTTTest` take it over.

## 4. Fairness

In the components only weak fairness is assumed, and only of these: a thread that can
take a step of its code takes it; a callback that is due is called and runs to its end;
and a request or command that the library can serve is decided. For `Conexao` that is
every command, since connecting and disconnecting have timeouts of 10 in the options
(`MQTT/MQTTDll/MQTTAsync.h` says of each call that success and failure are reported by
its callbacks). For `Inscricoes` it is only what the broker can be asked (`Atender`),
with the link up and the request first in the queue.

No fairness makes the library give up a subscription request that it cannot send
(`Descartar`; `Desistir` in `MQTTTest`): `esperar()` has no timeout, and the header gives
none for these requests. `CallsReturn` takes it as its hypothesis, in the form
`WF(Descartar) => ...`; `CallsReturnOnline` does without it and takes as its hypothesis
that the link stays up in the end. The early return of `Subscribe::sucesso()`, without
its notification, violates both.

`MQTTTest` assumes the same of `main()`, of the requests that the broker can be asked
(`Atender`) and of each message under way, which is handled. For the report of an
answer (`Responder`) it assumes strong fairness: with one thread for callbacks a report
is not enabled while a message is handled, so that weak fairness would let a stream
of messages put it off for ever; that the library reports an answer although
messages keep coming is an assumption on it, and `Termina` needs it. With more than one
thread a report waits for nothing, so one thread is the harder case.

`Termina` has the hypothesis of `CallsReturn`: if the requests that cannot be sent fail
in the end, the program ends. `StuckOnlyOffline` does without it:
the program may then block for ever, since `esperar()` has no timeout and the only thread that could call `conectar()` is the one
that waits, but only in `subscribe()` or `unsubscribe()` with the link down.

In the components, no fairness makes a call begin, a message come in, a connection
go up or be lost, or a wakeup be spurious. None makes a particular thread win
`_conexao_mtx`: `std::mutex` is not fair, so a thread may starve, and the
property checked is `LockReleased` (whoever holds the mutex releases it, also
though it sleeps on the network with it), not that every call returns.
`EveryCallReturns` excludes behaviours in which the operating system wakes the
caller spuriously for ever.

## 5. Findings

* **`conexao_loss`.** `Connect::perdida()` (`MQTT/MQTTClient.cpp:97-98`) casts its
  context to `MQTTClient *`, but `setCallbacks()` was given the `Connect`
  (line 131), and it appends `cause`, which `MQTTAsync.h:415` says is always
  NULL, to a `std::string`. A lost connection therefore runs into undefined
  behaviour. The run needs one `conectar()` and one loss.
* **`inscricoes_session`.** The comment of `MQTTClient.cpp:61` says that each new
  connection resets the session; `_CLEANSESSION` is 0 (`MQTTClient.h:45`), so the
  session is resumed. The comment of `MQTTClient.cpp:325` relies on that, and
  `SuccessIsInEffect` and `NoMessageDropped` hold only because of it.
* **`curingas`.** `mensagemRecebida()` searches the map for the topic name of the
  message (`MQTT/MQTTClient.cpp:109`), while `subscribe()` inserted the callback under
  the filter. For a filter with a wildcard the callback is never found: the message
  is freed and acknowledged unseen. `MQTTAsync.h:346` says that such a callback is
  called "when a new message that matches a client subscription has been received
  from the server". The run subscribes to `SENSOR/#` and drops `SENSOR/1/HUMIDITY`.

## 6. Proofs

All theorems hold for every value of the constants that satisfies the module's
`ConstAssumption`: any number of threads, contexts, topics, callbacks,
functions. The assumptions say that the values standing for "nobody" or "no
callback" are not threads or callbacks, that there is a name for messages, and, in
`MQTTDll`, that the DLL exports
`MQTTAsync_strerror` (the wrapper `strerror()` does not test its pointer).

* **ContextoProofs.** `IInv` is inductive: `MutexInv` says who holds the mutex at
  each place, `CallbackInv` where the caller of a running callback can be and
  what is stored by then, `CallerInv` what is true of a caller between calls.
  `NoLostWakeup` alone is not inductive, since it needs to know that the caller
  cannot be between its test and its sleep when `_finalizada` is set: that is
  what the mutex gives. From it follow type correctness,
  `CallbacksStayInLifetime`, `WakeupsAreNotLost`, `ResultIsConsistent` and the
  refinement `ContextoImplementsCompletion` (initial states map to initial
  states, each step to a step or a stutter).
* **ConexaoProofs.** `FinishedInv` (a context is finished only for the one thread
  that waits on it) and `CommandInv` (a decided command has had its effect during
  the call) carry `CallResultObserved`; `LockInv` with `EveryCommandAwaited`
  carries `OneCommandAtATime`; `CommandInv` and `LockInv` carry
  `CallbackPreconditions`, since only a connect command brings the link up.
  `WaitInv` (whoever waits has a command in hand or its answer) carries
  `CallsAreNotStuck`: no call waits for what cannot come. `ConexaoUsaContextos` is the
  refinement of `Rendezvous`, which rests on there being one waiter (`OneWaits`): the
  shared contexts are never given a second request, nor an answer taken twice.
  `ConexaoRespeitaBiblioteca` is the refinement of the contract: under the
  invariant, each action maps to the call, the background step or the callback of
  `MQTTAsync` of its name, or to a stutter.
* **InscricoesProofs.** `HandlersAreSubscribed` speaks of quiet moments only. The
  invariant behind it, `MapInv`, gives every entry of the map a reason in every
  state: either its subscription stands and nothing queued ends it (`Assente`),
  or a call under way will subscribe it or take it back (`Sustenta`). `OwnerInv`
  follows a topic with one user through its calls and gives `SuccessIsInEffect`
  and, as an action property, `NoMessageDropped`.
  The broker may lose its session throughout: a lost subscription is still
  `Concedido` until it is unsubscribed or granted again. `MessagesFindCallbacks` rests on
  `CallInv`: the callbacks of a call that waits are in the map as long as its refusal has
  not begun to be reported. `InscricoesUsaContextos` is the
  refinement of `Completion`, and `CallsAreNotStuck` says of each wait that its answer
  can still come; it is a conjunct of the inductive invariant. `PlainTopicsAreHandled` bounds the finding of `curingas`: with topics
  matched as `MQTTAsync.h` says, every message that matches a subscribed filter without
  wildcards finds its callback, also beside filters with wildcards (`LiteralCasa`).
* **MQTTClientProofs.** The argument is compositional. Each step is a step or a stutter
  of each component (`StepConexao`, `StepInscricoes`), so the client implements both
  (`ImplementsConexao`, `ImplementsInscricoes`), and the invariants proved of the
  components are instantiated (`CP`, `IP`) and not proved again (`ComponentInv`). The
  lemmas `Same...` say that the instance of a component's proofs and the instance of the
  component name the same things; the provers see two names. The client's own
  invariant relates the components: `CallInv`, that a thread is in one call at a time and
  in none of the subscriptions' while the client is destroyed, and `ClientInv`, that the
  link is up only on a client with its callbacks set, and that requests in hand have a
  client. From it follows `ClienteRespeitaBiblioteca`: with any number of threads in any
  interleaving, connection and subscriptions together use the library as `MQTTAsync.h`
  says (`StepBibliotecaC` and `StepBibliotecaI`, one step of the proof for each action).
* **MQTTTestProofs.** Each step of the program is a step or a stutter of the client
  (`StepCliente`), so the program implements `MQTTClient` (`ImplementsClient`) and
  inherits its invariant (`ComponentInv`); `ImplementsConexao`, `ImplementsInscricoes`
  and `ProgramaRespeitaBiblioteca` are corollaries. The program's own invariant adds the
  line of `main()` that a call belongs to (`PhaseInv`), the client that a call needs
  (`HandleInv`), what a subscription that is bound to succeed has reached (`ListenInv`),
  what the calls have promised so far (`PromiseInv`), and that the subscription of a
  message under way stands, and its link, until the end of one of them is reported
  (`MessageInv`, `FirstInv`). Each part has its
  lemma (`StepPhase`, `StepHandle`, `StepListen`, `StepPromise`, `StepMessage`). From it
  follow the safety properties of `programa`. Nothing is assumed of the number of rounds
  and of library threads, nor of how callbacks overlap (`Serial`), nor of
  `SessaoPerdivel`.
* **MQTTDllProofs.** `LoadInv`: one constructor at a time is in `load()`, and
  outside of it the table is complete or untouched. `HandleInv`, that a handle comes
  with a loaded DLL, gives `HandleGetsTable`: a client that has its handle misses a
  function only while another constructor's `load()` is storing the table.

Only model-checked: the liveness properties `EveryCallReturns`, `LockReleased`,
`CallsReturn`, `CallsReturnOnline`, `Termina` and `StuckOnlyOffline`, which depend on fairness and are out of
the prover's reach, and the three violated properties.

## 7. What is not modelled

* The console set-up in `mqtt-test.h`, which is I/O, and the two pauses of `main()`:
  any number of steps of the library may come between two calls anyway.
* A vector of callbacks shorter than that of topics (the code indexes both and
  would read past the end), and a callback that returns neither 0 nor 1, which
  `MQTTAsync.h` forbids.
* A message callback that calls back into the client. The program has none.
* A message that the broker still sends after its UNSUBACK.
* What happens to a message callback after the client was destroyed under it.
* A DLL without `MQTTAsync_strerror`, excluded by an assumption: `strerror()` has no test,
  and would call NULL.
* In `MQTTClient`, the use of a client after it was destroyed, or its destruction under
  a call (the defect `DestruirEmUso`): mistakes of the client's owner.
* In `MQTTTest`, the loading of the DLL: one constructor runs, before anything else,
  and `handle` is TRUE or FALSE for a `create()` that succeeded or not. `MQTTDll` has
  the rest.
* Three hazards are reachable and nothing in the code prevents them, so no property
  covers them: a failed `subscribe()` erases the callbacks that another thread, or an earlier
  call, had put there, and `insert()` keeps an older callback (`MQTTClient.cpp:168, 176`); a
  failed `unsubscribe()` leaves the topic subscribed without its callback
  (`MQTTClient.cpp:267`); and of two threads that name one topic, `unsubscribe()` may
  erase the callback of a `subscribe()` that is granted after it
  (`MQTTClient.cpp:266`). The models have the states; the properties leave them out.
* Message payloads, texts and log output, and the values of the time options.
* Of `MQTTAsync.h`, what no source of the program uses: publishing, tokens,
  persistence, TLS, proxies, tracing, MQTT 5. The other vendored headers and the
  build files.

## 8. Plan

Done, in the order of importance: `Contexto` with `Completion`, `Conexao`,
`Inscricoes`, `MQTTDll`, the library's contract `MQTTAsync`, the whole client
`MQTTClient`, and the program `MQTTTest`, each with its runs and its theorems.

What is left:

1. Threads that share a topic: which of two callbacks stays in the map, and an
   abstract map whose operations are atomic for `Inscricoes` to implement.
2. `Contexto` with a library thread as a caller, for callbacks that call back into
   the client.
3. What `QuietDestroy` and `NoLateMessage` say, for any number of threads, at the level
   of `MQTTClient`: today they are proved for the program, which has one.

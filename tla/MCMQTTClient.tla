---------------------------- MODULE MCMQTTClient ----------------------------
(* Two threads that call on one client, both of them on the one topic.     *)
EXTENDS MQTTClient

CONSTANTS t1, t2, l1, topico, cb1

MCThreads == {t1, t2}
MCLib == {l1}
MCTopicos == {topico}
MCCallbacks == {cb1}
MCCorresponde == {<<n, n>> : n \in Topicos}
MCAlcance == [t \in Threads |-> Topicos]

\* The variables without the results of the calls and the history of them
\* (retornoC, retornoI, ultima, visto, promessa), and without a result that no
\* context shows: no guard of a step and no part of the refinement mapping reads
\* these, so that states that differ in them alone have the same steps.
MCView ==
  <<pcC, conexao_mtx, primeira_tentativa,
    {op \in DOMAIN finalizadaC : finalizadaC[op]},
    {op \in DOMAIN finalizadaC : finalizadaC[op] /\ resC[op]}, destrutor, vivo,
    handle, conectado, registrados, comando, desfecho, perda, pcI, topicos,
    finalizadaI, {t \in finalizadaI : resI[t]}, callback_map, fila, antes,
    resposta, qos, inscrito, perdidos, lib, mensagem, callback>>
=============================================================================

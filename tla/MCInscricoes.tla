---------------------------- MODULE MCInscricoes ----------------------------
(* Two threads that share topic b; topic a belongs to t1 alone.            *)
(* Where liveness is checked b is the only topic.                          *)
EXTENDS Inscricoes

CONSTANTS t1, t2, l1, a, b, c1

MCThreads == {t1, t2}
MCLibThreads == {l1}
MCTopicos == {a, b}
MCCallback == {c1}
MCNoLibThreads == {}
MCUmTopico == {b}
MCIguais == {<<n, n>> : n \in MCTopicos}
MCIguaisUm == {<<n, n>> : n \in MCUmTopico}
MCAlcance == [t \in MCThreads |-> IF t = t1 THEN {a, b} ELSE {b}]
MCAlcanceUm == [t \in MCThreads |-> MCUmTopico]

\* The variables without what the calls returned, the results that no context
\* shows and the messages of idle threads: no guard, and no property of the run
\* that uses the view but TypeOK, reads these.
MCView ==
  <<pc, topicos, promessa, {t \in finalizada : res[t]}, finalizada,
    callback_map, libraryVars, brokerVars, lib, callback,
    [l \in {k \in LibThreads : lib[k] # "idle"} |-> mensagem[l]]>>
=============================================================================

----------------------------- MODULE MCCuringas -----------------------------
(* One thread, a filter with a wildcard and a plain topic under it, and the *)
(* names that MQTTAsync.h gives as examples of topics.                      *)
EXTENDS Inscricoes

CONSTANTS t1, l1, c1

MCThreads == {t1}
MCLibThreads == {l1}
MCFiltros == {<<"SENSOR", "#">>, <<"SENSOR", "1">>}
MCNomes == {<<"SENSOR", "1">>, <<"SENSOR", "1", "HUMIDITY">>, <<"OTHER", "1">>}
MCCasam == {p \in MCFiltros \X MCNomes : Casa(p[1], p[2])}
MCCallback == {c1}
MCAlcance == [t \in MCThreads |-> MCFiltros]
=============================================================================

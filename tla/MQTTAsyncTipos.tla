--------------------------- MODULE MQTTAsyncTipos ---------------------------
(***************************************************************************)
(* The structures of MQTTAsync.h that the client fills in or reads, and    *)
(* the matching of topic names with subscriptions.  A structure keeps the  *)
(* fields that the client sets, and those whose default it relies on.      *)
(***************************************************************************)
EXTENDS Naturals, Sequences

\* A callback of the options that is not set.
NULL == "NULL"

\* MQTTAsync_connectOptions, as its initializer leaves it.
connectOptions_initializer ==
  [keepAliveInterval |-> 60, cleansession |-> 1, connectTimeout |-> 30,
   retryInterval |-> 0, automaticReconnect |-> 0,
   onSuccess |-> NULL, onFailure |-> NULL, context |-> NULL]

\* MQTTAsync_disconnectOptions; the timeout is in milliseconds.
disconnectOptions_initializer ==
  [timeout |-> 0, onSuccess |-> NULL, onFailure |-> NULL, context |-> NULL]

\* MQTTAsync_responseOptions, for subscribeMany() and unsubscribeMany().
responseOptions_initializer ==
  [onSuccess |-> NULL, onFailure |-> NULL, context |-> NULL]

\* The value of a refused topic in a SUBACK.
MQTT_BAD_SUBSCRIBE == 128

\* A subscription matches a topic name level by level: '+' stands for any one
\* level, and a '#', which comes last, for the whole sub-tree under the others.
Casa(filtro, nome) ==
  LET subarvore == filtro # <<>> /\ filtro[Len(filtro)] = "#"
      fixos == IF subarvore THEN Len(filtro) - 1 ELSE Len(filtro)
  IN  /\ IF subarvore THEN Len(nome) > fixos ELSE Len(nome) = fixos
      /\ \A i \in 1 .. fixos : filtro[i] \in {"+", nome[i]}
=============================================================================

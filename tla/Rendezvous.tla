----------------------------- MODULE Rendezvous -----------------------------
(***************************************************************************)
(* How a Contexto may be used: a request is made with a context that has   *)
(* none, the library answers it once, and the one call that made it takes  *)
(* the answer.  Module Contexto has a single call at a time on a context,  *)
(* so this is what Conexao, whose contexts are members that all threads    *)
(* share, must guarantee for the promise of Completion to hold.            *)
(***************************************************************************)

CONSTANT Contextos   \* the Connect, Disconnect, Subscribe and Unsubscribe objects

VARIABLES
  phase,      \* [Contextos -> {"idle", "pending", "answered"}]
  answer      \* [Contextos -> BOOLEAN], the library's answer to the current request

vars == <<phase, answer>>

Init ==
  /\ phase = [c \in Contextos |-> "idle"]
  /\ answer = [c \in Contextos |-> FALSE]

\* The library accepts the request.
Accept(c) ==
  /\ phase[c] = "idle"
  /\ phase' = [phase EXCEPT ![c] = "pending"]
  /\ UNCHANGED answer

\* The library answers an accepted request, once.
Answer(c, ok) ==
  /\ phase[c] = "pending"
  /\ phase' = [phase EXCEPT ![c] = "answered"]
  /\ answer' = [answer EXCEPT ![c] = ok]

\* The call takes the answer.
Take(c) ==
  /\ phase[c] = "answered"
  /\ phase' = [phase EXCEPT ![c] = "idle"]
  /\ UNCHANGED answer

Next ==
  \E c \in Contextos :
    Accept(c) \/ Take(c) \/ \E ok \in BOOLEAN : Answer(c, ok)

Spec == Init /\ [][Next]_vars
=============================================================================

----------------------------- MODULE Completion -----------------------------
(***************************************************************************)
(* What a Contexto promises to the thread that uses it: a call hands one   *)
(* request to the library, the library answers that request once, and the  *)
(* call returns exactly the answer its own request got.  A request that    *)
(* the library refuses returns FALSE at once.  Locks, the condition        *)
(* variable and the lifetime of the object are left to module Contexto,    *)
(* which implements this specification.                                    *)
(***************************************************************************)

CONSTANT Contextos   \* the Connect, Disconnect, Subscribe and Unsubscribe objects

VARIABLES
  phase,      \* [Contextos -> {"idle", "pending", "answered"}]
  answer,     \* [Contextos -> BOOLEAN], the library's answer to the current request
  returned    \* [Contextos -> BOOLEAN], what the last call returned

vars == <<phase, answer, returned>>

Uso == INSTANCE Rendezvous

TypeOK ==
  /\ phase \in [Contextos -> {"idle", "pending", "answered"}]
  /\ answer \in [Contextos -> BOOLEAN]
  /\ returned \in [Contextos -> BOOLEAN]

Init == Uso!Init /\ returned = [c \in Contextos |-> FALSE]

\* The library accepts the request.
Accept(c) == Uso!Accept(c) /\ UNCHANGED returned

\* The library refuses the request and the call is over.
Refuse(c) ==
  /\ phase[c] = "idle"
  /\ returned' = [returned EXCEPT ![c] = FALSE]
  /\ UNCHANGED <<phase, answer>>

\* The library answers an accepted request, once.
Answer(c, ok) == Uso!Answer(c, ok) /\ UNCHANGED returned

\* The call returns the answer.
Return(c) == Uso!Take(c) /\ returned' = [returned EXCEPT ![c] = answer[c]]

Next ==
  \E c \in Contextos :
    \/ Accept(c)
    \/ Refuse(c)
    \/ \E ok \in BOOLEAN : Answer(c, ok)
    \/ Return(c)

Spec == Init /\ [][Next]_vars
=============================================================================

----------------------------- MODULE MCContexto -----------------------------
(* One member context and one temporary, answered by two library threads.  *)
EXTENDS Contexto

CONSTANTS m, s, lib1, lib2

MCContextos == {m, s}
MCEfemeros == {s}
MCLibThreads == {lib1, lib2}
=============================================================================

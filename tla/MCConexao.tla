----------------------------- MODULE MCConexao -----------------------------
(* Three threads on one client for the safety properties, two for liveness. *)
EXTENDS Conexao

CONSTANTS t1, t2, t3

MCTwo == {t1, t2}
MCThree == {t1, t2, t3}
=============================================================================

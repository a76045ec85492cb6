----------------------------- MODULE MCMQTTDll -----------------------------
(* Three threads, and a DLL that lacks one of the four functions.          *)
EXTENDS MQTTDll

CONSTANTS t1, t2, t3

MCThreads == {t1, t2, t3}
MCExports == {1, 3, 4}
=============================================================================

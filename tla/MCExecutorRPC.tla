--------------------------- MODULE MCExecutorRPC ---------------------------
(* Small instances of ExecutorRPC for TLC.                                 *)
EXTENDS ExecutorRPC
=============================================================================

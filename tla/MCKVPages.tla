----------------------------- MODULE MCKVPages -----------------------------
(* KVPages for TLC.                                                        *)
EXTENDS KVPages
=============================================================================

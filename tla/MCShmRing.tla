----------------------------- MODULE MCShmRing -----------------------------
(* Small instances of ShmRing for TLC.                                     *)
EXTENDS ShmRing
=============================================================================

---------------------------- MODULE MCVectorDump ----------------------------
(* TLC instances of VectorDump. *)
EXTENDS VectorDump
=============================================================================

--------------------------- MODULE MCModelHandle ---------------------------
(* TLC instance of ModelHandle. *)
EXTENDS ModelHandle
=============================================================================

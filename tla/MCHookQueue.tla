----------------------------- MODULE MCHookQueue -----------------------------
(* TLC instance of HookQueue. *)
EXTENDS HookQueue
=============================================================================

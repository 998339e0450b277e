---------------------------- MODULE MCEntryStore ----------------------------
(* TLC instance of EntryStore: two contents, two ids. *)
EXTENDS EntryStore
=============================================================================

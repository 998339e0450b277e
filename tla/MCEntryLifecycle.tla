-------------------------- MODULE MCEntryLifecycle --------------------------
(* TLC instances of EntryLifecycle. *)
EXTENDS EntryLifecycle

\* The entry that carries the dead-knowledge tag is the first one stored.
MCDeadKnowledge == {1}

\* A constraint: every entry has a content, and so a hash, of its own.
OwnContents == \A e \in Rows : entries[e].content = e
=============================================================================

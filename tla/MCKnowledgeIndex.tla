-------------------------- MODULE MCKnowledgeIndex --------------------------
(* TLC instances of KnowledgeIndex. *)
EXTENDS KnowledgeIndex

\* A constraint: compaction meets no call in flight.
QuietCompaction == tick.step \in {"swap", "reset"} => \A s \in Sessions : Idle(s)
=============================================================================

------------------------- MODULE MCSessionTranscripts -------------------------
(* TLC instances of SessionTranscripts. *)
EXTENDS SessionTranscripts

\* Deltas that arrive in any order: at the start, with a gap, inside the gap,
\* longer than the cap, and one that ends above MaxOffset.
MCDeltas == {<<0, 1>>, <<4, 1>>, <<2, 1>>, <<1, 6>>, <<8, 2>>}
=============================================================================

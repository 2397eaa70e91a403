------------------------- MODULE MCTimelineOrdering -------------------------
(* Small instances of TimelineOrdering for TLC.                            *)
EXTENDS TimelineOrdering, TLC

Symmetry == Permutations(Session) \cup Permutations(Receipt)
=============================================================================

------------------------- MODULE MCDocumentLayout -------------------------
(* The view in portrait and landscape; the map of pages in ascending order. *)
EXTENDS DocumentLayout

MCViews == {[w |-> 2, h |-> 3], [w |-> 3, h |-> 2]}
MCRank  == [p \in 0 .. 2 |-> p]
=============================================================================

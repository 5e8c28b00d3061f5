---------------------------- MODULE MCPageTree -----------------------------
(* A page with two slices, of which the view may show none, one or both. *)
EXTENDS PageTree

CONSTANTS root, left, right

MCKids  == [n \in {root, left, right} |->
              IF n = root THEN <<left, right>> ELSE <<>>]
MCLevel == [n \in {root, left, right} |-> IF n = root THEN 1 ELSE 2]
MCViews == {{}, {root, left}, {root, left, right}}
=============================================================================

------------------------- MODULE MCDecodeService --------------------------
(* A small instance of DecodeService: two nodes of the same page. *)
EXTENDS DecodeService

CONSTANTS n1, n2, p1

MCPageOf == [n \in {n1, n2} |-> p1]
=============================================================================

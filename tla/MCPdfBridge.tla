----------------------------- MODULE MCPdfBridge -----------------------------
(* A document of two pages.  One has a link and one content stream, which names *)
(* its length; the other has two streams, one of a wrong length.  Both use the  *)
(* same font, one also a font that cannot be read.  The objects are numbered    *)
(* from the leaves upwards.                                                     *)
EXTENDS PdfBridge, TLC

MCSymmetry == Permutations(Thread)

\* DocumentView.init asks for the number of pages before any page is decoded.
CountedFirst == counted \/ \A t \in Thread : pc[t] = "idle"

MCPageObj  == [p \in 0 .. 1 |-> IF p = 0 THEN "page0" ELSE "page1"]
MCResObj   == [p \in 0 .. 1 |-> IF p = 0 THEN "res0" ELSE "res1"]
MCContents == [p \in 0 .. 1 |-> IF p = 0 THEN <<"s0">> ELSE <<"s1", "s2">>]
MCFonts    == [p \in 0 .. 1 |-> IF p = 0 THEN <<"font">> ELSE <<"font", "odd">>]
MCAnnotObj == [p \in {0} |-> "annot"]
MCDestObj  == [p \in {0} |-> "uri"]
MCLengthObj == [s \in {"s0"} |-> "len0"]
MCTable == <<"font", "odd", "len0", "uri", "s0", "s1", "s2", "annot", "res0", "res1",
             "page0", "page1", "pages", "catalog", "info">>
MCDescending == <<"trailer", "info", "catalog", "pages", "page0", "page1", "annot", "res0",
                  "res1", "s0", "s1", "s2", "len0", "uri", "font", "odd">>
=============================================================================

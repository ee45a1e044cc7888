---------------------------- MODULE MCBatchQueue ----------------------------
(* BatchQueue on small instances; each cfg names the constants it uses.    *)
EXTENDS BatchQueue

CONSTANTS b1, b2, p1, p2

\* one page of each way of reading that leaves text
MixedRoute  == [p \in Pages |-> IF p = p1 THEN "rows" ELSE "direct"]
RowsRoute   == [p \in Pages |-> "rows"]

NoBlanks    == {}
FirstBlank  == {<<b1, p1>>}
=============================================================================

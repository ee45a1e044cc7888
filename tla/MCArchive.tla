----------------------------- MODULE MCArchive ------------------------------
(* Archive on small instances.                                             *)
EXTENDS Archive, TLC

CONSTANTS p1, d1, d2

\* a document to each of two pages
OneEach == [p \in Pages |-> IF p = p1 THEN d1 ELSE d2]

\* one document of all pages
Together == [p \in Pages |-> d1]

\* threads are alike, and a safety run does not tell them apart
Alike == Permutations(Threads)
=============================================================================

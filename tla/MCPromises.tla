---------------------------- MODULE MCPromises ----------------------------
(* The samples of which the repository says what the code does not do: piles *)
(* of numbered pages (TECHSPEC.md), and lines drawn over rows (rows.py).     *)
EXTENDS MCAlgorithms

Init == sample = [of |-> None, data |-> None]
Next ==
    /\ sample.of = None
    /\ \/ \E s \in Piles : Take("pile", s)
       \/ \E s \in RowSamples : Take("rows", s)
Spec == Init /\ [][Next]_sample
=============================================================================

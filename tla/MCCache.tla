------------------------------ MODULE MCCache ------------------------------
(* Constants for model-checking Cache. *)
EXTENDS Cache

CONSTANTS m1, m2

MCMetric == {m1, m2}

\* The first metric reports late: its points are older than the second's.
MCTimestamp == [x \in Point |-> IF x[1] = m1 THEN x[2] ELSE x[2] + 1]
=============================================================================

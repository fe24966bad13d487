------------------------------- MODULE MCDump -------------------------------
(* Constants for model-checking Dump. *)
EXTENDS Dump

CONSTANTS m1, m2

MCTimestamp == [x \in Point |-> x[2]]

\* The second point of a metric is refused by ParseText, as a NaN would be.
MCUnreadable == {x \in Point : x[2] = 2}
=============================================================================

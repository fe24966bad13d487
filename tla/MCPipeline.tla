---------------------------- MODULE MCPipeline ----------------------------
(* Constants for model-checking Pipeline. *)
EXTENDS Pipeline

CONSTANTS m1, m2

MCMetric == {m1, m2}
MCTimestamp == [x \in Point |-> x[2]]
MCHash == [m \in Metric |-> IF m = m1 THEN 4 ELSE 7]
=============================================================================

---------------------------- MODULE MCPersister ----------------------------
(* Constants for model-checking PersisterSystem. *)
EXTENDS PersisterSystem

CONSTANTS m1, m2

MCMetric == {m1, m2}

\* With two workers the metrics go to different ones, with one to the same.
MCHash == [m \in Metric |-> IF m = m1 THEN 4 ELSE 7]
=============================================================================

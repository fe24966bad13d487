--------------------------- MODULE CacheWriteout ---------------------------
(***************************************************************************)
(* The cache with a history of its write-out rounds: how often another     *)
(* metric was popped while a metric waited in the map.                     *)
(***************************************************************************)
EXTENDS Cache

VARIABLE bypass   \* bypass[m][n]: pops of n since m's object entered the map

Popped == {m \in Metric : data[m] # Nil /\ data'[m] = Nil}

WriteoutInit == Init /\ bypass = [m \in Metric |-> [n \in Metric |-> 0]]

WriteoutNext ==
    /\ Next
    /\ bypass' = [m \in Metric |-> [n \in Metric |->
                    IF data[m] = Nil \/ data'[m] = Nil THEN 0
                    ELSE bypass[m][n] + (IF n \in Popped THEN 1 ELSE 0)]]

WriteoutSpec == WriteoutInit /\ [][WriteoutNext]_<<vars, bypass>>

\* No metric starves, whatever the strategy and the load: while a metric waits
\* in the map no other metric is popped more than twice, once from the queue
\* that was being used up when it came and once from the next, which has it.
BoundedBypass == \A m, n \in Metric : bypass[m][n] <= 2
=============================================================================

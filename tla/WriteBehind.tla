---------------------------- MODULE WriteBehind ----------------------------
(***************************************************************************)
(* What the cache promises to the receivers in front of it and to the      *)
(* persister behind it: a write-behind buffer per metric.  A message is    *)
(* accepted as a whole and once, a flush takes everything a metric has     *)
(* buffered as one batch, in the order of arrival, and a batch is          *)
(* forgotten only when it has been acknowledged.                           *)
(***************************************************************************)
EXTENDS Naturals, Sequences

CONSTANTS
    Metric,
    Message     \* non-empty sequences of the serial numbers of points

VARIABLES
    buffered,   \* points of a metric that have not been flushed
    pending,    \* batches of a metric that have not been acknowledged
    settled     \* points of acknowledged batches

vars == <<buffered, pending, settled>>

PointsIn(m, s) == {<<m, s[i]>> : i \in 1..Len(s)}
PendingPoints(m) == UNION {PointsIn(m, pending[m][i]) : i \in 1..Len(pending[m])}
Known == settled \cup UNION {PointsIn(m, buffered[m]) \cup PendingPoints(m) : m \in Metric}

Init ==
    /\ buffered = [m \in Metric |-> <<>>]
    /\ pending = [m \in Metric |-> <<>>]
    /\ settled = {}

Accept(m, s) ==
    /\ buffered' = [buffered EXCEPT ![m] = @ \o s]
    /\ UNCHANGED <<pending, settled>>
    /\ PointsIn(m, s) \cap Known = {}

Flush(m) ==
    /\ buffered[m] # <<>>
    /\ pending' = [pending EXCEPT ![m] = Append(@, buffered[m])]
    /\ buffered' = [buffered EXCEPT ![m] = <<>>]
    /\ UNCHANGED settled

Settle(m, i) ==
    /\ pending' = [pending EXCEPT ![m] = SubSeq(@, 1, i - 1) \o SubSeq(@, i + 1, Len(@))]
    /\ settled' = settled \cup PointsIn(m, pending[m][i])
    /\ UNCHANGED buffered

Next ==
    \E m \in Metric :
        \/ \E s \in Message : Accept(m, s)
        \/ Flush(m)
        \/ \E i \in 1..Len(pending[m]) : Settle(m, i)

Spec == Init /\ [][Next]_vars
=============================================================================

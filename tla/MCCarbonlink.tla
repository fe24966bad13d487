---------------------------- MODULE MCCarbonlink ----------------------------
EXTENDS Carbonlink

\* Both orders of the keys, with and without memos, short and long strings.
MCStyles == {[first |-> "metric", memo |-> TRUE, string |-> "U"],
             [first |-> "metric", memo |-> FALSE, string |-> "X"],
             [first |-> "type", memo |-> TRUE, string |-> "X"],
             [first |-> "type", memo |-> FALSE, string |-> "U"]}

\* Nothing; one point; one batch of two points; a batch and cached points;
\* two batches; two batches and cached points, more than fit into a frame.
MCAnswers == {[inFlight |-> <<>>, cacheData |-> <<>>],
              [inFlight |-> <<>>, cacheData |-> <<1>>],
              [inFlight |-> <<<<1, 2>>>>, cacheData |-> <<>>],
              [inFlight |-> <<<<1, 2>>>>, cacheData |-> <<3>>],
              [inFlight |-> <<<<1>>, <<2, 3>>>>, cacheData |-> <<>>],
              [inFlight |-> <<<<1>>, <<2, 3>>>>, cacheData |-> <<4>>]}
=============================================================================

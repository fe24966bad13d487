---------------------------- MODULE MCReceivers ----------------------------
(* Constants for model-checking Receivers. *)
EXTENDS Receivers, TLC

\* A line or frame that parses, one that does not, frames of two messages and
\* of none, and a frame over the limit.
MCItems == {[ok |-> TRUE,  n |-> 1, points |-> 1, size |-> 1],
            [ok |-> FALSE, n |-> 1, points |-> 1, size |-> 1],
            [ok |-> TRUE,  n |-> 2, points |-> 2, size |-> 2],
            [ok |-> TRUE,  n |-> 0, points |-> 1, size |-> 1],
            [ok |-> TRUE,  n |-> 2, points |-> 1, size |-> 3]}

\* Stat of the TCP receiver serves both its protocols.
MCMaxStats == ("tcp" :> 3) @@ ("pickle" :> 0) @@ ("udp" :> 1)

CONSTANTS u1, u2
\* One peer sends two lines, the other, whose pieces may get in between, one.
MCPeer  == {u1, u2}
MCLines == (u1 :> 2) @@ (u2 :> 1)
=============================================================================

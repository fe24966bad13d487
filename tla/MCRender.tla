------------------------------ MODULE MCRender ------------------------------
(* Constants for model-checking Render. *)
EXTENDS Render

CONSTANT m1

MCTimestamp == [x \in Point |-> x[2]]

\* One step left out; off the steps, one left out; two points of one time; two of
\* one step, then a late one.
MCStamps == {<<4, 8, 10>>, <<5, 9, 10>>, <<4, 4, 7>>, <<8, 9, 6>>}

\* The whole range, one that begins with the first point and ends inside, and one
\* that begins off a step.
MCRequests == {[from |-> 2, until |-> 10], [from |-> 4, until |-> 6],
               [from |-> 5, until |-> 9]}
=============================================================================

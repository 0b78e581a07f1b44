--------------------------- MODULE MCGraphSearch ---------------------------
(* Small graphs for the searches: every graph of three nodes with up to two
   edges a node, and two shapes that need more nodes.                      *)
EXTENDS GraphSearch, SequencesExt

CONSTANTS a1, a2, a3, a4, a5, lost

Three == {a1, a2, a3}

\* The short way is behind the first edge, the long one behind the last.
TwoWays == (a1 :> <<a2, a3>>) @@ (a2 :> <<a5>>) @@ (a3 :> <<a4>>) @@ (a4 :> <<a5>>)
             @@ (a5 :> <<a1>>)

\* Two cycles that share a node, and a node that only leads in.
Cycles == (a1 :> <<a2, a2>>) @@ (a2 :> <<a3, a1>>) @@ (a3 :> <<a2, a3>>)
             @@ (a4 :> <<a1>>) @@ (a5 :> <<>>)

MCGraphs == [Three -> BoundedSeq(Three, 2)] \cup {TwoWays, Cycles}
============================================================================

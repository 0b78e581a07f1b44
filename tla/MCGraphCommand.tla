--------------------------- MODULE MCGraphCommand ---------------------------
(* Every small document, the malformed ones included; and the documents of
   every graph of four nodes with up to MaxDegree edges from two of them, and
   of the shapes that reach the caps of find_attack_paths.                  *)
EXTENDS GraphCommand

CONSTANTS s, t, a, b, c, d, e, MaxNodes, MaxEdges, MaxDegree

\* a and b alike, so that equal severities occur; one sensitivity that nothing
\* bounds by 100.
MCNode(id) ==
    [id |-> id, crown_jewel |-> id = t,
     sensitivity |-> CASE id = s -> 1 [] id = t -> 120 [] id \in {a, b} -> 3
                       [] id = c -> 0 [] id = d -> 5 [] OTHER -> 9]

Anything ==
    LET few == {s, t, a}
    IN  [nodes : BoundedSeq({MCNode(id) : id \in few}, MaxNodes),
         edges : BoundedSeq([from : few, to : few], MaxEdges)]

G(out) == [adj |-> out, sensitivity |-> [id \in DOMAIN out |-> MCNode(id).sensitivity]]

Small == {G((s :> out_s) @@ (a :> out_a) @@ (b :> <<t, a>>) @@ (t :> <<s>>)) :
             out_s \in BoundedSeq({s, t, a, b}, MaxDegree),
             out_a \in BoundedSeq({s, t, a, b}, MaxDegree)}

\* Five ways of two hops: one more than the surplus of a limit of one.
Fan == G((s :> <<e, d, c, b, a>>) @@ (t :> <<>>) @@ [n \in {a, b, c, d, e} |-> <<t>>])

\* Longer than the hop cap, with a shortcut that is not.
Chain == G((s :> <<a>>) @@ (a :> <<b>>) @@ (b :> <<c>>) @@ (c :> <<d, s>>)
             @@ (d :> <<e>>) @@ (e :> <<t>>) @@ (t :> <<>>))

\* Two ways of one severity, the longer one found first.
Tie == G((s :> <<t, c>>) @@ (c :> <<t>>) @@ (t :> <<>>))

MCGraphs == Small \cup {Fan, Chain, Tie}

\* A document of which the graph is loaded.
DocumentOf(g) ==
    LET ids == SetToSeq(DOMAIN g.adj)
    IN  [nodes |-> [k \in DOMAIN ids |-> MCNode(ids[k])],
         edges |-> FlattenSeq([k \in DOMAIN ids |->
                       [j \in DOMAIN g.adj[ids[k]] |-> [from |-> ids[k], to |-> g.adj[ids[k]][j]]]])]

MCDocuments == Anything \cup {DocumentOf(g) : g \in MCGraphs}
=============================================================================

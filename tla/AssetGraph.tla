----------------------------- MODULE AssetGraph -----------------------------
(***************************************************************************)
(* The in-memory asset graph and how a document is loaded into it: every   *)
(* node, then every edge, up to the first one the graph refuses            *)
(* (crates/lovebird-graph/src: graph.rs, builder.rs).  The summaries the   *)
(* engine sees of it, blast radius and resource sensitivity, are operators *)
(* over the loaded graph (blast_radius.rs, context_extractor.rs).          *)
(***************************************************************************)
EXTENDS Integers, Sequences, FiniteSets

CONSTANTS
    Ids,          \* node ids
    Documents,    \* the documents considered
    ReachCap      \* reachable nodes beyond this do not raise the score: 40

\* A sensitivity is a u8; 0 to 100 by convention, which nothing enforces.
Node     == [id : Ids, sensitivity : 0..255, crown_jewel : BOOLEAN]
Edge     == [from : Ids, to : Ids]
Document == [nodes : Seq(Node), edges : Seq(Edge)]

ASSUME DocumentsAssumption == Documents \subseteq Document
ASSUME ReachCapAssumption == ReachCap \in Nat \ {0}

VARIABLES
    phase,    \* "nodes", "edges", then "ready" or "failed"
    document,
    loaded,   \* nodes or edges of this phase already taken
    nodes,    \* id -> node
    adj       \* id -> targets of its edges, oldest first

graphVars == <<phase, document, loaded, nodes, adj>>

GraphInit ==
    /\ phase = "nodes"
    /\ document \in Documents
    /\ loaded = 0
    /\ nodes = <<>> /\ adj = <<>>

Extend(f, x, y) == [z \in DOMAIN f \cup {x} |-> IF z = x THEN y ELSE f[z]]

ThisNode == document.nodes[loaded + 1]
ThisEdge == document.edges[loaded + 1]

\* Mutant: an id that is there already is overwritten.
AddNode_Overwrites ==
    /\ phase = "nodes" /\ loaded < Len(document.nodes)
    /\ adj' = Extend(adj, ThisNode.id, <<>>)
    /\ nodes' = Extend(nodes, ThisNode.id, ThisNode)
    /\ loaded' = loaded + 1
    /\ UNCHANGED <<phase, document>>

AddNode ==
    /\ phase = "nodes" /\ loaded < Len(document.nodes)
    /\ ThisNode.id \notin DOMAIN nodes
    /\ adj' = Extend(adj, ThisNode.id, <<>>)
    /\ nodes' = Extend(nodes, ThisNode.id, ThisNode)
    /\ loaded' = loaded + 1
    /\ UNCHANGED <<phase, document>>

DuplicateNode ==
    /\ phase = "nodes" /\ loaded < Len(document.nodes)
    /\ ThisNode.id \in DOMAIN nodes
    /\ phase' = "failed"
    /\ UNCHANGED <<document, loaded, nodes, adj>>

NodesDone ==
    /\ phase = "nodes" /\ loaded = Len(document.nodes)
    /\ phase' = "edges" /\ loaded' = 0
    /\ UNCHANGED <<document, nodes, adj>>

\* Mutant: only the source is looked up.
AddEdge_SourceOnly ==
    /\ phase = "edges" /\ loaded < Len(document.edges)
    /\ ThisEdge.from \in DOMAIN nodes
    /\ adj' = [adj EXCEPT ![ThisEdge.from] = Append(@, ThisEdge.to)]
    /\ loaded' = loaded + 1
    /\ UNCHANGED <<phase, document, nodes>>

AddEdge ==
    /\ phase = "edges" /\ loaded < Len(document.edges)
    /\ {ThisEdge.from, ThisEdge.to} \subseteq DOMAIN nodes
    /\ adj' = [adj EXCEPT ![ThisEdge.from] = Append(@, ThisEdge.to)]
    /\ loaded' = loaded + 1
    /\ UNCHANGED <<phase, document, nodes>>

MissingNode ==
    /\ phase = "edges" /\ loaded < Len(document.edges)
    /\ ~({ThisEdge.from, ThisEdge.to} \subseteq DOMAIN nodes)
    /\ phase' = "failed"
    /\ UNCHANGED <<document, loaded, nodes, adj>>

EdgesDone ==
    /\ phase = "edges" /\ loaded = Len(document.edges)
    /\ phase' = "ready"
    /\ UNCHANGED <<document, loaded, nodes, adj>>

Load == AddNode \/ DuplicateNode \/ NodesDone \/ AddEdge \/ MissingNode \/ EdgesDone

GraphSpec == GraphInit /\ [][Load]_graphVars

----------------------------------------------------------------------------
(* What the engine is told about a graph *)

Targets(a) == {adj[a][k] : k \in DOMAIN adj[a]}

\* The sets of nodes that hold a and every target of their members.
ClosedFrom(a, S) == a \in S /\ \A b \in S : Targets(b) \subseteq S

\* What reachable(a) returns; module GraphSearch has its queue.  An unknown
\* node reaches nothing, not even itself.
ReachableFrom(a) ==
    {b \in DOMAIN nodes :
        a \in DOMAIN nodes /\ \A S \in SUBSET DOMAIN nodes : ClosedFrom(a, S) => b \in S}

Largest(S) == CHOOSE x \in S : \A y \in S : y <= x
Capped(n, cap) == IF n > cap THEN cap ELSE n

\* Mutant: the number of reachable nodes wraps instead of saturating.
ReachTerm_Wraps(n) == ((n % (ReachCap + 1)) * 45000) \div ReachCap

ReachTerm(n) == (Capped(n, ReachCap) * 45000) \div ReachCap

\* compute_blast_radius, scores counted in 1/100000.
BlastRadius(a) ==
    LET reach == ReachableFrom(a)
        max   == Largest({0} \cup {nodes[b].sensitivity : b \in reach})
        crown == \E b \in reach : nodes[b].crown_jewel
    IN  [reachable_count       |-> Cardinality(reach),
         max_sensitivity       |-> max,
         crown_jewel_reachable |-> crown,
         score |-> Capped(ReachTerm(Cardinality(reach)) + 350 * max
                            + (IF crown THEN 20000 ELSE 0), 100000)]

\* The graph.* keys GraphContextExtractor::extract puts into a request.
GraphContext(principal, resource) ==
    LET br == BlastRadius(principal)
    IN  [blast_radius_score    |-> br.score,
         crown_jewel_reachable |-> br.crown_jewel_reachable,
         resource_sensitivity  |-> IF resource \in DOMAIN nodes
                                     THEN nodes[resource].sensitivity ELSE 0]

----------------------------------------------------------------------------

\* The type invariant of the graph and of its loading.
TypeOK ==
    /\ phase \in {"nodes", "edges", "ready", "failed"}
    /\ document \in Documents
    /\ loaded \in Nat
    /\ DOMAIN nodes \subseteq Ids
    /\ \A a \in DOMAIN nodes : nodes[a] \in Node
    /\ DOMAIN adj = DOMAIN nodes
    /\ \A a \in DOMAIN adj : adj[a] \in Seq(Ids)

\* No edge of the graph, loaded or half loaded, leads to a node it lacks: the
\* searches may look every target up.
NoDanglingEdge == \A a \in DOMAIN adj : Targets(a) \subseteq DOMAIN nodes

\* The edges out of a among the first n of the document.
Outs(a, n) == {i \in 1..n : document.edges[i].from = a}

\* A document is accepted exactly when its ids are distinct and its edges join
\* them, wherever the edges stand in it, and the graph then holds every node
\* and every edge once, parallel edges included, in the document's order.
LoadsTheWholeDocument ==
    LET ns == document.nodes
        es == document.edges
        ids == {ns[j].id : j \in DOMAIN ns}
        sound == /\ \A i, j \in DOMAIN ns : ns[i].id = ns[j].id => i = j
                 /\ \A j \in DOMAIN es : {es[j].from, es[j].to} \subseteq ids
    IN  /\ phase = "failed" => ~sound
        /\ phase = "ready" =>
             /\ sound
             /\ DOMAIN nodes = ids /\ \A j \in DOMAIN ns : nodes[ns[j].id] = ns[j]
             /\ \A a \in ids : Len(adj[a]) = Cardinality(Outs(a, Len(es)))
             /\ \A j \in DOMAIN es :
                  adj[es[j].from][Cardinality(Outs(es[j].from, j))] = es[j].to

\* Every edge taken leaves every node's blast radius at least as large as it
\* was: more reach never looks safer to a policy on graph.blast_radius_score.
\* (The resource asked about is not part of it.)
MoreEdgesNeverSafer ==
    [][AddEdge => \A a \in Ids :
            /\ GraphContext(a, a).blast_radius_score <= GraphContext(a, a)'.blast_radius_score
            /\ GraphContext(a, a).crown_jewel_reachable
                 => GraphContext(a, a)'.crown_jewel_reachable]_graphVars
=============================================================================

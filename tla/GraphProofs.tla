----------------------------- MODULE GraphProofs -----------------------------
(***************************************************************************)
(* Theorems about AssetGraph and AttackPaths.  For any document: loading   *)
(* takes all of it or refuses it, a graph it produced can be searched, and *)
(* more edges never look safer.  For any such graphs, hop cap and surplus: *)
(* what find_attack_paths reports are simple paths of the graph, and the   *)
(* best of them unless the surplus cut the search short.                   *)
(***************************************************************************)
EXTENDS AssetGraph, AttackPaths, WellFoundedInduction, FiniteSetTheorems, SequenceTheorems,
        TLAPS

\* The document being loaded is a list of nodes and a list of edges.
LEMMA DocumentType ==
    ASSUME TypeOK
    PROVE  document.nodes \in Seq(Node) /\ document.edges \in Seq(Edge)
BY DocumentsAssumption DEF TypeOK, Document

\* The node an AddNode step takes is one of the document's.
LEMMA ThisNodeType ==
    ASSUME TypeOK, loaded < Len(document.nodes)
    PROVE  ThisNode \in Node /\ ThisNode.id \in Ids
<1>1. document.nodes \in Seq(Node) /\ loaded \in Nat
  BY DocumentType DEF TypeOK
<1>2. ThisNode \in Node
  BY <1>1 DEF ThisNode
<1> QED
  BY <1>2 DEF Node

\* Loading is well typed at every step, on malformed documents too.
THEOREM TypeCorrect == GraphSpec => []TypeOK
<1>1. GraphInit => TypeOK
  BY DEF GraphInit, TypeOK
<1>2. TypeOK /\ [Load]_graphVars => TypeOK'
  <2> SUFFICES ASSUME TypeOK, [Load]_graphVars PROVE TypeOK'
    OBVIOUS
  <2>1. CASE AddNode
    <3>1. ThisNode \in Node /\ ThisNode.id \in Ids
      BY <2>1, ThisNodeType DEF AddNode
    <3>2. <<>> \in Seq(Ids)
      OBVIOUS
    <3> QED
      BY <2>1, <3>1, <3>2 DEF AddNode, Extend, TypeOK
  <2>2. CASE DuplicateNode
    BY <2>2 DEF DuplicateNode, TypeOK
  <2>3. CASE NodesDone
    BY <2>3 DEF NodesDone, TypeOK
  <2>4. CASE AddEdge
    <3>1. ThisEdge.from \in DOMAIN adj /\ ThisEdge.to \in Ids
      BY <2>4 DEF AddEdge, TypeOK
    <3>2. Append(adj[ThisEdge.from], ThisEdge.to) \in Seq(Ids)
      BY <3>1 DEF TypeOK
    <3> QED
      BY <2>4, <3>1, <3>2 DEF AddEdge, TypeOK
  <2>5. CASE MissingNode
    BY <2>5 DEF MissingNode, TypeOK
  <2>6. CASE EdgesDone
    BY <2>6 DEF EdgesDone, TypeOK
  <2>7. CASE UNCHANGED graphVars
    BY <2>7 DEF graphVars, TypeOK
  <2> QED
    BY <2>1, <2>2, <2>3, <2>4, <2>5, <2>6, <2>7 DEF Load
<1> QED
  BY <1>1, <1>2, PTL DEF GraphSpec

\* No edge ever leads out of the graph: add_edge looked both ends up, and no
\* node is ever taken out again.
THEOREM EdgesStayInside == GraphSpec => []NoDanglingEdge
<1>1. GraphInit => NoDanglingEdge
  BY DEF GraphInit, NoDanglingEdge
<1>2. TypeOK /\ NoDanglingEdge /\ [Load]_graphVars => NoDanglingEdge'
  <2> SUFFICES ASSUME TypeOK, NoDanglingEdge, [Load]_graphVars PROVE NoDanglingEdge'
    OBVIOUS
  <2>1. CASE AddNode
    <3>1. /\ adj' = Extend(adj, ThisNode.id, <<>>)
          /\ nodes' = Extend(nodes, ThisNode.id, ThisNode)
      BY <2>1 DEF AddNode
    <3>2. ASSUME NEW a \in DOMAIN adj', NEW k \in DOMAIN adj'[a]
          PROVE  adj'[a][k] \in DOMAIN nodes
      BY <3>1, <3>2 DEF Extend, NoDanglingEdge, Targets
    <3>3. DOMAIN nodes \subseteq DOMAIN nodes'
      BY <3>1 DEF Extend
    <3>4. ASSUME NEW a \in DOMAIN adj' PROVE Targets(a)' \subseteq DOMAIN nodes'
      BY <3>2, <3>3 DEF Targets
    <3> QED
      BY <3>4 DEF NoDanglingEdge
  <2>2. CASE AddEdge
    <3>1. /\ adj' = [adj EXCEPT ![ThisEdge.from] = Append(@, ThisEdge.to)]
          /\ nodes' = nodes /\ ThisEdge.from \in DOMAIN adj
          /\ ThisEdge.to \in DOMAIN nodes
      BY <2>2 DEF AddEdge, TypeOK
    <3>2. ASSUME NEW a \in DOMAIN adj', NEW k \in DOMAIN adj'[a]
          PROVE  adj'[a][k] \in DOMAIN nodes
      <4>1. adj[a] \in Seq(Ids)
        BY <3>1 DEF TypeOK
      <4>2. CASE a = ThisEdge.from
        <5>1. adj'[a] = Append(adj[a], ThisEdge.to)
          BY <3>1, <4>2
        <5>2. k \in 1..Len(adj[a]) => adj'[a][k] = adj[a][k] /\ k \in DOMAIN adj[a]
          BY <5>1, <4>1
        <5>3. k \notin 1..Len(adj[a]) => adj'[a][k] = ThisEdge.to
          BY <5>1, <4>1
        <5> QED
          BY <5>2, <5>3, <3>1 DEF NoDanglingEdge, Targets
      <4>3. CASE a # ThisEdge.from
        BY <4>3, <3>1 DEF NoDanglingEdge, Targets
      <4> QED
        BY <4>2, <4>3
    <3> QED
      BY <3>1, <3>2 DEF NoDanglingEdge, Targets
  <2>3. CASE DuplicateNode \/ NodesDone \/ MissingNode \/ EdgesDone \/ UNCHANGED graphVars
    BY <2>3 DEF DuplicateNode, NodesDone, MissingNode, EdgesDone, graphVars,
       NoDanglingEdge, Targets
  <2> QED
    BY <2>1, <2>2, <2>3 DEF Load
<1> QED
  BY <1>1, <1>2, TypeCorrect, PTL DEF GraphSpec

\* What find_attack_paths takes for granted of a graph, any graph has that was
\* built from a document, already while it is being loaded.
THEOREM LoadedGraphsAreSearchable ==
    GraphSpec => []Searchable([adj         |-> adj,
                               sensitivity |-> [id \in DOMAIN nodes |-> nodes[id].sensitivity]])
<1> DEFINE g == [adj         |-> adj,
                 sensitivity |-> [id \in DOMAIN nodes |-> nodes[id].sensitivity]]
<1>1. TypeOK /\ NoDanglingEdge => Searchable(g)
  <2>0. /\ g.adj = adj
        /\ \A id \in DOMAIN nodes : g.sensitivity[id] = nodes[id].sensitivity
    OBVIOUS
  <2> HIDE DEF g
  <2> SUFFICES ASSUME TypeOK, NoDanglingEdge PROVE Searchable(g)
    OBVIOUS
  <2>1. DOMAIN adj = DOMAIN nodes
    BY DEF TypeOK
  <2>2. ASSUME NEW id \in DOMAIN adj
        PROVE  adj[id] \in Seq(DOMAIN adj) /\ nodes[id].sensitivity \in Nat
    <3>1. adj[id] \in Seq(Ids) /\ nodes[id] \in Node
      BY <2>1 DEF TypeOK
    <3>2. \A k \in DOMAIN adj[id] : adj[id][k] \in DOMAIN adj
      BY <2>1 DEF NoDanglingEdge, Targets
    <3>3. DOMAIN adj[id] = 1..Len(adj[id]) /\ Len(adj[id]) \in Nat
      BY <3>1, LenProperties
    <3>4. adj[id] \in Seq(DOMAIN adj)
      BY <3>1, <3>2, <3>3, LenProperties
    <3>5. nodes[id].sensitivity \in 0..255
      BY <3>1 DEF Node
    <3>6. \A n \in 0..255 : n \in Nat
      OBVIOUS
    <3> QED
      BY <3>4, <3>5, <3>6
  <2> QED
    BY <2>0, <2>1, <2>2 DEF Searchable
<1> QED
  BY <1>1, TypeCorrect, EdgesStayInside, PTL DEF g

----------------------------------------------------------------------------
(* More edges, no smaller blast radius *)

\* Every graph is finite.
LEMMA NodesAreFinite == GraphSpec => []IsFiniteSet(DOMAIN nodes)
<1>1. GraphInit => IsFiniteSet(DOMAIN nodes)
  BY FS_EmptySet DEF GraphInit
<1>2. IsFiniteSet(DOMAIN nodes) /\ [Load]_graphVars => IsFiniteSet(DOMAIN nodes)'
  <2> SUFFICES ASSUME IsFiniteSet(DOMAIN nodes), [Load]_graphVars
               PROVE  IsFiniteSet(DOMAIN nodes')
    OBVIOUS
  <2>1. CASE AddNode
    <3>1. DOMAIN nodes' = DOMAIN nodes \cup {ThisNode.id}
      BY <2>1 DEF AddNode, Extend
    <3> QED
      BY <3>1, FS_AddElement
  <2>2. CASE nodes' = nodes
    BY <2>2
  <2> QED
    BY <2>1, <2>2 DEF Load, DuplicateNode, NodesDone, AddEdge, MissingNode, EdgesDone, graphVars
<1> QED
  BY <1>1, <1>2, PTL DEF GraphSpec

LEMMA DivisionIsMonotone ==
    ASSUME NEW m \in Nat, NEW n \in Nat, NEW d \in Nat \ {0}, m <= n
    PROVE  m \div d <= n \div d
<1> DEFINE q == m \div d
           r == n \div d
<1>1. /\ q \in Nat /\ r \in Nat
      /\ d * q <= m /\ n < d * r + d
  OBVIOUS
<1>2. d * q < d * (r + 1)
  BY <1>1
<1> HIDE DEF q, r
<1>3. q < r + 1
  BY <1>1, <1>2
<1> QED
  BY <1>1, <1>3 DEF q, r

\* A non-empty set of naturals has a least element.
LEMMA LeastNatural ==
    ASSUME NEW S \in SUBSET Nat, S # {}
    PROVE  \E m \in S : \A n \in S : m <= n
<1> DEFINE R == OpToRel(<, Nat)
<1>1. IsWellFoundedOn(R, Nat)
  BY NatLessThanWellFounded
<1>2. \A x, y \in Nat : x < y => <<x, y>> \in R
  BY DEF OpToRel
<1> HIDE DEF R
<1>3. PICK m \in S : \A y \in S : ~ (<<y, m>> \in R)
  BY <1>1, WFMin
<1>4. ASSUME NEW n \in S PROVE m <= n
  <2>1. n \in Nat /\ m \in Nat
    OBVIOUS
  <2>2. ~ (n < m)
    BY <1>2, <1>3, <2>1, Zenon
  <2> QED
    BY <2>1, <2>2
<1> QED
  BY <1>4

\* A non-empty bounded set of naturals has a greatest element.
LEMMA GreatestNatural ==
    ASSUME NEW b \in Nat, NEW S \in SUBSET (0..b), S # {}
    PROVE  \E m \in S : \A n \in S : n <= m
<1> DEFINE T == {x \in 0..b : b - x \in S}
<1>1. T \in SUBSET Nat /\ T # {}
  <2>1. PICK s \in S : TRUE
    OBVIOUS
  <2>2. b - s \in 0..b /\ b - (b - s) = s
    BY <2>1
  <2>3. b - s \in T
    BY <2>2
  <2>4. T \subseteq Nat
    OBVIOUS
  <2> HIDE DEF T
  <2> QED
    BY <2>3, <2>4
<1> HIDE DEF T
<1>2. PICK t \in T : \A n \in T : t <= n
  BY <1>1, LeastNatural
<1>3. t \in 0..b /\ b - t \in S
  BY <1>2 DEF T
<1>4. ASSUME NEW n \in S PROVE n <= b - t
  <2>1. b - n \in 0..b /\ b - (b - n) = n /\ n \in 0..b
    OBVIOUS
  <2>2. b - n \in T
    BY <2>1 DEF T
  <2>3. t <= b - n
    BY <1>2, <2>2
  <2> QED
    BY <1>3, <2>1, <2>3
<1> QED
  BY <1>3, <1>4

\* Largest is the maximum of any set of sensitivities.
LEMMA LargestIsGreatest ==
    ASSUME NEW S \in SUBSET (0..255), S # {}
    PROVE  Largest(S) \in S /\ \A y \in S : y <= Largest(S)
<1>1. 255 \in Nat /\ S \in SUBSET (0..255) /\ S # {}
  OBVIOUS
<1>2. \E x \in S : \A y \in S : y <= x
  BY <1>1, GreatestNatural, Zenon
<1> QED
  BY <1>2 DEF Largest

\* What could be reached can be reached with one edge more.
LEMMA ReachGrows ==
    ASSUME TypeOK, AddEdge, NEW a
    PROVE  ReachableFrom(a) \subseteq ReachableFrom(a)'
<1>1. /\ adj' = [adj EXCEPT ![ThisEdge.from] = Append(@, ThisEdge.to)]
      /\ nodes' = nodes /\ DOMAIN adj = DOMAIN nodes
      /\ ThisEdge.from \in DOMAIN adj /\ ThisEdge.to \in Ids
  BY DEF AddEdge, TypeOK
<1>2. ASSUME NEW b \in DOMAIN nodes PROVE Targets(b) \subseteq Targets(b)'
  <2>1. adj[b] \in Seq(Ids)
    BY <1>1 DEF TypeOK
  <2>2. CASE b = ThisEdge.from
    <3>1. adj'[b] = Append(adj[b], ThisEdge.to)
      BY <1>1, <2>2
    <3>2. \A k \in DOMAIN adj[b] : k \in DOMAIN adj'[b] /\ adj'[b][k] = adj[b][k]
      BY <1>1, <2>1, <3>1
    <3> QED
      BY <3>2 DEF Targets
  <2>3. CASE b # ThisEdge.from
    BY <1>1, <2>3 DEF Targets
  <2> QED
    BY <2>2, <2>3
<1>3. \A S \in SUBSET DOMAIN nodes : ClosedFrom(a, S)' => ClosedFrom(a, S)
  BY <1>2 DEF ClosedFrom
<1> QED
  BY <1>1, <1>3 DEF ReachableFrom

\* The three terms of the score grow with the set they are taken of.
LEMMA TermsGrow ==
    ASSUME TypeOK, IsFiniteSet(DOMAIN nodes),
           NEW R \in SUBSET DOMAIN nodes, NEW S \in SUBSET DOMAIN nodes, R \subseteq S
    PROVE  LET max(T)   == Largest({0} \cup {nodes[b].sensitivity : b \in T})
               crown(T) == \E b \in T : nodes[b].crown_jewel
           IN  /\ ReachTerm(Cardinality(R)) \in Nat /\ ReachTerm(Cardinality(S)) \in Nat
               /\ ReachTerm(Cardinality(R)) <= ReachTerm(Cardinality(S))
               /\ max(R) \in Nat /\ max(S) \in Nat /\ max(R) <= max(S)
               /\ crown(R) => crown(S)
<1>1. /\ IsFiniteSet(R) /\ IsFiniteSet(S)
      /\ Cardinality(R) \in Nat /\ Cardinality(S) \in Nat /\ Cardinality(R) <= Cardinality(S)
  <2>1. IsFiniteSet(R) /\ IsFiniteSet(S)
    BY FS_Subset
  <2> QED
    BY <2>1, FS_Subset, FS_CardinalityType
<1>2. /\ ReachTerm(Cardinality(R)) \in Nat /\ ReachTerm(Cardinality(S)) \in Nat
      /\ ReachTerm(Cardinality(R)) <= ReachTerm(Cardinality(S))
  <2> DEFINE m == Capped(Cardinality(R), ReachCap) * 45000
             n == Capped(Cardinality(S), ReachCap) * 45000
  <2>1. ReachCap \in Nat \ {0}
    BY ReachCapAssumption
  <2>2. m \in Nat /\ n \in Nat /\ m <= n
    BY <1>1, <2>1 DEF Capped
  <2> HIDE DEF m, n
  <2>3. m \div ReachCap <= n \div ReachCap
    BY <2>1, <2>2, DivisionIsMonotone
  <2>4. m \div ReachCap \in Nat /\ n \div ReachCap \in Nat
    BY <2>1, <2>2
  <2> QED
    BY <2>3, <2>4 DEF m, n, ReachTerm
<1> DEFINE weights(T) == {0} \cup {nodes[b].sensitivity : b \in T}
<1>3. weights(R) \in SUBSET (0..255) /\ weights(S) \in SUBSET (0..255) /\ weights(R) \subseteq weights(S)
  <2>1. \A c \in DOMAIN nodes : nodes[c].sensitivity \in 0..255
    BY DEF TypeOK, Node
  <2> QED
    BY <2>1
<1>4. 0 \in weights(R) /\ 0 \in weights(S)
  OBVIOUS
<1> HIDE DEF weights
<1>5. /\ Largest(weights(R)) \in weights(R) /\ Largest(weights(S)) \in weights(S)
      /\ \A y \in weights(S) : y <= Largest(weights(S))
  BY <1>3, <1>4, LargestIsGreatest
<1>6. /\ Largest(weights(R)) \in Nat /\ Largest(weights(S)) \in Nat
      /\ Largest(weights(R)) <= Largest(weights(S))
  BY <1>3, <1>5
<1> QED
  BY <1>2, <1>6 DEF weights

\* One more edge never makes a principal look safer, whatever the caps and the
\* sensitivities: a guard on graph.blast_radius_score that fires goes on firing.
THEOREM EdgesNeverLowerTheScore == GraphSpec => MoreEdgesNeverSafer
<1>1. ASSUME TypeOK, IsFiniteSet(DOMAIN nodes), AddEdge, NEW a \in Ids
      PROVE  /\ GraphContext(a, a).blast_radius_score <= GraphContext(a, a)'.blast_radius_score
             /\ GraphContext(a, a).crown_jewel_reachable
                  => GraphContext(a, a)'.crown_jewel_reachable
  <2> DEFINE R == ReachableFrom(a)
             S == ReachableFrom(a)'
             max(T)   == Largest({0} \cup {nodes[c].sensitivity : c \in T})
             crown(T) == \E c \in T : nodes[c].crown_jewel
             score(T) == Capped(ReachTerm(Cardinality(T)) + 350 * max(T)
                                  + (IF crown(T) THEN 20000 ELSE 0), 100000)
  <2>1. nodes' = nodes
    BY <1>1 DEF AddEdge
  <2>2. R \subseteq DOMAIN nodes /\ S \subseteq DOMAIN nodes /\ R \subseteq S
    BY <1>1, <2>1, ReachGrows DEF ReachableFrom
  <2>3. /\ GraphContext(a, a).blast_radius_score = score(R)
        /\ GraphContext(a, a).crown_jewel_reachable = crown(R)
    BY DEF GraphContext, BlastRadius
  <2>4. /\ GraphContext(a, a)'.blast_radius_score = score(S)
        /\ GraphContext(a, a)'.crown_jewel_reachable = crown(S)
    BY <2>1 DEF GraphContext, BlastRadius, ReachTerm
  <2> HIDE DEF R, S
  <2>5. /\ ReachTerm(Cardinality(R)) \in Nat /\ ReachTerm(Cardinality(S)) \in Nat
        /\ ReachTerm(Cardinality(R)) <= ReachTerm(Cardinality(S))
        /\ max(R) \in Nat /\ max(S) \in Nat /\ max(R) <= max(S)
        /\ crown(R) => crown(S)
    BY <1>1, <2>2, TermsGrow
  <2> HIDE DEF max, crown
  <2>6. score(R) <= score(S)
    BY <2>5 DEF Capped
  <2> QED
    BY <2>3, <2>4, <2>5, <2>6
<1>2. TypeOK /\ IsFiniteSet(DOMAIN nodes) /\ [Load]_graphVars
        => [AddEdge => \A a \in Ids :
              /\ GraphContext(a, a).blast_radius_score <= GraphContext(a, a)'.blast_radius_score
              /\ GraphContext(a, a).crown_jewel_reachable
                   => GraphContext(a, a)'.crown_jewel_reachable]_graphVars
  BY <1>1
<1> QED
  BY <1>2, TypeCorrect, NodesAreFinite, PTL DEF GraphSpec, MoreEdgesNeverSafer

----------------------------------------------------------------------------
(* The whole document or none of it: what is loaded so far *)

NodesTaken(n) ==
    /\ DOMAIN nodes = {document.nodes[j].id : j \in 1..n}
    /\ \A j \in 1..n : nodes[document.nodes[j].id] = document.nodes[j]
    /\ \A i, j \in 1..n : document.nodes[i].id = document.nodes[j].id => i = j

EdgesTaken(n) ==
    /\ \A j \in 1..n : {document.edges[j].from, document.edges[j].to} \subseteq DOMAIN nodes
    /\ \A a \in DOMAIN nodes : Len(adj[a]) = Cardinality(Outs(a, n))
    /\ \A j \in 1..n :
         adj[document.edges[j].from][Cardinality(Outs(document.edges[j].from, j))]
           = document.edges[j].to

LoadedSoFar ==
    /\ phase = "nodes" =>
         /\ loaded <= Len(document.nodes) /\ NodesTaken(loaded)
         /\ \A a \in DOMAIN nodes : adj[a] = <<>>
    /\ phase = "edges" =>
         /\ NodesTaken(Len(document.nodes))
         /\ loaded <= Len(document.edges) /\ EdgesTaken(loaded)

Counted(a, n) == Cardinality(Outs(a, n))

\* How the edges out of a node are counted.
LEMMA OutsAreCounted ==
    ASSUME NEW n \in Nat, NEW a
    PROVE  /\ IsFiniteSet(Outs(a, n)) /\ Counted(a, n) \in Nat
           /\ Counted(a, 0) = 0
           /\ \A j \in 0..n : Counted(a, j) \in Nat /\ Counted(a, j) <= Counted(a, n)
           /\ \A j \in 1..n : document.edges[j].from = a => Counted(a, j) >= 1
           /\ Counted(a, n + 1) = Counted(a, n)
                                    + (IF document.edges[n + 1].from = a THEN 1 ELSE 0)
<1>1. \A j \in Nat : IsFiniteSet(Outs(a, j)) /\ Counted(a, j) \in Nat
  <2>1. ASSUME NEW j \in Nat PROVE IsFiniteSet(Outs(a, j)) /\ Counted(a, j) \in Nat
    <3>1. IsFiniteSet(1..j)
      BY FS_Interval
    <3>2. Outs(a, j) \subseteq 1..j
      BY DEF Outs
    <3>3. IsFiniteSet(Outs(a, j))
      BY <3>1, <3>2, FS_Subset
    <3> QED
      BY <3>3, FS_CardinalityType DEF Counted
  <2> QED
    BY <2>1
<1>2. Counted(a, 0) = 0
  <2>1. Outs(a, 0) = {}
    BY DEF Outs
  <2> QED
    BY <2>1, FS_EmptySet DEF Counted
<1>3. ASSUME NEW j \in 0..n PROVE Counted(a, j) <= Counted(a, n)
  <2>1. Outs(a, j) \subseteq Outs(a, n)
    BY DEF Outs
  <2> QED
    BY <1>1, <2>1, FS_Subset DEF Counted
<1>4. ASSUME NEW j \in 1..n, document.edges[j].from = a PROVE Counted(a, j) >= 1
  <2>1. j \in Outs(a, j) /\ j \in Nat
    BY <1>4 DEF Outs
  <2>2. IsFiniteSet(Outs(a, j)) /\ Counted(a, j) \in Nat
    BY <1>1, <2>1
  <2>3. Counted(a, j) # 0
    BY <2>1, <2>2, FS_EmptySet DEF Counted
  <2> QED
    BY <2>2, <2>3
<1>5. Counted(a, n + 1) = Counted(a, n) + (IF document.edges[n + 1].from = a THEN 1 ELSE 0)
  <2>1. CASE document.edges[n + 1].from = a
    <3>1. Outs(a, n + 1) = Outs(a, n) \cup {n + 1} /\ n + 1 \notin Outs(a, n)
      BY <2>1 DEF Outs
    <3> QED
      BY <1>1, <2>1, <3>1, FS_AddElement DEF Counted
  <2>2. CASE document.edges[n + 1].from # a
    <3>1. Outs(a, n + 1) = Outs(a, n)
      BY <2>2 DEF Outs
    <3> QED
      BY <1>1, <2>2, <3>1 DEF Counted
  <2> QED
    BY <2>1, <2>2
<1> QED
  BY <1>1, <1>2, <1>3, <1>4, <1>5

\* A node of a new id extends what was taken by one.
LEMMA OneNodeMore ==
    ASSUME TypeOK, LoadedSoFar, AddNode
    PROVE  LoadedSoFar'
<1> DEFINE ns == document.nodes
<1>1. /\ phase = "nodes" /\ phase' = "nodes" /\ document' = document /\ loaded' = loaded + 1
      /\ loaded \in Nat /\ loaded < Len(ns) /\ ns \in Seq(Node)
  BY DocumentType DEF AddNode, TypeOK
<1>2. /\ nodes' = [z \in DOMAIN nodes \cup {ns[loaded + 1].id} |->
                     IF z = ns[loaded + 1].id THEN ns[loaded + 1] ELSE nodes[z]]
      /\ adj' = [z \in DOMAIN adj \cup {ns[loaded + 1].id} |->
                     IF z = ns[loaded + 1].id THEN <<>> ELSE adj[z]]
      /\ ns[loaded + 1].id \notin DOMAIN nodes /\ DOMAIN adj = DOMAIN nodes
  BY DEF AddNode, ThisNode, Extend, TypeOK
<1>3. NodesTaken(loaded) /\ \A a \in DOMAIN nodes : adj[a] = <<>>
  BY <1>1 DEF LoadedSoFar
<1>4. \A j \in 1..(loaded + 1) : j = loaded + 1 \/ j \in 1..loaded
  BY <1>1
<1>5. \A j \in 1..loaded : ns[j].id \in DOMAIN nodes /\ ns[j].id # ns[loaded + 1].id
  BY <1>2, <1>3 DEF NodesTaken
<1>6. NodesTaken(loaded)'
  <2>1. \A j \in 1..(loaded + 1) : ns[j].id \in DOMAIN nodes' /\ nodes'[ns[j].id] = ns[j]
    BY <1>2, <1>3, <1>4, <1>5 DEF NodesTaken
  <2>2. DOMAIN nodes' = {ns[j].id : j \in 1..(loaded + 1)}
    <3>1. loaded + 1 \in 1..(loaded + 1) /\ 1..loaded \subseteq 1..(loaded + 1)
      BY <1>1
    <3>2. DOMAIN nodes' = {ns[j].id : j \in 1..loaded} \cup {ns[loaded + 1].id}
      BY <1>2, <1>3 DEF NodesTaken
    <3> QED
      BY <1>4, <3>1, <3>2
  <2>3. \A i, j \in 1..(loaded + 1) : ns[i].id = ns[j].id => i = j
    BY <1>3, <1>4, <1>5 DEF NodesTaken
  <2> QED
    <3>1. ns' = ns /\ loaded' = loaded + 1
      BY <1>1
    <3> HIDE DEF ns
    <3> QED
      BY <2>1, <2>2, <2>3, <3>1 DEF NodesTaken, ns
<1>7. \A a \in DOMAIN nodes' : adj'[a] = <<>>
  BY <1>2, <1>3
<1> QED
  BY <1>1, <1>6, <1>7 DEF LoadedSoFar

\* An edge between nodes of the graph extends what was taken by one.
LEMMA OneEdgeMore ==
    ASSUME TypeOK, LoadedSoFar, AddEdge
    PROVE  LoadedSoFar'
<1> DEFINE es == document.edges
           m  == loaded + 1
<1>1. /\ phase = "edges" /\ phase' = "edges" /\ document' = document /\ loaded' = m
      /\ nodes' = nodes
      /\ loaded \in Nat /\ loaded < Len(es) /\ es \in Seq(Edge)
  BY DocumentType DEF AddEdge, TypeOK
<1>2. /\ adj' = [adj EXCEPT ![es[m].from] = Append(@, es[m].to)]
      /\ es[m].from \in DOMAIN nodes /\ es[m].to \in DOMAIN nodes
      /\ DOMAIN adj = DOMAIN nodes /\ \A a \in DOMAIN adj : adj[a] \in Seq(Ids)
  BY DEF AddEdge, ThisEdge, TypeOK
<1>3. NodesTaken(Len(document.nodes)) /\ EdgesTaken(loaded)
  BY <1>1 DEF LoadedSoFar
<1>4. \A j \in 1..m : j = m \/ j \in 1..loaded
  BY <1>1
<1>5. \A a, n : Outs(a, n)' = Outs(a, n)
  BY <1>1 DEF Outs
<1>6. \A a \in DOMAIN nodes : Len(adj[a]) = Counted(a, loaded)
  BY <1>3 DEF EdgesTaken, Counted
<1>7. /\ Len(adj'[es[m].from]) = Len(adj[es[m].from]) + 1
      /\ adj'[es[m].from][Len(adj[es[m].from]) + 1] = es[m].to
      /\ \A k \in 1..Len(adj[es[m].from]) : adj'[es[m].from][k] = adj[es[m].from][k]
  <2>1. adj'[es[m].from] = Append(adj[es[m].from], es[m].to) /\ adj[es[m].from] \in Seq(Ids)
    BY <1>2
  <2> HIDE DEF es, m
  <2> QED
    BY <2>1
<1>8. \A a \in DOMAIN nodes : a # es[m].from => adj'[a] = adj[a]
  BY <1>2
<1>9. \A a \in DOMAIN nodes : Len(adj'[a]) = Counted(a, m)
  <2>1. \A a : /\ Counted(a, loaded) \in Nat
               /\ Counted(a, m) = Counted(a, loaded) + (IF es[m].from = a THEN 1 ELSE 0)
    BY <1>1, OutsAreCounted
  <2> HIDE DEF es, m
  <2> QED
    BY <1>2, <1>6, <1>7, <1>8, <2>1
<1>10. \A j \in 1..m : adj'[es[j].from][Counted(es[j].from, j)] = es[j].to
  <2>1. ASSUME NEW j \in 1..loaded
        PROVE  adj'[es[j].from][Counted(es[j].from, j)] = es[j].to
    <3> DEFINE a == es[j].from
               k == Counted(a, j)
    <3>1. a \in DOMAIN nodes /\ adj[a][k] = es[j].to
      BY <1>3 DEF EdgesTaken, Counted
    <3>2. k \in Nat /\ k >= 1 /\ k <= Counted(a, loaded) /\ Counted(a, loaded) \in Nat
      <4>1. j \in 0..loaded
        BY <1>1
      <4> QED
        BY <1>1, <4>1, OutsAreCounted
    <3>3. k \in 1..Len(adj[a])
      BY <1>6, <3>1, <3>2
    <3>4. adj'[a][k] = adj[a][k]
      BY <1>7, <1>8, <3>1, <3>3
    <3> QED
      BY <3>1, <3>4
  <2>2. adj'[es[m].from][Counted(es[m].from, m)] = es[m].to
    <3>1. Counted(es[m].from, m) = Counted(es[m].from, loaded) + 1
      BY <1>1, OutsAreCounted
    <3> QED
      BY <1>2, <1>6, <1>7, <3>1
  <2> QED
    BY <1>4, <2>1, <2>2
<1>11. EdgesTaken(loaded)'
  <2>1. \A j \in 1..m : {es[j].from, es[j].to} \subseteq DOMAIN nodes
    BY <1>2, <1>3, <1>4 DEF EdgesTaken
  <2> QED
    BY <1>1, <1>5, <1>9, <1>10, <2>1 DEF EdgesTaken, Counted
<1>12. NodesTaken(Len(document.nodes))'
  BY <1>1, <1>3 DEF NodesTaken
<1>13. m <= Len(es)
  BY <1>1
<1> QED
  BY <1>1, <1>11, <1>12, <1>13 DEF LoadedSoFar

\* A document is loaded whole, and refused only when an id is there twice or an
\* edge joins what is no node of it, whatever its length and the order of its
\* edges.
THEOREM WholeDocumentOrNone == GraphSpec => []LoadsTheWholeDocument
<1> DEFINE ns == document.nodes
           es == document.edges
<1>1. GraphInit => LoadedSoFar /\ LoadsTheWholeDocument
  <2> SUFFICES ASSUME GraphInit PROVE LoadedSoFar /\ LoadsTheWholeDocument
    OBVIOUS
  <2>1. ns \in Seq(Node)
    BY DocumentsAssumption DEF GraphInit, Document
  <2> QED
    BY <2>1 DEF GraphInit, LoadedSoFar, NodesTaken, LoadsTheWholeDocument
<1>2. TypeOK /\ LoadedSoFar /\ LoadsTheWholeDocument /\ [Load]_graphVars
        => LoadedSoFar' /\ LoadsTheWholeDocument'
  <2> SUFFICES ASSUME TypeOK, LoadedSoFar, LoadsTheWholeDocument, [Load]_graphVars
               PROVE  LoadedSoFar' /\ LoadsTheWholeDocument'
    OBVIOUS
  <2>1. ns \in Seq(Node) /\ es \in Seq(Edge) /\ loaded \in Nat
    BY DocumentType DEF TypeOK
  <2>2. CASE AddNode
    BY <2>2, OneNodeMore DEF AddNode, LoadsTheWholeDocument
  <2>3. CASE AddEdge
    BY <2>3, OneEdgeMore DEF AddEdge, LoadsTheWholeDocument
  <2>4. CASE DuplicateNode
    <3>1. /\ phase = "nodes" /\ loaded < Len(ns) /\ ns[loaded + 1].id \in DOMAIN nodes
          /\ phase' = "failed" /\ document' = document
      BY <2>4 DEF DuplicateNode, ThisNode
    <3>2. PICK j \in 1..loaded : ns[j].id = ns[loaded + 1].id
      BY <3>1 DEF LoadedSoFar, NodesTaken
    <3>3. j \in DOMAIN ns /\ loaded + 1 \in DOMAIN ns /\ j # loaded + 1
      BY <2>1, <3>1
    <3> QED
      BY <3>1, <3>2, <3>3 DEF LoadedSoFar, LoadsTheWholeDocument
  <2>5. CASE NodesDone
    <3>1. /\ phase = "nodes" /\ phase' = "edges" /\ loaded = Len(ns) /\ loaded' = 0
          /\ document' = document /\ nodes' = nodes /\ adj' = adj
      BY <2>5 DEF NodesDone
    <3>2. NodesTaken(Len(ns)) /\ \A a \in DOMAIN nodes : adj[a] = <<>>
      BY <3>1 DEF LoadedSoFar
    <3>3. EdgesTaken(loaded)'
      <4>1. \A a, n : Outs(a, n)' = Outs(a, n)
        BY <3>1 DEF Outs
      <4>2. \A a : Counted(a, 0) = 0
        BY OutsAreCounted
      <4> QED
        BY <3>1, <3>2, <4>1, <4>2 DEF EdgesTaken, Counted
    <3>4. NodesTaken(Len(ns))'
      BY <3>1, <3>2 DEF NodesTaken
    <3> QED
      BY <2>1, <3>1, <3>3, <3>4 DEF LoadedSoFar, LoadsTheWholeDocument
  <2>6. CASE MissingNode
    <3>1. /\ phase = "edges" /\ loaded < Len(es) /\ phase' = "failed" /\ document' = document
          /\ ~({es[loaded + 1].from, es[loaded + 1].to} \subseteq DOMAIN nodes)
      BY <2>6 DEF MissingNode, ThisEdge
    <3>2. DOMAIN nodes = {ns[j].id : j \in DOMAIN ns}
      BY <2>1, <3>1 DEF LoadedSoFar, NodesTaken
    <3>3. loaded + 1 \in DOMAIN es
      BY <2>1, <3>1
    <3> QED
      BY <3>1, <3>2, <3>3 DEF LoadedSoFar, LoadsTheWholeDocument
  <2>7. CASE EdgesDone
    <3>1. /\ phase = "edges" /\ loaded = Len(es) /\ phase' = "ready"
          /\ document' = document /\ nodes' = nodes /\ adj' = adj
      BY <2>7 DEF EdgesDone
    <3>2. NodesTaken(Len(ns)) /\ EdgesTaken(Len(es))
      BY <3>1 DEF LoadedSoFar
    <3>3. DOMAIN ns = 1..Len(ns) /\ DOMAIN es = 1..Len(es)
      BY <2>1
    <3>4. LoadsTheWholeDocument'
      <4>1. \A a, n : Outs(a, n)' = Outs(a, n)
        BY <3>1 DEF Outs
      <4>2. DOMAIN nodes = {ns[j].id : j \in DOMAIN ns}
        BY <3>2, <3>3 DEF NodesTaken
      <4>3. \A a \in DOMAIN nodes : Len(adj[a]) = Cardinality(Outs(a, Len(es)))
        BY <3>2 DEF EdgesTaken
      <4>4. \A j \in DOMAIN es :
              /\ {es[j].from, es[j].to} \subseteq DOMAIN nodes
              /\ adj[es[j].from][Cardinality(Outs(es[j].from, j))] = es[j].to
        BY <3>2, <3>3 DEF EdgesTaken
      <4>5. /\ \A j \in DOMAIN ns : nodes[ns[j].id] = ns[j]
            /\ \A i, j \in DOMAIN ns : ns[i].id = ns[j].id => i = j
        BY <3>2, <3>3 DEF NodesTaken
      <4>6. es' = es /\ ns' = ns
        BY <3>1
      <4> QED
        BY <3>1, <4>1, <4>2, <4>3, <4>4, <4>5, <4>6 DEF LoadsTheWholeDocument
    <3> QED
      BY <3>1, <3>4 DEF LoadedSoFar
  <2>8. CASE UNCHANGED graphVars
    <3>1. \A a, n : Outs(a, n)' = Outs(a, n)
      BY <2>8 DEF graphVars, Outs
    <3>2. LoadedSoFar'
      BY <2>8, <3>1 DEF graphVars, LoadedSoFar, NodesTaken, EdgesTaken
    <3>3. LoadsTheWholeDocument'
      BY <2>8, <3>1 DEF graphVars, LoadsTheWholeDocument
    <3> QED
      BY <3>2, <3>3
  <2> QED
    BY <2>2, <2>3, <2>4, <2>5, <2>6, <2>7, <2>8 DEF Load
<1> QED
  BY <1>1, <1>2, TypeCorrect, PTL DEF GraphSpec

----------------------------------------------------------------------------
(* Recursion along a sequence *)

\* What holds of zero and passes from each natural of a range to the next holds
\* of the whole range: induction over a set.
LEMMA RangeInduction ==
    ASSUME NEW n \in Nat, NEW S, 0 \in S, \A k \in 0..(n - 1) : k \in S => k + 1 \in S
    PROVE  \A k \in 0..n : k \in S
<1> DEFINE R == OpToRel(<, Nat)
           T == {k \in 0..n : k \notin S}
<1>1. \A x, y \in Nat : x < y => <<x, y>> \in R
  BY DEF OpToRel
<1>2. T \subseteq Nat
  OBVIOUS
<1>3. SUFFICES ASSUME T # {} PROVE FALSE
  OBVIOUS
<1> HIDE DEF R, T
<1>4. PICK m \in T : \A k \in T : ~ (<<k, m>> \in R)
  BY <1>2, <1>3, NatLessThanWellFounded, WFMin DEF R
<1>5. m \in 0..n /\ m \notin S
  BY DEF T
<1>6. m # 0
  BY <1>5
<1>7. m - 1 \in 0..(n - 1) /\ (m - 1) + 1 = m /\ m - 1 \in Nat /\ m \in Nat
  BY <1>5, <1>6
<1>8. m - 1 \in T
  BY <1>5, <1>7 DEF T
<1>9. <<m - 1, m>> \in R
  BY <1>1, <1>7
<1> QED
  BY <1>4, <1>8, <1>9

Follows(f, n, z, step) == f[0] = z /\ \A k \in 1..n : f[k] = step[k][f[k - 1]]

\* A function defined by what comes first and by a step from each place to the
\* next exists.
LEMMA RecursionExists ==
    ASSUME NEW n \in Nat, NEW S, NEW z \in S, NEW step \in [1..n -> [S -> S]]
    PROVE  \E f \in [0..n -> S] : Follows(f, n, z, step)
<1> USE DEF Follows
<1> DEFINE Upto(l, f) == Follows(f, l, z, step)
           T == {l \in 0..n : \E f \in [0..l -> S] : Upto(l, f)}
<1>1. 0 \in T
  <2>1. [k \in 0..0 |-> z] \in [0..0 -> S] /\ Upto(0, [k \in 0..0 |-> z])
    OBVIOUS
  <2> HIDE DEF Upto
  <2> QED
    BY <2>1
<1>2. ASSUME NEW l \in 0..(n - 1), l \in T PROVE l + 1 \in T
  <2>1. PICK f \in [0..l -> S] : Upto(l, f)
    BY <1>2
  <2> DEFINE g == [k \in 0..(l + 1) |-> IF k <= l THEN f[k] ELSE step[l + 1][f[l]]]
  <2>2. f[l] \in S /\ l + 1 \in 1..n /\ step[l + 1] \in [S -> S]
    OBVIOUS
  <2>3. g \in [0..(l + 1) -> S]
    BY <2>2
  <2>4. ASSUME NEW k \in 1..(l + 1) PROVE g[k] = step[k][g[k - 1]]
    <3>1. k - 1 \in 0..l /\ g[k - 1] = f[k - 1]
      OBVIOUS
    <3>2. CASE k <= l
      BY <2>1, <3>1, <3>2
    <3>3. CASE k = l + 1
      BY <3>1, <3>3
    <3> QED
      BY <3>2, <3>3
  <2>5. g[0] = z
    BY <2>1
  <2> HIDE DEF g
  <2>6. Upto(l + 1, g)
    BY <2>4, <2>5
  <2>7. l + 1 \in 0..n
    OBVIOUS
  <2> HIDE DEF Upto
  <2> QED
    BY <2>3, <2>6, <2>7
<1> HIDE DEF T
<1>3. \A k \in 0..n : k \in T
  BY <1>1, <1>2, RangeInduction
<1>4. n \in T
  BY <1>3
<1> QED
  BY <1>4 DEF T

\* The severity of a path of the graph is a number.
LEMMA SeverityType ==
    ASSUME graph \in Graphs, NEW p \in Seq(Known) PROVE Severity(p) \in Int
<1> DEFINE Is(f) == f = [k \in 0..Len(p) |->
                            IF k = 0 THEN 0 ELSE f[k - 1] + graph.sensitivity[p[k]]]
           step == [k \in 1..Len(p) |-> [x \in Nat |-> x + graph.sensitivity[p[k]]]]
<1>1. Len(p) \in Nat /\ \A k \in 1..Len(p) : graph.sensitivity[p[k]] \in Nat
  BY GraphsAssumption DEF Searchable, Known
<1>2. step \in [1..Len(p) -> [Nat -> Nat]] /\ 0 \in Nat
  BY <1>1
<1>3. \A k \in 1..Len(p), x \in Nat : step[k][x] = x + graph.sensitivity[p[k]]
  OBVIOUS
<1> HIDE DEF step
<1>4. PICK f \in [0..Len(p) -> Nat] : Follows(f, Len(p), 0, step)
  <2> DEFINE m == Len(p)
  <2>1. m \in Nat
    BY <1>1
  <2>2. step \in [1..m -> [Nat -> Nat]]
    BY <1>2
  <2> HIDE DEF m
  <2>3. \E f \in [0..m -> Nat] : Follows(f, m, 0, step)
    BY <2>1, <2>2, RecursionExists
  <2> QED
    BY <2>3 DEF m
<1>5. Is(f)
  <2>1. ASSUME NEW k \in 1..Len(p) PROVE f[k] = f[k - 1] + graph.sensitivity[p[k]]
    <3>1. k - 1 \in 0..Len(p)
      BY <1>1
    <3> QED
      BY <1>3, <1>4, <3>1 DEF Follows
  <2> QED
    BY <1>1, <1>4, <2>1 DEF Follows
<1> DEFINE sum == CHOOSE f1 : Is(f1)
<1>6. Is(sum)
  <2> HIDE DEF Is
  <2> QED
    BY <1>5
<1> HIDE DEF sum
<1> DEFINE T == {k \in 0..Len(p) : sum[k] \in Nat}
<1>7. 0 \in T
  BY <1>1, <1>6
<1>8. ASSUME NEW k \in 0..(Len(p) - 1), k \in T PROVE k + 1 \in T
  <2>1. k + 1 \in 0..Len(p) /\ k + 1 # 0 /\ (k + 1) - 1 = k /\ k + 1 \in 1..Len(p)
    BY <1>1
  <2>2. sum[k + 1] = sum[k] + graph.sensitivity[p[k + 1]]
    BY <1>6, <2>1
  <2> QED
    BY <1>1, <1>8, <2>1, <2>2
<1> HIDE DEF T
<1>9. \A k \in 0..Len(p) : k \in T
  BY <1>1, <1>7, <1>8, RangeInduction
<1>10. sum[Len(p)] \in Int
  BY <1>1, <1>9 DEF T
<1> QED
  BY <1>10 DEF Severity, sum

\* What is in a sequence with one element more.
LEMMA AppendedSet ==
    ASSUME NEW S, NEW s \in Seq(S), NEW x \in S
    PROVE  ToSet(Append(s, x)) = ToSet(s) \cup {x}
<1>1. /\ DOMAIN s = 1..Len(s) /\ Len(s) \in Nat /\ DOMAIN Append(s, x) = 1..(Len(s) + 1)
      /\ \A i \in 1..Len(s) : Append(s, x)[i] = s[i]
      /\ Append(s, x)[Len(s) + 1] = x
  OBVIOUS
<1>2. \A i \in 1..(Len(s) + 1) : i \in 1..Len(s) \/ i = Len(s) + 1
  BY <1>1
<1> QED
  BY <1>1, <1>2 DEF ToSet

\* Onward goes through the targets and keeps those that are not on the path.
Keeps(f, out, p) ==
    /\ f \in [0..Len(out) -> Seq(Known)]
    /\ f[0] = <<>> /\ f[Len(out)] = Onward(p)
    /\ \A k \in 0..(Len(out) - 1) :
          f[k + 1] = IF out[k + 1] \in ToSet(p) THEN f[k] ELSE Append(f[k], out[k + 1])

LEMMA OnwardKeeps ==
    ASSUME graph \in Graphs, NEW p, Last(p) \in Known
    PROVE  \E f : Keeps(f, Adj[Last(p)], p)
<1> DEFINE out == Adj[Last(p)]
           Is(f) == f = [k \in 0..Len(out) |->
                            IF k = 0 THEN <<>>
                            ELSE IF out[k] \in ToSet(p) THEN f[k - 1]
                            ELSE Append(f[k - 1], out[k])]
           step == [k \in 1..Len(out) |-> [s \in Seq(Known) |->
                       IF out[k] \in ToSet(p) THEN s ELSE Append(s, out[k])]]
<1>1. out \in Seq(Known) /\ Len(out) \in Nat
  BY GraphsAssumption DEF Searchable, Known, Adj
<1> HIDE DEF out
<1>2. step \in [1..Len(out) -> [Seq(Known) -> Seq(Known)]] /\ <<>> \in Seq(Known)
  BY <1>1
<1>3. \A k \in 1..Len(out), s \in Seq(Known) :
        step[k][s] = IF out[k] \in ToSet(p) THEN s ELSE Append(s, out[k])
  OBVIOUS
<1> HIDE DEF step
<1>4. PICK f \in [0..Len(out) -> Seq(Known)] : Follows(f, Len(out), <<>>, step)
  <2> DEFINE m == Len(out)
             S == Seq(Known)
  <2>1. m \in Nat /\ <<>> \in S
    BY <1>1
  <2>2. step \in [1..m -> [S -> S]]
    BY <1>2
  <2> HIDE DEF m, S
  <2>3. \E f \in [0..m -> S] : Follows(f, m, <<>>, step)
    BY <2>1, <2>2, RecursionExists
  <2> QED
    BY <2>3 DEF m, S
<1>5. Is(f)
  <2>1. ASSUME NEW k \in 1..Len(out)
        PROVE  f[k] = IF out[k] \in ToSet(p) THEN f[k - 1] ELSE Append(f[k - 1], out[k])
    <3>1. k - 1 \in 0..Len(out)
      BY <1>1
    <3> QED
      BY <1>3, <1>4, <3>1 DEF Follows
  <2>2. \A k \in 0..Len(out) :
          f[k] = IF k = 0 THEN <<>>
                 ELSE IF out[k] \in ToSet(p) THEN f[k - 1] ELSE Append(f[k - 1], out[k])
    <3>1. \A k \in 0..Len(out) : k = 0 \/ (k # 0 /\ k \in 1..Len(out))
      BY <1>1
    <3> QED
      BY <1>4, <2>1, <3>1 DEF Follows
  <2> QED
    BY <2>2
<1> DEFINE upto == CHOOSE f1 : Is(f1)
<1>6. Is(upto)
  <2> HIDE DEF Is
  <2> QED
    BY <1>5
<1> HIDE DEF upto
<1>7. upto \in [0..Len(out) -> Seq(Known)]
  <2> DEFINE T == {k \in 0..Len(out) : upto[k] \in Seq(Known)}
  <2>1. 0 \in T
    BY <1>1, <1>2, <1>6
  <2>2. ASSUME NEW k \in 0..(Len(out) - 1), k \in T PROVE k + 1 \in T
    <3>1. k + 1 \in 0..Len(out) /\ k + 1 # 0 /\ (k + 1) - 1 = k /\ k + 1 \in 1..Len(out)
      BY <1>1
    <3>2. upto[k + 1] = IF out[k + 1] \in ToSet(p) THEN upto[k] ELSE Append(upto[k], out[k + 1])
      BY <1>6, <3>1
    <3>3. upto[k] \in Seq(Known) /\ out[k + 1] \in Known
      BY <1>1, <2>2, <3>1
    <3>4. Append(upto[k], out[k + 1]) \in Seq(Known)
      BY <3>3
    <3>5. upto[k + 1] \in Seq(Known)
      BY <3>2, <3>3, <3>4
    <3> QED
      BY <3>1, <3>5
  <2> HIDE DEF T
  <2>3. \A k \in 0..Len(out) : k \in T
    BY <1>1, <2>1, <2>2, RangeInduction
  <2> QED
    BY <1>6, <2>3 DEF T
<1>8. \A k \in 0..(Len(out) - 1) :
        upto[k + 1] = IF out[k + 1] \in ToSet(p) THEN upto[k] ELSE Append(upto[k], out[k + 1])
  <2>1. \A k \in 0..(Len(out) - 1) : k + 1 \in 0..Len(out) /\ k + 1 # 0 /\ (k + 1) - 1 = k
    BY <1>1
  <2> QED
    BY <1>6, <2>1
<1>9. upto[0] = <<>>
  BY <1>1, <1>6
<1>10. upto[Len(out)] = Onward(p)
  BY DEF Onward, upto, out
<1>11. Keeps(upto, out, p)
  BY <1>7, <1>8, <1>9, <1>10 DEF Keeps
<1> QED
  BY <1>11 DEF out

\* Onward are the targets that are not on the path.
LEMMA OnwardTargets ==
    ASSUME graph \in Graphs, NEW p, Last(p) \in Known
    PROVE  /\ Onward(p) \in Seq(Known)
           /\ ToSet(Onward(p)) = ToSet(Adj[Last(p)]) \ ToSet(p)
<1> DEFINE out == Adj[Last(p)]
<1>1. out \in Seq(Known) /\ Len(out) \in Nat
  BY GraphsAssumption DEF Searchable, Known, Adj
<1>2. PICK upto : Keeps(upto, out, p)
  BY OnwardKeeps
<1> HIDE DEF out
<1>3. /\ upto \in [0..Len(out) -> Seq(Known)] /\ upto[0] = <<>> /\ upto[Len(out)] = Onward(p)
      /\ \A k \in 0..(Len(out) - 1) :
            upto[k + 1] = IF out[k + 1] \in ToSet(p) THEN upto[k] ELSE Append(upto[k], out[k + 1])
  BY <1>2 DEF Keeps
<1> DEFINE T == {k \in 0..Len(out) :
                    /\ upto[k] \in Seq(Known)
                    /\ ToSet(upto[k]) = {out[i] : i \in 1..k} \ ToSet(p)}
<1>7. 0 \in T
  <2>1. upto[0] = <<>>
    BY <1>3
  <2>2. ToSet(<<>>) = {}
    BY DEF ToSet
  <2>3. {out[i] : i \in 1..0} = {} /\ 0 \in 0..Len(out)
    BY <1>1
  <2>4. upto[0] \in Seq(Known) /\ ToSet(upto[0]) = {out[i] : i \in 1..0} \ ToSet(p)
    BY <2>1, <2>2, <2>3
  <2> QED
    BY <2>3, <2>4
<1>8. ASSUME NEW k \in 0..(Len(out) - 1), k \in T PROVE k + 1 \in T
  <2>1. k + 1 \in 0..Len(out) /\ k + 1 # 0 /\ (k + 1) - 1 = k /\ k + 1 \in 1..Len(out)
    BY <1>1
  <2>2. upto[k + 1] = IF out[k + 1] \in ToSet(p) THEN upto[k] ELSE Append(upto[k], out[k + 1])
    BY <1>3
  <2>3. /\ upto[k] \in Seq(Known) /\ out[k + 1] \in Known
        /\ ToSet(upto[k]) = {out[i] : i \in 1..k} \ ToSet(p)
    BY <1>1, <1>8, <2>1
  <2>4. {out[i] : i \in 1..(k + 1)} = {out[i] : i \in 1..k} \cup {out[k + 1]}
    OBVIOUS
  <2>5. ToSet(Append(upto[k], out[k + 1])) = ToSet(upto[k]) \cup {out[k + 1]}
    BY <2>3, AppendedSet
  <2>6. CASE out[k + 1] \in ToSet(p)
    BY <2>1, <2>2, <2>3, <2>4, <2>6
  <2>7. CASE out[k + 1] \notin ToSet(p)
    <3>1. upto[k + 1] = Append(upto[k], out[k + 1]) /\ upto[k + 1] \in Seq(Known)
      BY <2>2, <2>3, <2>7
    <3> QED
      BY <2>1, <2>3, <2>4, <2>5, <2>7, <3>1
  <2> QED
    BY <2>6, <2>7
<1> HIDE DEF T
<1>9. \A k \in 0..Len(out) : k \in T
  BY <1>1, <1>7, <1>8, RangeInduction
<1>10. /\ upto[Len(out)] \in Seq(Known)
       /\ ToSet(upto[Len(out)]) = ToSet(out) \ ToSet(p)
  <2>1. ToSet(out) = {out[i] : i \in 1..Len(out)}
    BY <1>1, LenProperties DEF ToSet
  <2>2. Len(out) \in T
    BY <1>1, <1>9
  <2> QED
    BY <2>1, <2>2 DEF T
<1> QED
  BY <1>3, <1>10 DEF out

----------------------------------------------------------------------------
(* The ranking *)

Found == [hops : Seq(Known), severity : Int]

\* The sort's order of the paths found is strict and total.
LEMMA BeforeIsAnOrder ==
    ASSUME found \in Seq(Found), NEW i \in DOMAIN found, NEW j \in DOMAIN found,
           NEW k \in DOMAIN found
    PROVE  /\ ~Before(i, i)
           /\ Before(i, j) /\ Before(j, k) => Before(i, k)
           /\ i # j => Before(i, j) \/ Before(j, i)
<1> DEFINE sev(x) == found[x].severity
           len(x) == Len(found[x].hops)
<1>1. ASSUME NEW x \in DOMAIN found
      PROVE  sev(x) \in Int /\ len(x) \in Int /\ x \in Int
  <2>1. found[x] \in Found /\ x \in Int
    BY ElementOfSeq, LenProperties
  <2>2. sev(x) \in Int /\ found[x].hops \in Seq(Known)
    BY <2>1 DEF Found
  <2> QED
    BY <2>1, <2>2, LenProperties
<1>2. \A x, y \in DOMAIN found :
        Before(x, y) <=> \/ sev(x) > sev(y)
                         \/ sev(x) = sev(y) /\ len(x) < len(y)
                         \/ sev(x) = sev(y) /\ len(x) = len(y) /\ x < y
  <2> SUFFICES ASSUME NEW x \in DOMAIN found, NEW y \in DOMAIN found
               PROVE  Before(x, y) <=> \/ sev(x) > sev(y)
                                       \/ sev(x) = sev(y) /\ len(x) < len(y)
                                       \/ sev(x) = sev(y) /\ len(x) = len(y) /\ x < y
    OBVIOUS
  <2>1. /\ Outranks(found[x], found[y])
              <=> sev(x) > sev(y) \/ (sev(x) = sev(y) /\ len(x) < len(y))
        /\ Outranks(found[y], found[x])
              <=> sev(y) > sev(x) \/ (sev(y) = sev(x) /\ len(y) < len(x))
    BY DEF Outranks
  <2>2. /\ sev(x) \in Int /\ len(x) \in Int /\ x \in Int
        /\ sev(y) \in Int /\ len(y) \in Int /\ y \in Int
    BY <1>1
  <2> HIDE DEF sev, len
  <2> QED
    BY <2>1, <2>2 DEF Before
<1> HIDE DEF sev, len
<1> QED
  BY <1>1, <1>2

\* A path's rank is how many are ahead of it: fewer than there are, and fewer for
\* the earlier one of two.
LEMMA RanksGrow ==
    ASSUME found \in Seq(Found)
    PROVE  /\ \A i \in DOMAIN found : Cardinality(Ahead(i)) \in 0..(Len(found) - 1)
           /\ \A i, j \in DOMAIN found :
                 Before(i, j) => Cardinality(Ahead(i)) < Cardinality(Ahead(j))
<1>1. /\ IsFiniteSet(DOMAIN found) /\ Cardinality(DOMAIN found) = Len(found)
      /\ Len(found) \in Nat /\ DOMAIN found = 1..Len(found)
  <2>1. DOMAIN found = 1..Len(found) /\ Len(found) \in Nat
    BY LenProperties
  <2>2. IsFiniteSet(1..Len(found))
        /\ Cardinality(1..Len(found)) = IF 1 > Len(found) THEN 0 ELSE Len(found) - 1 + 1
    BY <2>1, FS_Interval
  <2> QED
    BY <2>1, <2>2
<1>2. ASSUME NEW i \in DOMAIN found
      PROVE  /\ Ahead(i) \subseteq DOMAIN found /\ IsFiniteSet(Ahead(i)) /\ i \notin Ahead(i)
             /\ Cardinality(Ahead(i)) \in Nat
  <2>1. Ahead(i) \subseteq DOMAIN found /\ i \notin Ahead(i)
    BY BeforeIsAnOrder DEF Ahead
  <2>2. IsFiniteSet(Ahead(i))
    BY <1>1, <2>1, FS_Subset
  <2> QED
    BY <2>1, <2>2, FS_CardinalityType
<1>3. ASSUME NEW T, IsFiniteSet(T), NEW S \in SUBSET T, NEW x \in T, x \notin S
      PROVE  Cardinality(S) < Cardinality(T)
  <2>1. IsFiniteSet(S) /\ Cardinality(S) <= Cardinality(T)
        /\ (Cardinality(S) = Cardinality(T) => S = T)
    BY <1>3, FS_Subset
  <2>2. Cardinality(S) \in Nat /\ Cardinality(T) \in Nat
    BY <1>3, <2>1, FS_CardinalityType
  <2> QED
    BY <1>3, <2>1, <2>2
<1>4. ASSUME NEW i \in DOMAIN found PROVE Cardinality(Ahead(i)) \in 0..(Len(found) - 1)
  <2>1. Cardinality(Ahead(i)) < Cardinality(DOMAIN found)
    BY <1>1, <1>2, <1>3
  <2> QED
    BY <1>1, <1>2, <2>1
<1>5. ASSUME NEW i \in DOMAIN found, NEW j \in DOMAIN found, Before(i, j)
      PROVE  Cardinality(Ahead(i)) < Cardinality(Ahead(j))
  <2>1. Ahead(i) \subseteq Ahead(j) /\ i \in Ahead(j) /\ i \notin Ahead(i)
    BY <1>5, BeforeIsAnOrder DEF Ahead
  <2> QED
    BY <1>2, <1>3, <2>1
<1> QED
  BY <1>4, <1>5

\* There is a path of every rank, and only one.
LEMMA OneOfEachRank ==
    ASSUME found \in Seq(Found)
    PROVE  /\ \A r \in 0..(Len(found) - 1) :
                 \E i \in DOMAIN found : Cardinality(Ahead(i)) = r
           /\ \A i, j \in DOMAIN found :
                 Cardinality(Ahead(i)) = Cardinality(Ahead(j)) => i = j
<1> DEFINE D == DOMAIN found
           rank == [i \in D |-> Cardinality(Ahead(i))]
           all == 0..(Len(found) - 1)
<1>1. /\ D = 1..Len(found) /\ Len(found) \in Nat
  BY LenProperties
<1>2. /\ IsFiniteSet(D) /\ Cardinality(D) = Len(found)
      /\ IsFiniteSet(all) /\ Cardinality(all) = Len(found)
  <2>1. IsFiniteSet(1..Len(found)) /\ Cardinality(1..Len(found)) = Len(found)
    BY <1>1, FS_Interval
  <2>2. IsFiniteSet(all) /\ Cardinality(all) = Len(found)
    <3>1. 0 \in Int /\ Len(found) - 1 \in Int
      BY <1>1
    <3>2. IsFiniteSet(all)
          /\ Cardinality(all) = IF 0 > Len(found) - 1 THEN 0 ELSE (Len(found) - 1) - 0 + 1
      BY <3>1, FS_Interval
    <3> HIDE DEF all
    <3> QED
      BY <1>1, <3>2
  <2> QED
    BY <1>1, <2>1, <2>2
<1>3. \A i \in D : rank[i] = Cardinality(Ahead(i)) /\ rank[i] \in all
  BY RanksGrow
<1>4. ASSUME NEW i \in D, NEW j \in D, rank[i] = rank[j] PROVE i = j
  <2>1. Cardinality(Ahead(i)) \in Int /\ Cardinality(Ahead(i)) = Cardinality(Ahead(j))
    BY <1>3, <1>4
  <2>2. ~Before(i, j) /\ ~Before(j, i)
    BY <2>1, RanksGrow
  <2> QED
    BY <2>2, BeforeIsAnOrder
<1> HIDE DEF rank, D, all
<1>5. rank \in Injection(D, all)
  <2>1. rank \in [D -> all]
    BY <1>3 DEF rank
  <2> QED
    BY <1>4, <2>1 DEF Injection, IsInjective
<1>6. rank \in Surjection(D, all)
  BY <1>2, <1>5, FS_Injection
<1>7. \A r \in all : \E i \in D : Cardinality(Ahead(i)) = r
  BY <1>3, <1>6 DEF Surjection
<1> QED
  BY <1>3, <1>4, <1>7 DEF D, all

NoWorse(r, f) ==
    \/ r.severity > f.severity
    \/ r.severity = f.severity /\ Len(r.hops) <= Len(f.hops)

\* Each entry of s is one of t, each of another.
IsDrawn(g, s, t) ==
    /\ g \in [DOMAIN s -> DOMAIN t]
    /\ \A k \in DOMAIN s : s[k] = t[g[k]]
    /\ \A j, k \in DOMAIN s : g[j] = g[k] => j = k

\* What sort and truncate leave: paths that were found, none taken twice, and of
\* every path left out only better or equal ones, as many as the limit.
Ranked(s) ==
    /\ s \in Seq(Found) /\ ToSet(s) \subseteq ToSet(found)
    /\ \E g : IsDrawn(g, s, found)
    /\ \A f \in ToSet(found) \ ToSet(s) :
          Len(s) = limit /\ \A r \in ToSet(s) : NoWorse(r, f)

LEMMA SortAndTruncate ==
    ASSUME found \in Seq(Found), limit \in Nat
    PROVE  Ranked([k \in 1..(IF Len(found) < limit THEN Len(found) ELSE limit) |->
                      found[CHOOSE i \in DOMAIN found : Cardinality(Ahead(i)) = k - 1]])
<1> DEFINE n == Len(found)
           kept == IF n < limit THEN n ELSE limit
           At(k) == CHOOSE i \in DOMAIN found : Cardinality(Ahead(i)) = k - 1
           s == [k \in 1..kept |-> found[At(k)]]
<1>1. n \in Nat /\ DOMAIN found = 1..n /\ kept \in 0..n /\ (kept # n => kept = limit)
  BY LenProperties
<1>2. ASSUME NEW k \in 1..kept
      PROVE  At(k) \in DOMAIN found /\ Cardinality(Ahead(At(k))) = k - 1
  <2>1. k - 1 \in 0..(n - 1)
    BY <1>1
  <2>2. \E i \in DOMAIN found : Cardinality(Ahead(i)) = k - 1
    BY <2>1, OneOfEachRank
  <2> QED
    BY <2>2
<1> HIDE DEF At, kept, n
<1>3. \A k \in 1..kept : found[At(k)] \in Found
  BY <1>2, ElementOfSeq
<1>4. s \in Seq(Found) /\ Len(s) = kept /\ DOMAIN s = 1..kept
        /\ \A k \in 1..kept : s[k] = found[At(k)]
  <2>1. kept \in Nat
    BY <1>1
  <2> QED
    BY <1>3, <2>1, IsASeq
<1> HIDE DEF s
<1>5. ToSet(s) \subseteq ToSet(found)
  BY <1>2, <1>4 DEF ToSet
<1>6. ASSUME NEW f \in ToSet(found) \ ToSet(s)
      PROVE  Len(s) = limit /\ \A r \in ToSet(s) : NoWorse(r, f)
  <2>1. PICK i \in DOMAIN found : found[i] = f
    BY DEF ToSet
  <2> DEFINE rank == Cardinality(Ahead(i))
  <2>2. rank \in 0..(n - 1)
    BY RanksGrow DEF n
  <2> HIDE DEF rank
  <2>3. ~(rank + 1 \in 1..kept)
    <3> SUFFICES ASSUME rank + 1 \in 1..kept PROVE FALSE
      OBVIOUS
    <3>1. At(rank + 1) \in DOMAIN found /\ Cardinality(Ahead(At(rank + 1))) = rank
      BY <1>2, <2>2
    <3>2. At(rank + 1) = i
      BY <3>1, OneOfEachRank DEF rank
    <3> QED
      BY <1>4, <2>1, <3>2 DEF ToSet
  <2>4. kept <= rank /\ kept = limit
    BY <1>1, <2>2, <2>3
  <2>5. ASSUME NEW k \in 1..kept PROVE NoWorse(s[k], f)
    <3>1. At(k) \in DOMAIN found /\ Cardinality(Ahead(At(k))) = k - 1 /\ s[k] = found[At(k)]
      BY <1>2, <1>4
    <3>2. k - 1 < rank /\ rank \in Int /\ k - 1 \in Int
      BY <1>1, <2>2, <2>4
    <3>3. At(k) # i
      BY <3>1, <3>2 DEF rank
    <3>4. ~Before(i, At(k))
      BY <3>1, <3>2, RanksGrow DEF rank
    <3>5. Before(At(k), i)
      BY <3>1, <3>3, <3>4, BeforeIsAnOrder
    <3>6. Outranks(s[k], f) \/ ~Outranks(f, s[k])
      BY <2>1, <3>1, <3>5 DEF Before
    <3>7. s[k] \in Found /\ f \in Found
      BY <2>1, <3>1, ElementOfSeq
    <3>8. /\ s[k].severity \in Int /\ Len(s[k].hops) \in Nat
          /\ f.severity \in Int /\ Len(f.hops) \in Nat
      BY <3>7, LenProperties DEF Found
    <3> QED
      BY <3>6, <3>8 DEF Outranks, NoWorse
  <2> QED
    BY <1>4, <2>4, <2>5 DEF ToSet
<1>7. \E g : IsDrawn(g, s, found)
  <2> DEFINE g == [k \in 1..kept |-> At(k)]
  <2>1. /\ g \in [DOMAIN s -> DOMAIN found]
        /\ \A k \in DOMAIN s : s[k] = found[g[k]]
    BY <1>2, <1>4
  <2>2. ASSUME NEW j \in DOMAIN s, NEW k \in DOMAIN s, g[j] = g[k] PROVE j = k
    <3>1. At(j) = At(k) /\ j \in Int /\ k \in Int
      BY <1>1, <1>4, <2>2
    <3>2. j - 1 = k - 1
      BY <1>2, <1>4, <3>1
    <3> QED
      BY <3>1, <3>2
  <2> HIDE DEF g
  <2>3. IsDrawn(g, s, found)
    BY <2>1, <2>2 DEF IsDrawn
  <2> QED
    BY <2>3
<1>8. Ranked(s)
  BY <1>4, <1>5, <1>6, <1>7 DEF Ranked
<1> QED
  BY <1>8 DEF s, At, kept, n

----------------------------------------------------------------------------
(* The search *)

\* A simple path from the start, along edges, that the cap lets stand.
IsPath(p) ==
    /\ p \in Seq(Known) /\ Len(p) \in 1..(HopCap + 1)
    /\ p[1] = from
    /\ \A i, j \in 1..Len(p) : p[i] = p[j] => i = j
    /\ \A k \in 1..(Len(p) - 1) : p[k + 1] \in ToSet(Adj[p[k]])

Arrives(f) == IsPath(f.hops) /\ Last(f.hops) = to /\ f.severity = Severity(f.hops)

Begins(q, p) == Len(q) <= Len(p) /\ \A i \in 1..Len(q) : q[i] = p[i]

SomethingToFind == limit # 0 /\ {from, to} \subseteq Known

PathsInv ==
    /\ graph \in Graphs /\ limit \in Nat
    /\ pc \in {"start", "search", "rank", "done"}
    /\ stack \in Seq(Seq(Known)) /\ \A q \in ToSet(stack) : IsPath(q)
    /\ found \in Seq(Found) /\ \A f \in ToSet(found) : Arrives(f)
    /\ pc = "start" => (stack = <<>> /\ found = <<>>)
    /\ pc \in {"search", "rank"} => SomethingToFind
    /\ IF pc = "done" /\ SomethingToFind THEN Ranked(result) ELSE result = <<>>

\* Every simple path was found or has a beginning that waits on the stack.
NoneIsLost ==
    /\ pc = "search" =>
          \A p \in SimplePaths : \/ \E f \in ToSet(found) : f.hops = p
                                 \/ \E q \in ToSet(stack) : Begins(q, p)
    /\ (pc \in {"rank", "done"} /\ SomethingToFind /\ Len(found) < limit * Surplus) =>
          \A p \in SimplePaths : \E f \in ToSet(found) : f.hops = p

\* The simple paths are the paths of the search that arrived.
LEMMA SimplePathsArrive ==
    ASSUME NEW p PROVE p \in SimplePaths <=> IsPath(p) /\ Last(p) = to
<1>1. ASSUME p \in SimplePaths PROVE IsPath(p) /\ Last(p) = to
  <2>1. PICK n \in 1..(HopCap + 1) : p \in [1..n -> Known]
    BY <1>1 DEF SimplePaths
  <2>2. n \in Nat /\ p \in Seq(Known) /\ Len(p) = n /\ DOMAIN p = 1..n
    BY <2>1, CapAssumption, IsASeq
  <2> QED
    BY <1>1, <2>2 DEF SimplePaths, IsPath, Last
<1>2. ASSUME IsPath(p), Last(p) = to PROVE p \in SimplePaths
  <2>1. p \in [1..Len(p) -> Known] /\ Len(p) \in 1..(HopCap + 1) /\ DOMAIN p = 1..Len(p)
    BY <1>2, LenProperties, ElementOfSeq DEF IsPath
  <2>2. p \in UNION {[1..n -> Known] : n \in 1..(HopCap + 1)}
    BY <2>1
  <2> QED
    BY <1>2, <2>1, <2>2 DEF SimplePaths, IsPath, Last
<1> QED
  BY <1>1, <1>2

\* A search works on one query.
LEMMA SameQuery ==
    ASSUME UNCHANGED query
    PROVE  /\ Known' = Known /\ Found' = Found /\ limit' = limit /\ to' = to /\ from' = from
           /\ graph' = graph /\ SimplePaths' = SimplePaths
           /\ SomethingToFind' <=> SomethingToFind
           /\ \A p : IsPath(p)' <=> IsPath(p)
           /\ \A f : Arrives(f)' <=> Arrives(f)
<1>1. graph' = graph /\ limit' = limit /\ to' = to /\ from' = from
  BY DEF query
<1>2. Known' = Known /\ Adj' = Adj
  BY <1>1 DEF Known, Adj
<1>3. Found' = Found /\ SimplePaths' = SimplePaths /\ (SomethingToFind' <=> SomethingToFind)
  BY <1>1, <1>2 DEF Found, SimplePaths, SomethingToFind
<1>4. \A p : IsPath(p)' <=> IsPath(p)
  BY <1>1, <1>2 DEF IsPath
<1>5. \A p : Severity(p)' = Severity(p)
  BY <1>1 DEF Severity
<1>6. \A f : Arrives(f)' <=> Arrives(f)
  BY <1>1, <1>4, <1>5 DEF Arrives
<1> QED
  BY <1>1, <1>2, <1>3, <1>4, <1>6

\* A path extended by one of its onward targets is a path.
LEMMA PathGrows ==
    ASSUME graph \in Graphs, NEW p, IsPath(p), Len(p) <= HopCap, NEW x \in ToSet(Onward(p))
    PROVE  IsPath(Append(p, x))
<1> DEFINE q == Append(p, x)
<1>1. /\ p \in Seq(Known) /\ Len(p) \in Nat /\ Len(p) >= 1 /\ HopCap \in Nat
      /\ DOMAIN p = 1..Len(p)
  BY CapAssumption, LenProperties DEF IsPath
<1>2. Last(p) = p[Len(p)] /\ Last(p) \in Known
  BY <1>1, ElementOfSeq DEF Last
<1>3. x \in Known /\ x \in ToSet(Adj[Last(p)]) /\ x \notin ToSet(p)
  <2>1. /\ Onward(p) \in Seq(Known)
        /\ ToSet(Onward(p)) = ToSet(Adj[Last(p)]) \ ToSet(p)
    BY <1>2, OnwardTargets
  <2>2. x \in Known
    BY <2>1, LenProperties, ElementOfSeq DEF ToSet
  <2> QED
    BY <2>1, <2>2
<1>4. /\ q \in Seq(Known) /\ Len(q) = Len(p) + 1
      /\ \A i \in 1..Len(p) : q[i] = p[i]
      /\ q[Len(p) + 1] = x
  BY <1>1, <1>3, AppendProperties
<1>5. \A i \in 1..Len(p) : q[i] # x
  BY <1>1, <1>3, <1>4 DEF ToSet
<1> HIDE DEF q
<1>6. ASSUME NEW i \in 1..Len(q), NEW j \in 1..Len(q), q[i] = q[j] PROVE i = j
  <2>1. \A k \in 1..Len(q) : k \in 1..Len(p) \/ k = Len(p) + 1
    BY <1>1, <1>4
  <2>2. CASE i \in 1..Len(p) /\ j \in 1..Len(p)
    BY <1>4, <1>6, <2>2 DEF IsPath
  <2>3. CASE i = Len(p) + 1 \/ j = Len(p) + 1
    BY <1>4, <1>5, <1>6, <2>1, <2>3
  <2> QED
    BY <2>1, <2>2, <2>3
<1>7. ASSUME NEW k \in 1..(Len(q) - 1) PROVE q[k + 1] \in ToSet(Adj[q[k]])
  <2>1. k \in 1..Len(p) /\ q[k] = p[k]
    BY <1>1, <1>4
  <2>2. CASE k = Len(p)
    BY <1>2, <1>3, <1>4, <2>1, <2>2
  <2>3. CASE k # Len(p)
    <3>1. k \in 1..(Len(p) - 1) /\ k + 1 \in 1..Len(p)
      <4>1. \A n \in Nat : \A i \in 1..n : i # n => i \in 1..(n - 1) /\ i + 1 \in 1..n
        OBVIOUS
      <4> QED
        BY <1>1, <2>1, <2>3, <4>1
    <3> QED
      BY <1>4, <2>1, <3>1 DEF IsPath
  <2> QED
    BY <2>2, <2>3
<1>8. Len(q) \in 1..(HopCap + 1) /\ q[1] = from
  BY <1>1, <1>4 DEF IsPath
<1>9. IsPath(q)
  BY <1>4, <1>6, <1>7, <1>8 DEF IsPath
<1> QED
  BY <1>9 DEF q

\* What is on the stack once its top is popped, and once more is pushed.
LEMMA Popped ==
    ASSUME NEW S, stack \in Seq(S), stack # <<>>
    PROVE  /\ Top \in S /\ Below \in Seq(S) /\ Top \in ToSet(stack)
           /\ ToSet(stack) = ToSet(Below) \cup {Top}
<1>1. Len(stack) \in Nat /\ Len(stack) >= 1 /\ DOMAIN stack = 1..Len(stack)
  <2>1. Len(stack) # 0
    BY EmptySeq
  <2> QED
    BY <2>1, LenProperties
<1>2. Top = stack[Len(stack)] /\ Top \in S
  BY <1>1, ElementOfSeq DEF Top, Last
<1>3. /\ Below \in Seq(S) /\ Len(Below) = Len(stack) - 1 /\ DOMAIN Below = 1..(Len(stack) - 1)
      /\ \A i \in 1..(Len(stack) - 1) : Below[i] = stack[i]
  <2>1. Below = SubSeq(stack, 1, Len(stack) - 1)
    BY DEF Below, Front
  <2> QED
    BY <1>1, <2>1
<1>4. \A i \in 1..Len(stack) : i \in 1..(Len(stack) - 1) \/ i = Len(stack)
  <2>1. \A n \in Nat : \A i \in 1..n : i \in 1..(n - 1) \/ i = n
    OBVIOUS
  <2> QED
    BY <1>1, <2>1
<1>5. /\ ToSet(stack) = {stack[i] : i \in 1..Len(stack)}
      /\ ToSet(Below) = {Below[i] : i \in 1..(Len(stack) - 1)}
  BY <1>1, <1>3 DEF ToSet
<1>6. ToSet(Below) = {stack[i] : i \in 1..(Len(stack) - 1)}
  BY <1>3, <1>5
<1>7. Len(stack) \in 1..Len(stack) /\ 1..(Len(stack) - 1) \subseteq 1..Len(stack)
  <2>1. \A n \in Nat : n >= 1 => n \in 1..n /\ 1..(n - 1) \subseteq 1..n
    OBVIOUS
  <2> QED
    BY <1>1, <2>1
<1>8. ToSet(stack) = ToSet(Below) \cup {Top}
  BY <1>2, <1>4, <1>5, <1>6, <1>7
<1> QED
  BY <1>2, <1>3, <1>8

LEMMA Pushed ==
    ASSUME NEW S, NEW r \in Seq(S), NEW s \in Seq(S)
    PROVE  r \o s \in Seq(S) /\ ToSet(r \o s) = ToSet(r) \cup ToSet(s)
<1> DEFINE both == r \o s
<1>1. /\ Len(r) \in Nat /\ Len(s) \in Nat /\ DOMAIN r = 1..Len(r) /\ DOMAIN s = 1..Len(s)
  BY LenProperties
<1>2. /\ both \in Seq(S) /\ Len(both) = Len(r) + Len(s)
      /\ \A i \in 1..(Len(r) + Len(s)) :
            both[i] = IF i <= Len(r) THEN r[i] ELSE s[i - Len(r)]
  BY ConcatProperties
<1>3. DOMAIN both = 1..(Len(r) + Len(s))
  BY <1>2, LenProperties
<1> HIDE DEF both
<1>4. ASSUME NEW i \in 1..(Len(r) + Len(s)) PROVE both[i] \in ToSet(r) \cup ToSet(s)
  <2>1. CASE i <= Len(r)
    BY <1>1, <1>2, <2>1 DEF ToSet
  <2>2. CASE ~(i <= Len(r))
    <3>1. i - Len(r) \in 1..Len(s)
      BY <1>1, <2>2
    <3> QED
      BY <1>1, <1>2, <2>2, <3>1 DEF ToSet
  <2> QED
    BY <2>1, <2>2
<1>5. ASSUME NEW i \in 1..Len(r) PROVE r[i] \in ToSet(both)
  <2>1. i \in 1..(Len(r) + Len(s)) /\ i <= Len(r)
    BY <1>1
  <2> QED
    BY <1>2, <1>3, <2>1 DEF ToSet
<1>6. ASSUME NEW i \in 1..Len(s) PROVE s[i] \in ToSet(both)
  <2>1. /\ Len(r) + i \in 1..(Len(r) + Len(s)) /\ ~(Len(r) + i <= Len(r))
        /\ (Len(r) + i) - Len(r) = i
    BY <1>1
  <2> QED
    BY <1>2, <1>3, <2>1 DEF ToSet
<1>7. ToSet(both) = ToSet(r) \cup ToSet(s)
  BY <1>1, <1>3, <1>4, <1>5, <1>6 DEF ToSet
<1> QED
  BY <1>2, <1>7 DEF both

\* What the stack holds and what was found are paths, whatever the search does.
LEMMA PathsStep == PathsInv /\ [Next]_vars => PathsInv'
<1> SUFFICES ASSUME PathsInv, [Next]_vars PROVE PathsInv'
  OBVIOUS
<1>1. UNCHANGED query
  BY DEF Next, vars, NothingToFind, Begin, Arrived, TooLong, ExtendPath, StackEmpty, Rank
<1>2. /\ Known' = Known /\ Found' = Found /\ limit' = limit /\ graph' = graph
      /\ (SomethingToFind' <=> SomethingToFind)
      /\ \A p : IsPath(p)' <=> IsPath(p)
      /\ \A f : Arrives(f)' <=> Arrives(f)
  BY <1>1, SameQuery
<1>3. UNCHANGED found => \A s : Ranked(s)' <=> Ranked(s)
  BY <1>2 DEF Ranked
<1>4. ASSUME InSearch
      PROVE  /\ Top \in Seq(Known) /\ IsPath(Top) /\ Below \in Seq(Seq(Known))
             /\ \A q \in ToSet(Below) : IsPath(q)
             /\ SomethingToFind
  BY <1>4, Popped DEF PathsInv, InSearch
<1>5. CASE NothingToFind
  BY <1>2, <1>5 DEF NothingToFind, PathsInv, SomethingToFind
<1>6. CASE Begin
  <2>1. IsPath(<<from>>) /\ <<from>> \in Seq(Known) /\ SomethingToFind
    <3> DEFINE p == <<from>>
    <3>1. /\ from \in Known /\ p \in Seq(Known) /\ Len(p) = 1 /\ p[1] = from
          /\ Len(p) \in 1..(HopCap + 1)
      BY <1>6, CapAssumption DEF Begin
    <3> HIDE DEF p
    <3>2. IsPath(p)
      BY <3>1 DEF IsPath
    <3> QED
      BY <1>6, <3>1, <3>2 DEF p, Begin, SomethingToFind
  <2>2. stack' \in Seq(Seq(Known)) /\ ToSet(stack') = {<<from>>}
    <3>1. /\ <<from>> \in Seq(Known)
          /\ \A S : \A p \in S : <<p>> \in Seq(S) /\ ToSet(<<p>>) = {p}
      BY <2>1 DEF ToSet
    <3> QED
      BY <1>6, <3>1 DEF Begin
  <2> QED
    BY <1>2, <1>6, <2>1, <2>2 DEF Begin, PathsInv
<1>7. CASE Arrived
  <2> DEFINE f == [hops |-> Top, severity |-> Severity(Top)]
  <2>1. f \in Found /\ Arrives(f)
    <3>1. f.hops = Top /\ f.severity = Severity(Top) /\ Severity(Top) \in Int
      BY <1>4, <1>7, SeverityType DEF Arrived, PathsInv
    <3>2. f \in Found
      BY <1>4, <1>7, <3>1 DEF Arrived, Found
    <3> HIDE DEF f
    <3> QED
      BY <1>4, <1>7, <3>1, <3>2 DEF Arrived, Arrives
  <2>2. /\ found' \in Seq(Found) /\ ToSet(found') = ToSet(found) \cup {f}
        /\ stack' = Below /\ pc' \in {"search", "rank"} /\ pc = "search" /\ result' = result
    <3>1. /\ found' = Append(found, f) /\ found \in Seq(Found)
          /\ stack' = Below /\ pc' \in {"search", "rank"} /\ pc = "search" /\ result' = result
      BY <1>7 DEF Arrived, InSearch, PathsInv
    <3> HIDE DEF f
    <3> QED
      BY <2>1, <3>1, AppendedSet, AppendProperties
  <2> HIDE DEF f
  <2>3. \A g \in ToSet(found') : Arrives(g)'
    BY <1>2, <2>1, <2>2 DEF PathsInv
  <2>4. stack' \in Seq(Seq(Known)) /\ \A q \in ToSet(stack') : IsPath(q)'
    BY <1>2, <1>4, <1>7, <2>2 DEF Arrived
  <2>5. result' = <<>> /\ SomethingToFind
    BY <1>4, <1>7, <2>2 DEF Arrived, PathsInv
  <2> QED
    BY <1>2, <2>2, <2>3, <2>4, <2>5 DEF PathsInv
<1>8. CASE TooLong
  BY <1>2, <1>4, <1>8 DEF TooLong, PathsInv, InSearch
<1>9. CASE ExtendPath
  <2> DEFINE on == Onward(Top)
             more == [k \in DOMAIN on |-> Append(Top, on[k])]
  <2>1. on \in Seq(Known) /\ DOMAIN on = 1..Len(on) /\ Len(on) \in Nat
    <3>1. Last(Top) \in Known
      BY <1>4, <1>9, LenProperties, ElementOfSeq DEF ExtendPath, IsPath, Last
    <3> QED
      BY <3>1, OnwardTargets, LenProperties DEF PathsInv
  <2>2. \A k \in DOMAIN on : on[k] \in ToSet(on)
    BY DEF ToSet
  <2>3. \A k \in DOMAIN on : IsPath(Append(Top, on[k])) /\ Append(Top, on[k]) \in Seq(Known)
    <3>1. \A x \in ToSet(on) : IsPath(Append(Top, x))
      BY <1>4, <1>9, PathGrows DEF ExtendPath, PathsInv
    <3> QED
      BY <2>2, <3>1 DEF IsPath
  <2> HIDE DEF on
  <2>4. more \in Seq(Seq(Known)) /\ \A q \in ToSet(more) : IsPath(q)
    <3>1. more \in Seq(Seq(Known))
      BY <2>1, <2>3, IsASeq
    <3> QED
      BY <2>3, <3>1 DEF ToSet
  <2> HIDE DEF more
  <2>5. stack' = Below \o more /\ UNCHANGED <<pc, found, result>> /\ InSearch
    BY <1>9 DEF ExtendPath, more, on
  <2>6. stack' \in Seq(Seq(Known)) /\ ToSet(stack') = ToSet(Below) \cup ToSet(more)
    BY <1>4, <2>4, <2>5, Pushed
  <2> QED
    BY <1>2, <1>3, <1>4, <2>4, <2>5, <2>6 DEF PathsInv, InSearch
<1>10. CASE StackEmpty
  BY <1>2, <1>10 DEF StackEmpty, PathsInv
<1>11. CASE Rank
  <2>1. PICK r : r = [k \in 1..(IF Len(found) < limit THEN Len(found) ELSE limit) |->
                         found[CHOOSE i \in DOMAIN found : Cardinality(Ahead(i)) = k - 1]]
    OBVIOUS
  <2>2. Ranked(r)
    BY <2>1, SortAndTruncate DEF PathsInv
  <2>3. result' = r /\ pc = "rank" /\ pc' = "done" /\ UNCHANGED <<stack, found>>
    BY <1>11, <2>1 DEF Rank
  <2>4. Ranked(result)'
    BY <1>2, <2>2, <2>3 DEF Ranked
  <2> QED
    BY <1>2, <2>3, <2>4 DEF PathsInv
<1>12. CASE UNCHANGED vars
  <2>1. Ranked(result)' <=> Ranked(result)
    BY <1>2, <1>12 DEF Ranked, vars
  <2> QED
    BY <1>2, <1>12, <2>1 DEF vars, PathsInv
<1> QED
  BY <1>5, <1>6, <1>7, <1>8, <1>9, <1>10, <1>11, <1>12 DEF Next

\* The search starts with nothing found, and what it reports is empty until ranked.
LEMMA PathsInit == Init => PathsInv /\ NoneIsLost
<1>1. ASSUME Init PROVE PathsInv
  <2>1. ToSet(<<>>) = {}
    BY DEF ToSet
  <2>2. stack \in Seq(Seq(Known)) /\ found \in Seq(Found) /\ ToSet(stack) = {} /\ ToSet(found) = {}
    BY <1>1, <2>1 DEF Init
  <2> QED
    BY <1>1, <2>2, CapAssumption DEF Init, PathsInv
<1>2. Init => NoneIsLost
  BY DEF Init, NoneIsLost
<1> QED
  BY <1>1, <1>2

\* A path that arrived, or is as long as the cap lets one be, is the beginning of
\* no simple path but itself.
LEMMA NothingFollows ==
    ASSUME NEW p \in SimplePaths, NEW q, IsPath(q), Begins(q, p),
           Last(q) = to \/ Len(q) > HopCap
    PROVE  q = p
<1>1. IsPath(p) /\ Last(p) = to
  BY SimplePathsArrive
<1>2. /\ p \in Seq(Known) /\ q \in Seq(Known) /\ Len(p) \in Nat /\ Len(q) \in Nat
      /\ Len(p) >= 1 /\ Len(q) >= 1 /\ Len(p) <= HopCap + 1 /\ HopCap \in Nat
      /\ Len(q) <= Len(p)
  BY <1>1, CapAssumption DEF IsPath, Begins
<1>3. Len(q) = Len(p)
  <2>1. CASE Len(q) > HopCap
    BY <1>2, <2>1
  <2>2. CASE Last(q) = to
    <3>1. q[Len(q)] = to /\ p[Len(p)] = to /\ Len(q) \in 1..Len(q)
      BY <1>1, <1>2, <2>2 DEF Last
    <3>2. p[Len(q)] = p[Len(p)] /\ Len(q) \in 1..Len(p) /\ Len(p) \in 1..Len(p)
      BY <1>2, <3>1 DEF Begins
    <3> QED
      BY <1>1, <3>2 DEF IsPath
  <2> QED
    BY <2>1, <2>2
<1> QED
  BY <1>2, <1>3, SeqEqual DEF Begins

\* A beginning that has not arrived goes on along the path: the search extends it.
LEMMA SomeTargetFollows ==
    ASSUME graph \in Graphs, NEW p \in SimplePaths, NEW q, IsPath(q), Begins(q, p),
           Last(q) # to
    PROVE  \E x \in ToSet(Onward(q)) : Begins(Append(q, x), p)
<1> DEFINE n == Len(q)
           x == p[n + 1]
<1>1. IsPath(p) /\ Last(p) = to
  BY SimplePathsArrive
<1>2. /\ p \in Seq(Known) /\ q \in Seq(Known) /\ Len(p) \in Nat /\ n \in Nat
      /\ Len(p) >= 1 /\ n >= 1 /\ n <= Len(p) /\ DOMAIN q = 1..n
  BY <1>1, LenProperties DEF IsPath, Begins
<1>3. Last(q) = q[n] /\ Last(p) = p[Len(p)] /\ q[n] = p[n] /\ q[n] \in Known
  BY <1>2, ElementOfSeq DEF Last, Begins
<1>4. n # Len(p)
  BY <1>1, <1>3
<1> HIDE DEF n
<1>5. n \in 1..(Len(p) - 1) /\ n + 1 \in 1..Len(p)
  BY <1>2, <1>4
<1>6. x \in ToSet(Adj[Last(q)])
  BY <1>1, <1>3, <1>5 DEF IsPath
<1>7. x \notin ToSet(q)
  <2> SUFFICES ASSUME NEW i \in 1..n, q[i] = x PROVE FALSE
    BY <1>2 DEF ToSet
  <2>1. p[i] = x /\ i \in 1..Len(p) /\ i # n + 1
    BY <1>2 DEF Begins, n
  <2> QED
    BY <1>1, <1>5, <2>1 DEF IsPath
<1>8. x \in ToSet(Onward(q)) /\ x \in Known
  <2>1. ToSet(Onward(q)) = ToSet(Adj[Last(q)]) \ ToSet(q)
    BY <1>3, OnwardTargets
  <2> QED
    BY <1>2, <1>5, <1>6, <1>7, <2>1, ElementOfSeq
<1>9. Begins(Append(q, x), p)
  <2> DEFINE r == Append(q, x)
  <2>1. Len(r) = n + 1 /\ (\A i \in 1..n : r[i] = q[i]) /\ r[n + 1] = x
    BY <1>2, <1>8, AppendProperties DEF n
  <2> HIDE DEF r
  <2>2. \A i \in 1..(n + 1) : i \in 1..n \/ i = n + 1
    BY <1>2
  <2>3. Len(r) <= Len(p) /\ \A i \in 1..Len(r) : r[i] = p[i]
    BY <1>2, <1>5, <2>1, <2>2 DEF Begins, n
  <2> QED
    BY <2>3 DEF Begins, r
<1> QED
  BY <1>8, <1>9

\* No step of the search loses a simple path, unless the surplus cuts it short.
LEMMA NoneIsLostStep == PathsInv /\ NoneIsLost /\ [Next]_vars => NoneIsLost'
<1> SUFFICES ASSUME PathsInv, NoneIsLost, [Next]_vars PROVE NoneIsLost'
  OBVIOUS
<1>1. UNCHANGED query
  BY DEF Next, vars, NothingToFind, Begin, Arrived, TooLong, ExtendPath, StackEmpty, Rank
<1>2. limit' = limit /\ SimplePaths' = SimplePaths /\ (SomethingToFind' <=> SomethingToFind)
  BY <1>1, SameQuery
<1>3. ASSUME InSearch
      PROVE  /\ Top \in Seq(Known) /\ IsPath(Top) /\ Below \in Seq(Seq(Known))
             /\ ToSet(stack) = ToSet(Below) \cup {Top}
             /\ \A p \in SimplePaths : \/ \E f \in ToSet(found) : f.hops = p
                                       \/ \E q \in ToSet(Below) : Begins(q, p)
                                       \/ Begins(Top, p)
  <2>1. /\ Top \in Seq(Known) /\ Below \in Seq(Seq(Known)) /\ Top \in ToSet(stack)
        /\ ToSet(stack) = ToSet(Below) \cup {Top}
    BY <1>3, Popped DEF PathsInv, InSearch
  <2> QED
    BY <1>3, <2>1 DEF PathsInv, NoneIsLost, InSearch
<1>4. CASE NothingToFind
  <2>1. ~SomethingToFind /\ pc' = "done"
    BY <1>4 DEF NothingToFind, SomethingToFind
  <2> QED
    BY <1>2, <2>1 DEF NoneIsLost
<1>5. CASE Begin
  <2>1. pc' = "search" /\ ToSet(stack') = {<<from>>}
    <3>1. \A p : ToSet(<<p>>) = {p}
      BY DEF ToSet
    <3> QED
      BY <1>5, <3>1 DEF Begin
  <2>2. ASSUME NEW p \in SimplePaths PROVE Begins(<<from>>, p)
    <3>1. p[1] = from /\ Len(p) \in 1..(HopCap + 1)
      BY SimplePathsArrive DEF IsPath
    <3> QED
      BY <3>1, CapAssumption DEF Begins
  <2> QED
    BY <1>2, <2>1, <2>2 DEF NoneIsLost
<1>6. CASE Arrived
  <2> DEFINE f == [hops |-> Top, severity |-> Severity(Top)]
  <2>1. InSearch /\ Last(Top) = to /\ stack' = Below /\ found' = Append(found, f)
        /\ pc' = IF Len(found') >= limit * Surplus THEN "rank" ELSE "search"
    BY <1>6 DEF Arrived
  <2>2. f \in Found /\ f.hops = Top
    BY <1>3, <2>1, SeverityType DEF Found, PathsInv
  <2> HIDE DEF f
  <2>3. ToSet(found') = ToSet(found) \cup {f} /\ Len(found') \in Nat
    BY <2>1, <2>2, AppendedSet, AppendProperties, LenProperties DEF PathsInv
  <2>4. ASSUME NEW p \in SimplePaths
        PROVE  \/ \E g \in ToSet(found') : g.hops = p
               \/ \E q \in ToSet(stack') : Begins(q, p)
    <3>1. Begins(Top, p) => Top = p
      BY <1>3, <2>1, NothingFollows
    <3> QED
      BY <1>3, <2>1, <2>2, <2>3, <3>1
  <2>5. limit' * Surplus \in Nat
    BY <1>2, CapAssumption DEF PathsInv
  <2>6. pc' = "search" \/ (pc' = "rank" /\ ~(Len(found') < limit' * Surplus))
    BY <1>2, <2>1, <2>3, <2>5
  <2> QED
    BY <1>2, <2>4, <2>6 DEF NoneIsLost
<1>7. CASE TooLong
  <2>1. /\ InSearch /\ Last(Top) # to /\ Len(Top) > HopCap
        /\ stack' = Below /\ UNCHANGED <<pc, found>>
    BY <1>7 DEF TooLong
  <2>2. ASSUME NEW p \in SimplePaths PROVE ~Begins(Top, p)
    <3>1. Begins(Top, p) => Top = p
      BY <1>3, <2>1, NothingFollows
    <3> QED
      BY <2>1, <3>1, SimplePathsArrive
  <2> QED
    BY <1>2, <1>3, <2>1, <2>2 DEF NoneIsLost, InSearch
<1>8. CASE ExtendPath
  <2> DEFINE on == Onward(Top)
             more == [k \in DOMAIN on |-> Append(Top, on[k])]
  <2>1. InSearch /\ Last(Top) # to /\ stack' = Below \o more /\ UNCHANGED <<pc, found>>
    BY <1>8 DEF ExtendPath
  <2>2. on \in Seq(Known) /\ DOMAIN on = 1..Len(on) /\ Len(on) \in Nat
    <3>1. Last(Top) \in Known
      BY <1>3, <2>1, LenProperties, ElementOfSeq DEF IsPath, Last
    <3> QED
      BY <3>1, OnwardTargets, LenProperties DEF PathsInv
  <2>3. \A x \in ToSet(on) : \E k \in DOMAIN on : on[k] = x
    BY DEF ToSet
  <2>4. ASSUME NEW p \in SimplePaths, Begins(Top, p)
        PROVE  \E k \in DOMAIN on : Begins(Append(Top, on[k]), p)
    <3>1. PICK x \in ToSet(on) : Begins(Append(Top, x), p)
      BY <1>3, <2>1, <2>4, SomeTargetFollows DEF PathsInv
    <3> HIDE DEF on
    <3> QED
      BY <2>3, <3>1
  <2> HIDE DEF on
  <2>5. /\ more \in Seq(Seq(Known))
        /\ \A k \in DOMAIN on : Append(Top, on[k]) \in ToSet(more)
    <3>1. \A k \in DOMAIN on : Append(Top, on[k]) \in Seq(Known)
      BY <1>3, <2>1, <2>2, ElementOfSeq, AppendProperties
    <3>2. more \in Seq(Seq(Known))
      BY <2>2, <3>1, IsASeq
    <3> QED
      BY <3>2 DEF ToSet
  <2> HIDE DEF more
  <2>6. ToSet(stack') = ToSet(Below) \cup ToSet(more)
    BY <1>3, <2>1, <2>5, Pushed
  <2>7. ASSUME NEW p \in SimplePaths
        PROVE  \/ \E f \in ToSet(found') : f.hops = p
               \/ \E q \in ToSet(stack') : Begins(q, p)
    <3>1. CASE Begins(Top, p)
      BY <2>4, <2>5, <2>6, <3>1
    <3>2. CASE ~Begins(Top, p)
      BY <1>3, <2>1, <2>6, <3>2
    <3> QED
      BY <3>1, <3>2
  <2> QED
    BY <1>2, <2>1, <2>7 DEF NoneIsLost, InSearch
<1>9. CASE StackEmpty
  <2>1. pc = "search" /\ pc' = "rank" /\ ToSet(stack) = {} /\ found' = found
    BY <1>9 DEF StackEmpty, ToSet
  <2> QED
    BY <1>2, <2>1 DEF NoneIsLost
<1>10. CASE Rank
  BY <1>2, <1>10 DEF Rank, NoneIsLost, PathsInv
<1>11. CASE UNCHANGED vars
  BY <1>2, <1>11 DEF vars, NoneIsLost
<1> QED
  BY <1>4, <1>5, <1>6, <1>7, <1>8, <1>9, <1>10, <1>11 DEF Next

LEMMA PathsAlways == Spec => [](PathsInv /\ NoneIsLost)
<1>1. PathsInv /\ NoneIsLost /\ [Next]_vars => (PathsInv /\ NoneIsLost)'
  BY PathsStep, NoneIsLostStep
<1> QED
  BY <1>1, PathsInit, PTL DEF Spec

\* Whatever the graph, every path find_attack_paths reports is a simple path from
\* one node to the other, along edges and within the hop cap, with its own severity.
THEOREM PathsAreOfTheGraph == Spec => []ReportedPathsAreReal
<1>1. PathsInv => ReportedPathsAreReal
  <2> SUFFICES ASSUME PathsInv, Done, NEW k \in DOMAIN result
               PROVE  /\ result[k].hops \in SimplePaths
                      /\ result[k].severity = Severity(result[k].hops)
    BY DEF ReportedPathsAreReal
  <2>1. result # <<>>
    OBVIOUS
  <2>2. Ranked(result)
    BY <2>1 DEF PathsInv
  <2>3. result[k] \in ToSet(found)
    BY <2>2 DEF Ranked, ToSet
  <2> QED
    BY <2>3, SimplePathsArrive DEF PathsInv, Arrives
<1> QED
  BY <1>1, PathsAlways, PTL

\* Where the search was not cut short by its surplus, what find_attack_paths leaves
\* out is no better than any of the limit paths it reports.
THEOREM BestPathsAreReported == Spec => []BestPathsUnlessCut
<1>1. PathsInv /\ NoneIsLost => BestPathsUnlessCut
  <2> SUFFICES ASSUME PathsInv, NoneIsLost, Done, SomethingToFind,
                      Len(found) < limit * Surplus, NEW p \in SimplePaths
               PROVE  \/ \E k \in DOMAIN result : result[k].hops = p
                      \/ /\ Len(result) = limit
                         /\ \A k \in DOMAIN result :
                              \/ result[k].severity > Severity(p)
                              \/ /\ result[k].severity = Severity(p)
                                 /\ Len(result[k].hops) <= Len(p)
    BY DEF BestPathsUnlessCut, SomethingToFind
  <2>1. Ranked(result)
    BY DEF PathsInv, Done
  <2>2. PICK f \in ToSet(found) : f.hops = p
    BY DEF NoneIsLost, Done
  <2>3. f.severity = Severity(p)
    BY <2>2 DEF PathsInv, Arrives
  <2>4. CASE f \in ToSet(result)
    BY <2>2, <2>4 DEF ToSet
  <2>5. CASE f \notin ToSet(result)
    <3>1. Len(result) = limit /\ \A r \in ToSet(result) : NoWorse(r, f)
      BY <2>1, <2>5 DEF Ranked
    <3> QED
      BY <2>2, <2>3, <3>1 DEF NoWorse, ToSet
  <2> QED
    BY <2>4, <2>5
<1> QED
  BY <1>1, PathsAlways, PTL

----------------------------------------------------------------------------
(* The copies of a path *)

\* The choices of one member of each of the first k sets.
Selections(S, k) == {r \in Seq(Nat) : Len(r) = k /\ \A i \in 1..k : r[i] \in S[i]}

\* One more set to choose from.
LEMMA OneChoiceMore ==
    ASSUME NEW n \in Nat, NEW S \in [1..n -> SUBSET Nat], NEW k \in 0..(n - 1),
           IsFiniteSet(Selections(S, k)), IsFiniteSet(S[k + 1])
    PROVE  /\ IsFiniteSet(Selections(S, k + 1))
           /\ Cardinality(Selections(S, k + 1)) = Cardinality(Selections(S, k)) * Cardinality(S[k + 1])
<1> DEFINE C == Selections(S, k)
           D == Selections(S, k + 1)
           E == S[k + 1]
           f == [pair \in C \X E |-> Append(pair[1], pair[2])]
<1>1. k \in Nat /\ k + 1 \in 1..n /\ \A i \in 1..(k + 1) : i \in 1..n /\ (i \in 1..k \/ i = k + 1)
  OBVIOUS
<1>2. E \in SUBSET Nat /\ \A i \in 1..k : S[i] \in SUBSET Nat
  BY <1>1
<1>3. ASSUME NEW r \in C, NEW e \in E
      PROVE  /\ r \in Seq(Nat) /\ Len(r) = k /\ e \in Nat
             /\ Append(r, e) \in Seq(Nat) /\ Len(Append(r, e)) = k + 1
             /\ \A i \in 1..k : Append(r, e)[i] = r[i]
             /\ Append(r, e)[k + 1] = e
  <2>1. r \in Seq(Nat) /\ Len(r) = k /\ e \in Nat
    BY <1>2 DEF Selections
  <2> QED
    BY <2>1, AppendProperties
<1>4. \A pair \in C \X E : Append(pair[1], pair[2]) \in D
  <2> SUFFICES ASSUME NEW r \in C, NEW e \in E PROVE Append(r, e) \in D
    OBVIOUS
  <2>1. \A i \in 1..k : r[i] \in S[i]
    BY DEF Selections
  <2>2. \A i \in 1..(k + 1) : Append(r, e)[i] \in S[i]
    BY <1>1, <1>3, <2>1
  <2> QED
    BY <1>3, <2>2 DEF Selections
<1>5. ASSUME NEW d \in D PROVE \E pair \in C \X E : Append(pair[1], pair[2]) = d
  <2>1. d \in Seq(Nat) /\ Len(d) = k + 1 /\ \A i \in 1..(k + 1) : d[i] \in S[i]
    BY DEF Selections
  <2> DEFINE r == SubSeq(d, 1, k)
             e == d[k + 1]
  <2>2. r \in Seq(Nat) /\ Len(r) = k /\ \A i \in 1..k : r[i] = d[i]
    BY <1>1, <2>1
  <2>3. k + 1 \in 1..(k + 1) /\ \A i \in 1..k : i \in 1..(k + 1)
    BY <1>1
  <2>4. e \in E
    BY <2>1, <2>3
  <2> HIDE DEF r, e
  <2>5. r \in C
    BY <2>1, <2>2, <2>3 DEF Selections
  <2>6. Append(r, e) = d
    BY <1>1, <1>3, <2>1, <2>2, <2>4, <2>5, SeqEqual DEF e
  <2>7. <<r, e>> \in C \X E /\ Append(<<r, e>>[1], <<r, e>>[2]) = d
    BY <2>4, <2>5, <2>6
  <2> QED
    BY <2>7, Zenon
<1>6. ASSUME NEW r \in C, NEW e \in E, NEW s \in C, NEW h \in E, Append(r, e) = Append(s, h)
      PROVE  r = s /\ e = h
  <2> DEFINE x == Append(r, e)
             y == Append(s, h)
  <2>1. /\ r \in Seq(Nat) /\ Len(r) = k /\ (\A i \in 1..k : x[i] = r[i]) /\ x[k + 1] = e
        /\ s \in Seq(Nat) /\ Len(s) = k /\ (\A i \in 1..k : y[i] = s[i]) /\ y[k + 1] = h
    BY <1>3
  <2>2. x = y
    BY <1>6
  <2> HIDE DEF x, y
  <2>3. \A i \in 1..k : r[i] = s[i]
    BY <2>1, <2>2
  <2>4. r = s
    BY <2>1, <2>3, SeqEqual
  <2> QED
    BY <2>1, <2>2, <2>4
<1> HIDE DEF C, D, E
<1>7. f \in Bijection(C \X E, D)
  <2>1. f \in [C \X E -> D]
    BY <1>4
  <2>2. \A x, y \in C \X E : f[x] = f[y] => x = y
    BY <1>6
  <2>3. \A d \in D : \E x \in C \X E : f[x] = d
    BY <1>5
  <2> HIDE DEF f
  <2> QED
    BY <2>1, <2>2, <2>3 DEF Bijection, Injection, Surjection, IsInjective
<1>8. IsFiniteSet(C \X E) /\ Cardinality(C \X E) = Cardinality(C) * Cardinality(E)
  BY FS_Product DEF C, E
<1>9. ExistsBijection(C \X E, D)
  BY <1>7 DEF ExistsBijection
<1>10. IsFiniteSet(D) /\ Cardinality(D) = Cardinality(C \X E)
  <2> DEFINE Q == C \X E
  <2> HIDE DEF Q
  <2>1. IsFiniteSet(Q) /\ ExistsBijection(Q, D)
    BY <1>8, <1>9 DEF Q
  <2>2. IsFiniteSet(D) /\ Cardinality(D) = Cardinality(Q)
    BY <2>1, FS_Bijection
  <2> QED
    BY <2>2 DEF Q
<1> QED
  BY <1>8, <1>10 DEF C, D, E

LEMMA SelectionsAreCounted ==
    ASSUME NEW n \in Nat, NEW S \in [1..n -> SUBSET Nat], \A k \in 1..n : IsFiniteSet(S[k]),
           NEW w, w[0] = 1, \A k \in 1..n : w[k] = w[k - 1] * Cardinality(S[k])
    PROVE  IsFiniteSet(Selections(S, n)) /\ Cardinality(Selections(S, n)) = w[n]
<1> DEFINE T == {k \in 0..n : /\ IsFiniteSet(Selections(S, k))
                              /\ Cardinality(Selections(S, k)) = w[k]}
<1>1. 0 \in T
  <2>1. Selections(S, 0) = {<<>>}
    <3>1. ASSUME NEW r \in Selections(S, 0) PROVE r = <<>>
      BY EmptySeq DEF Selections
    <3>2. <<>> \in Selections(S, 0)
      BY EmptySeq DEF Selections
    <3> QED
      BY <3>1, <3>2
  <2>2. IsFiniteSet({<<>>}) /\ Cardinality({<<>>}) = 1
    BY FS_Singleton
  <2>3. 0 \in 0..n
    OBVIOUS
  <2> QED
    BY <2>1, <2>2, <2>3
<1>2. ASSUME NEW k \in 0..(n - 1), k \in T PROVE k + 1 \in T
  <2>1. k + 1 \in 1..n /\ k + 1 \in 0..n /\ (k + 1) - 1 = k
    OBVIOUS
  <2>2. IsFiniteSet(Selections(S, k)) /\ Cardinality(Selections(S, k)) = w[k]
    BY <1>2
  <2>3. /\ IsFiniteSet(Selections(S, k + 1))
        /\ Cardinality(Selections(S, k + 1)) = Cardinality(Selections(S, k)) * Cardinality(S[k + 1])
    BY <2>1, <2>2, OneChoiceMore
  <2>4. w[k + 1] = w[k] * Cardinality(S[k + 1])
    BY <2>1
  <2> QED
    BY <2>1, <2>2, <2>3, <2>4
<1> HIDE DEF T
<1>3. \A k \in 0..n : k \in T
  BY <1>1, <1>2, RangeInduction
<1> QED
  BY <1>3 DEF T

\* The edges from each node of a path to the next, and the choices among them.
Between(p) == [k \in 1..(Len(p) - 1) |-> Parallel(p[k], p[k + 1])]

Routes(p) == Selections(Between(p), Len(p) - 1)

\* Ways counts the routes along a path.
LEMMA RoutesAreCounted ==
    ASSUME graph \in Graphs, NEW p \in Seq(Known), p # <<>>
    PROVE  IsFiniteSet(Routes(p)) /\ Cardinality(Routes(p)) = Ways(p)
<1> DEFINE n == Len(p) - 1
           S == Between(p)
           Is(f) == f = [k \in 0..n |->
                            IF k = 0 THEN 1
                            ELSE f[k - 1] * Cardinality(Parallel(p[k], p[k + 1]))]
           step == [k \in 1..n |-> [x \in Nat |-> x * Cardinality(S[k])]]
<1>1. n \in Nat /\ Len(p) \in Nat /\ \A k \in 1..n : p[k] \in Known /\ p[k + 1] \in Known
  <2>1. Len(p) \in Nat /\ Len(p) # 0
    BY EmptySeq, LenProperties
  <2>2. \A k \in 1..n : k \in 1..Len(p) /\ k + 1 \in 1..Len(p)
    BY <2>1
  <2> QED
    BY <2>1, <2>2, ElementOfSeq
<1>2. \A k \in 1..n : /\ S[k] = Parallel(p[k], p[k + 1]) /\ S[k] \in SUBSET Nat
                      /\ IsFiniteSet(S[k]) /\ Cardinality(S[k]) \in Nat
  <2> SUFFICES ASSUME NEW k \in 1..n
               PROVE  /\ S[k] = Parallel(p[k], p[k + 1]) /\ S[k] \in SUBSET Nat
                      /\ IsFiniteSet(S[k]) /\ Cardinality(S[k]) \in Nat
    OBVIOUS
  <2>1. S[k] = Parallel(p[k], p[k + 1])
    BY DEF Between
  <2> DEFINE out == Adj[p[k]]
  <2>2. out \in Seq(Known)
    BY <1>1, GraphsAssumption DEF Searchable, Known, Adj
  <2>3. DOMAIN out = 1..Len(out) /\ Len(out) \in Nat
    BY <2>2, LenProperties
  <2>4. S[k] \subseteq 1..Len(out)
    BY <2>1, <2>3 DEF Parallel
  <2> HIDE DEF out, S
  <2>5. IsFiniteSet(1..Len(out))
    BY <2>3, FS_Interval
  <2>6. IsFiniteSet(S[k])
    BY <2>4, <2>5, FS_Subset
  <2> QED
    BY <2>1, <2>3, <2>4, <2>6, FS_CardinalityType
<1>3. S \in [1..n -> SUBSET Nat]
  BY <1>2 DEF Between
<1> HIDE DEF S, n
<1>4. step \in [1..n -> [Nat -> Nat]]
  BY <1>2
<1>5. \A k \in 1..n, x \in Nat : step[k][x] = x * Cardinality(S[k])
  OBVIOUS
<1> HIDE DEF step
<1>6. PICK f \in [0..n -> Nat] : Follows(f, n, 1, step)
  <2>1. 1 \in Nat
    OBVIOUS
  <2> QED
    BY <1>1, <1>4, <2>1, RecursionExists
<1>7. Is(f)
  <2>1. ASSUME NEW k \in 1..n PROVE f[k] = f[k - 1] * Cardinality(Parallel(p[k], p[k + 1]))
    <3>1. k - 1 \in 0..n
      BY <1>1
    <3>2. f[k] = step[k][f[k - 1]]
      BY <1>6 DEF Follows
    <3>3. f[k] = f[k - 1] * Cardinality(S[k])
      BY <1>5, <1>6, <3>1, <3>2
    <3> QED
      BY <1>2, <3>3
  <2>2. \A k \in 0..n : k # 0 => k \in 1..n
    BY <1>1
  <2>3. f[0] = 1 /\ f \in [0..n -> Nat]
    BY <1>6 DEF Follows
  <2> DEFINE b(k) == IF k = 0 THEN 1 ELSE f[k - 1] * Cardinality(Parallel(p[k], p[k + 1]))
  <2>4. \A k \in 0..n : f[k] = b(k)
    BY <2>1, <2>2, <2>3, Zenon
  <2>5. f = [k \in 0..n |-> b(k)]
    <3> HIDE DEF b
    <3> QED
      BY <2>3, <2>4
  <2> QED
    BY <2>5
<1> DEFINE ways == CHOOSE f1 : Is(f1)
<1>8. Is(ways)
  <2> HIDE DEF Is
  <2> QED
    BY <1>7
<1> HIDE DEF ways
<1>9. ways[0] = 1 /\ \A k \in 1..n : ways[k] = ways[k - 1] * Cardinality(S[k])
  <2>1. 0 \in 0..n /\ \A k \in 1..n : k \in 0..n /\ k # 0
    BY <1>1
  <2> DEFINE b(k) == IF k = 0 THEN 1 ELSE ways[k - 1] * Cardinality(Parallel(p[k], p[k + 1]))
  <2>2. ways = [k \in 0..n |-> b(k)]
    BY <1>8
  <2>3. \A k \in 0..n : ways[k] = b(k)
    <3> HIDE DEF b
    <3> QED
      BY <2>2
  <2> QED
    BY <1>2, <2>1, <2>3, Zenon
<1> HIDE DEF Is
<1>10. IsFiniteSet(Selections(S, n)) /\ Cardinality(Selections(S, n)) = ways[n]
  BY <1>1, <1>2, <1>3, <1>9, SelectionsAreCounted
<1> QED
  BY <1>10 DEF Routes, Ways, S, n, ways, Is

\* Onward takes each target along an edge of its own.
Along(e, s, k, out) ==
    /\ e \in [1..Len(s) -> 1..k]
    /\ \A j \in 1..Len(s) : out[e[j]] = s[j]
    /\ \A i, j \in 1..Len(s) : e[i] = e[j] => i = j

LEMMA OnwardEdges ==
    ASSUME graph \in Graphs, NEW p, Last(p) \in Known
    PROVE  \E e \in [1..Len(Onward(p)) -> Nat] :
              /\ \A j \in 1..Len(Onward(p)) : e[j] \in Parallel(Last(p), Onward(p)[j])
              /\ \A i, j \in 1..Len(Onward(p)) : e[i] = e[j] => i = j
<1> DEFINE out == Adj[Last(p)]
           on  == Onward(p)
<1>1. out \in Seq(Known) /\ Len(out) \in Nat /\ DOMAIN out = 1..Len(out)
  BY GraphsAssumption, LenProperties DEF Searchable, Known, Adj
<1>2. PICK upto : Keeps(upto, out, p)
  BY OnwardKeeps
<1>3. /\ upto \in [0..Len(out) -> Seq(Known)] /\ upto[0] = <<>> /\ upto[Len(out)] = on
      /\ \A k \in 0..(Len(out) - 1) :
            upto[k + 1] = IF out[k + 1] \in ToSet(p) THEN upto[k] ELSE Append(upto[k], out[k + 1])
  BY <1>2 DEF Keeps
<1> HIDE DEF out, on
<1> DEFINE T == {k \in 0..Len(out) : \E e : Along(e, upto[k], k, out)}
<1>4. 0 \in T
  <2>1. Len(upto[0]) = 0 /\ 1..0 = {} /\ 0 \in 0..Len(out)
    BY <1>1, <1>3
  <2>2. Along([j \in {} |-> j], upto[0], 0, out)
    BY <2>1 DEF Along
  <2> QED
    BY <2>1, <2>2
<1>5. ASSUME NEW k \in 0..(Len(out) - 1), k \in T PROVE k + 1 \in T
  <2>1. k \in Nat /\ k + 1 \in 0..Len(out) /\ k \in 0..Len(out)
    BY <1>1
  <2>2. PICK e : Along(e, upto[k], k, out)
    BY <1>5
  <2> DEFINE s == upto[k]
             t == upto[k + 1]
             m == Len(s)
  <2>3. s \in Seq(Known) /\ out[k + 1] \in Known /\ m \in Nat
    <3>1. k + 1 \in 1..Len(out)
      BY <1>1
    <3> QED
      BY <1>1, <1>3, <2>1, <3>1, LenProperties
  <2>4. /\ e \in [1..m -> 1..k] /\ \A j \in 1..m : out[e[j]] = s[j]
        /\ \A i, j \in 1..m : e[i] = e[j] => i = j
    BY <2>2 DEF Along
  <2>5. t = IF out[k + 1] \in ToSet(p) THEN s ELSE Append(s, out[k + 1])
    BY <1>3
  <2> HIDE DEF s, t, m
  <2>6. CASE out[k + 1] \in ToSet(p)
    <3>1. Along(e, t, k + 1, out)
      <4>1. e \in [1..m -> 1..(k + 1)]
        BY <2>1, <2>3, <2>4
      <4> QED
        BY <2>4, <2>5, <2>6, <4>1 DEF Along, m
    <3> QED
      BY <2>1, <3>1 DEF t
  <2>7. CASE out[k + 1] \notin ToSet(p)
    <3> DEFINE g == [j \in 1..(m + 1) |-> IF j <= m THEN e[j] ELSE k + 1]
    <3>1. t = Append(s, out[k + 1])
      BY <2>5, <2>7
    <3>2. Len(t) = m + 1 /\ t[m + 1] = out[k + 1] /\ \A j \in 1..m : t[j] = s[j]
      BY <2>3, <3>1, AppendProperties DEF m
    <3>3. /\ \A j \in 1..m : g[j] = e[j] /\ g[j] \in 1..k
          /\ g[m + 1] = k + 1
          /\ \A j \in 1..(m + 1) : j \in 1..m \/ j = m + 1
      BY <2>1, <2>3, <2>4
    <3>4. g \in [1..(m + 1) -> 1..(k + 1)]
      BY <2>1, <2>3, <2>4
    <3> HIDE DEF g
    <3>5. \A j \in 1..(m + 1) : out[g[j]] = t[j]
      BY <2>4, <3>2, <3>3
    <3>6. \A i, j \in 1..(m + 1) : g[i] = g[j] => i = j
      <4>1. \A j \in 1..m : g[j] # k + 1
        BY <2>1, <3>3
      <4> QED
        BY <2>4, <3>3, <4>1
    <3>7. Along(g, t, k + 1, out)
      BY <3>2, <3>4, <3>5, <3>6 DEF Along
    <3> QED
      BY <2>1, <3>7 DEF t
  <2> QED
    BY <2>6, <2>7
<1> HIDE DEF T
<1>6. \A k \in 0..Len(out) : k \in T
  BY <1>1, <1>4, <1>5, RangeInduction
<1>7. PICK e : Along(e, on, Len(out), out)
  BY <1>1, <1>3, <1>6 DEF T
<1>8. /\ e \in [1..Len(on) -> 1..Len(out)] /\ \A j \in 1..Len(on) : out[e[j]] = on[j]
      /\ \A i, j \in 1..Len(on) : e[i] = e[j] => i = j
  BY <1>7 DEF Along
<1>9. \A j \in 1..Len(on) : e[j] \in Parallel(Last(p), on[j])
  BY <1>1, <1>8 DEF Parallel, out
<1>10. e \in [1..Len(on) -> Nat]
  BY <1>1, <1>8
<1> QED
  BY <1>8, <1>9, <1>10 DEF on

----------------------------------------------------------------------------
(* The routes of the search *)

LEMMA BeginsItself == \A r \in Seq(Nat) : Begins(r, r)
  BY LenProperties DEF Begins

\* A route gone one edge further begins only what the route began, and only it, or
\* what began it, begins the longer one; the edge tells two of them apart.
LEMMA OneEdgeOn ==
    ASSUME NEW r \in Seq(Nat), NEW s \in Seq(Nat), NEW e \in Nat, NEW h \in Nat
    PROVE  /\ Append(r, e) \in Seq(Nat)
           /\ Begins(Append(r, e), s) => Begins(r, s)
           /\ Begins(s, Append(r, e)) => Begins(s, r) \/ Begins(r, s)
           /\ Begins(Append(r, e), Append(r, h)) => e = h
<1> DEFINE x == Append(r, e)
           y == Append(r, h)
           n == Len(r)
<1>1. /\ n \in Nat /\ Len(s) \in Nat
      /\ x \in Seq(Nat) /\ Len(x) = n + 1 /\ (\A i \in 1..n : x[i] = r[i]) /\ x[n + 1] = e
      /\ y \in Seq(Nat) /\ Len(y) = n + 1 /\ (\A i \in 1..n : y[i] = r[i]) /\ y[n + 1] = h
  BY AppendProperties, LenProperties
<1> HIDE DEF x, y
<1>2. ASSUME Begins(x, s) PROVE Begins(r, s)
  <2>1. n <= Len(s) /\ \A i \in 1..n : i \in 1..(n + 1)
    BY <1>1, <1>2 DEF Begins
  <2> QED
    BY <1>1, <1>2, <2>1 DEF Begins
<1>3. ASSUME Begins(s, x) PROVE Begins(s, r) \/ Begins(r, s)
  <2>1. CASE Len(s) <= n
    <3>1. \A i \in 1..Len(s) : i \in 1..n
      BY <1>1, <2>1
    <3> QED
      BY <1>1, <1>3, <2>1, <3>1 DEF Begins
  <2>2. CASE ~(Len(s) <= n)
    <3>1. n <= Len(s) /\ \A i \in 1..n : i \in 1..Len(s)
      BY <1>1, <2>2
    <3> QED
      BY <1>1, <1>3, <3>1 DEF Begins
  <2> QED
    BY <2>1, <2>2
<1>4. ASSUME Begins(x, y) PROVE e = h
  <2>1. n + 1 \in 1..(n + 1)
    BY <1>1
  <2> QED
    BY <1>1, <1>4, <2>1 DEF Begins
<1> QED
  BY <1>1, <1>2, <1>3, <1>4 DEF x, y

\* The entries of a stack and of what is left of it.
LEMMA PopKeepsTheRest ==
    ASSUME NEW S, stack \in Seq(S), stack # <<>>
    PROVE  /\ Len(stack) \in Nat /\ Len(stack) >= 1 /\ Top = stack[Len(stack)]
           /\ DOMAIN stack = 1..Len(stack) /\ DOMAIN Below = 1..(Len(stack) - 1)
           /\ Len(Below) = Len(stack) - 1
           /\ \A i \in 1..(Len(stack) - 1) : Below[i] = stack[i]
<1>1. Len(stack) \in Nat /\ Len(stack) >= 1 /\ DOMAIN stack = 1..Len(stack)
  <2>1. Len(stack) # 0
    BY EmptySeq
  <2> QED
    BY <2>1, LenProperties
<1>2. Below = SubSeq(stack, 1, Len(stack) - 1)
  BY DEF Below, Front
<1> QED
  BY <1>1, <1>2 DEF Top, Last

\* Each path on the stack or found stands for a route along it, and no route waiting
\* on the stack begins another or one that was found: the search never comes by the
\* same route twice.
Tells(at, fr, st, fd) ==
    /\ at \in [DOMAIN st -> Seq(Nat)] /\ \A i \in DOMAIN st : at[i] \in Routes(st[i])
    /\ fr \in [DOMAIN fd -> Seq(Nat)] /\ \A i \in DOMAIN fd : fr[i] \in Routes(fd[i].hops)
    /\ \A i, j \in DOMAIN st : Begins(at[i], at[j]) => i = j
    /\ \A i \in DOMAIN st, j \in DOMAIN fd : ~Begins(at[i], fr[j])
    /\ \A i, j \in DOMAIN fd : fr[i] = fr[j] => i = j

NoRouteTwice == \E at, fr : Tells(at, fr, stack, found)

LEMMA SameRoutes == UNCHANGED query => \A p : Routes(p)' = Routes(p)
  BY DEF query, Routes, Between, Selections, Parallel, Adj

LEMMA ToldAgain ==
    ASSUME UNCHANGED query, NEW at, NEW fr, Tells(at, fr, stack', found')
    PROVE  NoRouteTwice'
<1>1. \A p : Routes(p)' = Routes(p)
  BY SameRoutes
<1>2. Tells(at, fr, stack, found)'
  BY <1>1 DEF Tells
<1> QED
  BY <1>2 DEF NoRouteTwice

\* One more edge along the path is one more in the route.
LEMMA RouteGrows ==
    ASSUME NEW p \in Seq(Known), p # <<>>, NEW r \in Routes(p), NEW x \in Known,
           NEW e \in Nat, e \in Parallel(Last(p), x)
    PROVE  Append(r, e) \in Routes(Append(p, x))
<1> DEFINE q == Append(p, x)
           s == Append(r, e)
           n == Len(p)
<1>1. n \in Nat /\ n >= 1
  BY EmptySeq, LenProperties
<1>2. /\ r \in Seq(Nat) /\ Len(r) = n - 1
      /\ \A i \in 1..(n - 1) : r[i] \in Between(p)[i]
  BY DEF Routes, Selections
<1>3. Len(q) = n + 1 /\ (\A i \in 1..n : q[i] = p[i]) /\ q[n + 1] = x
  BY AppendProperties
<1>4. /\ s \in Seq(Nat) /\ Len(s) = n /\ (\A i \in 1..(n - 1) : s[i] = r[i]) /\ s[n] = e
  <2>1. (n - 1) + 1 = n
    BY <1>1
  <2> QED
    BY <1>2, <2>1, AppendProperties
<1> HIDE DEF q, s
<1>5. Last(p) = p[n]
  BY DEF Last
<1> HIDE DEF n
<1>6. ASSUME NEW i \in 1..n PROVE s[i] \in Parallel(q[i], q[i + 1])
  <2>1. CASE i = n
    BY <1>1, <1>3, <1>4, <1>5, <2>1
  <2>2. CASE i # n
    <3>1. i \in 1..(n - 1) /\ i + 1 \in 1..n
      BY <1>1, <2>2
    <3>2. r[i] \in Parallel(p[i], p[i + 1])
      BY <1>2, <3>1 DEF Between, n
    <3> QED
      BY <1>3, <1>4, <3>1, <3>2
  <2> QED
    BY <2>1, <2>2
<1>7. Len(q) - 1 = n
  BY <1>1, <1>3
<1>8. \A i \in 1..n : s[i] \in Between(q)[i]
  BY <1>6, <1>7 DEF Between
<1>9. s \in Routes(q)
  BY <1>4, <1>7, <1>8 DEF Routes, Selections
<1> QED
  BY <1>9 DEF s, q

LEMMA ToldFirst == ASSUME Begin, PathsInv PROVE NoRouteTwice'
<1> DEFINE p == <<from>>
           st == <<p>>
           at == [i \in 1..1 |-> <<>>]
           fr == [i \in {} |-> <<>>]
<1>1. Len(p) = 1 /\ DOMAIN st = 1..1 /\ st[1] = p /\ \A i \in 1..1 : i = 1
  OBVIOUS
<1>2. <<>> \in Routes(p)
  <2>1. <<>> \in Seq(Nat) /\ Len(<<>>) = 0 /\ 1..0 = {}
    BY EmptySeq
  <2> QED
    BY <1>1, <2>1 DEF Routes, Selections
<1>3. <<>> \in Seq(Nat)
  OBVIOUS
<1>4. stack' = st /\ found' = <<>> /\ UNCHANGED query
  BY DEF Begin, PathsInv
<1>5. DOMAIN <<>> = {}
  OBVIOUS
<1> HIDE DEF p, st
<1>6. Tells(at, fr, st, <<>>)
  BY <1>1, <1>2, <1>3, <1>5 DEF Tells
<1> HIDE DEF at, fr
<1> QED
  BY <1>4, <1>6, ToldAgain

LEMMA ToldWhenArrived == ASSUME Arrived, PathsInv, NoRouteTwice PROVE NoRouteTwice'
<1> DEFINE f  == [hops |-> Top, severity |-> Severity(Top)]
           fd == Append(found, f)
           n  == Len(stack)
           m  == Len(found)
<1>1. /\ InSearch /\ stack' = Below /\ found' = fd /\ UNCHANGED query
      /\ stack \in Seq(Seq(Known)) /\ found \in Seq(Found)
  BY DEF Arrived, PathsInv
<1>2. /\ n \in Nat /\ n >= 1 /\ Top = stack[n]
      /\ DOMAIN stack = 1..n /\ DOMAIN Below = 1..(n - 1)
      /\ \A i \in 1..(n - 1) : Below[i] = stack[i]
  BY <1>1, PopKeepsTheRest DEF InSearch
<1>3. m \in Nat /\ DOMAIN found = 1..m
  BY <1>1, LenProperties
<1>4. f \in Found
  <2>1. Top \in Seq(Known) /\ Severity(Top) \in Int
    BY <1>1, Popped, SeverityType DEF InSearch, PathsInv
  <2> QED
    BY <2>1 DEF Found
<1>5. f.hops = Top
  OBVIOUS
<1> HIDE DEF f
<1>6. DOMAIN fd = 1..(m + 1) /\ fd[m + 1] = f /\ \A i \in 1..m : fd[i] = found[i]
  <2>1. fd \in Seq(Found) /\ Len(fd) = m + 1
    BY <1>1, <1>4, AppendProperties
  <2>2. DOMAIN fd = 1..(m + 1)
    BY <2>1, LenProperties
  <2> QED
    BY <1>1, <1>4, <2>2, AppendProperties
<1> HIDE DEF fd, n, m
<1>7. PICK at, fr : Tells(at, fr, stack, found)
  BY DEF NoRouteTwice
<1>8. /\ \A i \in 1..n : at[i] \in Seq(Nat) /\ at[i] \in Routes(stack[i])
      /\ \A i \in 1..m : fr[i] \in Seq(Nat) /\ fr[i] \in Routes(found[i].hops)
      /\ \A i, j \in 1..n : Begins(at[i], at[j]) => i = j
      /\ \A i \in 1..n, j \in 1..m : ~Begins(at[i], fr[j])
      /\ \A i, j \in 1..m : fr[i] = fr[j] => i = j
  BY <1>2, <1>3, <1>7 DEF Tells
<1> DEFINE at2 == [i \in 1..(n - 1) |-> at[i]]
           fr2 == [i \in 1..(m + 1) |-> IF i <= m THEN fr[i] ELSE at[n]]
<1>9. /\ \A i \in 1..(n - 1) : i \in 1..n /\ i # n /\ at2[i] = at[i]
      /\ n \in 1..n /\ m + 1 \in 1..(m + 1) /\ fr2[m + 1] = at[n]
      /\ \A i \in 1..m : i \in 1..(m + 1) /\ fr2[i] = fr[i]
      /\ \A i \in 1..(m + 1) : i \in 1..m \/ i = m + 1
  BY <1>2, <1>3
<1>10. at2 \in [1..(n - 1) -> Seq(Nat)] /\ fr2 \in [1..(m + 1) -> Seq(Nat)]
  BY <1>3, <1>8, <1>9
<1> HIDE DEF at2, fr2
<1>11. \A i \in 1..(n - 1) : at2[i] \in Routes(Below[i])
  BY <1>2, <1>8, <1>9
<1>12. \A i \in 1..(m + 1) : fr2[i] \in Routes(fd[i].hops)
  BY <1>2, <1>5, <1>6, <1>8, <1>9
<1>13. \A i, j \in 1..(n - 1) : Begins(at2[i], at2[j]) => i = j
  BY <1>8, <1>9
<1>14. \A i \in 1..(n - 1), j \in 1..(m + 1) : ~Begins(at2[i], fr2[j])
  BY <1>8, <1>9
<1>15. \A i \in 1..m : fr[i] # at[n]
  BY <1>8, <1>9, BeginsItself
<1>16. \A i, j \in 1..(m + 1) : fr2[i] = fr2[j] => i = j
  BY <1>8, <1>9, <1>15
<1>17. Tells(at2, fr2, Below, fd)
  BY <1>2, <1>6, <1>10, <1>11, <1>12, <1>13, <1>14, <1>16 DEF Tells
<1> QED
  BY <1>1, <1>17, ToldAgain

LEMMA ToldWhenTooLong == ASSUME TooLong, PathsInv, NoRouteTwice PROVE NoRouteTwice'
<1> DEFINE n == Len(stack)
<1>1. /\ InSearch /\ stack' = Below /\ found' = found /\ UNCHANGED query
      /\ stack \in Seq(Seq(Known))
  BY DEF TooLong, PathsInv
<1>2. /\ n \in Nat /\ DOMAIN stack = 1..n /\ DOMAIN Below = 1..(n - 1)
      /\ \A i \in 1..(n - 1) : Below[i] = stack[i]
  BY <1>1, PopKeepsTheRest DEF InSearch
<1>3. PICK at, fr : Tells(at, fr, stack, found)
  BY DEF NoRouteTwice
<1> HIDE DEF n
<1> DEFINE at2 == [i \in 1..(n - 1) |-> at[i]]
<1>4. \A i \in 1..(n - 1) : i \in 1..n /\ at2[i] = at[i]
  BY <1>2
<1>5. at \in [1..n -> Seq(Nat)]
  BY <1>2, <1>3 DEF Tells
<1>6. at2 \in [1..(n - 1) -> Seq(Nat)]
  BY <1>4, <1>5
<1> HIDE DEF at2
<1>7. Tells(at2, fr, Below, found)
  BY <1>2, <1>3, <1>4, <1>6 DEF Tells
<1> QED
  BY <1>1, <1>7, ToldAgain

LEMMA ToldWhenExtended == ASSUME ExtendPath, PathsInv, NoRouteTwice PROVE NoRouteTwice'
<1> DEFINE on   == Onward(Top)
           more == [k \in DOMAIN on |-> Append(Top, on[k])]
           st   == Below \o more
           n    == Len(stack)
           w    == Len(on)
<1>1. /\ InSearch /\ stack' = st /\ found' = found /\ UNCHANGED query
      /\ stack \in Seq(Seq(Known)) /\ found \in Seq(Found) /\ graph \in Graphs
  BY DEF ExtendPath, PathsInv
<1>2. /\ n \in Nat /\ n >= 1 /\ Top = stack[n]
      /\ DOMAIN stack = 1..n /\ DOMAIN Below = 1..(n - 1) /\ Len(Below) = n - 1
      /\ \A i \in 1..(n - 1) : Below[i] = stack[i]
  BY <1>1, PopKeepsTheRest DEF InSearch
<1>3. Top \in Seq(Known) /\ Top # <<>> /\ Last(Top) \in Known /\ Below \in Seq(Seq(Known))
  <2>1. Top \in Seq(Known) /\ IsPath(Top) /\ Below \in Seq(Seq(Known))
    BY <1>1, Popped DEF InSearch, PathsInv
  <2>2. Len(Top) \in Nat /\ Len(Top) >= 1 /\ Len(<<>>) = 0
    BY <2>1, LenProperties, EmptySeq DEF IsPath
  <2>3. Last(Top) \in Known
    BY <2>1, <2>2, ElementOfSeq DEF Last
  <2> QED
    BY <2>1, <2>2, <2>3
<1>4. on \in Seq(Known) /\ w \in Nat /\ DOMAIN on = 1..w /\ \A k \in 1..w : on[k] \in Known
  <2>1. on \in Seq(Known)
    BY <1>1, <1>3, OnwardTargets
  <2> HIDE DEF on
  <2> QED
    BY <2>1, LenProperties, ElementOfSeq
<1>5. PICK e \in [1..w -> Nat] :
          /\ \A k \in 1..w : e[k] \in Parallel(Last(Top), on[k])
          /\ \A i, j \in 1..w : e[i] = e[j] => i = j
  BY <1>1, <1>3, OnwardEdges
<1> HIDE DEF on, w, n
<1>6. more \in Seq(Seq(Known)) /\ Len(more) = w /\ \A k \in 1..w : more[k] = Append(Top, on[k])
  <2>1. \A k \in 1..w : Append(Top, on[k]) \in Seq(Known)
    BY <1>3, <1>4, AppendProperties
  <2> QED
    BY <1>4, <2>1, IsASeq
<1> HIDE DEF more
<1>7. /\ DOMAIN st = 1..((n - 1) + w)
      /\ \A i \in 1..((n - 1) + w) : st[i] = IF i <= n - 1 THEN Below[i] ELSE more[i - (n - 1)]
  <2>1. st \in Seq(Seq(Known)) /\ Len(st) = (n - 1) + w
    BY <1>2, <1>3, <1>6, ConcatProperties
  <2>2. DOMAIN st = 1..((n - 1) + w)
    BY <2>1, LenProperties
  <2> QED
    BY <1>2, <1>3, <1>6, <2>2, ConcatProperties
<1> HIDE DEF st
<1>8. PICK at, fr : Tells(at, fr, stack, found)
  BY DEF NoRouteTwice
<1>9. /\ \A i \in 1..n : at[i] \in Seq(Nat) /\ at[i] \in Routes(stack[i])
      /\ fr \in [DOMAIN found -> Seq(Nat)]
      /\ \A i \in DOMAIN found : fr[i] \in Routes(found[i].hops)
      /\ \A i, j \in 1..n : Begins(at[i], at[j]) => i = j
      /\ \A i \in 1..n, j \in DOMAIN found : ~Begins(at[i], fr[j])
      /\ \A i, j \in DOMAIN found : fr[i] = fr[j] => i = j
  BY <1>2, <1>8 DEF Tells
<1> DEFINE on1(k) == Append(at[n], e[k])
           at2 == [i \in 1..((n - 1) + w) |-> IF i <= n - 1 THEN at[i] ELSE on1(i - (n - 1))]
<1>10. \A i \in 1..((n - 1) + w) :
          \/ i \in 1..(n - 1) /\ i \in 1..n /\ i # n /\ at2[i] = at[i] /\ st[i] = stack[i]
          \/ /\ i - (n - 1) \in 1..w /\ i \in Int
             /\ at2[i] = on1(i - (n - 1)) /\ st[i] = more[i - (n - 1)]
  <2> HIDE DEF on1
  <2> SUFFICES ASSUME NEW i \in 1..((n - 1) + w)
               PROVE  \/ i \in 1..(n - 1) /\ i \in 1..n /\ i # n /\ at2[i] = at[i] /\ st[i] = stack[i]
                      \/ /\ i - (n - 1) \in 1..w /\ i \in Int
                         /\ at2[i] = on1(i - (n - 1)) /\ st[i] = more[i - (n - 1)]
    OBVIOUS
  <2>1. CASE i <= n - 1
    <3>1. i \in 1..(n - 1) /\ i \in 1..n /\ i # n
      BY <1>2, <2>1
    <3> QED
      BY <1>2, <1>7, <2>1, <3>1
  <2>2. CASE ~(i <= n - 1)
    <3>1. i - (n - 1) \in 1..w /\ i \in Int
      BY <1>2, <1>4, <2>2
    <3> QED
      BY <1>7, <2>2, <3>1
  <2> QED
    BY <2>1, <2>2
<1>11. n \in 1..n /\ at[n] \in Seq(Nat) /\ at[n] \in Routes(Top)
  BY <1>2, <1>9
<1>12. ASSUME NEW k \in 1..w
       PROVE  /\ on1(k) \in Seq(Nat) /\ on1(k) \in Routes(more[k])
              /\ \A s \in Seq(Nat) : /\ Begins(on1(k), s) => Begins(at[n], s)
                                     /\ Begins(s, on1(k)) => Begins(s, at[n]) \/ Begins(at[n], s)
              /\ \A j \in 1..w : Begins(on1(k), on1(j)) => k = j
  <2>1. e[k] \in Nat /\ e[k] \in Parallel(Last(Top), on[k]) /\ on[k] \in Known
    BY <1>4, <1>5
  <2>2. on1(k) \in Routes(more[k])
    BY <1>3, <1>6, <1>11, <2>1, RouteGrows
  <2>3. ASSUME NEW j \in 1..w, Begins(on1(k), on1(j)) PROVE k = j
    <3>1. e[j] \in Nat
      BY <1>5
    <3>2. e[k] = e[j]
      BY <1>11, <2>1, <2>3, <3>1, OneEdgeOn
    <3> QED
      BY <1>5, <3>2
  <2> QED
    BY <1>11, <2>1, <2>2, <2>3, OneEdgeOn
<1>13. /\ at2 \in [1..((n - 1) + w) -> Seq(Nat)]
       /\ \A i \in 1..((n - 1) + w) : at2[i] \in Routes(st[i])
  <2>1. \A i \in 1..((n - 1) + w) : at2[i] \in Seq(Nat) /\ at2[i] \in Routes(st[i])
    <3> HIDE DEF on1, at2
    <3> QED
      BY <1>9, <1>10, <1>12
  <2>2. at2 = [i \in 1..((n - 1) + w) |-> at2[i]]
    OBVIOUS
  <2> HIDE DEF at2
  <2> QED
    BY <2>1, <2>2
<1> HIDE DEF at2, on1
<1>14. ASSUME NEW i \in 1..((n - 1) + w), NEW j \in DOMAIN found PROVE ~Begins(at2[i], fr[j])
  <2>1. fr[j] \in Seq(Nat)
    BY <1>9
  <2>2. CASE i \in 1..n /\ at2[i] = at[i]
    BY <1>9, <2>2
  <2>3. CASE i - (n - 1) \in 1..w /\ at2[i] = on1(i - (n - 1))
    BY <1>9, <1>11, <1>12, <2>1, <2>3
  <2> QED
    BY <1>10, <2>2, <2>3
<1>15. ASSUME NEW i \in 1..((n - 1) + w), NEW j \in 1..((n - 1) + w), Begins(at2[i], at2[j])
       PROVE  i = j
  <2>1. CASE i \in 1..n /\ i # n /\ at2[i] = at[i]
    <3>1. CASE j \in 1..n /\ at2[j] = at[j]
      BY <1>9, <1>15, <2>1, <3>1
    <3>2. CASE j - (n - 1) \in 1..w /\ at2[j] = on1(j - (n - 1))
      <4>1. Begins(at[i], at[n]) \/ Begins(at[n], at[i])
        BY <1>9, <1>12, <1>15, <2>1, <3>2
      <4> QED
        BY <1>9, <1>11, <2>1, <4>1
    <3> QED
      BY <1>10, <3>1, <3>2
  <2>2. CASE i - (n - 1) \in 1..w /\ i \in Int /\ at2[i] = on1(i - (n - 1))
    <3>1. CASE j \in 1..n /\ j # n /\ at2[j] = at[j]
      <4>1. Begins(at[n], at[j])
        BY <1>9, <1>12, <1>15, <2>2, <3>1
      <4> QED
        BY <1>9, <1>11, <3>1, <4>1
    <3>2. CASE j - (n - 1) \in 1..w /\ j \in Int /\ at2[j] = on1(j - (n - 1))
      <4>1. i - (n - 1) = j - (n - 1)
        BY <1>12, <1>15, <2>2, <3>2
      <4> QED
        BY <1>2, <2>2, <3>2, <4>1
    <3> QED
      BY <1>10, <3>1, <3>2
  <2> QED
    BY <1>10, <2>1, <2>2
<1>16. Tells(at2, fr, st, found)
  BY <1>7, <1>9, <1>13, <1>14, <1>15 DEF Tells
<1> QED
  BY <1>1, <1>16, ToldAgain

LEMMA NoRouteTwiceStep == PathsInv /\ NoRouteTwice /\ [Next]_vars => NoRouteTwice'
<1> SUFFICES ASSUME PathsInv, NoRouteTwice, [Next]_vars PROVE NoRouteTwice'
  OBVIOUS
<1>1. UNCHANGED <<query, stack, found>> => NoRouteTwice'
  <2> SUFFICES ASSUME UNCHANGED <<query, stack, found>> PROVE NoRouteTwice'
    OBVIOUS
  <2>1. PICK at, fr : Tells(at, fr, stack, found)
    BY DEF NoRouteTwice
  <2>2. Tells(at, fr, stack', found') /\ UNCHANGED query
    BY <2>1
  <2> QED
    BY <2>2, ToldAgain
<1> QED
  BY <1>1, ToldFirst, ToldWhenArrived, ToldWhenTooLong, ToldWhenExtended
     DEF Next, NothingToFind, StackEmpty, Rank, vars

LEMMA NoRouteTwiceInit == Init => NoRouteTwice
<1> SUFFICES ASSUME Init PROVE NoRouteTwice
  OBVIOUS
<1> DEFINE none == [i \in {} |-> <<>>]
<1>1. stack = <<>> /\ found = <<>> /\ DOMAIN <<>> = {}
  BY DEF Init
<1>2. Tells(none, none, stack, found)
  BY <1>1 DEF Tells
<1> QED
  BY <1>2 DEF NoRouteTwice

\* Whatever the graph, find_attack_paths repeats the hops of a path at most as often
\* as there are ways to choose among the parallel edges along it.
THEOREM RepeatsAreParallelEdges == Spec => []RepeatedOnlyByParallelEdges
<1>1. PathsInv /\ NoRouteTwice => RepeatedOnlyByParallelEdges
  <2> SUFFICES ASSUME PathsInv, NoRouteTwice, Done, NEW n \in DOMAIN result
               PROVE  Cardinality({k \in DOMAIN result : result[k].hops = result[n].hops})
                        <= Ways(result[n].hops)
    BY DEF RepeatedOnlyByParallelEdges
  <2> DEFINE hops == result[n].hops
             K == {k \in DOMAIN result : result[k].hops = hops}
  <2>1. result # <<>>
    OBVIOUS
  <2>2. PICK g : IsDrawn(g, result, found)
    BY <2>1 DEF PathsInv, Ranked
  <2>3. /\ \A k \in DOMAIN result : g[k] \in DOMAIN found /\ result[k] = found[g[k]]
        /\ \A j, k \in DOMAIN result : g[j] = g[k] => j = k
    BY <2>2 DEF IsDrawn
  <2>4. PICK at, fr : Tells(at, fr, stack, found)
    BY DEF NoRouteTwice
  <2>5. /\ \A i \in DOMAIN found : fr[i] \in Routes(found[i].hops)
        /\ \A i, j \in DOMAIN found : fr[i] = fr[j] => i = j
    BY <2>4 DEF Tells
  <2>6. graph \in Graphs /\ hops \in Seq(Known) /\ hops # <<>>
    <3>1. found[g[n]] \in ToSet(found)
      BY <2>3 DEF ToSet
    <3>2. IsPath(hops) /\ graph \in Graphs
      BY <2>3, <3>1 DEF PathsInv, Arrives
    <3>3. Len(<<>>) = 0 /\ Len(hops) \in 1..(HopCap + 1)
      BY <3>2, EmptySeq DEF IsPath
    <3> QED
      BY <3>2, <3>3, CapAssumption DEF IsPath
  <2> DEFINE h == [k \in K |-> fr[g[k]]]
  <2> HIDE DEF hops
  <2>7. h \in Injection(K, Routes(hops))
    <3>1. \A k \in K : fr[g[k]] \in Routes(hops)
      BY <2>3, <2>5
    <3>2. \A j, k \in K : fr[g[j]] = fr[g[k]] => j = k
      BY <2>3, <2>5
    <3> HIDE DEF K
    <3>3. h \in [K -> Routes(hops)] /\ \A j, k \in K : h[j] = h[k] => j = k
      BY <3>1, <3>2
    <3> HIDE DEF h
    <3> QED
      BY <3>3 DEF Injection, IsInjective
  <2>8. IsFiniteSet(Routes(hops)) /\ Cardinality(Routes(hops)) = Ways(hops)
    BY <2>6, RoutesAreCounted
  <2> HIDE DEF h, K
  <2>9. Cardinality(K) <= Cardinality(Routes(hops))
    BY <2>7, <2>8, FS_Injection
  <2> QED
    BY <2>8, <2>9 DEF hops, K
<1>2. PathsInv /\ NoRouteTwice /\ [Next]_vars => (PathsInv /\ NoRouteTwice)'
  BY PathsStep, NoRouteTwiceStep
<1>3. Init => PathsInv /\ NoRouteTwice
  BY PathsInit, NoRouteTwiceInit
<1> QED
  BY <1>1, <1>2, <1>3, PTL DEF Spec
=============================================================================

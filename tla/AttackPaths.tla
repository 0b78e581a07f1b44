----------------------------- MODULE AttackPaths -----------------------------
(***************************************************************************)
(* find_attack_paths: a depth-first search for simple paths with a stack   *)
(* of partial ones, cut short once enough are found, then ranked           *)
(* (crates/lovebird-graph/src/attack_paths.rs, 13-59).                     *)
(***************************************************************************)
EXTENDS Integers, FiniteSets, SequencesExt

CONSTANTS
    Names,    \* every id a caller may ask for
    Graphs,   \* loaded graphs: adj, id -> sequence of targets; sensitivity
    Limits,   \* values of the caller's limit
    HopCap,   \* longest path that is extended: 12 nodes
    Surplus   \* the search stops at limit times this many paths: 4

ASSUME CapAssumption == HopCap \in Nat \ {0} /\ Surplus \in Nat \ {0} /\ Limits \subseteq Nat

\* What loading guarantees (module AssetGraph).
Searchable(g) ==
    \A id \in DOMAIN g.adj : g.adj[id] \in Seq(DOMAIN g.adj) /\ g.sensitivity[id] \in Nat

ASSUME GraphsAssumption == \A g \in Graphs : Searchable(g)

VARIABLES pc, graph, from, to, limit, stack, found, result

query == <<graph, from, to, limit>>
vars  == <<pc, query, stack, found, result>>

Adj   == graph.adj
Known == DOMAIN graph.adj

Init ==
    /\ graph \in Graphs
    /\ from \in Names /\ to \in Names
    /\ limit \in Limits
    /\ pc = "start"
    /\ stack = <<>> /\ found = <<>> /\ result = <<>>

NothingToFind ==
    /\ pc = "start"
    /\ limit = 0 \/ ~({from, to} \subseteq Known)
    /\ pc' = "done"
    /\ UNCHANGED <<query, stack, found, result>>

Begin ==
    /\ pc = "start"
    /\ limit # 0 /\ {from, to} \subseteq Known
    /\ pc' = "search" /\ stack' = << <<from>> >>
    /\ UNCHANGED <<query, found, result>>

Top   == Last(stack)
Below == Front(stack)

Severity(path) ==
    LET sum[k \in 0..Len(path)] ==
            IF k = 0 THEN 0 ELSE sum[k - 1] + graph.sensitivity[path[k]]
    IN  sum[Len(path)]

InSearch == pc = "search" /\ stack # <<>>

\* Mutant: the path is looked at and stays on the stack.
Arrived_Peeks ==
    /\ InSearch /\ Last(Top) = to
    /\ stack' = stack
    /\ found' = Append(found, [hops |-> Top, severity |-> Severity(Top)])
    /\ pc' = IF Len(found') >= limit * Surplus THEN "rank" ELSE "search"
    /\ UNCHANGED <<query, result>>

\* A path that arrived is kept, and the search leaves early once it has
\* limit * Surplus of them.
Arrived ==
    /\ InSearch /\ Last(Top) = to
    /\ stack' = Below
    /\ found' = Append(found, [hops |-> Top, severity |-> Severity(Top)])
    /\ pc' = IF Len(found') >= limit * Surplus THEN "rank" ELSE "search"
    /\ UNCHANGED <<query, result>>

TooLong ==
    /\ InSearch /\ Last(Top) # to
    /\ Len(Top) > HopCap
    /\ stack' = Below
    /\ UNCHANGED <<pc, query, found, result>>

\* Mutant: only going straight back is ruled out.
Onward_StraightBackOnly(path) ==
    SelectSeq(Adj[Last(path)], LAMBDA t : Len(path) = 1 \/ t # path[Len(path) - 1])

\* The targets that keep the path simple, one for each edge.
Onward(path) ==
    LET out == Adj[Last(path)]
        upto[k \in 0..Len(out)] ==
            IF k = 0 THEN <<>>
            ELSE IF out[k] \in ToSet(path) THEN upto[k - 1]
            ELSE Append(upto[k - 1], out[k])
    IN  upto[Len(out)]

\* Mutant: the longest path allowed is not extended.
ExtendPath_CapOffByOne ==
    /\ InSearch /\ Last(Top) # to
    /\ Len(Top) <= HopCap
    /\ LET on == IF Len(Top) = HopCap THEN <<>> ELSE Onward(Top)
       IN  stack' = Below \o [k \in DOMAIN on |-> Append(Top, on[k])]
    /\ UNCHANGED <<pc, query, found, result>>

ExtendPath ==
    /\ InSearch /\ Last(Top) # to
    /\ Len(Top) <= HopCap
    /\ LET on == Onward(Top)
       IN  stack' = Below \o [k \in DOMAIN on |-> Append(Top, on[k])]
    /\ UNCHANGED <<pc, query, found, result>>

StackEmpty ==
    /\ pc = "search" /\ stack = <<>>
    /\ pc' = "rank"
    /\ UNCHANGED <<query, stack, found, result>>

Outranks(p, q) ==
    \/ p.severity > q.severity
    \/ p.severity = q.severity /\ Len(p.hops) < Len(q.hops)

\* How the sort orders two of the paths found; it is stable.
Before(i, j) ==
    \/ Outranks(found[i], found[j])
    \/ ~Outranks(found[j], found[i]) /\ i < j

Ahead(i) == {j \in DOMAIN found : Before(j, i)}

\* Sort, then truncate.
Rank ==
    /\ pc = "rank"
    /\ LET kept == IF Len(found) < limit THEN Len(found) ELSE limit
       IN  result' = [k \in 1..kept |->
                         found[CHOOSE i \in DOMAIN found : Cardinality(Ahead(i)) = k - 1]]
    /\ pc' = "done"
    /\ UNCHANGED <<query, stack, found>>

Next == NothingToFind \/ Begin \/ Arrived \/ TooLong \/ ExtendPath \/ StackEmpty \/ Rank

Spec == Init /\ [][Next]_vars

----------------------------------------------------------------------------

Done == pc = "done"

\* The simple paths between the two nodes, within the hop cap: no id twice,
\* along edges.
SimplePaths ==
    {p \in UNION {[1..n -> Known] : n \in 1..(HopCap + 1)} :
        /\ p[1] = from /\ p[Len(p)] = to
        /\ \A i, j \in DOMAIN p : p[i] = p[j] => i = j
        /\ \A k \in 1..(Len(p) - 1) : p[k + 1] \in ToSet(Adj[p[k]])}

\* Every path reported is a simple path of the graph between the two nodes,
\* carrying its own severity.
ReportedPathsAreReal ==
    Done => \A k \in DOMAIN result :
        /\ result[k].hops \in SimplePaths
        /\ result[k].severity = Severity(result[k].hops)

\* Where the search was not cut short by its surplus, the paths left out are
\* those the ranking puts last: every simple path within the hop cap is
\* reported, or limit paths that are no worse are.
BestPathsUnlessCut ==
    (Done /\ limit # 0 /\ {from, to} \subseteq Known /\ Len(found) < limit * Surplus) =>
        \A p \in SimplePaths :
            \/ \E k \in DOMAIN result : result[k].hops = p
            \/ /\ Len(result) = limit
               /\ \A k \in DOMAIN result :
                    \/ result[k].severity > Severity(p)
                    \/ result[k].severity = Severity(p) /\ Len(result[k].hops) <= Len(p)

Parallel(a, b) == {i \in DOMAIN Adj[a] : Adj[a][i] = b}

\* In how many ways the edges of a path can be chosen.
Ways(hops) ==
    LET ways[k \in 0..(Len(hops) - 1)] ==
            IF k = 0 THEN 1 ELSE ways[k - 1] * Cardinality(Parallel(hops[k], hops[k + 1]))
    IN  ways[Len(hops) - 1]

\* The same hops are reported twice only along parallel edges, once for each way
\* of choosing among them.
RepeatedOnlyByParallelEdges ==
    Done => \A j \in DOMAIN result :
        Cardinality({k \in DOMAIN result : result[k].hops = result[j].hops})
            <= Ways(result[j].hops)
=============================================================================

----------------------------- MODULE GraphSearch -----------------------------
(***************************************************************************)
(* The breadth-first searches of the asset graph, reachable and            *)
(* shortest_path, one step per queue entry taken and per edge examined     *)
(* (crates/lovebird-graph/src/graph.rs, 79-143).  Both borrow the graph    *)
(* immutably, so it is fixed while they run: one behaviour is one call.     *)
(***************************************************************************)
EXTENDS Integers, Sequences, FiniteSets

CONSTANTS
    Names,   \* every id a caller may ask for
    Graphs   \* loaded graphs: id -> sequence of targets

\* What loading guarantees (NoDanglingEdge of module AssetGraph).
Loaded(g) ==
    /\ DOMAIN g \subseteq Names
    /\ \A a \in DOMAIN g : g[a] \in Seq(DOMAIN g)

ASSUME GraphsAssumption == \A g \in Graphs : Loaded(g)

VARIABLES
    adj,            \* the graph
    pc,             \* "start", "pop", "scan" or "done"
    kind,           \* "reachable" or "path"
    from, to,       \* the query; to matters to "path" only
    queue, seen, prev,
    cur, edge,      \* the node whose edges are scanned, and the next one
    answer          \* what the call returned

query == <<adj, kind, from, to>>
vars  == <<query, pc, queue, seen, prev, cur, edge, answer>>

NoAnswer == [given |-> FALSE]
IdSet(S) == [given |-> TRUE, ids |-> S]
Path(p)  == [given |-> TRUE, found |-> TRUE, path |-> p]
NoPath   == [given |-> TRUE, found |-> FALSE]

\* reconstruct_path: follow prev back from the goal.
Reconstruct(back, start, goal) ==
    LET pathTo[n \in DOMAIN adj] ==
            IF n = start \/ n \notin DOMAIN back THEN <<n>> ELSE Append(pathTo[back[n]], n)
    IN  pathTo[goal]

Extend(f, x, y) == [z \in DOMAIN f \cup {x} |-> IF z = x THEN y ELSE f[z]]

Init ==
    /\ adj \in Graphs
    /\ kind \in {"reachable", "path"}
    /\ from \in Names /\ to \in Names
    /\ pc = "start"
    /\ queue = <<>> /\ seen = {} /\ prev = <<>>
    /\ cur = from /\ edge = 1
    /\ answer = NoAnswer

Return(value) ==
    /\ answer' = value
    /\ pc' = "done"
    /\ UNCHANGED <<query, cur, edge>>

\* The early returns: an end the graph lacks, or a path to where one is.
UnknownNode ==
    /\ pc = "start"
    /\ ~({from} \cup (IF kind = "path" THEN {to} ELSE {}) \subseteq DOMAIN adj)
    /\ Return(IF kind = "path" THEN NoPath ELSE IdSet({}))
    /\ UNCHANGED <<queue, seen, prev>>

AlreadyThere ==
    /\ pc = "start"
    /\ kind = "path" /\ from = to /\ from \in DOMAIN adj
    /\ Return(Path(<<from>>))
    /\ UNCHANGED <<queue, seen, prev>>

Begin ==
    /\ pc = "start"
    /\ from \in DOMAIN adj
    /\ kind = "path" => to \in DOMAIN adj \ {from}
    /\ pc' = "pop" /\ queue' = <<from>> /\ seen' = {from}
    /\ UNCHANGED <<query, prev, cur, edge, answer>>

\* Mutant: the newest entry is taken, which makes the search depth-first.
Pop_Newest ==
    /\ pc = "pop" /\ queue # <<>>
    /\ pc' = "scan" /\ edge' = 1
    /\ cur' = queue[Len(queue)] /\ queue' = SubSeq(queue, 1, Len(queue) - 1)
    /\ UNCHANGED <<query, seen, prev, answer>>

\* Mutant: the entry is read but stays in the queue.
Pop_Peeks ==
    /\ pc = "pop" /\ queue # <<>>
    /\ pc' = "scan" /\ edge' = 1
    /\ cur' = Head(queue) /\ queue' = queue
    /\ UNCHANGED <<query, seen, prev, answer>>

Pop ==
    /\ pc = "pop" /\ queue # <<>>
    /\ pc' = "scan" /\ edge' = 1
    /\ cur' = Head(queue) /\ queue' = Tail(queue)
    /\ UNCHANGED <<query, seen, prev, answer>>

Scanned == adj[cur][edge]
InScan  == pc = "scan" /\ edge \in DOMAIN adj[cur]

\* seen.insert(to) is false: the target was queued before.
SkipSeen ==
    /\ InScan /\ Scanned \in seen
    /\ edge' = edge + 1
    /\ UNCHANGED <<query, pc, queue, seen, prev, cur, answer>>

\* Mutant: a node is marked but never queued.
Discover_NotQueued ==
    /\ InScan /\ Scanned \notin seen
    /\ ~(kind = "path" /\ Scanned = to)
    /\ seen' = seen \cup {Scanned}
    /\ prev' = IF kind = "path" THEN Extend(prev, Scanned, cur) ELSE prev
    /\ edge' = edge + 1
    /\ UNCHANGED <<query, pc, queue, cur, answer>>

\* A target met for the first time joins the queue.
Discover ==
    /\ InScan /\ Scanned \notin seen
    /\ ~(kind = "path" /\ Scanned = to)
    /\ seen' = seen \cup {Scanned}
    /\ prev' = IF kind = "path" THEN Extend(prev, Scanned, cur) ELSE prev
    /\ queue' = Append(queue, Scanned)
    /\ edge' = edge + 1
    /\ UNCHANGED <<query, pc, cur, answer>>

\* The goal is met: return at once, with the rest of the queue unexplored.
Arrive ==
    /\ InScan /\ Scanned \notin seen
    /\ kind = "path" /\ Scanned = to
    /\ seen' = seen \cup {to}
    /\ prev' = Extend(prev, to, cur)
    /\ Return(Path(Reconstruct(prev', from, to)))
    /\ UNCHANGED queue

ScanDone ==
    /\ pc = "scan" /\ edge \notin DOMAIN adj[cur]
    /\ pc' = "pop"
    /\ UNCHANGED <<query, queue, seen, prev, cur, edge, answer>>

Exhausted ==
    /\ pc = "pop" /\ queue = <<>>
    /\ Return(IF kind = "path" THEN NoPath ELSE IdSet(seen))
    /\ UNCHANGED <<queue, seen, prev>>

Next == UnknownNode \/ AlreadyThere \/ Begin \/ Pop \/ SkipSeen \/ Discover
          \/ Arrive \/ ScanDone \/ Exhausted

Spec == Init /\ [][Next]_vars

\* A call is straight-line code: it is run as long as it has a step to take.
FairSpec == Spec /\ WF_vars(Next)

----------------------------------------------------------------------------

Targets(a) == {adj[a][k] : k \in DOMAIN adj[a]}

ClosedFrom(a, S) == a \in S /\ \A b \in S : Targets(b) \subseteq S

\* The type invariant of a search.
TypeOK ==
    /\ adj \in Graphs
    /\ pc \in {"start", "pop", "scan", "done"}
    /\ kind \in {"reachable", "path"}
    /\ from \in Names /\ to \in Names /\ cur \in Names
    /\ queue \in Seq(DOMAIN adj)
    /\ seen \subseteq DOMAIN adj
    /\ DOMAIN prev \subseteq DOMAIN adj /\ \A b \in DOMAIN prev : prev[b] \in DOMAIN adj
    /\ edge \in Nat \ {0}
    /\ pc \in {"pop", "scan"} => from \in DOMAIN adj
    /\ pc = "scan" => cur \in DOMAIN adj
    /\ answer.given \in BOOLEAN

\* reachable returns the least set that holds the start and every target of its
\* members, cycles and parallel edges or not, and nothing for an unknown start:
\* the blast radius neither misses a node nor counts one out of reach.
ReachableIsLeastClosedSet ==
    (answer.given /\ kind = "reachable") =>
        IF from \in DOMAIN adj
          THEN /\ ClosedFrom(from, answer.ids)
               /\ \A S \in SUBSET DOMAIN adj : ClosedFrom(from, S) => answer.ids \subseteq S
          ELSE answer.ids = {}

Edges(p) == \A k \in 1..(Len(p) - 1) : p[k + 1] \in Targets(p[k])

Walks(a, b, n) ==
    {p \in [1..n -> DOMAIN adj] : p[1] = a /\ p[n] = b /\ Edges(p)}

\* shortest_path returns a walk along edges from one end to the other that no
\* walk undercuts, and None only if there is no walk at all.
PathIsShortest ==
    (answer.given /\ kind = "path") =>
        IF answer.found
          THEN LET n == Len(answer.path)
               IN  /\ answer.path \in Walks(from, to, n)
                   /\ \A m \in 1..(n - 1) : Walks(from, to, m) = {}
          ELSE \A m \in 1..Cardinality(DOMAIN adj) :
                  Walks(from, to, m) = {}

\* Every search comes to an end, on cyclic graphs too.
SearchTerminates == <>(pc = "done")
=============================================================================

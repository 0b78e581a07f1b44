-------------------------- MODULE GraphSearchProofs --------------------------
(***************************************************************************)
(* Proofs about GraphSearch, for every set of names and every loaded graph *)
(* over it: the types of a search, that reachable returns the least set    *)
(* closed under edges, and that shortest_path returns a shortest walk.     *)
(***************************************************************************)
EXTENDS GraphSearch, WellFoundedInduction, SequenceTheorems, TLAPS

----------------------------------------------------------------------------
(* The naturals are well-founded *)

\* A non-empty set of naturals has a least element.
LEMMA LeastNatural ==
    ASSUME NEW S \in SUBSET Nat, S # {}
    PROVE  \E m \in S : \A n \in S : m <= n
<1> DEFINE R == OpToRel(<, Nat)
<1>1. IsWellFoundedOn(R, Nat)
  BY NatLessThanWellFounded
<1>2. \A x, y \in Nat : x < y => <<x, y>> \in R
  BY DEF OpToRel
<1> HIDE DEF R
<1>3. PICK m \in S : \A y \in S : ~ (<<y, m>> \in R)
  BY <1>1, WFMin
<1>4. ASSUME NEW n \in S PROVE m <= n
  <2>1. n \in Nat /\ m \in Nat
    OBVIOUS
  <2>2. ~ (n < m)
    BY <1>2, <1>3, <2>1, Zenon
  <2> QED
    BY <2>1, <2>2
<1> QED
  BY <1>4

\* What holds of the first natural of a range and passes to the next one holds
\* of the whole range: induction over a set.
LEMMA RangeInduction ==
    ASSUME NEW a \in Nat, NEW b \in Nat, NEW S,
           a \in S, \A k \in a..(b - 1) : k \in S => k + 1 \in S
    PROVE  \A k \in a..b : k \in S
<1> DEFINE T == {k \in a..b : k \notin S}
<1>1. SUFFICES ASSUME T # {} PROVE FALSE
  OBVIOUS
<1>2. T \in SUBSET Nat
  OBVIOUS
<1> HIDE DEF T
<1>3. PICK m \in T : \A n \in T : m <= n
  BY <1>1, <1>2, LeastNatural
<1>4. m \in a..b /\ m \notin S
  BY <1>3 DEF T
<1>5. m - 1 \in a..(b - 1) /\ m - 1 \in a..b
  BY <1>4
<1>6. m - 1 \notin S
  <2>1. (m - 1) + 1 = m
    BY <1>4
  <2> QED
    BY <1>4, <1>5, <2>1
<1>7. m - 1 \in T
  BY <1>5, <1>6 DEF T
<1> QED
  BY <1>3, <1>4, <1>7

----------------------------------------------------------------------------
(* Types *)

\* A graph of Graphs has its edges inside itself.
LEMMA GraphType ==
    ASSUME TypeOK
    PROVE  /\ DOMAIN adj \subseteq Names
           /\ \A a \in DOMAIN adj : adj[a] \in Seq(DOMAIN adj)
BY GraphsAssumption DEF TypeOK, Loaded

\* The edge a scan looks at leads to a node of the graph.
LEMMA ScannedType ==
    ASSUME TypeOK, InScan
    PROVE  cur \in DOMAIN adj /\ Scanned \in DOMAIN adj /\ edge \in DOMAIN adj[cur]
<1>1. cur \in DOMAIN adj /\ edge \in DOMAIN adj[cur]
  BY DEF TypeOK, InScan
<1>2. adj[cur] \in Seq(DOMAIN adj)
  BY <1>1, GraphType
<1> QED
  BY <1>1, <1>2 DEF Scanned

\* Adding one entry to prev keeps it a map between nodes of the graph.
LEMMA ExtendType ==
    ASSUME NEW N, NEW f, DOMAIN f \subseteq N, \A b \in DOMAIN f : f[b] \in N,
           NEW x \in N, NEW y \in N
    PROVE  /\ DOMAIN Extend(f, x, y) \subseteq N
           /\ \A b \in DOMAIN Extend(f, x, y) : Extend(f, x, y)[b] \in N
BY DEF Extend

\* Every search is well typed, whatever the graph and the query.
THEOREM TypeCorrect == Spec => []TypeOK
<1>1. Init => TypeOK
  BY DEF Init, TypeOK, NoAnswer
<1>2. TypeOK /\ [Next]_vars => TypeOK'
  <2> SUFFICES ASSUME TypeOK, [Next]_vars PROVE TypeOK'
    OBVIOUS
  <2>g. DOMAIN adj \subseteq Names
    BY GraphType
  <2>1. CASE UnknownNode
    BY <2>1 DEF UnknownNode, Return, query, TypeOK, NoPath, IdSet
  <2>2. CASE AlreadyThere
    BY <2>2 DEF AlreadyThere, Return, query, TypeOK, Path
  <2>3. CASE Begin
    <3>1. queue' \in Seq(DOMAIN adj)
      BY <2>3 DEF Begin
    <3> QED
      BY <2>3, <3>1 DEF Begin, query, TypeOK
  <2>4. CASE Pop
    <3>1. queue \in Seq(DOMAIN adj) /\ queue # <<>>
      BY <2>4 DEF Pop, TypeOK
    <3>2. Head(queue) \in DOMAIN adj /\ Tail(queue) \in Seq(DOMAIN adj)
      BY <3>1
    <3> QED
      BY <2>4, <3>2, <2>g DEF Pop, query, TypeOK
  <2>5. CASE SkipSeen
    BY <2>5 DEF SkipSeen, InScan, query, TypeOK
  <2>6. CASE Discover
    <3>1. cur \in DOMAIN adj /\ Scanned \in DOMAIN adj
      BY <2>6, ScannedType DEF Discover
    <3>2. queue' \in Seq(DOMAIN adj)
      BY <2>6, <3>1 DEF Discover, TypeOK
    <3>3. DOMAIN prev' \subseteq DOMAIN adj /\ \A b \in DOMAIN prev' : prev'[b] \in DOMAIN adj
      BY <2>6, <3>1, ExtendType DEF Discover, TypeOK
    <3> QED
      BY <2>6, <3>1, <3>2, <3>3 DEF Discover, InScan, query, TypeOK
  <2>7. CASE Arrive
    <3>1. cur \in DOMAIN adj /\ Scanned \in DOMAIN adj
      BY <2>7, ScannedType DEF Arrive
    <3>2. DOMAIN prev' \subseteq DOMAIN adj /\ \A b \in DOMAIN prev' : prev'[b] \in DOMAIN adj
      BY <2>7, <3>1, ExtendType DEF Arrive, TypeOK
    <3> QED
      BY <2>7, <3>1, <3>2 DEF Arrive, InScan, Return, Path, query, TypeOK
  <2>8. CASE ScanDone
    BY <2>8 DEF ScanDone, query, TypeOK
  <2>9. CASE Exhausted
    BY <2>9 DEF Exhausted, Return, NoPath, IdSet, query, TypeOK
  <2>10. CASE UNCHANGED vars
    BY <2>10 DEF vars, query, TypeOK
  <2> QED
    BY <2>1, <2>2, <2>3, <2>4, <2>5, <2>6, <2>7, <2>8, <2>9, <2>10 DEF Next
<1> QED
  BY <1>1, <1>2, PTL DEF Spec

----------------------------------------------------------------------------
(* The invariant of the search: what was seen is out of reach of no closed
   set, and each of its nodes is still queued, is being scanned with the
   targets before edge already seen, or has all its targets seen.          *)

Queued(b)  == \E k \in DOMAIN queue : queue[k] = b
Settled(b) == Targets(b) \subseteq seen
HalfDone(b) ==
    /\ pc = "scan" /\ b = cur
    /\ \A k \in DOMAIN adj[cur] : k < edge => adj[cur][k] \in seen

SeenIsNeeded  == \A S \in SUBSET DOMAIN adj : ClosedFrom(from, S) => seen \subseteq S
SeenIsHandled == \A b \in seen : Queued(b) \/ HalfDone(b) \/ Settled(b)
QueueIsSeen   == \A k \in DOMAIN queue : queue[k] \in seen

Searching ==
    pc \in {"pop", "scan"} =>
        /\ from \in seen
        /\ SeenIsNeeded /\ SeenIsHandled /\ QueueIsSeen
        /\ pc = "scan" => cur \in seen
        /\ answer = NoAnswer

IInv == TypeOK /\ Searching /\ (pc = "start" => answer = NoAnswer) /\ ReachableIsLeastClosedSet

\* A graph and a query never change during a call.
LEMMA QueryFixed == ASSUME [Next]_vars PROVE UNCHANGED <<adj, kind, from, to>>
BY DEF Next, UnknownNode, AlreadyThere, Begin, Pop, SkipSeen, Discover, Arrive,
       ScanDone, Exhausted, Return, query, vars

\* A target that any closed set must hold may be added to what was seen.
LEMMA DiscoveredIsNeeded ==
    ASSUME SeenIsNeeded, TypeOK, InScan, cur \in seen
    PROVE  \A S \in SUBSET DOMAIN adj :
              ClosedFrom(from, S) => seen \cup {Scanned} \subseteq S
<1> SUFFICES ASSUME NEW S \in SUBSET DOMAIN adj, ClosedFrom(from, S)
             PROVE  seen \subseteq S /\ Scanned \in S
  OBVIOUS
<1>1. seen \subseteq S
  BY DEF SeenIsNeeded
<1>2. Targets(cur) \subseteq S
  BY <1>1 DEF ClosedFrom
<1>3. Scanned \in Targets(cur)
  BY ScannedType DEF Targets, Scanned
<1> QED
  BY <1>1, <1>2, <1>3

\* What becomes of a node that is queued or being scanned, step by step.
LEMMA PopMoves ==
    ASSUME TypeOK, Pop, NEW b, Queued(b)
    PROVE  Queued(b)' \/ HalfDone(b)'
<1>1. /\ pc' = "scan" /\ edge' = 1 /\ adj' = adj /\ seen' = seen
      /\ cur' = Head(queue) /\ queue' = Tail(queue)
      /\ queue \in Seq(DOMAIN adj) /\ queue # <<>>
  BY DEF Pop, TypeOK, query
<1>2. CASE b = cur'
  <2>1. \A k \in DOMAIN adj'[cur'] : ~(k < edge')
    <3>1. cur' \in DOMAIN adj /\ adj[cur'] \in Seq(DOMAIN adj)
      BY <1>1, GraphType
    <3> QED
      BY <3>1, <1>1
  <2> QED
    BY <1>1, <1>2, <2>1 DEF HalfDone
<1>3. CASE b # cur'
  <2>1. PICK k \in DOMAIN queue : queue[k] = b
    BY DEF Queued
  <2>2. k # 1
    BY <2>1, <1>3, <1>1
  <2>3. k - 1 \in DOMAIN Tail(queue) /\ Tail(queue)[k - 1] = b
    BY <2>1, <2>2, <1>1
  <2> QED
    BY <2>3, <1>1 DEF Queued
<1> QED
  BY <1>2, <1>3

LEMMA SkipMoves ==
    ASSUME TypeOK, SkipSeen, NEW b
    PROVE  (Queued(b) => Queued(b)') /\ (HalfDone(b) => HalfDone(b)')
<1>1. /\ pc = "scan" /\ pc' = pc /\ edge' = edge + 1 /\ seen' = seen /\ cur' = cur
      /\ queue' = queue /\ adj' = adj /\ Scanned \in seen /\ edge \in Nat
  BY DEF SkipSeen, InScan, TypeOK, query
<1>2. Queued(b) => Queued(b)'
  BY <1>1 DEF Queued
<1>3. ASSUME HalfDone(b) PROVE HalfDone(b)'
  <2>1. adj[cur] \in Seq(DOMAIN adj)
    BY ScannedType, GraphType DEF SkipSeen
  <2>2. ASSUME NEW k \in DOMAIN adj[cur], k < edge + 1 PROVE adj[cur][k] \in seen
    BY <1>1, <1>3, <2>1, <2>2 DEF HalfDone, Scanned
  <2> QED
    BY <1>1, <1>3, <2>2 DEF HalfDone
<1> QED
  BY <1>2, <1>3

LEMMA DiscoverMoves ==
    ASSUME TypeOK, Discover, NEW b
    PROVE  /\ Queued(b) => Queued(b)'
           /\ HalfDone(b) => HalfDone(b)'
           /\ b = Scanned => Queued(b)'
<1>1. /\ pc = "scan" /\ pc' = pc /\ edge' = edge + 1 /\ seen' = seen \cup {Scanned}
      /\ cur' = cur /\ queue' = Append(queue, Scanned) /\ adj' = adj
      /\ edge \in Nat /\ queue \in Seq(DOMAIN adj)
  BY DEF Discover, InScan, TypeOK, query
<1>2. Scanned \in DOMAIN adj /\ adj[cur] \in Seq(DOMAIN adj)
  BY ScannedType, GraphType DEF Discover
<1>3. ASSUME Queued(b) PROVE Queued(b)'
  <2>1. PICK k \in DOMAIN queue : queue[k] = b
    BY <1>3 DEF Queued
  <2>2. k \in DOMAIN Append(queue, Scanned) /\ Append(queue, Scanned)[k] = b
    BY <1>1, <1>2, <2>1
  <2> QED
    BY <1>1, <2>2 DEF Queued
<1>4. \E k \in DOMAIN queue' : queue'[k] = Scanned
  <2>1. /\ Len(queue) + 1 \in DOMAIN Append(queue, Scanned)
        /\ Append(queue, Scanned)[Len(queue) + 1] = Scanned
    BY <1>1, <1>2
  <2> QED
    BY <1>1, <2>1
<1>5. ASSUME HalfDone(b) PROVE HalfDone(b)'
  <2>1. ASSUME NEW k \in DOMAIN adj[cur], k < edge + 1
        PROVE  adj[cur][k] \in seen \cup {Scanned}
    BY <1>1, <1>2, <1>5, <2>1 DEF HalfDone, Scanned
  <2> QED
    BY <1>1, <1>5, <2>1 DEF HalfDone
<1> QED
  BY <1>3, <1>4, <1>5 DEF Queued

LEMMA ScanDoneMoves ==
    ASSUME TypeOK, ScanDone, NEW b
    PROVE  (Queued(b) => Queued(b)') /\ (HalfDone(b) => b = cur /\ Settled(b))
<1>1. /\ pc = "scan" /\ queue' = queue /\ edge \in Nat \ {0} /\ edge \notin DOMAIN adj[cur]
  BY DEF ScanDone, TypeOK
<1>2. adj[cur] \in Seq(DOMAIN adj)
  BY <1>1, GraphType DEF TypeOK
<1>3. \A k \in DOMAIN adj[cur] : k < edge
  BY <1>1, <1>2
<1> QED
  BY <1>1, <1>3 DEF Queued, HalfDone, Settled, Targets

\* Every state of a search satisfies the invariant.
LEMMA SearchInvariant == Spec => []IInv
<1>1. Init => IInv
  BY DEF Init, IInv, TypeOK, Searching, ReachableIsLeastClosedSet, NoAnswer
<1>2. IInv /\ TypeOK' /\ [Next]_vars => IInv'
  <2> SUFFICES ASSUME IInv, TypeOK', [Next]_vars
               PROVE  Searching' /\ (pc = "start" => answer = NoAnswer)'
                        /\ ReachableIsLeastClosedSet'
    BY DEF IInv
  <2> USE DEF IInv
  <2>q. UNCHANGED <<adj, kind, from, to>>
    BY QueryFixed
  <2>1. CASE UnknownNode
    BY <2>1, <2>q DEF UnknownNode, Return, Searching, ReachableIsLeastClosedSet, IdSet, NoPath
  <2>2. CASE AlreadyThere
    BY <2>2, <2>q DEF AlreadyThere, Return, Searching, ReachableIsLeastClosedSet, Path
  <2>3. CASE Begin
    <3>1. pc' = "pop" /\ seen' = {from} /\ queue' = <<from>> /\ answer' = NoAnswer
      BY <2>3 DEF Begin
    <3>2. Queued(from)'
      BY <3>1, <2>q DEF Queued
    <3>3. SeenIsNeeded'
      BY <3>1, <2>q DEF SeenIsNeeded, ClosedFrom
    <3> QED
      BY <3>1, <3>2, <3>3, <2>q
         DEF Searching, SeenIsHandled, QueueIsSeen, ReachableIsLeastClosedSet, NoAnswer
  <2>4. CASE Pop
    <3>1. /\ pc = "pop" /\ pc' = "scan" /\ edge' = 1 /\ seen' = seen
          /\ cur' = Head(queue) /\ queue' = Tail(queue) /\ answer' = answer
          /\ queue \in Seq(DOMAIN adj) /\ queue # <<>>
      BY <2>4 DEF Pop, TypeOK
    <3>2. SeenIsNeeded'
      BY <3>1, <2>q DEF Searching, SeenIsNeeded, ClosedFrom, Targets
    <3>3. cur' \in seen' /\ QueueIsSeen'
      BY <3>1 DEF Searching, QueueIsSeen
    <3>4. ASSUME NEW b \in seen PROVE Queued(b)' \/ HalfDone(b)' \/ Settled(b)'
      <4>1. Queued(b) \/ Settled(b)
        BY <3>1 DEF Searching, SeenIsHandled, HalfDone
      <4>2. CASE Settled(b)
        BY <4>2, <3>1, <2>q DEF Settled, Targets
      <4>3. CASE Queued(b)
        BY <2>4, <4>3, PopMoves
      <4> QED
        BY <4>1, <4>2, <4>3
    <3> QED
      BY <3>1, <3>2, <3>3, <3>4, <2>q
         DEF Searching, SeenIsHandled, ReachableIsLeastClosedSet, NoAnswer
  <2>5. CASE SkipSeen
    <3>1. /\ pc = "scan" /\ pc' = pc /\ edge' = edge + 1 /\ seen' = seen /\ cur' = cur
          /\ queue' = queue /\ answer' = answer /\ Scanned \in seen /\ edge \in Nat
      BY <2>5 DEF SkipSeen, InScan, TypeOK
    <3>2. SeenIsNeeded' /\ QueueIsSeen'
      BY <3>1, <2>q DEF Searching, SeenIsNeeded, QueueIsSeen, ClosedFrom, Targets
    <3>3. ASSUME NEW b \in seen PROVE Queued(b)' \/ HalfDone(b)' \/ Settled(b)'
      <4>1. CASE Settled(b)
        BY <4>1, <3>1, <2>q DEF Settled, Targets
      <4>2. CASE Queued(b) \/ HalfDone(b)
        BY <2>5, <4>2, SkipMoves
      <4> QED
        BY <4>1, <4>2, <3>1 DEF Searching, SeenIsHandled
    <3> QED
      BY <3>1, <3>2, <3>3, <2>q
         DEF Searching, SeenIsHandled, ReachableIsLeastClosedSet, NoAnswer
  <2>6. CASE Discover
    <3>1. /\ pc = "scan" /\ pc' = pc /\ edge' = edge + 1 /\ seen' = seen \cup {Scanned}
          /\ cur' = cur /\ queue' = Append(queue, Scanned) /\ answer' = answer
          /\ edge \in Nat /\ queue \in Seq(DOMAIN adj) /\ InScan
      BY <2>6 DEF Discover, InScan, TypeOK
    <3>s. Scanned \in DOMAIN adj /\ cur \in DOMAIN adj
      BY <3>1, ScannedType
    <3>2. SeenIsNeeded'
      BY <3>1, <2>q, DiscoveredIsNeeded DEF Searching, SeenIsNeeded, ClosedFrom, Targets
    <3>3. QueueIsSeen'
      BY <3>1, <3>s DEF Searching, QueueIsSeen
    <3>4. ASSUME NEW b \in seen' PROVE Queued(b)' \/ HalfDone(b)' \/ Settled(b)'
      <4>1. CASE b \in seen /\ Settled(b)
        BY <4>1, <3>1, <2>q DEF Settled, Targets
      <4>2. CASE b = Scanned \/ Queued(b) \/ HalfDone(b)
        BY <2>6, <4>2, DiscoverMoves
      <4> QED
        BY <4>1, <4>2, <3>1 DEF Searching, SeenIsHandled
    <3> QED
      BY <3>1, <3>2, <3>3, <3>4, <2>q
         DEF Searching, SeenIsHandled, ReachableIsLeastClosedSet, NoAnswer
  <2>7. CASE Arrive
    BY <2>7, <2>q DEF Arrive, Return, Searching, ReachableIsLeastClosedSet
  <2>8. CASE ScanDone
    <3>1. /\ pc = "scan" /\ pc' = "pop" /\ seen' = seen /\ queue' = queue
          /\ answer' = answer /\ edge \in Nat \ {0} /\ edge \notin DOMAIN adj[cur]
      BY <2>8 DEF ScanDone, TypeOK
    <3>2. SeenIsNeeded' /\ QueueIsSeen'
      BY <3>1, <2>q DEF Searching, SeenIsNeeded, QueueIsSeen, ClosedFrom, Targets
    <3>3. ASSUME NEW b \in seen PROVE Queued(b)' \/ HalfDone(b)' \/ Settled(b)'
      <4>1. Queued(b)' \/ Settled(b)
        BY <2>8, <3>1, ScanDoneMoves DEF Searching, SeenIsHandled
      <4> QED
        BY <4>1, <3>1, <2>q DEF Settled, Targets
    <3> QED
      BY <3>1, <3>2, <3>3, <2>q
         DEF Searching, SeenIsHandled, ReachableIsLeastClosedSet, NoAnswer
  <2>9. CASE Exhausted
    <3>1. pc = "pop" /\ queue = <<>> /\ pc' = "done"
      BY <2>9 DEF Exhausted, Return
    <3>2. CASE kind = "path"
      BY <3>1, <3>2, <2>q DEF Searching, ReachableIsLeastClosedSet
    <3>3. CASE kind = "reachable"
      <4>1. answer' = IdSet(seen)
        BY <2>9, <3>3 DEF Exhausted, Return
      <4>2. ASSUME NEW b \in seen PROVE Targets(b) \subseteq seen
        BY <3>1 DEF Searching, SeenIsHandled, Queued, HalfDone, Settled
      <4>3. ClosedFrom(from, seen)
        BY <3>1, <4>2 DEF Searching, ClosedFrom
      <4>4. SeenIsNeeded /\ from \in DOMAIN adj
        BY <3>1 DEF Searching, TypeOK
      <4>5. ReachableIsLeastClosedSet'
        BY <4>1, <4>3, <4>4, <3>3, <2>q
           DEF ReachableIsLeastClosedSet, IdSet, SeenIsNeeded, ClosedFrom, Targets
      <4> QED
        BY <3>1, <4>5 DEF Searching
    <3> QED
      BY <3>2, <3>3 DEF TypeOK
  <2>10. CASE UNCHANGED vars
    BY <2>10, <2>q DEF vars, query, Searching, SeenIsNeeded, SeenIsHandled, QueueIsSeen,
       Queued, HalfDone, Settled, ClosedFrom, Targets, ReachableIsLeastClosedSet
  <2> QED
    BY <2>1, <2>2, <2>3, <2>4, <2>5, <2>6, <2>7, <2>8, <2>9, <2>10 DEF Next
<1> QED
  BY <1>1, <1>2, TypeCorrect, PTL DEF Spec

\* reachable returns exactly the nodes every closed set around the start must
\* hold, on every graph.
THEOREM ReachableIsExact == Spec => []ReachableIsLeastClosedSet
<1>1. IInv => ReachableIsLeastClosedSet
  BY DEF IInv
<1> QED
  BY <1>1, SearchInvariant, PTL

----------------------------------------------------------------------------
(* shortest_path: what is seen lies in levels, one edge apart *)

\* The number of nodes on the way back from b to the start.
BackLevels(lev) ==
    /\ DOMAIN prev \subseteq seen /\ lev[from] = 1
    /\ \A b \in seen \ {from} :
         /\ b \in DOMAIN prev /\ prev[b] \in seen
         /\ b \in Targets(prev[b]) /\ lev[b] = lev[prev[b]] + 1

\* The level the search is at.
Ahead(lev) == IF pc = "scan" THEN lev[cur] ELSE lev[queue[1]]

\* The queue is in the order of the levels, and spans one level and the next.
QueueLevels(lev) ==
    /\ \A i, j \in DOMAIN queue : i <= j => lev[queue[i]] <= lev[queue[j]]
    /\ pc = "scan" => \A i \in DOMAIN queue : lev[cur] <= lev[queue[i]]
    /\ pc = "scan" \/ queue # <<>> => \A b \in seen : lev[b] <= Ahead(lev) + 1

\* No edge of a node that is done with skips a level.
TargetLevels(lev) ==
    \A b \in seen : \/ Queued(b) \/ HalfDone(b)
                    \/ \A c \in Targets(b) : c \in seen /\ lev[c] <= lev[b] + 1

Levels(lev) == BackLevels(lev) /\ QueueLevels(lev) /\ TargetLevels(lev)

Levelled ==
    (kind = "path" /\ pc \in {"pop", "scan"}) =>
        /\ to \in DOMAIN adj /\ to \notin seen
        /\ \E lev \in [seen -> Nat] : Levels(lev)

\* A walk is a sequence as long as its domain.
LEMMA WalkLength ==
    ASSUME NEW m \in Nat, NEW S, NEW p \in [1..m -> S]
    PROVE  p \in Seq(S) /\ Len(p) = m
<1>1. p \in Seq(S)
  BY SeqDef
<1> QED
  BY <1>1, LenProperties

\* Walks from the start do not leave a set that holds it and all its targets.
LEMMA WalkStays ==
    ASSUME NEW S, from \in S, \A b \in S : Targets(b) \subseteq S,
           NEW b, NEW m \in Nat \ {0}, NEW p \in Walks(from, b, m)
    PROVE  b \in S
<1> DEFINE T == {k \in 1..m : p[k] \in S}
<1>1. p \in [1..m -> DOMAIN adj] /\ p[1] = from /\ p[m] = b /\ Edges(p)
  BY DEF Walks
<1>2. Len(p) = m
  BY <1>1, WalkLength
<1>3. \A k \in 1..(m - 1) : p[k + 1] \in Targets(p[k])
  BY <1>1, <1>2 DEF Edges
<1>4. 1 \in T
  BY <1>1
<1>5. \A k \in 1..(m - 1) : k \in T => k + 1 \in T
  BY <1>3
<1> HIDE DEF T
<1>6. \A k \in 1..m : k \in T
  BY <1>4, <1>5, RangeInduction
<1> QED
  BY <1>1, <1>6 DEF T

\* Everything up to the level of the search is seen, at its distance or nearer.
LEMMA NearIsSeen ==
    ASSUME pc = "scan", from \in seen, NEW lev \in [seen -> Nat], Levels(lev), cur \in seen,
           QueueIsSeen, NEW m \in Nat \ {0}, m <= lev[cur], NEW b, NEW p \in Walks(from, b, m)
    PROVE  b \in seen
<1> DEFINE T == {k \in 1..m : p[k] \in seen /\ lev[p[k]] <= k}
<1>1. p \in [1..m -> DOMAIN adj] /\ p[1] = from /\ p[m] = b /\ Edges(p)
  BY DEF Walks
<1>2. Len(p) = m
  BY <1>1, WalkLength
<1>3. \A k \in 1..(m - 1) : p[k + 1] \in Targets(p[k])
  BY <1>1, <1>2 DEF Edges
<1>4. 1 \in T
  BY <1>1 DEF Levels, BackLevels
<1>5. ASSUME NEW k \in 1..(m - 1), k \in T PROVE k + 1 \in T
  <2>1. p[k] \in seen /\ lev[p[k]] \in Nat /\ lev[p[k]] <= k /\ k < lev[cur] /\ lev[cur] \in Nat
    BY <1>5
  <2>2. ~HalfDone(p[k])
    BY <2>1 DEF HalfDone
  <2>3. ~Queued(p[k])
    BY <2>1 DEF Queued, Levels, QueueLevels
  <2>4. \A c \in Targets(p[k]) : c \in seen /\ lev[c] <= lev[p[k]] + 1
    BY <2>1, <2>2, <2>3 DEF Levels, TargetLevels
  <2>5. p[k + 1] \in seen /\ lev[p[k + 1]] <= lev[p[k]] + 1 /\ lev[p[k + 1]] \in Nat
    BY <1>3, <2>4
  <2> QED
    BY <2>1, <2>5
<1> HIDE DEF T
<1>6. \A k \in 1..m : k \in T
  BY <1>4, <1>5, RangeInduction
<1> QED
  BY <1>1, <1>6 DEF T

----------------------------------------------------------------------------
(* reconstruct_path *)

IsBase(back, start, n) == n = start \/ n \notin DOMAIN back

\* The paths the function pathTo of Reconstruct holds.
PathsBack(f, back, start) ==
    f = [n \in DOMAIN adj |->
           IF IsBase(back, start, n) THEN <<n>> ELSE Append(f[back[n]], n)]

\* Following prev comes to an end as long as it goes down: there are such paths.
LEMMA PathsBackExist ==
    ASSUME NEW back, NEW start, NEW top \in Nat, NEW rank \in [DOMAIN adj -> 0..top],
           \A n \in DOMAIN adj :
              ~IsBase(back, start, n) =>
                 back[n] \in DOMAIN adj /\ rank[back[n]] < rank[n]
    PROVE  \E f : PathsBack(f, back, start)
<1> DEFINE Below(l) == {n \in DOMAIN adj : rank[n] <= l}
           Upto(f, l) ==
             f = [n \in Below(l) |->
                    IF IsBase(back, start, n) THEN <<n>> ELSE Append(f[back[n]], n)]
           T == {l \in 0..top : \E f : Upto(f, l)}
<1>1. 0 \in T
  <2> DEFINE f == [n \in Below(0) |-> <<n>>]
  <2>1. \A n \in Below(0) : IsBase(back, start, n)
    OBVIOUS
  <2>2. Upto(f, 0)
    BY <2>1
  <2>3. 0 \in 0..top
    OBVIOUS
  <2> HIDE DEF f, Upto
  <2> QED
    BY <2>2, <2>3
<1>2. ASSUME NEW l \in 0..(top - 1), l \in T PROVE l + 1 \in T
  <2>1. PICK g : Upto(g, l)
    <3> HIDE DEF Upto
    <3> QED
      BY <1>2
  <2> DEFINE f == [n \in Below(l + 1) |->
                     IF IsBase(back, start, n) THEN <<n>> ELSE Append(g[back[n]], n)]
  <2>2. Below(l) \subseteq Below(l + 1)
    OBVIOUS
  <2>3. \A n \in Below(l + 1) : ~IsBase(back, start, n) => back[n] \in Below(l)
    OBVIOUS
  <2>4. \A n \in Below(l) : f[n] = g[n]
    <3> HIDE DEF Below
    <3> QED
      BY <2>1, <2>2
  <2>5. Upto(f, l + 1)
    <3> HIDE DEF Below
    <3> QED
      BY <2>3, <2>4
  <2>6. l + 1 \in 0..top
    OBVIOUS
  <2> HIDE DEF f, Upto
  <2> QED
    BY <2>5, <2>6
<1> HIDE DEF T
<1>3. \A l \in 0..top : l \in T
  BY <1>1, <1>2, RangeInduction
<1>4. PICK f : Upto(f, top)
  <2>1. top \in T
    BY <1>3
  <2> HIDE DEF Upto
  <2> QED
    BY <2>1 DEF T
<1>5. Below(top) = DOMAIN adj
  OBVIOUS
<1> QED
  BY <1>4, <1>5 DEF PathsBack

\* Reconstruct follows them.
LEMMA ReconstructFollows ==
    ASSUME NEW back, NEW start, NEW goal, \E f : PathsBack(f, back, start)
    PROVE  \E f : PathsBack(f, back, start) /\ Reconstruct(back, start, goal) = f[goal]
<1>1. Reconstruct(back, start, goal) = (CHOOSE f : PathsBack(f, back, start))[goal]
  BY DEF Reconstruct, PathsBack, IsBase
<1>2. PathsBack(CHOOSE f : PathsBack(f, back, start), back, start)
  BY Zenon
<1> QED
  BY <1>1, <1>2
\* One edge more makes a walk a node longer.
LEMMA WalkExtends ==
    ASSUME NEW a, NEW b \in DOMAIN adj, NEW c, NEW n \in Nat \ {0},
           NEW p \in Walks(a, c, n), b \in Targets(c)
    PROVE  Append(p, b) \in Walks(a, b, n + 1)
<1> DEFINE q == Append(p, b)
<1>1. p \in [1..n -> DOMAIN adj] /\ p[1] = a /\ p[n] = c /\ Edges(p)
  BY DEF Walks
<1>2. p \in Seq(DOMAIN adj) /\ Len(p) = n
  BY <1>1, WalkLength
<1>3. q \in Seq(DOMAIN adj) /\ Len(q) = n + 1 /\ q[n + 1] = b /\ \A k \in 1..n : q[k] = p[k]
  BY <1>2
<1> HIDE DEF q
<1>4. q \in [1..(n + 1) -> DOMAIN adj]
  BY <1>3
<1>5. \A k \in 1..n : q[k + 1] \in Targets(q[k])
  <2> SUFFICES ASSUME NEW k \in 1..n PROVE q[k + 1] \in Targets(q[k])
    OBVIOUS
  <2>1. CASE k = n
    BY <1>1, <1>3, <2>1
  <2>2. CASE k < n
    <3>1. k \in 1..(n - 1) /\ k + 1 \in 1..n
      BY <2>2
    <3> QED
      BY <1>1, <1>2, <1>3, <3>1 DEF Edges
  <2> QED
    BY <2>1, <2>2
<1>6. Edges(q)
  BY <1>3, <1>5 DEF Edges
<1>7. q[1] = a
  BY <1>1, <1>3
<1> QED
  BY <1>3, <1>4, <1>6, <1>7 DEF Walks, q

\* Following prev back from a node gives a walk to it as long as its level.
LEMMA BackIsAWalk ==
    ASSUME NEW back, NEW S \in SUBSET DOMAIN adj, from \in S, NEW lev \in [S -> Nat],
           lev[from] = 1,
           \A b \in S \ {from} : /\ b \in DOMAIN back /\ back[b] \in S
                                 /\ b \in Targets(back[b]) /\ lev[b] = lev[back[b]] + 1,
           NEW f, PathsBack(f, back, from)
    PROVE  \A b \in S : lev[b] >= 1 /\ f[b] \in Walks(from, b, lev[b])
<1> DEFINE Good(b) == lev[b] >= 1 /\ f[b] \in Walks(from, b, lev[b])
           T == {l \in Nat : \E b \in S : lev[b] = l /\ ~Good(b)}
<1>1. SUFFICES ASSUME T # {} PROVE FALSE
  <2> HIDE DEF Good
  <2>1. \A b \in S : lev[b] \in Nat
    OBVIOUS
  <2>2. T = {} => \A b \in S : Good(b)
    BY <2>1
  <2> QED
    BY <2>2 DEF Good
<1>2. PICK l \in T : \A k \in T : l <= k
  <2>1. T \in SUBSET Nat
    OBVIOUS
  <2> HIDE DEF T
  <2> QED
    BY <1>1, <2>1, LeastNatural
<1>3. PICK b \in S : lev[b] = l /\ ~Good(b)
  OBVIOUS
<1>4. \A n \in DOMAIN adj :
        f[n] = IF n = from \/ n \notin DOMAIN back THEN <<n>> ELSE Append(f[back[n]], n)
  BY DEF PathsBack, IsBase
<1>5. b # from
  <2> SUFFICES ASSUME b = from PROVE FALSE
    OBVIOUS
  <2> DEFINE p == <<from>>
  <2>1. f[from] = p
    BY <1>4
  <2>2. p \in [1..1 -> DOMAIN adj] /\ p[1] = from /\ Len(p) = 1
    OBVIOUS
  <2> HIDE DEF p
  <2>3. Edges(p)
    <3>1. 1..(Len(p) - 1) = {}
      BY <2>2
    <3> QED
      BY <3>1 DEF Edges
  <2>4. p \in Walks(from, from, 1)
    BY <2>2, <2>3 DEF Walks
  <2> QED
    BY <1>3, <2>1, <2>4
<1>6. /\ b \in DOMAIN back /\ back[b] \in S /\ b \in Targets(back[b])
      /\ lev[b] = lev[back[b]] + 1 /\ lev[back[b]] \in Nat
  BY <1>5
<1>7. Good(back[b])
  <2>1. lev[back[b]] \notin T
    BY <1>2, <1>3, <1>6
  <2> HIDE DEF Good
  <2> QED
    BY <1>6, <2>1
<1>8. f[b] = Append(f[back[b]], b)
  BY <1>4, <1>5, <1>6
<1>9. f[b] \in Walks(from, b, lev[b])
  BY <1>6, <1>7, <1>8, WalkExtends
<1> QED
  BY <1>3, <1>6, <1>7, <1>9

\* The path that is returned when the goal is met is one node longer than the
\* level of the node it is met from.
LEMMA ArriveReturnsAWalk ==
    ASSUME TypeOK, Searching, Arrive, NEW lev \in [seen -> Nat], Levels(lev)
    PROVE  answer'.path \in Walks(from, to, lev[cur] + 1)
<1> DEFINE back == Extend(prev, to, cur)
           S    == seen \cup {to}
           nlev == Extend(lev, to, lev[cur] + 1)
           rank == [n \in DOMAIN adj |-> IF n \in S THEN nlev[n] ELSE 0]
           top  == lev[cur] + 1
<1>1. /\ pc = "scan" /\ cur \in seen /\ from \in seen /\ seen \subseteq DOMAIN adj
      /\ to \in DOMAIN adj /\ to \notin seen /\ to \in Targets(cur)
  <2>1. InScan /\ Scanned = to /\ Scanned \notin seen
    BY DEF Arrive
  <2>2. Scanned \in Targets(cur)
    BY <2>1, ScannedType DEF Targets, Scanned
  <2> QED
    BY <2>1, <2>2, ScannedType DEF InScan, Searching, TypeOK
<1>2. /\ DOMAIN prev \subseteq seen /\ lev[from] = 1
      /\ \A b \in seen \ {from} :
           /\ b \in DOMAIN prev /\ prev[b] \in seen
           /\ b \in Targets(prev[b]) /\ lev[b] = lev[prev[b]] + 1
      /\ \A b \in seen : lev[b] <= top
  BY <1>1 DEF Levels, BackLevels, QueueLevels, Ahead
<1>3. /\ DOMAIN back = DOMAIN prev \cup {to}
      /\ back[to] = cur /\ \A b \in DOMAIN prev : b # to => back[b] = prev[b]
  BY DEF Extend
<1>4. /\ nlev \in [S -> Nat] /\ nlev[to] = lev[cur] + 1
      /\ \A b \in seen : nlev[b] = lev[b]
  BY <1>1 DEF Extend
<1> HIDE DEF back, nlev
<1>5. S \in SUBSET DOMAIN adj /\ from \in S /\ nlev[from] = 1
  BY <1>1, <1>2, <1>4
<1>6. \A b \in S \ {from} : /\ b \in DOMAIN back /\ back[b] \in S
                            /\ b \in Targets(back[b]) /\ nlev[b] = nlev[back[b]] + 1
  <2> SUFFICES ASSUME NEW b \in S \ {from}
               PROVE  /\ b \in DOMAIN back /\ back[b] \in S
                      /\ b \in Targets(back[b]) /\ nlev[b] = nlev[back[b]] + 1
    OBVIOUS
  <2>1. CASE b = to
    BY <1>1, <1>3, <1>4, <2>1
  <2>2. CASE b # to
    <3>1. b \in seen \ {from} /\ b \in DOMAIN prev /\ prev[b] \in seen
      BY <1>2, <2>2
    <3> QED
      BY <1>2, <1>3, <1>4, <2>2, <3>1
  <2> QED
    BY <2>1, <2>2
<1>7. rank \in [DOMAIN adj -> 0..top] /\ top \in Nat
  <2>1. top \in Nat
    BY <1>1
  <2>2. \A b \in S : nlev[b] \in 0..top
    BY <1>1, <1>2, <1>4, <2>1
  <2> QED
    BY <2>1, <2>2
<1>8. \A n \in DOMAIN adj :
        ~IsBase(back, from, n) => back[n] \in DOMAIN adj /\ rank[back[n]] < rank[n]
  <2> SUFFICES ASSUME NEW n \in DOMAIN adj, ~IsBase(back, from, n)
               PROVE  back[n] \in DOMAIN adj /\ rank[back[n]] < rank[n]
    OBVIOUS
  <2>1. n \in S \ {from}
    BY <1>2, <1>3 DEF IsBase
  <2>2. back[n] \in S /\ nlev[n] = nlev[back[n]] + 1 /\ nlev[back[n]] \in Nat
    BY <1>4, <1>6, <2>1
  <2>3. rank[n] = nlev[n] /\ rank[back[n]] = nlev[back[n]]
    BY <1>5, <2>1, <2>2
  <2> QED
    BY <1>5, <2>2, <2>3
<1> HIDE DEF rank, top, S
<1>9. PICK f : PathsBack(f, back, from) /\ Reconstruct(back, from, to) = f[to]
  BY <1>7, <1>8, PathsBackExist, ReconstructFollows
<1>10. f[to] \in Walks(from, to, nlev[to])
  <2>1. to \in S
    BY DEF S
  <2> QED
    BY <1>4, <1>5, <1>6, <1>9, <2>1, BackIsAWalk
<1>11. answer'.path = Reconstruct(back, from, to)
  BY DEF Arrive, Return, Path, back
<1> QED
  BY <1>4, <1>9, <1>10, <1>11
----------------------------------------------------------------------------
(* The levels are kept, step by step *)

PathInv == Levelled /\ (pc = "start" => prev = <<>>) /\ PathIsShortest

\* The levels speak of what was seen and prev, not of the queue.
LEMMA BackLevelsKept ==
    ASSUME UNCHANGED <<adj, from, seen, prev>>, NEW lev, BackLevels(lev)
    PROVE  BackLevels(lev)'
BY DEF BackLevels, Targets

LEMMA BeginLevels ==
    ASSUME TypeOK, Begin, PathInv
    PROVE  Levelled'
<1> SUFFICES ASSUME kind = "path"
             PROVE  /\ to \in DOMAIN adj /\ to \notin seen'
                    /\ \E lev \in [seen' -> Nat] : Levels(lev)'
  BY DEF Levelled, Begin, query
<1>a. PICK lev : lev = [b \in {from} |-> 1]
  OBVIOUS
<1>1. /\ pc = "start" /\ pc' = "pop" /\ queue' = <<from>> /\ seen' = {from}
      /\ UNCHANGED <<adj, from, prev>> /\ DOMAIN prev = {}
      /\ to \in DOMAIN adj \ {from}
  BY DEF Begin, query, PathInv
<1>2. lev \in [seen' -> Nat] /\ lev[from] = 1
  BY <1>1, <1>a
<1>3. DOMAIN queue' = {1} /\ queue'[1] = from
  BY <1>1
<1>4. BackLevels(lev)' /\ QueueLevels(lev)' /\ TargetLevels(lev)'
  BY <1>1, <1>2, <1>3 DEF BackLevels, QueueLevels, TargetLevels, Ahead, Queued
<1> QED
  BY <1>1, <1>2, <1>4 DEF Levels

LEMMA PopLevels ==
    ASSUME TypeOK, Searching, Pop, NEW lev \in [seen -> Nat], Levels(lev)
    PROVE  Levels(lev)'
<1>1. /\ pc = "pop" /\ pc' = "scan" /\ cur' = queue[1] /\ queue' = Tail(queue)
      /\ UNCHANGED <<adj, from, seen, prev>>
      /\ queue \in Seq(DOMAIN adj) /\ queue # <<>>
  BY DEF Pop, TypeOK, query
<1>2. \A i \in DOMAIN queue' :
        queue'[i] = queue[i + 1] /\ i + 1 \in DOMAIN queue /\ i \in Nat /\ 1 <= i
  BY <1>1
<1>3. 1 \in DOMAIN queue /\ DOMAIN queue \subseteq Nat
  BY <1>1
<1>4. QueueLevels(lev)'
  <2>1. \A i, j \in DOMAIN queue' : i <= j => lev[queue'[i]] <= lev[queue'[j]]
    BY <1>2, <1>3 DEF Levels, QueueLevels
  <2>2. \A i \in DOMAIN queue' : lev[cur'] <= lev[queue'[i]]
    BY <1>1, <1>2, <1>3 DEF Levels, QueueLevels
  <2>3. \A b \in seen' : lev[b] <= lev[cur'] + 1
    BY <1>1 DEF Levels, QueueLevels, Ahead
  <2> QED
    BY <1>1, <2>1, <2>2, <2>3 DEF QueueLevels, Ahead
<1>5. TargetLevels(lev)'
  <2> SUFFICES ASSUME NEW b \in seen
               PROVE  \/ Queued(b)' \/ HalfDone(b)'
                      \/ \A c \in Targets(b) : c \in seen /\ lev[c] <= lev[b] + 1
    BY <1>1 DEF TargetLevels, Targets
  <2>1. ~HalfDone(b)
    BY <1>1 DEF HalfDone
  <2> QED
    BY <2>1, PopMoves DEF Levels, TargetLevels
<1> QED
  BY <1>1, <1>4, <1>5, BackLevelsKept DEF Levels

LEMMA SkipLevels ==
    ASSUME TypeOK, SkipSeen, NEW lev \in [seen -> Nat], Levels(lev)
    PROVE  Levels(lev)'
<1>1. pc = "scan" /\ UNCHANGED <<adj, from, seen, prev, pc, queue, cur>>
  BY DEF SkipSeen, InScan, query
<1>2. QueueLevels(lev)'
  BY <1>1 DEF Levels, QueueLevels, Ahead
<1>3. TargetLevels(lev)'
  <2> SUFFICES ASSUME NEW b \in seen
               PROVE  \/ Queued(b)' \/ HalfDone(b)'
                      \/ \A c \in Targets(b) : c \in seen /\ lev[c] <= lev[b] + 1
    BY <1>1 DEF TargetLevels, Targets
  <2> QED
    BY SkipMoves DEF Levels, TargetLevels
<1> QED
  BY <1>1, <1>2, <1>3, BackLevelsKept DEF Levels

LEMMA ScanDoneLevels ==
    ASSUME TypeOK, Searching, ScanDone, NEW lev \in [seen -> Nat], Levels(lev)
    PROVE  Levels(lev)'
<1>1. /\ pc = "scan" /\ pc' = "pop" /\ UNCHANGED <<adj, from, seen, prev, queue, cur>>
      /\ cur \in seen /\ queue \in Seq(DOMAIN adj) /\ QueueIsSeen
  BY DEF ScanDone, query, Searching, TypeOK
<1>2. \A b \in seen : lev[b] \in Nat /\ lev[b] <= lev[cur] + 1
  BY <1>1 DEF Levels, QueueLevels, Ahead
<1>3. QueueLevels(lev)'
  <2>1. ASSUME queue # <<>>, NEW b \in seen PROVE lev[b] <= lev[queue[1]] + 1
    <3>1. 1 \in DOMAIN queue
      BY <1>1, <2>1
    <3>2. queue[1] \in seen /\ lev[cur] <= lev[queue[1]]
      BY <1>1, <3>1 DEF Levels, QueueLevels, QueueIsSeen
    <3> QED
      BY <1>1, <1>2, <3>2
  <2>2. \A i, j \in DOMAIN queue : i <= j => lev[queue[i]] <= lev[queue[j]]
    BY DEF Levels, QueueLevels
  <2> QED
    BY <1>1, <2>1, <2>2 DEF QueueLevels, Ahead
<1>4. TargetLevels(lev)'
  <2> SUFFICES ASSUME NEW b \in seen
               PROVE  \/ Queued(b)' \/ HalfDone(b)'
                      \/ \A c \in Targets(b) : c \in seen /\ lev[c] <= lev[b] + 1
    BY <1>1 DEF TargetLevels, Targets
  <2>1. CASE HalfDone(b)
    BY <1>2, <2>1, ScanDoneMoves DEF Settled
  <2>2. CASE ~HalfDone(b)
    BY <2>2, ScanDoneMoves DEF Levels, TargetLevels
  <2> QED
    BY <2>1, <2>2
<1> QED
  BY <1>1, <1>3, <1>4, BackLevelsKept DEF Levels

\* A node that is met for the first time is one level behind the scanned node.
LEMMA DiscoverLevels ==
    ASSUME TypeOK, Searching, Discover, kind = "path", NEW lev \in [seen -> Nat], Levels(lev)
    PROVE  \E nlev \in [seen' -> Nat] : Levels(nlev)'
<1>a. PICK x : x = Scanned
  OBVIOUS
<1>b. PICK nlev : nlev = Extend(lev, x, lev[cur] + 1)
  OBVIOUS
<1>1. /\ pc = "scan" /\ x \notin seen /\ seen' = seen \cup {x} /\ prev' = Extend(prev, x, cur)
      /\ queue' = Append(queue, x) /\ UNCHANGED <<adj, from, pc, cur>>
      /\ cur \in seen /\ from \in seen /\ queue \in Seq(DOMAIN adj) /\ QueueIsSeen
  BY <1>a DEF Discover, InScan, query, Searching, TypeOK
<1>2. x \in DOMAIN adj /\ x \in Targets(cur)
  BY <1>a, ScannedType DEF Discover, Targets, Scanned
<1>3. /\ nlev \in [seen' -> Nat] /\ nlev[x] = lev[cur] + 1
      /\ \A b \in seen : nlev[b] = lev[b] /\ lev[b] \in Nat
  BY <1>1, <1>b DEF Extend
<1>4. /\ DOMAIN prev' = DOMAIN prev \cup {x} /\ prev'[x] = cur
      /\ \A b \in DOMAIN prev : b # x => prev'[b] = prev[b]
  BY <1>1 DEF Extend
<1>5. /\ DOMAIN prev \subseteq seen /\ lev[from] = 1
      /\ \A b \in seen \ {from} :
           /\ b \in DOMAIN prev /\ prev[b] \in seen
           /\ b \in Targets(prev[b]) /\ lev[b] = lev[prev[b]] + 1
      /\ \A b \in seen : lev[b] <= lev[cur] + 1
  BY <1>1 DEF Levels, BackLevels, QueueLevels, Ahead
<1>6. \A b : Targets(b)' = Targets(b)
  BY <1>1 DEF Targets
<1>7. BackLevels(nlev)'
  <2> SUFFICES ASSUME NEW b \in seen' \ {from}
               PROVE  /\ b \in DOMAIN prev' /\ prev'[b] \in seen'
                      /\ b \in Targets(prev'[b]) /\ nlev[b] = nlev[prev'[b]] + 1
    BY <1>1, <1>3, <1>4, <1>5 DEF BackLevels, Targets
  <2>1. CASE b = x
    BY <1>1, <1>2, <1>3, <1>4, <2>1
  <2>2. CASE b # x
    BY <1>1, <1>3, <1>4, <1>5, <2>2
  <2> QED
    BY <2>1, <2>2
<1>8. /\ DOMAIN queue' = DOMAIN queue \cup {Len(queue) + 1} /\ queue'[Len(queue) + 1] = x
      /\ \A i \in DOMAIN queue : queue'[i] = queue[i] /\ queue[i] \in seen
      /\ \A i \in DOMAIN queue : i \in Nat /\ i <= Len(queue)
      /\ Len(queue) \in Nat
  BY <1>1, <1>2 DEF QueueIsSeen
<1>9. QueueLevels(nlev)'
  <2>1. \A i \in DOMAIN queue : nlev[queue'[i]] = lev[queue[i]]
    BY <1>3, <1>8
  <2>2. \A i \in DOMAIN queue : lev[cur] <= lev[queue[i]] /\ lev[queue[i]] <= lev[cur] + 1
    BY <1>1, <1>5, <1>8 DEF Levels, QueueLevels
  <2>3. nlev[queue'[Len(queue) + 1]] = lev[cur] + 1 /\ nlev[cur] = lev[cur] /\ lev[cur] \in Nat
    BY <1>1, <1>3, <1>8
  <2>4. \A i, j \in DOMAIN queue : i <= j => lev[queue[i]] <= lev[queue[j]]
    BY DEF Levels, QueueLevels
  <2>5. \A i, j \in DOMAIN queue' : i <= j => nlev[queue'[i]] <= nlev[queue'[j]]
    BY <1>8, <2>1, <2>2, <2>3, <2>4
  <2>6. \A i \in DOMAIN queue' : nlev[cur] <= nlev[queue'[i]]
    BY <1>8, <2>1, <2>2, <2>3
  <2>7. \A b \in seen' : nlev[b] <= nlev[cur] + 1
    BY <1>1, <1>3, <1>5, <2>3
  <2> QED
    BY <1>1, <2>5, <2>6, <2>7 DEF QueueLevels, Ahead
<1>10. TargetLevels(nlev)'
  <2> SUFFICES ASSUME NEW b \in seen'
               PROVE  \/ Queued(b)' \/ HalfDone(b)'
                      \/ \A c \in Targets(b) : c \in seen' /\ nlev[c] <= nlev[b] + 1
    BY <1>1 DEF TargetLevels, Targets
  <2>1. CASE b = x
    BY <1>a, <2>1, DiscoverMoves
  <2>2. CASE b \in seen
    BY <1>1, <1>3, <2>2, DiscoverMoves DEF Levels, TargetLevels
  <2> QED
    BY <1>1, <2>1, <2>2
<1> QED
  BY <1>3, <1>7, <1>9, <1>10 DEF Levels
----------------------------------------------------------------------------
(* What shortest_path returns *)

\* A start or a goal the graph lacks is on no walk.
LEMMA NoWalkToNowhere ==
    ASSUME NEW a, NEW b, NEW m \in Nat \ {0}, Walks(a, b, m) # {}
    PROVE  a \in DOMAIN adj /\ b \in DOMAIN adj
<1>1. PICK p \in Walks(a, b, m) : TRUE
  OBVIOUS
<1>2. p \in [1..m -> DOMAIN adj] /\ p[1] = a /\ p[m] = b /\ 1 \in 1..m /\ m \in 1..m
  BY DEF Walks
<1> QED
  BY <1>2

LEMMA ArrivesOnAShortestPath ==
    ASSUME IInv, Levelled, Arrive
    PROVE  PathIsShortest'
<1>1. /\ pc = "scan" /\ kind = "path" /\ Scanned \notin seen /\ Scanned = to
      /\ cur \in seen /\ from \in seen /\ QueueIsSeen /\ TypeOK /\ Searching
  BY DEF Arrive, InScan, IInv, Searching
<1>2. PICK lev \in [seen -> Nat] : Levels(lev)
  BY <1>1 DEF Levelled
<1>3. answer'.path \in Walks(from, to, lev[cur] + 1)
  BY <1>1, <1>2, ArriveReturnsAWalk
<1>4. lev[cur] \in Nat
  BY <1>1, <1>2
<1>5. Len(answer'.path) = lev[cur] + 1
  BY <1>3, <1>4, WalkLength DEF Walks
<1>6. ASSUME NEW m \in 1..lev[cur] PROVE Walks(from, to, m) = {}
  BY <1>1, <1>2, <1>4, NearIsSeen
<1>7. answer'.given /\ answer'.found /\ UNCHANGED <<adj, from, to>>
  BY DEF Arrive, Return, Path, query
<1>8. \A a, b, m : Walks(a, b, m)' = Walks(a, b, m)
  BY <1>7 DEF Walks, Edges, Targets
<1>9. (lev[cur] + 1) - 1 = lev[cur]
  BY <1>4
<1> QED
  BY <1>3, <1>5, <1>6, <1>7, <1>8, <1>9 DEF PathIsShortest

LEMMA ExhaustedMeansNoWalk ==
    ASSUME IInv, Levelled, Exhausted
    PROVE  PathIsShortest'
<1>1. /\ pc = "pop" /\ queue = <<>> /\ UNCHANGED <<adj, kind, from, to>>
      /\ from \in seen /\ SeenIsHandled
  BY DEF Exhausted, Return, query, IInv, Searching
<1>2. SUFFICES ASSUME kind = "path" PROVE PathIsShortest'
  BY <1>1 DEF PathIsShortest
<1>3. to \notin seen
  BY <1>1, <1>2 DEF Levelled
<1>4. \A b \in seen : Targets(b) \subseteq seen
  BY <1>1 DEF SeenIsHandled, Queued, HalfDone, Settled
<1>5. \A m \in Nat \ {0} : Walks(from, to, m) = {}
  BY <1>1, <1>3, <1>4, WalkStays
<1>6. answer' = NoPath
  BY <1>2 DEF Exhausted, Return
<1>7. \A a, b, m : Walks(a, b, m)' = Walks(a, b, m)
  BY <1>1 DEF Walks, Edges, Targets
<1>8. \A n : \A m \in 1..n : m \in Nat \ {0}
  OBVIOUS
<1> QED
  BY <1>1, <1>5, <1>6, <1>7, <1>8 DEF PathIsShortest, NoPath

\* On every graph, shortest_path returns a walk that no walk undercuts, and None
\* only when no walk of any length leads to the goal.
THEOREM ShortestPathIsExact == Spec => []PathIsShortest
<1>1. Init => PathInv
  BY DEF Init, PathInv, Levelled, PathIsShortest, NoAnswer
<1>2. PathInv /\ IInv /\ [Next]_vars => PathInv'
  <2> SUFFICES ASSUME PathInv, IInv, [Next]_vars PROVE PathInv'
    OBVIOUS
  <2>q. UNCHANGED <<adj, kind, from, to>>
    BY QueryFixed
  <2>1. TypeOK /\ Searching /\ Levelled /\ (pc # "done" => answer = NoAnswer)
    BY DEF IInv, PathInv, Searching, TypeOK
  <2>2. CASE UnknownNode
    <3>1. pc' = "done" /\ (kind = "path" => answer' = NoPath)
      BY <2>2 DEF UnknownNode, Return
    <3>2. kind = "path" => ~(from \in DOMAIN adj /\ to \in DOMAIN adj)
      BY <2>2 DEF UnknownNode
    <3>3. kind = "path" => \A m \in Nat \ {0} : Walks(from, to, m) = {}
      BY <3>2, NoWalkToNowhere
    <3>4. \A a, b, m : Walks(a, b, m)' = Walks(a, b, m)
      BY <2>q DEF Walks, Edges, Targets
    <3>5. \A n : \A m \in 1..n : m \in Nat \ {0}
      OBVIOUS
    <3> QED
      BY <2>q, <3>1, <3>3, <3>4, <3>5 DEF PathInv, Levelled, PathIsShortest, NoPath
  <2>3. CASE AlreadyThere
    <3> DEFINE p == <<from>>
    <3>1. pc' = "done" /\ answer' = Path(p) /\ from = to /\ from \in DOMAIN adj
      BY <2>3 DEF AlreadyThere, Return
    <3>2. p \in [1..1 -> DOMAIN adj] /\ p[1] = from /\ Len(p) = 1
      BY <3>1
    <3> HIDE DEF p
    <3>3. 1..(Len(p) - 1) = {}
      BY <3>2
    <3>4. p \in Walks(from, to, Len(p))
      BY <3>1, <3>2, <3>3 DEF Walks, Edges
    <3>5. \A a, b, m : Walks(a, b, m)' = Walks(a, b, m)
      BY <2>q DEF Walks, Edges, Targets
    <3> QED
      BY <2>q, <3>1, <3>3, <3>4, <3>5 DEF PathInv, Levelled, PathIsShortest, Path
  <2>4. CASE Arrive
    BY <2>1, <2>4, ArrivesOnAShortestPath DEF Arrive, Return, PathInv, Levelled
  <2>5. CASE Exhausted
    BY <2>1, <2>5, ExhaustedMeansNoWalk DEF Exhausted, Return, PathInv, Levelled, IInv
  <2>6. CASE Begin \/ Pop \/ SkipSeen \/ Discover \/ ScanDone
    <3>1. answer' = NoAnswer /\ pc' # "start"
      BY <2>1, <2>6 DEF Begin, Pop, SkipSeen, Discover, ScanDone, InScan
    <3>2. Levelled'
      <4>1. CASE Begin
        BY <2>1, <4>1, BeginLevels
      <4>2. CASE Pop \/ SkipSeen \/ ScanDone
        <5>1. /\ seen' = seen /\ pc \in {"pop", "scan"}
          BY <4>2 DEF Pop, SkipSeen, ScanDone, InScan
        <5>2. \A lev \in [seen -> Nat] : Levels(lev) => Levels(lev)'
          BY <2>1, <4>2, PopLevels, SkipLevels, ScanDoneLevels
        <5> QED
          BY <2>1, <2>q, <5>1, <5>2 DEF Levelled
      <4>3. CASE Discover
        <5>1. /\ pc = "scan" /\ seen' = seen \cup {Scanned}
              /\ kind = "path" => Scanned # to
          BY <4>3 DEF Discover, InScan
        <5>2. \A lev \in [seen -> Nat] :
                kind = "path" /\ Levels(lev) => \E nlev \in [seen' -> Nat] : Levels(nlev)'
          BY <2>1, <4>3, DiscoverLevels
        <5> QED
          BY <2>1, <2>q, <5>1, <5>2 DEF Levelled
      <4> QED
        BY <2>6, <4>1, <4>2, <4>3
    <3> QED
      BY <3>1, <3>2 DEF PathInv, PathIsShortest, NoAnswer
  <2>7. CASE UNCHANGED vars
    <3>1. UNCHANGED <<pc, queue, seen, prev, cur, edge, answer>>
      BY <2>7 DEF vars
    <3>2. \A lev : Levels(lev)' = Levels(lev)
      BY <2>q, <3>1 DEF Levels, BackLevels, QueueLevels, Ahead, TargetLevels, Queued,
         HalfDone, Targets
    <3>3. Levelled'
      BY <2>q, <2>1, <3>1, <3>2 DEF Levelled
    <3>4. \A a, b, m : Walks(a, b, m)' = Walks(a, b, m)
      BY <2>q DEF Walks, Edges, Targets
    <3>5. PathIsShortest'
      BY <2>q, <3>1, <3>4 DEF PathInv, PathIsShortest
    <3> QED
      BY <3>1, <3>3, <3>5 DEF PathInv
  <2> QED
    BY <2>2, <2>3, <2>4, <2>5, <2>6, <2>7 DEF Next
<1>3. PathInv => PathIsShortest
  BY DEF PathInv
<1> QED
  BY <1>1, <1>2, <1>3, SearchInvariant, PTL DEF Spec
=============================================================================

-------------------------- MODULE EvaluatorProofs --------------------------
(***************************************************************************)
(* Proofs about Evaluator, for every set of requests, rules and policy     *)
(* lists: the loop is type correct and its decision is the documented one. *)
(***************************************************************************)
EXTENDS Evaluator, WellFoundedInduction, FiniteSetTheorems, SequenceTheorems, TLAPS

USE RequestAssumption, RuleAssumption, PriorityAssumption,
    PolicyListsAssumption, AlmostCapAssumption

----------------------------------------------------------------------------
(* The naturals are well-founded *)

\* A non-empty set of naturals has a least element.
LEMMA LeastNatural ==
    ASSUME NEW S \in SUBSET Nat, S # {}
    PROVE  \E m \in S : \A n \in S : m <= n
<1> DEFINE R == OpToRel(<, Nat)
<1>1. IsWellFoundedOn(R, Nat)
  BY NatLessThanWellFounded
<1>2. \A x, y \in Nat : x < y => <<x, y>> \in R
  BY DEF OpToRel
<1> HIDE DEF R
<1>3. PICK m \in S : \A y \in S : ~ (<<y, m>> \in R)
  BY <1>1, WFMin
<1>4. ASSUME NEW n \in S PROVE m <= n
  <2>1. n \in Nat /\ m \in Nat
    OBVIOUS
  <2>2. ~ (n < m)
    BY <1>2, <1>3, <2>1, Zenon
  <2> QED
    BY <2>1, <2>2
<1> QED
  BY <1>4

\* A non-empty bounded set of naturals has a greatest element.
LEMMA GreatestNatural ==
    ASSUME NEW b \in Nat, NEW S \in SUBSET (0..b), S # {}
    PROVE  \E m \in S : \A n \in S : n <= m
<1> DEFINE T == {x \in 0..b : b - x \in S}
<1>1. T \in SUBSET Nat /\ T # {}
  <2>1. PICK s \in S : TRUE
    OBVIOUS
  <2>2. b - s \in 0..b /\ b - (b - s) = s
    BY <2>1
  <2>3. b - s \in T
    BY <2>2
  <2>4. T \subseteq Nat
    OBVIOUS
  <2> HIDE DEF T
  <2> QED
    BY <2>3, <2>4
<1> HIDE DEF T
<1>2. PICK t \in T : \A n \in T : t <= n
  BY <1>1, LeastNatural
<1>3. t \in 0..b /\ b - t \in S
  BY <1>2 DEF T
<1>4. ASSUME NEW n \in S PROVE n <= b - t
  <2>1. b - n \in 0..b /\ b - (b - n) = n /\ n \in 0..b
    OBVIOUS
  <2>2. b - n \in T
    BY <2>1 DEF T
  <2>3. t <= b - n
    BY <1>2, <2>2
  <2> QED
    BY <1>3, <2>1, <2>3
<1> QED
  BY <1>3, <1>4

----------------------------------------------------------------------------
(* Lemmas about matching *)

\* A policy that matches and has groups has a first group that holds.
LEMMA FirstHoldingIsAGroup ==
    ASSUME NEW q \in Requests, NEW p \in Policy, Matches(q, p), p.match # <<>>
    PROVE  /\ FirstHolding(q, p) \in DOMAIN p.match
           /\ GroupHolds(q, p.match[FirstHolding(q, p)])
<1> DEFINE S == {g \in DOMAIN p.match : GroupHolds(q, p.match[g])}
<1>1. p.match \in Seq(Seq(Rules))
  BY DEF Policy
<1>2. S \in SUBSET Nat /\ S # {}
  BY <1>1 DEF Matches
<1>3. PICK g \in S : \A h \in S : g <= h
  BY <1>2, LeastNatural
<1>4. ASSUME NEW h \in 1..(g - 1) PROVE ~GroupHolds(q, p.match[h])
  <2>1. h \in DOMAIN p.match /\ ~(g <= h)
    BY <1>1
  <2> QED
    BY <2>1, <1>3
<1>5. \E x \in DOMAIN p.match :
        /\ GroupHolds(q, p.match[x])
        /\ \A h \in 1..(x - 1) : ~GroupHolds(q, p.match[h])
  BY <1>4
<1> QED
  BY <1>5 DEF FirstHolding

\* The why lines of a policy that matches are rules.
LEMMA MatchWhyType ==
    ASSUME NEW q \in Requests, NEW p \in Policy, Matches(q, p)
    PROVE  MatchWhy(q, p) \in Why
<1>1. p.match \in Seq(Seq(Rules))
  BY DEF Policy
<1>2. CASE p.match = <<>>
  BY <1>2 DEF MatchWhy, Why
<1>3. CASE p.match # <<>>
  <2>1. FirstHolding(q, p) \in DOMAIN p.match
    BY <1>3, FirstHoldingIsAGroup
  <2>2. p.match[FirstHolding(q, p)] \in Seq(Rules)
    BY <1>1, <2>1
  <2> QED
    BY <1>3, <2>2 DEF MatchWhy, Why
<1> QED
  BY <1>2, <1>3

\* An almost-match reports a group that failed by one rule.
LEMMA MissedGroupIsNear ==
    ASSUME NEW q \in Requests, NEW p \in Policy, AlmostMatches(q, p)
    PROVE  /\ MissedGroup(q, p) \in DOMAIN p.match
           /\ \/ NearMiss(q, p.match[MissedGroup(q, p)])
              \/ SingleMiss(q, p.match[MissedGroup(q, p)])
<1> DEFINE near   == {g \in DOMAIN p.match : NearMiss(q, p.match[g])}
           single == {g \in DOMAIN p.match : SingleMiss(q, p.match[g])}
<1>1. p.match \in Seq(Seq(Rules))
  BY DEF Policy
<1>2. near \in SUBSET (0..Len(p.match)) /\ single \in SUBSET Nat
  BY <1>1
<1>3. near # {} \/ single # {}
  BY DEF AlmostMatches
<1>4. MissedGroup(q, p) \in near \cup single
  <2>1. CASE near # {}
    <3>1. \E g \in near : \A h \in near : h <= g
      <4>1. Len(p.match) \in Nat
        BY <1>1
      <4> HIDE DEF near
      <4> QED
        BY <4>1, <1>2, <2>1, GreatestNatural
    <3> QED
      BY <2>1, <3>1 DEF MissedGroup
  <2>2. CASE near = {}
    <3>1. \E g \in single : \A h \in single : g <= h
      BY <1>2, <1>3, <2>2, LeastNatural
    <3> QED
      BY <2>2, <3>1 DEF MissedGroup
  <2> QED
    BY <2>1, <2>2
<1> QED
  BY <1>4

\* rule is the only one that failed in its group of p.
OnlyMiss(q, p, rule) ==
    \E g \in DOMAIN p.match : \E k \in DOMAIN p.match[g] :
        rule = p.match[g][k] /\ Failing(q, p.match[g]) = {k}

\* The rule an almost-match reports is one of the policy's, and the only one of
\* its group that failed.
LEMMA MissingRuleFacts ==
    ASSUME NEW q \in Requests, NEW p \in Policy, AlmostMatches(q, p)
    PROVE  MissingRule(q, p) \in Rules /\ OnlyMiss(q, p, MissingRule(q, p))
<1> DEFINE g     == MissedGroup(q, p)
           group == p.match[g]
<1>1. g \in DOMAIN p.match /\ (NearMiss(q, group) \/ SingleMiss(q, group))
  BY MissedGroupIsNear
<1>2. p.match \in Seq(Seq(Rules))
  BY DEF Policy
<1>3. group \in Seq(Rules)
  BY <1>1, <1>2
<1>4. MissingRule(q, p) = group[CHOOSE k \in Failing(q, group) : TRUE]
  BY DEF MissingRule
<1> HIDE DEF g
<1>5. PICK k \in DOMAIN group : Failing(q, group) = {k}
  <2>1. CASE NearMiss(q, group)
    BY <2>1 DEF NearMiss
  <2>2. CASE SingleMiss(q, group)
    <3>1. DOMAIN group = {1}
      BY <1>3, <2>2 DEF SingleMiss
    <3>2. Failing(q, group) # {} /\ Failing(q, group) \subseteq DOMAIN group
      BY <2>2 DEF SingleMiss, Failing
    <3>3. Failing(q, group) = {1} /\ 1 \in DOMAIN group
      BY <3>1, <3>2
    <3> QED
      BY <3>3
  <2> QED
    BY <1>1, <2>1, <2>2
<1>6. MissingRule(q, p) = group[k]
  BY <1>4, <1>5
<1>7. group[k] \in Rules
  BY <1>3, <1>5
<1> QED
  BY <1>1, <1>5, <1>6, <1>7 DEF OnlyMiss

----------------------------------------------------------------------------
(* Lemmas about the sorted positions *)

\* The positions in scope of a list of policies are finitely many.
LEMMA ScopeIsFinite ==
    ASSUME NEW q \in Requests, NEW ps \in PolicyLists
    PROVE  /\ Applicable(q, ps) \subseteq DOMAIN ps
           /\ Applicable(q, ps) \subseteq Nat \ {0}
           /\ IsFiniteSet(Applicable(q, ps))
           /\ Cardinality(Applicable(q, ps)) \in Nat
<1>1. ps \in Seq(Policy) /\ DOMAIN ps = 1..Len(ps) /\ Len(ps) \in Nat
  OBVIOUS
<1>2. Applicable(q, ps) \in SUBSET (1..Len(ps))
  BY <1>1 DEF Applicable
<1>3. IsFiniteSet(1..Len(ps))
  BY <1>1, FS_Interval
<1> QED
  BY <1>1, <1>2, <1>3, FS_Subset, FS_CardinalityType

\* The sorting order is strict and total on the positions of a list.
LEMMA BeforeIsAStrictOrder ==
    ASSUME NEW ps \in Seq(Policy), NEW i \in DOMAIN ps, NEW j \in DOMAIN ps
    PROVE  ~(Before(ps, i, j) /\ Before(ps, j, i))
<1>1. /\ i \in Nat /\ j \in Nat
      /\ ps[i] \in Policy /\ ps[j] \in Policy
  OBVIOUS
<1>2. ps[i].priority \in Int /\ ps[j].priority \in Int
  BY <1>1 DEF Policy
<1> QED
  BY <1>1, <1>2 DEF Before

\* A hit that no earlier entry of the sorted list precedes is the winner.
LEMMA FirstHitWins ==
    ASSUME NEW q \in Requests, NEW ps \in PolicyLists, NEW effect \in Effects,
           NEW s \in Seq(Applicable(q, ps)), StablySorted(q, ps, s),
           NEW k \in DOMAIN s, s[k] \in Hits(q, ps, effect),
           \A j \in 1..(k - 1) : s[j] \notin Hits(q, ps, effect)
    PROVE  s[k] = Contract!Winner(ps, Hits(q, ps, effect))
<1> DEFINE S == Hits(q, ps, effect)
<1>1. S \subseteq Applicable(q, ps) /\ Applicable(q, ps) \subseteq DOMAIN ps
  BY DEF Hits, Applicable
<1>2. ps \in Seq(Policy)
  OBVIOUS
<1>3. ASSUME NEW j \in S \ {s[k]} PROVE Before(ps, s[k], j)
  <2>1. PICK b \in DOMAIN s : s[b] = j
    BY <1>1 DEF StablySorted
  <2>2. b \in Nat /\ k \in Nat /\ b # k /\ b \notin 1..(k - 1)
    BY <2>1
  <2>3. k < b
    BY <2>1, <2>2
  <2> QED
    BY <2>1, <2>3 DEF StablySorted
<1> HIDE DEF S
<1>4. ASSUME NEW i \in S, \A j \in S \ {i} : Contract!Before(ps, i, j) PROVE i = s[k]
  <2>1. SUFFICES ASSUME i # s[k] PROVE FALSE
    OBVIOUS
  <2>2. Before(ps, i, s[k]) /\ Before(ps, s[k], i)
    BY <1>3, <1>4, <2>1 DEF S, Before, Contract!Before
  <2> QED
    BY <1>1, <1>2, <2>2, BeforeIsAStrictOrder DEF S
<1>5. \A j \in S \ {s[k]} : Contract!Before(ps, s[k], j)
  BY <1>3 DEF Before, Contract!Before
<1> QED
  BY <1>4, <1>5 DEF S, Contract!Winner

----------------------------------------------------------------------------
(* The inductive invariant *)

\* hit is the first element of H among s[1], ..., s[n-1], or 0 for none.
FirstHitIn(s, n, H, hit) ==
    \/ hit = 0 /\ \A k \in 1..(n - 1) : s[k] \notin H
    \/ \E k \in 1..(n - 1) :
         /\ hit = s[k] /\ hit \in H
         /\ \A j \in 1..(k - 1) : s[j] \notin H

\* Going one element further keeps FirstHitIn, if a hit is remembered exactly
\* when it is the first.
LEMMA FirstHitInStep ==
    ASSUME NEW s, NEW n \in Nat \ {0}, NEW H \in SUBSET (Nat \ {0}), NEW hit,
           FirstHitIn(s, n, H, hit)
    PROVE  FirstHitIn(s, n + 1, H, IF s[n] \in H /\ hit = 0 THEN s[n] ELSE hit)
<1>1. CASE hit = 0 /\ \A k \in 1..(n - 1) : s[k] \notin H
  <2>1. CASE s[n] \in H
    BY <1>1, <2>1 DEF FirstHitIn
  <2>2. CASE s[n] \notin H
    <3>1. \A k \in 1..n : s[k] \notin H
      BY <1>1, <2>2
    <3> QED
      BY <1>1, <2>2, <3>1 DEF FirstHitIn
  <2> QED
    BY <2>1, <2>2
<1>2. CASE \E k \in 1..(n - 1) : /\ hit = s[k] /\ hit \in H
                                 /\ \A j \in 1..(k - 1) : s[j] \notin H
  <2>1. hit # 0
    BY <1>2
  <2> QED
    BY <1>2, <2>1 DEF FirstHitIn
<1> QED
  BY <1>1, <1>2 DEF FirstHitIn

HitSoFar(effect, hit) ==
    FirstHitIn(order, next, Hits(request, policies, effect), hit)

Sorted ==
    /\ order \in Seq(Applicable(request, policies))
    /\ StablySorted(request, policies, order)

\* TypeOK alone is not inductive: that the why lines of a decision are rules
\* depends on the remembered hits being policies that matched.
IInv ==
    /\ TypeOK
    /\ pc = "start" => next = 1 /\ deny_hit = 0 /\ allow_hit = 0
    /\ pc # "start" => Sorted
    /\ HitSoFar("deny", deny_hit)
    /\ HitSoFar("allow", allow_hit)
    /\ pc # "done" => decision = Undecided

\* The state in which evaluate is entered satisfies the invariant.
LEMMA InitIInv == Init => IInv
<1> SUFFICES ASSUME Init PROVE IInv
  OBVIOUS
<1>1. TypeOK
  BY DEF Init, TypeOK, DecisionType, Undecided
<1>2. HitSoFar("deny", deny_hit) /\ HitSoFar("allow", allow_hit)
  BY DEF Init, HitSoFar, FirstHitIn
<1> QED
  BY <1>1, <1>2 DEF Init, IInv

\* Facts about the loop's place that both kinds of visit use.
LEMMA VisitFacts ==
    ASSUME IInv, NEW matched \in BOOLEAN, Visit(matched)
    PROVE  /\ next \in 1..Len(order) /\ next' \in 1..(Len(order) + 1)
           /\ order[next] \in Applicable(request, policies)
           /\ order[next] \in DOMAIN policies
           /\ Current \in Policy
           /\ evaluated' \in Seq(Entry)
           /\ \A effect \in Effects :
                order[next] \in Hits(request, policies, effect)
                    <=> Current.effect = effect /\ matched
<1>1. order \in Seq(Applicable(request, policies))
  BY DEF IInv, Visit, Sorted
<1>2. next \in 1..Len(order) /\ next' \in 1..(Len(order) + 1)
  BY <1>1 DEF Visit
<1>3. order[next] \in Applicable(request, policies)
  BY <1>1, <1>2
<1>4. order[next] \in DOMAIN policies /\ policies \in Seq(Policy)
  BY <1>3 DEF Applicable, IInv, TypeOK
<1>5. Current \in Policy
  BY <1>4 DEF Current
<1>6. evaluated' \in Seq(Entry)
  <2>1. [policy_id |-> Current.id, effect |-> Current.effect, matched |-> matched] \in Entry
    BY <1>5 DEF Policy, Entry
  <2> QED
    BY <2>1 DEF Visit, IInv, TypeOK
<1>7. ASSUME NEW effect \in Effects
      PROVE  order[next] \in Hits(request, policies, effect)
                    <=> Current.effect = effect /\ matched
  BY <1>3 DEF Hits, Visit, Current
<1> QED
  BY <1>2, <1>3, <1>4, <1>5, <1>6, <1>7

\* The hits of an effect are positions of the list, and every effect of a
\* policy is one of the two.
LEMMA HitsArePositions ==
    ASSUME IInv, NEW effect
    PROVE  /\ Hits(request, policies, effect) \in SUBSET (Nat \ {0})
           /\ Hits(request, policies, effect) \subseteq DOMAIN policies
BY ScopeIsFinite DEF Hits, IInv, TypeOK

\* The part of the invariant that a step of the loop body re-establishes.
LEMMA VisitIInv ==
    ASSUME IInv, NEW matched \in BOOLEAN, Visit(matched),
           almost' \in Seq(Miss),
           deny_hit' = IF matched /\ Current.effect = "deny" /\ deny_hit = 0
                         THEN order[next] ELSE deny_hit,
           allow_hit' = IF matched /\ Current.effect = "allow" /\ allow_hit = 0
                          THEN order[next] ELSE allow_hit
    PROVE  IInv'
<1>1. /\ next \in 1..Len(order) /\ next' \in 1..(Len(order) + 1)
      /\ order[next] \in DOMAIN policies
      /\ evaluated' \in Seq(Entry)
      /\ \A effect \in Effects :
           order[next] \in Hits(request, policies, effect)
               <=> Current.effect = effect /\ matched
  BY VisitFacts
<1>2. TypeOK'
  BY <1>1 DEF IInv, TypeOK, Visit
<1>3. Sorted'
  BY DEF IInv, Visit, Sorted, StablySorted, Applicable, InScope, Before
<1>4. ASSUME NEW effect \in Effects
      PROVE  Hits(request, policies, effect)' = Hits(request, policies, effect)
  BY DEF Visit, Hits, Applicable, InScope, Matches, GroupHolds, Failing
<1>5. next \in Nat \ {0} /\ next' = next + 1 /\ order' = order
  BY <1>1 DEF Visit
<1>6. HitSoFar("deny", deny_hit)'
  <2>1. FirstHitIn(order, next, Hits(request, policies, "deny"), deny_hit)
    BY DEF IInv, HitSoFar
  <2>2. "deny" \in Effects
    BY DEF Effects
  <2>3. deny_hit' = IF order[next] \in Hits(request, policies, "deny") /\ deny_hit = 0
                      THEN order[next] ELSE deny_hit
    BY <1>1, <2>2
  <2> QED
    BY <1>4, <1>5, <2>1, <2>2, <2>3, HitsArePositions, FirstHitInStep DEF HitSoFar
<1>7. HitSoFar("allow", allow_hit)'
  <2>1. FirstHitIn(order, next, Hits(request, policies, "allow"), allow_hit)
    BY DEF IInv, HitSoFar
  <2>2. "allow" \in Effects
    BY DEF Effects
  <2>3. allow_hit' = IF order[next] \in Hits(request, policies, "allow") /\ allow_hit = 0
                       THEN order[next] ELSE allow_hit
    BY <1>1, <2>2
  <2> QED
    BY <1>4, <1>5, <2>1, <2>2, <2>3, HitsArePositions, FirstHitInStep DEF HitSoFar
<1> QED
  BY <1>2, <1>3, <1>6, <1>7 DEF IInv, Visit

\* When the loop is over, a remembered hit is the winner of its effect, and no
\* hit means that no policy of that effect matched.
LEMMA HitAtTheEnd ==
    ASSUME IInv, pc = "loop", next \notin DOMAIN order,
           NEW effect \in Effects, NEW hit, HitSoFar(effect, hit)
    PROVE  LET H == Hits(request, policies, effect)
           IN  \/ hit = 0 /\ H = {}
               \/ /\ hit \in H /\ hit # 0
                  /\ hit = Contract!Winner(policies, H)
<1> DEFINE H == Hits(request, policies, effect)
<1>1. /\ order \in Seq(Applicable(request, policies))
      /\ StablySorted(request, policies, order)
      /\ request \in Requests /\ policies \in PolicyLists
  BY DEF IInv, TypeOK, Sorted
<1>2. next - 1 = Len(order) /\ DOMAIN order = 1..(next - 1)
  BY <1>1 DEF IInv, TypeOK
<1>3. H \subseteq Applicable(request, policies)
  BY DEF Hits
<1>4. CASE hit = 0 /\ \A k \in 1..(next - 1) : order[k] \notin H
  BY <1>1, <1>2, <1>3, <1>4 DEF StablySorted
<1>5. CASE \E k \in 1..(next - 1) : /\ hit = order[k] /\ hit \in H
                                    /\ \A j \in 1..(k - 1) : order[j] \notin H
  <2>1. PICK k \in DOMAIN order : /\ hit = order[k] /\ order[k] \in H
                                  /\ \A j \in 1..(k - 1) : order[j] \notin H
    BY <1>2, <1>5
  <2>2. order[k] = Contract!Winner(policies, H)
    BY <1>1, <2>1, FirstHitWins
  <2>3. hit # 0
    BY <2>1, HitsArePositions
  <2> QED
    BY <2>1, <2>2, <2>3
<1> QED
  BY <1>4, <1>5 DEF HitSoFar, FirstHitIn

\* A finishing step re-establishes the invariant, given a well-formed answer.
LEMMA FinishIInv ==
    ASSUME IInv, NEW effect \in Effects, NEW matched \in Match, NEW why \in Why,
           Finish(effect, matched, why)
    PROVE  IInv'
<1>1. decision' \in DecisionType
  BY DEF Finish, IInv, TypeOK, DecisionType, ExplanationType
<1>2. TypeOK'
  BY <1>1 DEF Finish, IInv, TypeOK
<1>3. Sorted'
  BY DEF IInv, Finish, Sorted, StablySorted, Applicable, InScope, Before
<1>4. \A e \in Effects : Hits(request, policies, e)' = Hits(request, policies, e)
  BY DEF Finish, Hits, Applicable, InScope, Matches, GroupHolds, Failing
<1>5. HitSoFar("deny", deny_hit)' /\ HitSoFar("allow", allow_hit)'
  BY <1>4 DEF IInv, Finish, HitSoFar, Effects
<1> QED
  BY <1>2, <1>3, <1>5 DEF IInv, Finish

\* The decision a finishing step returns is the contract's.
LEMMA FinishDecides ==
    ASSUME IInv, FinishDeny \/ FinishAllow \/ FinishDefault
    PROVE  /\ [effect |-> decision'.effect, matched |-> decision'.matched]
                 = Contract!DecisionOf(request, policies)
           /\ IInv'
<1> DEFINE D == Hits(request, policies, "deny")
           A == Hits(request, policies, "allow")
<1>1. /\ pc = "loop" /\ next \notin DOMAIN order
      /\ "deny" \in Effects /\ "allow" \in Effects
  BY DEF FinishDeny, FinishAllow, FinishDefault, Finish, Effects
<1>2. \/ deny_hit = 0 /\ D = {}
      \/ deny_hit \in D /\ deny_hit # 0 /\ deny_hit = Contract!Winner(policies, D)
  BY <1>1, HitAtTheEnd DEF IInv
<1>3. \/ allow_hit = 0 /\ A = {}
      \/ allow_hit \in A /\ allow_hit # 0 /\ allow_hit = Contract!Winner(policies, A)
  BY <1>1, HitAtTheEnd DEF IInv
<1>4. \A e \in Effects : Contract!Hits(request, policies, e) = Hits(request, policies, e)
  BY DEF Contract!Hits, Contract!Applicable, Contract!InScope, Contract!Matches,
         Contract!GroupHolds, Contract!Failing,
         Hits, Applicable, InScope, Matches, GroupHolds, Failing
<1>5. ASSUME NEW effect \in Effects, NEW hit \in Hits(request, policies, effect)
      PROVE  /\ Named(policies[hit].id) \in Match
             /\ MatchWhy(request, policies[hit]) \in Why
  <2>1. /\ hit \in DOMAIN policies /\ policies \in Seq(Policy)
        /\ request \in Requests
    BY HitsArePositions DEF IInv, TypeOK
  <2>2. policies[hit] \in Policy /\ Matches(request, policies[hit])
    BY <2>1 DEF Hits
  <2>3. policies[hit].id \in Ids
    BY <2>2 DEF Policy
  <2> QED
    BY <2>1, <2>2, <2>3, MatchWhyType DEF Match, Named
<1> HIDE DEF D, A
<1>6. CASE FinishDeny
  <2>1. deny_hit \in D /\ deny_hit = Contract!Winner(policies, D)
    BY <1>2, <1>6 DEF FinishDeny
  <2>2. IInv'
    BY <1>1, <1>5, <1>6, <2>1, FinishIInv DEF FinishDeny, D
  <2>3. /\ decision'.effect = "deny"
        /\ decision'.matched = Named(policies[deny_hit].id)
    BY <1>6 DEF FinishDeny, Finish
  <2> QED
    BY <1>1, <1>4, <2>1, <2>2, <2>3
    DEF D, Contract!DecisionOf, Contract!Named, Named
<1>7. CASE FinishAllow
  <2>1. D = {} /\ allow_hit \in A /\ allow_hit = Contract!Winner(policies, A)
    BY <1>2, <1>3, <1>7 DEF FinishAllow
  <2>2. IInv'
    BY <1>1, <1>5, <1>7, <2>1, FinishIInv DEF FinishAllow, A
  <2>3. /\ decision'.effect = "allow"
        /\ decision'.matched = Named(policies[allow_hit].id)
    BY <1>7 DEF FinishAllow, Finish
  <2> QED
    BY <1>1, <1>4, <2>1, <2>2, <2>3
    DEF D, A, Contract!DecisionOf, Contract!Named, Named
<1>8. CASE FinishDefault
  <2>1. D = {} /\ A = {}
    BY <1>2, <1>3, <1>8 DEF FinishDefault
  <2>2. NoPolicy \in Match /\ DefaultWhy \in Why
    BY DEF Match, DefaultWhy, Why
  <2>3. IInv'
    BY <1>1, <1>8, <2>2, FinishIInv DEF FinishDefault
  <2>4. decision'.effect = "deny" /\ decision'.matched = NoPolicy
    BY <1>8 DEF FinishDefault, Finish
  <2> QED
    BY <1>1, <1>4, <2>1, <2>3, <2>4
    DEF D, A, Contract!DecisionOf, Contract!NoPolicy, NoPolicy
<1> QED
  BY <1>6, <1>7, <1>8

----------------------------------------------------------------------------
(* The theorems *)

\* Every step of the evaluation loop preserves the invariant.
LEMMA NextIInv == IInv /\ [Next]_vars => IInv'
<1> SUFFICES ASSUME IInv, [Next]_vars PROVE IInv'
  OBVIOUS
<1>1. CASE FilterAndSort
  <2> DEFINE scope == Applicable(request, policies)
  <2>1. PICK s \in [1..Cardinality(scope) -> scope] :
              StablySorted(request, policies, s) /\ order' = s
    BY <1>1 DEF FilterAndSort
  <2>2. scope \subseteq DOMAIN policies /\ Cardinality(scope) \in Nat
    BY ScopeIsFinite DEF IInv, TypeOK
  <2>3. order' \in Seq(scope) /\ order' \in Seq(DOMAIN policies) /\ Len(order') \in Nat
    BY <2>1, <2>2
  <2>4. Sorted'
    <3>1. request' = request /\ policies' = policies
      BY <1>1 DEF FilterAndSort
    <3>2. Applicable(request, policies)' = scope
      BY <3>1 DEF Applicable, InScope
    <3>3. StablySorted(request, policies, order)'
      BY <2>1, <3>1, <3>2 DEF StablySorted, Before
    <3> QED
      BY <2>3, <3>2, <3>3 DEF Sorted
  <2>5. next = 1 /\ deny_hit = 0 /\ allow_hit = 0
    BY <1>1 DEF IInv, FilterAndSort
  <2>6. HitSoFar("deny", deny_hit)' /\ HitSoFar("allow", allow_hit)'
    BY <1>1, <2>5 DEF FilterAndSort, HitSoFar, FirstHitIn
  <2>7. TypeOK'
    BY <1>1, <2>3, <2>5 DEF FilterAndSort, IInv, TypeOK
  <2> QED
    BY <1>1, <2>4, <2>6, <2>7 DEF FilterAndSort, IInv
<1>2. CASE VisitHit
  <2>1. almost' \in Seq(Miss)
    BY <1>2 DEF VisitHit, IInv, TypeOK
  <2> QED
    BY <1>2, <2>1, VisitIInv DEF VisitHit
<1>3. CASE VisitMiss
  <2>1. almost' \in Seq(Miss)
    <3>1. CASE almost' = almost
      BY <3>1 DEF IInv, TypeOK
    <3>2. CASE /\ AlmostMatches(request, Current)
               /\ almost' = Append(almost, [id      |-> Current.id,
                                            missing |-> MissingRule(request, Current)])
      <4>1. request \in Requests /\ Current \in Policy
        BY <1>3, VisitFacts DEF VisitMiss, IInv, TypeOK
      <4>2. Current.id \in Ids /\ MissingRule(request, Current) \in Rules
        BY <3>2, <4>1, MissingRuleFacts DEF Policy
      <4> QED
        BY <3>2, <4>2 DEF IInv, TypeOK, Miss
    <3> QED
      BY <1>3, <3>1, <3>2 DEF VisitMiss
  <2> QED
    BY <1>3, <2>1, VisitIInv DEF VisitMiss
<1>4. CASE FinishDeny \/ FinishAllow \/ FinishDefault
  BY <1>4, FinishDecides
<1>5. CASE UNCHANGED vars
  BY <1>5 DEF vars, IInv, TypeOK, Sorted, HitSoFar, Hits, Applicable, InScope,
              Matches, GroupHolds, Failing, StablySorted, Before
<1> QED
  BY <1>1, <1>2, <1>3, <1>4, <1>5 DEF Next

\* The invariant holds throughout every evaluation.
LEMMA Invariance == Spec => []IInv
<1> QED
  BY InitIInv, NextIInv, PTL DEF Spec

\* Every variable keeps its type: in particular the why lines and the missing
\* rules of an explanation are always rules of a loaded policy.
THEOREM TypeCorrect == Spec => []TypeOK
<1>1. IInv => TypeOK
  BY DEF IInv
<1> QED
  BY <1>1, Invariance, PTL

\* The evaluation loop implements the documented contract, for every request
\* and every list of policies: its steps leave the contract's decision alone,
\* until one of them returns exactly the decision the contract names.
THEOREM ImplementsContract == Spec => RefinesContract
<1>1. Init => Contract!Init
  BY DEF Init, Contract!Init, Undecided, Contract!Undecided, NoPolicy, Contract!NoPolicy
<1>2. IInv /\ [Next]_vars => [Contract!Decide]_Contract!vars
  <2> SUFFICES ASSUME IInv, [Next]_vars PROVE [Contract!Decide]_Contract!vars
    OBVIOUS
  <2>1. CASE FinishDeny \/ FinishAllow \/ FinishDefault
    <3>1. UNCHANGED <<request, policies>> /\ decision = Undecided
      BY <2>1 DEF FinishDeny, FinishAllow, FinishDefault, Finish, IInv
    <3> QED
      BY <2>1, <3>1, FinishDecides
      DEF Contract!Decide, Undecided, Contract!Undecided, NoPolicy, Contract!NoPolicy
  <2>2. CASE FilterAndSort \/ VisitHit \/ VisitMiss \/ UNCHANGED vars
    BY <2>2 DEF FilterAndSort, VisitHit, VisitMiss, Visit, vars, Contract!vars
  <2> QED
    BY <2>1, <2>2 DEF Next
<1> QED
  BY <1>1, <1>2, Invariance, PTL DEF Spec, RefinesContract, Contract!Spec

----------------------------------------------------------------------------
(* The explanation *)

\* why is the reason why p matches q.
Supports(q, p, why) ==
    \/ why.kind = "matches_all" /\ p.match = <<>>
    \/ /\ why.kind = "rules"
       /\ \E g \in DOMAIN p.match : why.rules = p.match[g]
       /\ \A k \in DOMAIN why.rules : RuleHolds(q, why.rules[k])

LEMMA MatchWhySupports ==
    ASSUME NEW q \in Requests, NEW p \in Policy, Matches(q, p)
    PROVE  Supports(q, p, MatchWhy(q, p))
<1>1. CASE p.match = <<>>
  BY <1>1 DEF MatchWhy, Supports
<1>2. CASE p.match # <<>>
  <2> DEFINE g == FirstHolding(q, p)
  <2>1. g \in DOMAIN p.match /\ GroupHolds(q, p.match[g])
    BY <1>2, FirstHoldingIsAGroup
  <2>2. MatchWhy(q, p) = [kind |-> "rules", rules |-> p.match[g]]
    BY <1>2 DEF MatchWhy
  <2>3. \A k \in DOMAIN p.match[g] : RuleHolds(q, p.match[g][k])
    BY <2>1 DEF GroupHolds, Failing
  <2> HIDE DEF g
  <2> QED
    BY <2>1, <2>2, <2>3 DEF Supports
<1> QED
  BY <1>1, <1>2

\* What a decision may be explained with, by the hits of the two effects.
Explained(effect, matched, why) ==
    LET hits(e) == Hits(request, policies, e)
    IN  \/ /\ matched = NoPolicy /\ why = DefaultWhy
           /\ hits("deny") = {} /\ hits("allow") = {}
        \/ \E i \in hits(effect) :
              /\ matched = Named(policies[i].id)
              /\ why = MatchWhy(request, policies[i])

LEMMA FinishExplained ==
    ASSUME IInv, NEW effect \in Effects, NEW matched, NEW why,
           Finish(effect, matched, why), Explained(effect, matched, why)
    PROVE  ExplanationSupportsDecision'
<1>1. /\ request' = request /\ policies' = policies
      /\ decision'.effect = effect /\ decision'.matched = matched
      /\ decision'.explanation.given =>
            decision'.explanation.matched = matched /\ decision'.explanation.why = why
  BY DEF Finish, NoExplanation
<1>2. /\ Hits(request, policies, effect)' = Hits(request, policies, effect)
      /\ Applicable(request, policies)' = Applicable(request, policies)
      /\ \A p : Matches(request, p)' <=> Matches(request, p)
  BY <1>1 DEF Hits, Applicable, InScope, Matches, GroupHolds, Failing
<1>3. request \in Requests /\ policies \in Seq(Policy)
  BY DEF IInv, TypeOK
<1>4. matched.named => \E i \in Hits(request, policies, effect) :
                          policies[i].id = matched.id /\ Supports(request, policies[i], why)
  <2>1. SUFFICES ASSUME matched.named
                 PROVE  \E i \in Hits(request, policies, effect) :
                          policies[i].id = matched.id /\ Supports(request, policies[i], why)
    OBVIOUS
  <2>2. PICK i \in Hits(request, policies, effect) :
              matched = Named(policies[i].id) /\ why = MatchWhy(request, policies[i])
    BY <2>1 DEF Explained, NoPolicy
  <2>3. policies[i] \in Policy /\ Matches(request, policies[i])
    BY <1>3, <2>2, HitsArePositions DEF Hits
  <2> QED
    BY <1>3, <2>2, <2>3, MatchWhySupports DEF Named
<1>5. why.kind = "default_deny" <=>
        \A i \in Applicable(request, policies) : ~Matches(request, policies[i])
  <2>1. CASE /\ why = DefaultWhy
             /\ Hits(request, policies, "deny") = {} /\ Hits(request, policies, "allow") = {}
    <3>1. \A i \in Applicable(request, policies) : policies[i].effect \in {"deny", "allow"}
      <4>1. \A i \in Applicable(request, policies) : policies[i] \in Policy
        BY <1>3 DEF Applicable
      <4> QED
        BY <4>1 DEF Policy, Effects
    <3> QED
      BY <2>1, <3>1 DEF Hits, DefaultWhy
  <2>2. CASE \E i \in Hits(request, policies, effect) : why = MatchWhy(request, policies[i])
    BY <2>2 DEF Hits, MatchWhy
  <2> QED
    BY <2>1, <2>2 DEF Explained
<1> QED
  BY <1>1, <1>2, <1>4, <1>5 DEF ExplanationSupportsDecision, Supports

\* Each of the three ways to finish passes finish() the why lines of its case.
LEMMA FinishSteps ==
    ASSUME IInv, FinishDeny \/ FinishAllow \/ FinishDefault
    PROVE  \E effect \in Effects : \E matched, why :
              Finish(effect, matched, why) /\ Explained(effect, matched, why)
<1> DEFINE D == Hits(request, policies, "deny")
           A == Hits(request, policies, "allow")
<1>1. /\ pc = "loop" /\ next \notin DOMAIN order
      /\ "deny" \in Effects /\ "allow" \in Effects
  BY DEF FinishDeny, FinishAllow, FinishDefault, Finish, Effects
<1>2. (deny_hit = 0 /\ D = {}) \/ (deny_hit # 0 /\ deny_hit \in D)
  BY <1>1, HitAtTheEnd DEF IInv
<1>3. (allow_hit = 0 /\ A = {}) \/ (allow_hit # 0 /\ allow_hit \in A)
  BY <1>1, HitAtTheEnd DEF IInv
<1>4. CASE FinishDeny
  <2>1. Explained("deny", Named(policies[deny_hit].id), MatchWhy(request, policies[deny_hit]))
    BY <1>2, <1>4 DEF FinishDeny, Explained
  <2> QED
    BY <1>1, <1>4, <2>1 DEF FinishDeny
<1>5. CASE FinishAllow
  <2>1. Explained("allow", Named(policies[allow_hit].id), MatchWhy(request, policies[allow_hit]))
    BY <1>3, <1>5 DEF FinishAllow, Explained
  <2> QED
    BY <1>1, <1>5, <2>1 DEF FinishAllow
<1>6. CASE FinishDefault
  <2>1. Explained("deny", NoPolicy, DefaultWhy)
    BY <1>2, <1>3, <1>6 DEF FinishDefault, Explained
  <2> QED
    BY <1>1, <1>6, <2>1 DEF FinishDefault
<1> QED
  BY <1>4, <1>5, <1>6

\* What an explanation says is true of the request and of a policy that decided,
\* for any file: the group quoted holds, and a default deny has no match at all.
THEOREM ExplanationIsTrue == Spec => []ExplanationSupportsDecision
<1>1. Init => ExplanationSupportsDecision
  BY DEF Init, ExplanationSupportsDecision, Decided
<1>2. IInv /\ ExplanationSupportsDecision /\ [Next]_vars => ExplanationSupportsDecision'
  <2> SUFFICES ASSUME IInv, ExplanationSupportsDecision, [Next]_vars
               PROVE  ExplanationSupportsDecision'
    OBVIOUS
  <2>1. CASE FilterAndSort \/ VisitHit \/ VisitMiss
    <3>1. pc' # "done"
      BY <2>1 DEF FilterAndSort, VisitHit, VisitMiss, Visit
    <3> QED
      BY <3>1 DEF ExplanationSupportsDecision, Decided
  <2>2. CASE FinishDeny \/ FinishAllow \/ FinishDefault
    BY <2>2, FinishSteps, FinishExplained
  <2>3. CASE UNCHANGED vars
    BY <2>3 DEF vars, ExplanationSupportsDecision, Decided, Hits, Applicable, InScope,
                Matches, GroupHolds, Failing
  <2> QED
    BY <2>1, <2>2, <2>3 DEF Next
<1> QED
  BY <1>1, <1>2, Invariance, PTL DEF Spec

----------------------------------------------------------------------------
(* The lists: the trace and the almost-matches *)

Scope  == Applicable(request, policies)
Misses == {i \in Scope : AlmostMatches(request, policies[i])}

\* The members of M met before the n-th place, and the place of what is met there.
Visited(M, n) == {i \in M : \E a \in 1..(n - 1) : order[a] = i}
Place(M, n)   == Cardinality(Visited(M, n)) + 1

Verdict(i) == [policy_id |-> policies[i].id,
               effect    |-> policies[i].effect,
               matched   |-> Matches(request, policies[i])]

Reported(i, entry) ==
    entry.id = policies[i].id /\ OnlyMiss(request, policies[i], entry.missing)

\* One entry of the trace per policy visited, at its place in the scope.
Traced ==
    /\ Len(evaluated) = Cardinality(Visited(Scope, next))
    /\ \A k \in 1..(next - 1) :
         Place(Scope, k) \in DOMAIN evaluated /\ evaluated[Place(Scope, k)] = Verdict(order[k])

\* One entry per miss visited, at its place among the misses, up to the cap.
MissesKept ==
    /\ Len(almost) <= AlmostCap /\ Len(almost) <= Cardinality(Visited(Misses, next))
    /\ Len(almost) < AlmostCap => Len(almost) = Cardinality(Visited(Misses, next))
    /\ \A k \in 1..(next - 1) :
         (order[k] \in Misses /\ Place(Misses, k) <= AlmostCap) =>
            /\ Place(Misses, k) \in DOMAIN almost
            /\ Reported(order[k], almost[Place(Misses, k)])

\* finish() returns the lists as the loop left them.
ListsReturned ==
    pc = "done" =>
        /\ next = Len(order) + 1
        /\ decision.evaluated = evaluated
        /\ decision.explanation.given => decision.explanation.almost = almost

Lists ==
    /\ pc = "start" => evaluated = <<>> /\ almost = <<>>
    /\ Traced /\ MissesKept /\ ListsReturned

\* What was met is a finite part of the scope.
LEMMA VisitedIsFinite ==
    ASSUME IInv, NEW M \in SUBSET Scope, NEW n
    PROVE  IsFiniteSet(Visited(M, n)) /\ Cardinality(Visited(M, n)) \in Nat
<1>1. IsFiniteSet(Scope)
  BY ScopeIsFinite DEF Scope, IInv, TypeOK
<1>2. Visited(M, n) \subseteq Scope
  BY DEF Visited
<1> QED
  BY <1>1, <1>2, FS_Subset, FS_CardinalityType

\* Every position is met once.
LEMMA VisitedGrows ==
    ASSUME IInv, Sorted, NEW M \in SUBSET Scope, NEW n \in DOMAIN order
    PROVE  Cardinality(Visited(M, n + 1)) =
              IF order[n] \in M THEN Cardinality(Visited(M, n)) + 1 ELSE Cardinality(Visited(M, n))
<1>1. /\ n \in Nat \ {0} /\ order[n] \in Scope
      /\ \A a \in 1..(n - 1) : a \in DOMAIN order /\ a < n
  BY DEF Sorted, Scope
<1>2. order[n] \notin Visited(M, n)
  <2>1. SUFFICES ASSUME NEW a \in 1..(n - 1), order[a] = order[n] PROVE FALSE
    BY DEF Visited
  <2>2. Before(policies, order[a], order[n])
    BY <1>1 DEF Sorted, StablySorted
  <2>3. policies \in Seq(Policy) /\ order[n] \in DOMAIN policies
    BY <1>1 DEF IInv, TypeOK, Scope, Applicable
  <2> QED
    BY <2>1, <2>2, <2>3, BeforeIsAStrictOrder
<1>3. Visited(M, n + 1) = IF order[n] \in M THEN Visited(M, n) \cup {order[n]} ELSE Visited(M, n)
  BY <1>1 DEF Visited
<1> QED
  BY <1>2, <1>3, VisitedIsFinite, FS_AddElement

\* When the loop comes to a position, it has met all that sort before it.
LEMMA AheadIsVisited ==
    ASSUME IInv, Sorted, NEW M \in SUBSET Scope, NEW k \in DOMAIN order
    PROVE  Ahead(order[k], M) = Visited(M, k)
<1>1. policies \in Seq(Policy) /\ \A a \in DOMAIN order : order[a] \in DOMAIN policies
  BY DEF IInv, TypeOK, Sorted, Applicable
<1>2. \A a \in DOMAIN order : a \in Nat /\ (a \in 1..(k - 1) <=> a < k)
  BY DEF Sorted
<1>3. ASSUME NEW i \in M PROVE Before(policies, i, order[k]) <=> \E a \in 1..(k - 1) : order[a] = i
  <2>1. PICK a \in DOMAIN order : order[a] = i
    BY DEF Sorted, StablySorted, Scope
  <2>2. a < k => Before(policies, i, order[k])
    BY <2>1 DEF Sorted, StablySorted
  <2>3. ~(a < k) => ~Before(policies, i, order[k])
    <3>1. CASE a = k
      BY <1>1, <2>1, <3>1, BeforeIsAStrictOrder
    <3>2. CASE k < a
      <4>1. Before(policies, order[k], i)
        BY <2>1, <3>2 DEF Sorted, StablySorted
      <4> QED
        BY <1>1, <2>1, <4>1, BeforeIsAStrictOrder
    <3> QED
      BY <1>2, <3>1, <3>2
  <2>4. \A b \in 1..(k - 1) : b \in DOMAIN order
    BY DEF Sorted
  <2>5. ASSUME NEW b \in 1..(k - 1), order[b] = i PROVE Before(policies, i, order[k])
    BY <1>2, <2>4, <2>5 DEF Sorted, StablySorted
  <2> QED
    BY <1>2, <2>1, <2>2, <2>3, <2>5
<1> QED
  BY <1>3 DEF Ahead, Visited

\* Nothing is met before the first place.
LEMMA StartLists ==
    ASSUME next = 1, evaluated = <<>>, almost = <<>>
    PROVE  Traced /\ MissesKept
<1>1. Visited(Scope, next) = {} /\ Visited(Misses, next) = {}
  BY DEF Visited
<1>2. Cardinality({}) = 0 /\ 1..(next - 1) = {}
  BY FS_EmptySet
<1>3. Len(<<>>) = 0 /\ AlmostCap \in Nat
  OBVIOUS
<1>4. Traced
  BY <1>1, <1>2, <1>3 DEF Traced
<1>5. MissesKept
  <2>1. Len(almost) = 0
    BY <1>3
  <2>3. Cardinality(Visited(Misses, next)) = 0
    BY <1>1, <1>2
  <2>4. 0 <= AlmostCap
    BY <1>3
  <2>2. ~ \E k \in 1..(next - 1) : TRUE
    BY <1>2
  <2> QED
    BY <2>1, <2>2, <2>3, <2>4 DEF MissesKept
<1> QED
  BY <1>4, <1>5

\* What was met, and what is said of it, by places of a list that stays.
LEMMA SameQuery ==
    ASSUME UNCHANGED <<request, policies, order>>
    PROVE  /\ Scope' = Scope /\ Misses' = Misses
           /\ \A M, n : Visited(M, n)' = Visited(M, n) /\ Place(M, n)' = Place(M, n)
           /\ \A i : Verdict(i)' = Verdict(i)
           /\ \A i, entry : Reported(i, entry)' <=> Reported(i, entry)
<1>1. Scope' = Scope
  BY DEF Scope, Applicable, InScope
<1>2. \A q, p : (Matches(q, p)' <=> Matches(q, p)) /\ (AlmostMatches(q, p)' <=> AlmostMatches(q, p))
  OBVIOUS
<1>3. Misses' = Misses
  BY <1>1 DEF Misses
<1>4. \A M, n : Visited(M, n)' = Visited(M, n) /\ Place(M, n)' = Place(M, n)
  BY DEF Visited, Place
<1>5. \A i : Verdict(i)' = Verdict(i)
  BY DEF Verdict
<1>6. \A i, entry : Reported(i, entry)' <=> Reported(i, entry)
  BY DEF Reported
<1> QED
  BY <1>1, <1>3, <1>4, <1>5, <1>6

\* The loop body adds the policy it visits to the trace.
LEMMA VisitTraced ==
    ASSUME IInv, Traced, NEW matched \in BOOLEAN, Visit(matched)
    PROVE  Traced'
<1>1. /\ next \in 1..Len(order) /\ next \in DOMAIN order /\ next \in Nat
      /\ order[next] \in Scope /\ evaluated \in Seq(Entry)
  BY VisitFacts DEF Scope, IInv, TypeOK, Visit
<1>2. /\ next' = next + 1 /\ UNCHANGED <<request, policies, order>>
      /\ evaluated' = Append(evaluated, Verdict(order[next]))
  BY DEF Visit, Verdict, Current
<1>3. Cardinality(Visited(Scope, next + 1)) = Cardinality(Visited(Scope, next)) + 1
  BY <1>1, VisitedGrows DEF IInv, Visit
<1>4. Cardinality(Visited(Scope, next)) \in Nat
  BY VisitedIsFinite
<1> DEFINE c == Cardinality(Visited(Scope, next))
<1>5. /\ Len(evaluated) = c /\ Place(Scope, next) = c + 1
      /\ \A k \in 1..(next - 1) : /\ Place(Scope, k) \in DOMAIN evaluated
                                  /\ evaluated[Place(Scope, k)] = Verdict(order[k])
  BY DEF Traced, Place
<1> HIDE DEF c
<1>6. /\ Len(evaluated') = c + 1 /\ DOMAIN evaluated \subseteq DOMAIN evaluated'
      /\ c + 1 \in DOMAIN evaluated' /\ evaluated'[c + 1] = Verdict(order[next])
      /\ \A m \in DOMAIN evaluated : evaluated'[m] = evaluated[m]
  BY <1>1, <1>2, <1>4, <1>5 DEF c
<1>7. ASSUME NEW k \in 1..next
      PROVE  /\ Place(Scope, k) \in DOMAIN evaluated'
             /\ evaluated'[Place(Scope, k)] = Verdict(order[k])
  <2>1. k = next \/ k \in 1..(next - 1)
    BY <1>1
  <2> QED
    BY <2>1, <1>5, <1>6
<1>8. Len(evaluated') = Cardinality(Visited(Scope, next + 1)) /\ 1..(next' - 1) = 1..next
  BY <1>1, <1>2, <1>3, <1>6 DEF c
<1>9. /\ Scope' = Scope /\ Visited(Scope, next)' = Visited(Scope, next + 1)
      /\ \A k : Place(Scope, k)' = Place(Scope, k) /\ Verdict(order[k])' = Verdict(order[k])
  BY <1>2, SameQuery DEF Visited, Place, Verdict
<1> QED
  BY <1>7, <1>8, <1>9 DEF Traced

\* A match leaves the almost-matches alone: it is none of the misses.
LEMMA HitKeepsMisses ==
    ASSUME IInv, MissesKept, VisitHit
    PROVE  MissesKept'
<1>1. Visit(TRUE) /\ almost' = almost
  BY DEF VisitHit
<1>2. /\ next \in DOMAIN order /\ next \in Nat /\ next' = next + 1
      /\ UNCHANGED <<request, policies, order>>
  BY <1>1 DEF Visit, IInv, TypeOK
<1>3. order[next] \notin Misses
  BY <1>1 DEF Visit, Misses, AlmostMatches, Current
<1>4. Misses \subseteq Scope
  BY DEF Misses
<1>5. Cardinality(Visited(Misses, next + 1)) = Cardinality(Visited(Misses, next))
  BY <1>1, <1>2, <1>3, <1>4, VisitedGrows DEF IInv, Visit
<1>6. \A k \in 1..(next' - 1) : k = next \/ k \in 1..(next - 1)
  BY <1>2
<1> QED
  BY <1>1, <1>2, <1>3, <1>5, <1>6, SameQuery DEF MissesKept

\* A miss by one rule is kept if there is room.
LEMMA MissKeepsMisses ==
    ASSUME IInv, MissesKept, VisitMiss
    PROVE  MissesKept'
<1>1. Visit(FALSE)
  BY DEF VisitMiss
<1>2. /\ next \in DOMAIN order /\ next \in Nat /\ next' = next + 1
      /\ UNCHANGED <<request, policies, order>>
      /\ order[next] \in Scope /\ Current \in Policy /\ request \in Requests
  <2>1. FALSE \in BOOLEAN
    OBVIOUS
  <2>2. order[next] \in Scope /\ Current \in Policy
    BY <1>1, <2>1, VisitFacts DEF Scope
  <2> QED
    BY <1>1, <2>2 DEF Visit, IInv, TypeOK
<1>3. Misses \subseteq Scope
  BY DEF Misses
<1> DEFINE c     == Cardinality(Visited(Misses, next))
           entry == [id |-> Current.id, missing |-> MissingRule(request, Current)]
<1>4. order[next] \in Misses <=> AlmostMatches(request, Current)
  BY <1>2 DEF Misses, Current
<1>5. Cardinality(Visited(Misses, next + 1)) = IF order[next] \in Misses THEN c + 1 ELSE c
  BY <1>1, <1>2, <1>3, VisitedGrows DEF IInv, Visit
<1>6. c \in Nat /\ Place(Misses, next) = c + 1
  BY <1>3, VisitedIsFinite DEF Place
<1>7. /\ almost \in Seq(Miss) /\ AlmostCap \in Nat /\ Len(almost) \in Nat
      /\ Len(almost) <= AlmostCap /\ Len(almost) <= c
      /\ Len(almost) < AlmostCap => Len(almost) = c
  BY DEF IInv, TypeOK, MissesKept
<1>8. ASSUME NEW k \in 1..(next - 1), order[k] \in Misses, Place(Misses, k) <= AlmostCap
      PROVE  Place(Misses, k) \in DOMAIN almost /\ Reported(order[k], almost[Place(Misses, k)])
  BY <1>8 DEF MissesKept
<1>9. 1..(next' - 1) = 1..next /\ \A k \in 1..next : k = next \/ k \in 1..(next - 1)
  BY <1>2
<1> HIDE DEF c
<1>10. CASE order[next] \in Misses /\ Len(almost) < AlmostCap
  <2>1. almost' = Append(almost, entry) /\ Len(almost) = c
    BY <1>4, <1>7, <1>10 DEF VisitMiss
  <2>2. Reported(order[next], entry)
    BY <1>2, <1>4, <1>10, MissingRuleFacts DEF Reported, Current
  <2>3. entry \in Miss
    BY <1>2, <1>4, <1>10, MissingRuleFacts DEF Miss, Policy
  <2> HIDE DEF entry
  <2>4. /\ Len(almost') = c + 1 /\ DOMAIN almost \subseteq DOMAIN almost'
        /\ c + 1 \in DOMAIN almost' /\ almost'[c + 1] = entry
        /\ \A m \in DOMAIN almost : almost'[m] = almost[m]
    BY <1>6, <1>7, <2>1, <2>3
  <2>5. ASSUME NEW k \in 1..next, order[k] \in Misses, Place(Misses, k) <= AlmostCap
        PROVE  Place(Misses, k) \in DOMAIN almost' /\ Reported(order[k], almost'[Place(Misses, k)])
    BY <1>6, <1>8, <1>9, <2>2, <2>4, <2>5
  <2>6. /\ Len(almost') <= AlmostCap
        /\ Len(almost') = Cardinality(Visited(Misses, next + 1))
    BY <1>5, <1>6, <1>7, <1>10, <2>1, <2>4
  <2>7. (\A k \in 1..(next - 1) :
           (order[k] \in Misses /\ Place(Misses, k) <= AlmostCap) =>
              /\ Place(Misses, k) \in DOMAIN almost
              /\ Reported(order[k], almost[Place(Misses, k)]))'
    BY <1>2, <1>9, <2>5, SameQuery
  <2>8. Cardinality(Visited(Misses, next))' = Cardinality(Visited(Misses, next + 1))
    BY <1>2, SameQuery
  <2>9. Cardinality(Visited(Misses, next + 1)) = Len(almost') /\ Len(almost') \in Nat
    BY <1>6, <2>4, <2>6
  <2> QED
    BY <2>6, <2>7, <2>8, <2>9 DEF MissesKept
<1>11. CASE ~(order[next] \in Misses /\ Len(almost) < AlmostCap)
  <2>1. almost' = almost
    BY <1>4, <1>11 DEF VisitMiss
  <2>2. ASSUME NEW k \in 1..next, order[k] \in Misses, Place(Misses, k) <= AlmostCap
        PROVE  Place(Misses, k) \in DOMAIN almost /\ Reported(order[k], almost[Place(Misses, k)])
    <3>1. k # next
      BY <1>6, <1>7, <1>11, <2>2
    <3> QED
      BY <3>1, <1>8, <1>9, <2>2
  <2>3. /\ Len(almost) <= Cardinality(Visited(Misses, next + 1))
        /\ Len(almost) < AlmostCap => Len(almost) = Cardinality(Visited(Misses, next + 1))
    BY <1>5, <1>6, <1>7, <1>11
  <2>4. (\A k \in 1..(next - 1) :
           (order[k] \in Misses /\ Place(Misses, k) <= AlmostCap) =>
              /\ Place(Misses, k) \in DOMAIN almost
              /\ Reported(order[k], almost[Place(Misses, k)]))'
    BY <1>2, <1>9, <2>1, <2>2, SameQuery
  <2>5. Cardinality(Visited(Misses, next))' = Cardinality(Visited(Misses, next + 1))
    BY <1>2, SameQuery
  <2> QED
    BY <1>7, <2>1, <2>3, <2>4, <2>5 DEF MissesKept
<1> QED
  BY <1>10, <1>11

LEMMA ListsInvariance == Spec => []Lists
<1>1. Init => Lists
  BY StartLists DEF Init, Lists, ListsReturned
<1>2. IInv /\ Lists /\ [Next]_vars => Lists'
  <2> SUFFICES ASSUME IInv, Lists, [Next]_vars PROVE Lists'
    OBVIOUS
  <2>1. CASE FilterAndSort
    <3>1. pc = "start" /\ pc' = "loop" /\ UNCHANGED <<request, policies, next, evaluated, almost>>
      BY <2>1 DEF FilterAndSort
    <3>2. next' = 1 /\ evaluated' = <<>> /\ almost' = <<>>
      BY <3>1 DEF IInv, Lists
    <3>3. Visited(Scope, next)' = {} /\ Visited(Misses, next)' = {}
      BY <3>2 DEF Visited
    <3>4. Cardinality({}) = 0 /\ 1..(next' - 1) = {}
      BY <3>2, FS_EmptySet
    <3>5. Len(<<>>) = 0 /\ AlmostCap \in Nat /\ AlmostCap' = AlmostCap
      OBVIOUS
    <3>6. Traced'
      BY <3>2, <3>3, <3>4, <3>5 DEF Traced
    <3>7. MissesKept'
      <4>1. Len(almost') = 0 /\ AlmostCap' = AlmostCap
        BY <3>2, <3>5
      <4>2. Cardinality(Visited(Misses, next)') = 0
        BY <3>3, <3>4
      <4>3. 0 <= AlmostCap
        BY <3>5
      <4>4. ~ \E k \in 1..(next' - 1) : TRUE
        BY <3>4
      <4> QED
        BY <4>1, <4>2, <4>3, <4>4 DEF MissesKept
    <3> QED
      BY <3>1, <3>6, <3>7 DEF Lists, ListsReturned
  <2>2. CASE VisitHit
    BY <2>2, VisitTraced, HitKeepsMisses DEF VisitHit, Visit, Lists, ListsReturned
  <2>3. CASE VisitMiss
    BY <2>3, VisitTraced, MissKeepsMisses DEF VisitMiss, Visit, Lists, ListsReturned
  <2>4. CASE FinishDeny \/ FinishAllow \/ FinishDefault
    <3>1. PICK effect \in Effects : \E matched, why : Finish(effect, matched, why)
      BY <2>4, FinishSteps
    <3>2. /\ pc = "loop" /\ next \notin DOMAIN order /\ pc' = "done"
          /\ UNCHANGED <<request, policies, order, next, evaluated, almost>>
          /\ decision'.evaluated = evaluated
          /\ decision'.explanation.given => decision'.explanation.almost = almost
      BY <3>1 DEF Finish, NoExplanation
    <3>3. next = Len(order) + 1
      BY <3>2 DEF IInv, TypeOK
    <3> QED
      BY <3>2, <3>3, SameQuery DEF Lists, Traced, MissesKept, ListsReturned
  <2>5. CASE UNCHANGED vars
    <3>1. UNCHANGED <<pc, request, policies, order, next, evaluated, almost, decision>>
      BY <2>5 DEF vars
    <3> QED
      BY <3>1, SameQuery DEF Lists, Traced, MissesKept, ListsReturned
  <2> QED
    BY <2>1, <2>2, <2>3, <2>4, <2>5 DEF Next
<1> QED
  BY <1>1, <1>2, Invariance, PTL DEF Spec

\* When the loop is over, everything was met.
LEMMA AllVisited ==
    ASSUME IInv, Lists, Decided, NEW M \in SUBSET Scope
    PROVE  /\ Sorted /\ next - 1 = Len(order) /\ DOMAIN order = 1..(next - 1)
           /\ Visited(M, next) = M
           /\ \A i \in M : \E k \in DOMAIN order : order[k] = i
<1>1. Sorted
  BY DEF IInv, Decided
<1>2. next - 1 = Len(order) /\ DOMAIN order = 1..(next - 1)
  BY <1>1 DEF Lists, ListsReturned, Decided, Sorted
<1>3. \A i \in M : \E k \in DOMAIN order : order[k] = i
  BY <1>1 DEF Sorted, StablySorted, Scope
<1> QED
  BY <1>1, <1>2, <1>3 DEF Visited

\* The trace of a decision is complete, for any file and any request.
THEOREM TraceCoversTheScope == Spec => []TraceIsComplete
<1>1. IInv /\ Lists => TraceIsComplete
  <2> SUFFICES ASSUME IInv, Lists, Decided PROVE TraceIsComplete
    BY DEF TraceIsComplete
  <2>1. decision.evaluated = evaluated /\ Len(evaluated) = Cardinality(Scope)
    BY AllVisited DEF Lists, ListsReturned, Traced, Decided
  <2>2. ASSUME NEW i \in Scope
        PROVE  evaluated[Cardinality(Ahead(i, Scope)) + 1] = Verdict(i)
    <3>1. PICK k \in DOMAIN order : order[k] = i
      BY AllVisited
    <3>2. Ahead(i, Scope) = Visited(Scope, k) /\ k \in 1..(next - 1)
      BY <3>1, AllVisited, AheadIsVisited
    <3> QED
      BY <3>1, <3>2 DEF Lists, Traced, Place
  <2> QED
    BY <2>1, <2>2 DEF TraceIsComplete, Scope, Verdict
<1> QED
  BY <1>1, Invariance, ListsInvariance, PTL

\* The almost-matches of an explanation are the first ones, up to the cap, and
\* each reports the one rule that failed, for any cap, file and request.
THEOREM MissesAreReported == Spec => []NearMissesReported
<1>1. IInv /\ Lists => NearMissesReported
  <2> SUFFICES ASSUME IInv, Lists, Decided, decision.explanation.given PROVE NearMissesReported
    BY DEF NearMissesReported
  <2> DEFINE reported == decision.explanation.almost
  <2>1. reported = almost /\ Misses \subseteq Scope
    BY DEF Lists, ListsReturned, Decided, Misses
  <2>2. Len(almost) <= AlmostCap /\ Len(almost) <= Cardinality(Misses)
    BY <2>1, AllVisited DEF Lists, MissesKept
  <2>3. ASSUME NEW i \in Misses, Cardinality(Ahead(i, Misses)) + 1 <= AlmostCap
        PROVE  /\ Cardinality(Ahead(i, Misses)) + 1 \in DOMAIN almost
               /\ Reported(i, almost[Cardinality(Ahead(i, Misses)) + 1])
    <3>1. PICK k \in DOMAIN order : order[k] = i
      BY <2>1, AllVisited
    <3>2. Ahead(i, Misses) = Visited(Misses, k) /\ k \in 1..(next - 1)
      BY <2>1, <3>1, AllVisited, AheadIsVisited
    <3> QED
      BY <2>3, <3>1, <3>2 DEF Lists, MissesKept, Place
  <2> HIDE DEF reported
  <2> QED
    BY <2>1, <2>2, <2>3 DEF NearMissesReported, Misses, Scope, Reported, OnlyMiss, reported
<1> QED
  BY <1>1, Invariance, ListsInvariance, PTL
=============================================================================

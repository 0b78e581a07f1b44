------------------------- MODULE PolicyRolloutProofs -------------------------
(***************************************************************************)
(* Theorems about PolicyRollout, for any policy files, any traffic and any *)
(* meaning of a rule: what the impact report and the diff may be trusted   *)
(* for.                                                                    *)
(***************************************************************************)
EXTENDS PolicyRollout, TLAPS

----------------------------------------------------------------------------
(* What the diff says of two files *)

Same(p, q) ==
    /\ p.id = q.id /\ p.effect = q.effect /\ p.priority = q.priority
    /\ p.actions = q.actions /\ p.match = q.match

LEMMA KeyedIsTheOne ==
    ASSUME NEW ps \in Seq(Policy), UniqueIds(ps), NEW i \in DOMAIN ps
    PROVE  Keyed(ps, ps[i].id) = ps[i]
<1> DEFINE Last(k) == ps[k].id = ps[i].id /\ \A j \in DOMAIN ps : ps[j].id = ps[i].id => j <= k
<1>1. \A j \in DOMAIN ps : ps[j].id = ps[i].id => j = i
  BY DEF UniqueIds
<1>2. i \in Int
  OBVIOUS
<1>3. Last(i) /\ \A k \in DOMAIN ps : Last(k) => k = i
  BY <1>1, <1>2
<1>4. (CHOOSE k \in DOMAIN ps : Last(k)) = i
  BY <1>3
<1> QED
  BY <1>4 DEF Keyed

\* A policy whose id only shows as added, or not at all, is in both files.
LEMMA Counterpart ==
    ASSUME NEW a \in Seq(Policy), NEW b \in Seq(Policy), UniqueIds(a), UniqueIds(b),
           NEW id \in IdsOf(a),
           \A e \in DiffPolicies(a, b) : e[1] = id => e[2] = "added"
    PROVE  \E i \in DOMAIN a, j \in DOMAIN b : a[i].id = id /\ Same(a[i], b[j])
<1>1. PICK i \in DOMAIN a : a[i].id = id
  BY DEF IdsOf
<1>2. id \in IdsOf(b)
  <2>1. SUFFICES ASSUME id \notin IdsOf(b) PROVE FALSE
    OBVIOUS
  <2>2. <<id, "removed">> \in DiffPolicies(a, b)
    BY <2>1 DEF DiffPolicies
  <2> QED
    BY <2>2
<1>3. PICK j \in DOMAIN b : b[j].id = id
  BY <1>2 DEF IdsOf
<1>4. Keyed(a, id) = a[i] /\ Keyed(b, id) = b[j]
  BY <1>1, <1>3, KeyedIsTheOne
<1>5. Changes(a[i], b[j]) = {}
  <2>1. \A c \in Changes(a[i], b[j]) : <<id, c>> \in DiffPolicies(a, b)
    BY <1>2, <1>4 DEF DiffPolicies
  <2>2. "added" \notin Changes(a[i], b[j])
    BY DEF Changes
  <2> QED
    BY <2>1, <2>2
<1>6. Same(a[i], b[j])
  <2>1. \A c \in {"priority", "effect", "actions", "match"} :
          ~(CASE c = "priority" -> a[i].priority # b[j].priority
              [] c = "effect"   -> a[i].effect # b[j].effect
              [] c = "actions"  -> a[i].actions # b[j].actions
              [] c = "match"    -> a[i].match # b[j].match)
    BY <1>5 DEF Changes
  <2>2. a[i].priority = b[j].priority
    BY <2>1
  <2>3. a[i].effect = b[j].effect
    BY <2>1
  <2>4. a[i].actions = b[j].actions
    BY <2>1
  <2>5. a[i].match = b[j].match
    BY <2>1
  <2> QED
    BY <1>1, <1>3, <2>2, <2>3, <2>4, <2>5 DEF Same
<1> QED
  BY <1>1, <1>6

\* The same policy matches the same requests.
LEMMA SameHits ==
    ASSUME NEW a, NEW b, NEW i \in DOMAIN a, NEW j \in DOMAIN b, Same(a[i], b[j]),
           NEW q, NEW effect, i \in Hits(q, a, effect)
    PROVE  j \in Hits(q, b, effect)
<1>1. Matches(q, b[j]) /\ InScope(q, b[j])
  BY DEF Hits, Applicable, Same, Matches, InScope
<1> QED
  BY <1>1 DEF Hits, Applicable, Same

\* What the ids of one effect say when nothing else is added.
LEMMA Carried ==
    ASSUME NEW a \in Seq(Policy), NEW b \in Seq(Policy), UniqueIds(a), UniqueIds(b), NEW q, NEW effect,
           \A e \in DiffPolicies(a, b) : e[2] = "added",
           Hits(q, a, effect) # {}
    PROVE  Hits(q, b, effect) # {}
<1>1. PICK i \in Hits(q, a, effect) : TRUE
  OBVIOUS
<1>2. i \in DOMAIN a /\ a[i].id \in IdsOf(a)
  BY DEF Hits, Applicable, IdsOf
<1>3. PICK k \in DOMAIN a, j \in DOMAIN b : a[k].id = a[i].id /\ Same(a[k], b[j])
  BY <1>2, Counterpart
<1>4. k = i
  BY <1>2, <1>3 DEF UniqueIds
<1> QED
  BY <1>1, <1>2, <1>3, <1>4, SameHits

LEMMA CarriedBack ==
    ASSUME NEW a \in Seq(Policy), NEW b \in Seq(Policy), UniqueIds(a), UniqueIds(b), NEW q, NEW effect,
           \A e \in DiffPolicies(a, b) :
              e[2] = "added" /\ Keyed(b, e[1]).effect # effect,
           Hits(q, b, effect) # {}
    PROVE  Hits(q, a, effect) # {}
<1>1. PICK j \in Hits(q, b, effect) : TRUE
  OBVIOUS
<1>2. j \in DOMAIN b /\ b[j].id \in IdsOf(b) /\ b[j].effect = effect
  BY DEF Hits, Applicable, IdsOf
<1>3. b[j].id \in IdsOf(a)
  <2>1. SUFFICES ASSUME b[j].id \notin IdsOf(a) PROVE FALSE
    OBVIOUS
  <2>2. <<b[j].id, "added">> \in DiffPolicies(a, b)
    BY <1>2, <2>1 DEF DiffPolicies
  <2>3. Keyed(b, b[j].id).effect = effect
    BY <1>2, KeyedIsTheOne
  <2> QED
    BY <2>2, <2>3
<1>4. PICK i \in DOMAIN a, k \in DOMAIN b : a[i].id = b[j].id /\ Same(a[i], b[k])
  BY <1>3, Counterpart
<1>5. k = j
  BY <1>2, <1>4 DEF Same, UniqueIds
<1>6. Same(b[j], a[i])
  BY <1>4, <1>5 DEF Same
<1> QED
  BY <1>1, <1>2, <1>4, <1>6, SameHits

----------------------------------------------------------------------------
(* The inductive invariant *)

Shapes ==
    /\ pc \in {"start", "baseline", "replay", "failed", "done"}
    /\ command \in {"dry_run", "diff", "shadow"}
    /\ old \in PolicyLists /\ new \in PolicyLists
    /\ threshold \in Thresholds \cup {NoThreshold}
    /\ traffic \in Seq(TrafficRecord)
    /\ position \in 1..(Len(traffic) + 1)

\* Where the commands are, and what they have not touched yet.
Phases ==
    /\ pc = "start" => position = 1 /\ entries = {}
    /\ pc = "baseline" => command = "diff"
    /\ pc \in {"start", "baseline"} => report = EmptyReport
    /\ command = "shadow" => report = EmptyReport
    /\ pc = "start" \/ command # "shadow" => agreement = [agree |-> 0, disagree |-> 0]
    /\ command = "diff" /\ pc # "start" => entries = DiffPolicies(old, new)
    /\ command # "diff" => entries = {}
    /\ pc = "done" => position = Len(traffic) + 1
    /\ pc = "replay" /\ command # "shadow" => report.total = Len(traffic)
    /\ pc = "done" /\ command # "shadow" => report.total = Len(traffic)

\* diff compares with what old decides.
BaselineTaken ==
    command = "diff" =>
        \A i \in DOMAIN traffic :
            (pc = "baseline" /\ i < position) \/ pc \in {"replay", "done"}
              => traffic[i].prior_effect = EffectFor(traffic[i].request, old)

Decision(i) == EffectFor(traffic[i].request, new)
Flipped     == {i \in 1..(position - 1) : Decision(i) # traffic[i].prior_effect}

DryRunReport == [total : Nat, unchanged : Nat, newly_denied : Nat, newly_allowed : Nat,
                 affected_principals : SUBSET Principals]
Tally(r) == r.unchanged + r.newly_denied + r.newly_allowed

\* The report adds up what was replayed.
Counted ==
    /\ report \in DryRunReport
    /\ (pc \in {"replay", "done"} /\ command # "shadow") =>
          /\ Tally(report) = position - 1
          /\ report.affected_principals = {traffic[i].principal : i \in Flipped}
          /\ report.newly_denied > 0 => \E i \in Flipped : Decision(i) = "deny"
          /\ report.newly_allowed > 0 => \E i \in Flipped : Decision(i) = "allow"

Compared ==
    /\ agreement \in [agree : Nat, disagree : Nat]
    /\ agreement.disagree > 0 =>
          \E i \in 1..(position - 1) : EffectFor(traffic[i].request, old) # Decision(i)

RInv == Shapes /\ Phases /\ BaselineTaken /\ Counted /\ Compared

LEMMA EffectType == \A q, ps : EffectFor(q, ps) \in Effects
BY DEF EffectFor, Effects

LEMMA InitRInv == Init => RInv
<1> SUFFICES ASSUME Init PROVE RInv
  OBVIOUS
<1>1. Shapes
  BY RolloutAssumption DEF Init, Shapes
<1>2. Phases /\ BaselineTaken /\ Compared
  BY DEF Init, Phases, BaselineTaken, Compared
<1>3. Counted
  BY DEF Init, Counted, EmptyReport, DryRunReport
<1> QED
  BY <1>1, <1>2, <1>3 DEF RInv

\* The commands start.
LEMMA StartRInv == ASSUME RInv, Reject \/ StartReplay \/ StartShadow \/ StartDiff PROVE RInv'
<1> USE DEF RInv
<1>1. /\ pc = "start" /\ pc' \in {"failed", "replay", "baseline"}
      /\ UNCHANGED <<command, old, new, threshold, traffic, position, agreement>>
      /\ report' = report \/ report' = [report EXCEPT !.total = Len(traffic)]
  BY DEF Reject, StartReplay, StartShadow, StartDiff
<1>2. position = 1 /\ report = EmptyReport /\ entries = {}
      /\ agreement = [agree |-> 0, disagree |-> 0]
  BY <1>1 DEF Phases
<1>3. Shapes' /\ Compared'
  BY <1>1, <1>2 DEF Shapes, Compared
<1>4. Phases'
  BY <1>1, <1>2 DEF Phases, Shapes, Reject, StartReplay, StartShadow, StartDiff, EmptyReport
<1>5. BaselineTaken'
  BY <1>1, <1>2 DEF BaselineTaken, Shapes, Reject, StartReplay, StartShadow, StartDiff
<1>6. Counted'
  <2>1. Flipped' = {}
    BY <1>1, <1>2 DEF Flipped
  <2>2. Len(traffic) \in Nat
    BY DEF Shapes
  <2>3. /\ report'.unchanged = 0 /\ report'.newly_denied = 0 /\ report'.newly_allowed = 0
        /\ report'.affected_principals = {}
        /\ report' \in DryRunReport
    BY <1>1, <1>2, <2>2 DEF EmptyReport, DryRunReport
  <2> QED
    BY <1>1, <1>2, <2>1, <2>3 DEF Counted, Tally
<1> QED
  BY <1>3, <1>4, <1>5, <1>6

\* diff --impact decides the traffic by the old file first.
LEMMA BaselineRInv == ASSUME RInv, Baseline \/ BaselineDone PROVE RInv'
<1> USE DEF RInv
<1>1. CASE Baseline
  <2> DEFINE rec == [traffic[position] EXCEPT !.prior_effect =
                        EffectFor(traffic[position].request, old)]
  <2>1. /\ pc = "baseline" /\ position \in DOMAIN traffic
        /\ traffic' = [traffic EXCEPT ![position] = rec]
        /\ position' = position + 1
        /\ UNCHANGED <<pc, command, old, new, threshold, entries, report, agreement>>
    BY <1>1 DEF Baseline
  <2>2. traffic[position] \in TrafficRecord
    BY <2>1 DEF Shapes
  <2>3. rec \in TrafficRecord /\ rec.request = traffic[position].request
        /\ rec.prior_effect = EffectFor(traffic[position].request, old)
    BY <2>2, EffectType DEF TrafficRecord
  <2> HIDE DEF rec
  <2>4. /\ traffic' \in Seq(TrafficRecord) /\ Len(traffic') = Len(traffic)
        /\ DOMAIN traffic' = DOMAIN traffic
        /\ \A i \in DOMAIN traffic : traffic'[i] = IF i = position THEN rec ELSE traffic[i]
    BY <2>1, <2>3 DEF Shapes
  <2>5. Shapes'
    BY <2>1, <2>4 DEF Shapes
  <2>6. command = "diff" /\ agreement = [agree |-> 0, disagree |-> 0] /\ report = EmptyReport
    BY <2>1 DEF Phases
  <2>7. Phases'
    BY <2>1, <2>4, <2>6 DEF Phases
  <2>8. BaselineTaken'
    BY <2>1, <2>3, <2>4 DEF BaselineTaken, Shapes
  <2>9. Counted' /\ Compared'
    BY <2>1, <2>6 DEF Counted, Compared
  <2> QED
    BY <2>5, <2>7, <2>8, <2>9
<1>2. CASE BaselineDone
  <2>1. /\ pc = "baseline" /\ position \notin DOMAIN traffic
        /\ pc' = "replay" /\ position' = 1
        /\ report' = [report EXCEPT !.total = Len(traffic)]
        /\ UNCHANGED <<command, old, new, threshold, traffic, entries, agreement>>
    BY <1>2 DEF BaselineDone
  <2>2. command = "diff" /\ agreement = [agree |-> 0, disagree |-> 0] /\ report = EmptyReport
    BY <2>1 DEF Phases
  <2>3. position = Len(traffic) + 1 /\ Len(traffic) \in Nat /\ DOMAIN traffic = 1..Len(traffic)
    BY <2>1 DEF Shapes
  <2>4. Shapes'
    BY <2>1, <2>3 DEF Shapes
  <2>5. Phases'
    BY <2>1, <2>2, <2>3 DEF Phases, EmptyReport
  <2>6. BaselineTaken'
    BY <2>1, <2>3 DEF BaselineTaken
  <2>7. Counted'
    <3>1. Flipped' = {}
      BY <2>1 DEF Flipped
    <3>2. /\ report'.unchanged = 0 /\ report'.newly_denied = 0 /\ report'.newly_allowed = 0
          /\ report'.affected_principals = {}
          /\ report' \in DryRunReport
      BY <2>1, <2>2, <2>3 DEF EmptyReport, DryRunReport
    <3> QED
      BY <2>1, <3>1, <3>2 DEF Counted, Tally
  <2>8. Compared'
    BY <2>1, <2>2 DEF Compared
  <2> QED
    BY <2>4, <2>5, <2>6, <2>7, <2>8
<1> QED
  BY <1>1, <1>2

\* s is r after one record, decided as d.
CountsOnce(r, rec, d, s) ==
    /\ s \in DryRunReport /\ Tally(s) = Tally(r) + 1
    /\ s.affected_principals =
         IF d # rec.prior_effect THEN r.affected_principals \cup {rec.principal}
                                 ELSE r.affected_principals
    /\ s.newly_denied = r.newly_denied \/ (d # rec.prior_effect /\ d = "deny")
    /\ s.newly_allowed = r.newly_allowed \/ (d # rec.prior_effect /\ d = "allow")

LEMMA ReplayedFacts ==
    ASSUME NEW r \in DryRunReport, NEW rec \in TrafficRecord, NEW d \in Effects
    PROVE  CountsOnce(r, rec, d, Replayed(r, rec, d))
<1> DEFINE s == Replayed(r, rec, d)
           u == r.unchanged
           n == r.newly_denied
           m == r.newly_allowed
<1>1. u \in Nat /\ n \in Nat /\ m \in Nat /\ r.total \in Nat
      /\ r.affected_principals \subseteq Principals /\ rec.principal \in Principals
  BY DEF DryRunReport, TrafficRecord
<1>2. \/ /\ d = rec.prior_effect
         /\ s = [total |-> r.total, unchanged |-> u + 1, newly_denied |-> n,
                 newly_allowed |-> m, affected_principals |-> r.affected_principals]
      \/ /\ d # rec.prior_effect /\ d = "deny"
         /\ s = [total |-> r.total, unchanged |-> u, newly_denied |-> n + 1,
                 newly_allowed |-> m,
                 affected_principals |-> r.affected_principals \cup {rec.principal}]
      \/ /\ d # rec.prior_effect /\ d = "allow"
         /\ s = [total |-> r.total, unchanged |-> u, newly_denied |-> n,
                 newly_allowed |-> m + 1,
                 affected_principals |-> r.affected_principals \cup {rec.principal}]
  <2>1. CASE d = rec.prior_effect
    BY <2>1 DEF Replayed, DryRunReport
  <2>2. CASE d # rec.prior_effect /\ d = "deny"
    BY <2>2 DEF Replayed, DryRunReport
  <2>3. CASE d # rec.prior_effect /\ d = "allow"
    BY <2>3 DEF Replayed, DryRunReport
  <2> QED
    BY <2>1, <2>2, <2>3 DEF Effects
<1> HIDE DEF s, u, n, m
<1>3. s \in DryRunReport
  BY <1>1, <1>2 DEF DryRunReport
<1>4. s.unchanged + s.newly_denied + s.newly_allowed = (u + n + m) + 1
  BY <1>1, <1>2
<1> QED
  BY <1>2, <1>3, <1>4 DEF CountsOnce, Tally, s, u, n, m

\* One record is replayed.
LEMMA ReplayRInv == ASSUME RInv, Replay PROVE RInv'
<1> USE DEF RInv
<1> DEFINE d     == Decision(position)
           prior == traffic[position].prior_effect
           who   == traffic[position].principal
<1>1. /\ pc = "replay" /\ command # "shadow" /\ position \in DOMAIN traffic
      /\ report' = Replayed(report, traffic[position], d)
      /\ position' = position + 1
      /\ UNCHANGED <<pc, command, old, new, threshold, traffic, entries, agreement>>
  BY DEF Replay, This, Decision
<1>2. /\ traffic \in Seq(TrafficRecord) /\ position \in 1..Len(traffic) /\ Len(traffic) \in Nat
      /\ DOMAIN traffic = 1..Len(traffic) /\ 1..(position' - 1) = 1..position
  BY <1>1 DEF Shapes
<1>3. prior \in Effects /\ who \in Principals /\ d \in Effects
  <2>1. traffic[position] \in TrafficRecord
    BY <1>2
  <2> QED
    BY <2>1, EffectType DEF TrafficRecord, Decision
<1>4. \A i : Decision(i)' = Decision(i)
  BY <1>1 DEF Decision
<1>5. Flipped' = IF d # prior THEN Flipped \cup {position} ELSE Flipped
  BY <1>1, <1>2, <1>4 DEF Flipped
<1>6. /\ report \in DryRunReport
      /\ Tally(report) = position - 1
      /\ report.affected_principals = {traffic[i].principal : i \in Flipped}
      /\ report.newly_denied > 0 => \E i \in Flipped : Decision(i) = "deny"
      /\ report.newly_allowed > 0 => \E i \in Flipped : Decision(i) = "allow"
  BY <1>1 DEF Counted
<1>7. {traffic'[i].principal : i \in Flipped'}
        = IF d # prior THEN report.affected_principals \cup {who} ELSE report.affected_principals
  BY <1>1, <1>5, <1>6
<1>8. Shapes'
  BY <1>1, <1>2 DEF Shapes
<1>9. Phases' /\ BaselineTaken'
  BY <1>1 DEF Phases, BaselineTaken, Replayed
<1>10. Compared'
  BY <1>1 DEF Compared, Phases
<1> HIDE DEF d, prior, who
<1>11. /\ report' \in DryRunReport /\ Tally(report') = position' - 1
       /\ report'.affected_principals = {traffic'[i].principal : i \in Flipped'}
       /\ report'.newly_denied = report.newly_denied \/ (d # prior /\ d = "deny")
       /\ report'.newly_allowed = report.newly_allowed \/ (d # prior /\ d = "allow")
  <2>1. position' - 1 = (position - 1) + 1
    BY <1>1, <1>2
  <2> DEFINE rec == traffic[position]
  <2>2. rec.prior_effect = prior /\ rec.principal = who /\ report' = Replayed(report, rec, d)
    BY <1>1 DEF prior, who
  <2>3. rec \in TrafficRecord
    BY <1>2
  <2>4. report \in DryRunReport /\ d \in Effects
    BY <1>3, <1>6
  <2> HIDE DEF rec
  <2>5. CountsOnce(report, rec, d, report')
    BY <2>2, <2>3, <2>4, ReplayedFacts
  <2> QED
    BY <2>1, <2>2, <2>5, <1>6, <1>7 DEF CountsOnce
<1>12. Counted'
  <2>1. report'.newly_denied > 0 => \E i \in Flipped' : Decision(i)' = "deny"
    BY <1>4, <1>5, <1>6, <1>11 DEF d
  <2>2. report'.newly_allowed > 0 => \E i \in Flipped' : Decision(i)' = "allow"
    BY <1>4, <1>5, <1>6, <1>11 DEF d
  <2> QED
    BY <1>11, <2>1, <2>2 DEF Counted, Tally
<1> QED
  BY <1>8, <1>9, <1>10, <1>12

\* One record is compared.
LEMMA CompareRInv == ASSUME RInv, Compare PROVE RInv'
<1> USE DEF RInv
<1>1. /\ pc = "replay" /\ command = "shadow" /\ position \in DOMAIN traffic
      /\ position' = position + 1
      /\ UNCHANGED <<pc, command, old, new, threshold, traffic, entries, report>>
  BY DEF Compare
<1>2. /\ position \in 1..Len(traffic) /\ Len(traffic) \in Nat
      /\ 1..(position' - 1) = 1..position
  BY <1>1 DEF Shapes
<1>3. \A i : Decision(i)' = Decision(i)
  BY <1>1 DEF Decision
<1>4. Compared'
  <2>1. agreement \in [agree : Nat, disagree : Nat]
    BY DEF Compared
  <2>2. CASE EffectFor(This.request, old) = EffectFor(This.request, new)
    <3>1. agreement' = [agreement EXCEPT !.agree = @ + 1]
      BY <2>2 DEF Compare
    <3> QED
      BY <2>1, <3>1, <1>1, <1>2, <1>3 DEF Compared
  <2>3. CASE EffectFor(This.request, old) # EffectFor(This.request, new)
    <3>1. agreement' = [agreement EXCEPT !.disagree = @ + 1]
      BY <2>3 DEF Compare
    <3>2. EffectFor(traffic[position].request, old) # Decision(position)
      BY <2>3 DEF This, Decision
    <3>3. agreement' \in [agree : Nat, disagree : Nat]
      BY <2>1, <3>1
    <3> QED
      BY <3>2, <3>3, <1>1, <1>2, <1>3 DEF Compared
  <2> QED
    BY <2>2, <2>3
<1>5. Shapes' /\ Phases' /\ BaselineTaken' /\ Counted'
  BY <1>1, <1>2 DEF Shapes, Phases, BaselineTaken, Counted
<1> QED
  BY <1>4, <1>5

\* A command ends, or nothing happens.
LEMMA FinishRInv == ASSUME RInv, Finish \/ UNCHANGED vars PROVE RInv'
<1> USE DEF RInv
<1>1. CASE Finish
  <2>1. /\ pc = "replay" /\ position \notin DOMAIN traffic /\ pc' \in {"failed", "done"}
        /\ UNCHANGED <<command, old, new, threshold, traffic, position, entries, report, agreement>>
    BY <1>1 DEF Finish
  <2>2. position = Len(traffic) + 1
    BY <2>1 DEF Shapes
  <2>3. Flipped' = Flipped /\ \A i : Decision(i)' = Decision(i)
    BY <2>1 DEF Flipped, Decision
  <2>4. Shapes' /\ Phases' /\ BaselineTaken'
    BY <2>1, <2>2 DEF Shapes, Phases, BaselineTaken
  <2>5. Counted' /\ Compared'
    BY <2>1, <2>3 DEF Counted, Compared
  <2> QED
    BY <2>4, <2>5
<1>2. CASE UNCHANGED vars
  <2>1. UNCHANGED <<pc, command, old, new, threshold, traffic, position, entries, report, agreement>>
    BY <1>2 DEF vars
  <2> QED
    BY <2>1 DEF Shapes, Phases, BaselineTaken, Counted, Compared, Flipped, Decision
<1> QED
  BY <1>1, <1>2

LEMMA Invariance == Spec => []RInv
<1>1. RInv /\ [Next]_vars => RInv'
  BY StartRInv, BaselineRInv, ReplayRInv, CompareRInv, FinishRInv DEF Next
<1> QED
  BY InitRInv, <1>1, PTL DEF Spec

----------------------------------------------------------------------------
(* What the reports may be trusted for *)

LEMMA DiffShape ==
    ASSUME NEW a \in Seq(Policy), NEW b \in Seq(Policy)
    PROVE  DiffPolicies(a, b)
             \subseteq Ids \X {"added", "removed", "priority", "effect", "actions", "match"}
<1>1. IdsOf(a) \subseteq Ids /\ IdsOf(b) \subseteq Ids
  <2>1. \A ps \in Seq(Policy) : \A i \in DOMAIN ps : ps[i] \in Policy
    OBVIOUS
  <2>2. \A p \in Policy : p.id \in Ids
    BY DEF Policy
  <2> QED
    BY <2>1, <2>2 DEF IdsOf
<1>2. \A p, q : Changes(p, q) \subseteq {"priority", "effect", "actions", "match"}
  BY DEF Changes
<1> QED
  BY <1>1, <1>2 DEF DiffPolicies

\* The commands' variables keep their types, whatever is replayed.
THEOREM TypeCorrect == Spec => []TypeOK
<1>1. RInv => TypeOK
  <2> SUFFICES ASSUME RInv PROVE TypeOK
    OBVIOUS
  <2>1. entries \subseteq Ids \X {"added", "removed", "priority", "effect", "actions", "match"}
    <3>1. old \in Seq(Policy) /\ new \in Seq(Policy)
      BY RolloutAssumption DEF RInv, Shapes
    <3>2. entries = {} \/ entries = DiffPolicies(old, new)
      BY DEF RInv, Phases, Shapes
    <3> QED
      BY <3>1, <3>2, DiffShape
  <2> QED
    BY <2>1 DEF RInv, Shapes, Counted, Compared, DryRunReport, TypeOK
<1> QED
  BY <1>1, Invariance, PTL

\* When a command is done, Flipped ranges over all the traffic.
LEMMA AllReplayed ==
    ASSUME RInv, pc = "done"
    PROVE  /\ position - 1 = Len(traffic) /\ DOMAIN traffic = 1..Len(traffic)
           /\ Flipped = {j \in DOMAIN traffic :
                  EffectFor(traffic[j].request, new) # traffic[j].prior_effect}
<1>1. position = Len(traffic) + 1 /\ Len(traffic) \in Nat /\ DOMAIN traffic = 1..Len(traffic)
  BY DEF RInv, Phases, Shapes
<1>2. position - 1 = Len(traffic)
  BY <1>1
<1> QED
  BY <1>1, <1>2 DEF Flipped, Decision

\* dry_run's report adds up, and it names the principals whose requests the
\* file decides anew, for every file and every traffic.
THEOREM ReportIsComplete == Spec => []AffectedAreThoseChanged
<1>1. RInv => AffectedAreThoseChanged
  <2> SUFFICES ASSUME RInv, pc = "done", command \in {"dry_run", "diff"}
               PROVE  /\ report.total = report.unchanged + Changed
                      /\ report.affected_principals =
                           {traffic[i].principal : i \in {j \in DOMAIN traffic :
                               EffectFor(traffic[j].request, new) # traffic[j].prior_effect}}
    BY DEF AffectedAreThoseChanged
  <2>1. /\ report \in DryRunReport /\ Tally(report) = position - 1
        /\ report.affected_principals = {traffic[i].principal : i \in Flipped}
    BY DEF RInv, Counted
  <2>2. report.total = Len(traffic)
    BY DEF RInv, Phases
  <2>3. report.unchanged \in Nat /\ report.newly_denied \in Nat /\ report.newly_allowed \in Nat
    BY <2>1 DEF DryRunReport
  <2>4. report.total = report.unchanged + Changed
    BY <2>1, <2>2, <2>3, AllReplayed DEF Tally, Changed
  <2> QED
    BY <2>1, <2>4, AllReplayed
<1> QED
  BY <1>1, Invariance, PTL

\* Files without a structural difference decide every request alike.
LEMMA NoDifferenceSameEffect ==
    ASSUME NEW a \in Seq(Policy), NEW b \in Seq(Policy), UniqueIds(a), UniqueIds(b),
           DiffPolicies(a, b) = {}, NEW q
    PROVE  EffectFor(q, a) = EffectFor(q, b)
<1>1. \A effect : Hits(q, a, effect) # {} => Hits(q, b, effect) # {}
  BY Carried
<1>2. \A effect : Hits(q, b, effect) # {} => Hits(q, a, effect) # {}
  BY CarriedBack
<1> QED
  BY <1>1, <1>2 DEF EffectFor

\* A change that diff does not show has no impact and no shadow disagreement.
THEOREM UnchangedFilesAgree == Spec => []NoDifferenceNoImpact
<1>1. RInv => NoDifferenceNoImpact
  <2> SUFFICES ASSUME RInv, pc = "done", command \in {"diff", "shadow"},
                      DiffPolicies(old, new) = {}, UniqueIds(old), UniqueIds(new)
               PROVE  Changed = 0 /\ agreement.disagree = 0
    BY DEF NoDifferenceNoImpact
  <2>1. old \in Seq(Policy) /\ new \in Seq(Policy)
    BY RolloutAssumption DEF RInv, Shapes
  <2>2. \A i : EffectFor(traffic[i].request, old) = Decision(i)
    BY <2>1, NoDifferenceSameEffect DEF Decision
  <2>3. agreement.disagree = 0
    BY <2>2 DEF RInv, Compared
  <2>4. report \in DryRunReport /\ report.newly_denied \in Nat /\ report.newly_allowed \in Nat
    BY DEF RInv, Counted, DryRunReport
  <2>5. report.newly_denied = 0 /\ report.newly_allowed = 0
    <3>1. CASE command = "shadow"
      BY <3>1 DEF RInv, Phases, EmptyReport
    <3>2. CASE command = "diff"
      <4>1. Flipped = {}
        BY <2>2, <3>2, AllReplayed DEF RInv, BaselineTaken, Decision
      <4>2. ~(report.newly_denied > 0) /\ ~(report.newly_allowed > 0)
        BY <3>2, <4>1 DEF RInv, Counted
      <4> QED
        BY <2>4, <4>2
    <3> QED
      BY <3>1, <3>2
  <2> QED
    BY <2>3, <2>5 DEF Changed
<1> QED
  BY <1>1, Invariance, PTL

\* Adding policies of one effect moves decisions towards that effect only.
THEOREM AddedPoliciesAreMonotone == Spec => []AddedEffectOnlyTightens
<1>1. RInv => AddedEffectOnlyTightens
  <2> SUFFICES ASSUME RInv, pc = "done", command = "diff", UniqueIds(old), UniqueIds(new)
               PROVE  /\ (\A e \in entries : e[2] = "added" /\ Keyed(new, e[1]).effect = "deny")
                           => report.newly_allowed = 0
                      /\ (\A e \in entries : e[2] = "added" /\ Keyed(new, e[1]).effect = "allow")
                           => report.newly_denied = 0
    BY DEF AddedEffectOnlyTightens
  <2>1. old \in Seq(Policy) /\ new \in Seq(Policy)
    BY RolloutAssumption DEF RInv, Shapes
  <2>2. entries = DiffPolicies(old, new)
    BY DEF RInv, Phases
  <2>3. report.newly_denied \in Nat /\ report.newly_allowed \in Nat
    BY DEF RInv, Counted, DryRunReport
  <2>4. \A i \in Flipped : EffectFor(traffic[i].request, old) # Decision(i)
    BY AllReplayed DEF RInv, BaselineTaken, Decision
  <2>5. ASSUME \A e \in entries : e[2] = "added" /\ Keyed(new, e[1]).effect = "deny"
        PROVE  report.newly_allowed = 0
    <3>1. \A q : Hits(q, old, "deny") # {} => Hits(q, new, "deny") # {}
      BY <2>1, <2>2, <2>5, Carried
    <3>2. \A q : Hits(q, new, "allow") # {} => Hits(q, old, "allow") # {}
      BY <2>1, <2>2, <2>5, CarriedBack
    <3>3. \A i : Decision(i) = "allow" => EffectFor(traffic[i].request, old) = "allow"
      BY <3>1, <3>2 DEF Decision, EffectFor
    <3>4. ~(report.newly_allowed > 0)
      BY <2>4, <3>3 DEF RInv, Counted
    <3> QED
      BY <2>3, <3>4
  <2>6. ASSUME \A e \in entries : e[2] = "added" /\ Keyed(new, e[1]).effect = "allow"
        PROVE  report.newly_denied = 0
    <3>1. \A q : Hits(q, old, "allow") # {} => Hits(q, new, "allow") # {}
      BY <2>1, <2>2, <2>6, Carried
    <3>2. \A q : Hits(q, new, "deny") # {} => Hits(q, old, "deny") # {}
      BY <2>1, <2>2, <2>6, CarriedBack
    <3>3. \A i : Decision(i) = "deny" => EffectFor(traffic[i].request, old) = "deny"
      BY <3>1, <3>2 DEF Decision, EffectFor
    <3>4. ~(report.newly_denied > 0)
      BY <2>4, <3>3 DEF RInv, Counted
    <3> QED
      BY <2>3, <3>4
  <2> QED
    BY <2>5, <2>6
<1> QED
  BY <1>1, Invariance, PTL
=============================================================================

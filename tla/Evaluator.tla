------------------------------ MODULE Evaluator ------------------------------
(***************************************************************************)
(* Evaluator::evaluate as the code runs it: filter and sort once, then one *)
(* step of the loop per policy in scope, then finish.  The loop never      *)
(* leaves early, so the trace and the list of almost-matches cover every   *)
(* policy in scope.  crates/lovebird-engine/src/evaluator.rs, 32-154.      *)
(***************************************************************************)
EXTENDS PolicyMatch, FiniteSets

CONSTANTS
    PolicyLists,  \* the policy files considered, sequences of Policy
    AlmostCap     \* almost-matches kept for the explanation (8 in the code)

ASSUME PolicyListsAssumption == PolicyLists \subseteq Seq(Policy)
ASSUME AlmostCapAssumption == AlmostCap \in Nat

VARIABLES
    pc,        \* "start", "loop" or "done"
    explain,   \* the evaluator was built to explain its decisions
    request, policies,
    order,     \* positions of the policies in scope, sorted
    next,      \* the loop's place in order
    evaluated, \* the trace
    almost,    \* almost-matched policies, with the rule each one misses
    deny_hit, allow_hit,  \* position of the first hit of each effect, or 0
    decision

vars == <<pc, explain, request, policies, order, next, evaluated, almost,
          deny_hit, allow_hit, decision>>

NoPolicy      == [named |-> FALSE]
Named(id)     == [named |-> TRUE, id |-> id]
NoExplanation == [given |-> FALSE]
Undecided     == [effect |-> "none", matched |-> NoPolicy,
                  evaluated |-> <<>>, explanation |-> NoExplanation]

\* Mutant: an unstable sort.
StablySorted_Unstable(q, ps, s) ==
    /\ \A a, b \in DOMAIN s : a < b => ps[s[a]].priority >= ps[s[b]].priority
    /\ \A i \in Applicable(q, ps) : \E a \in DOMAIN s : s[a] = i

\* The filtered positions in the order of sort_by_key(Reverse(priority)),
\* which is stable: equal priorities keep the order of the file.
StablySorted(q, ps, s) ==
    /\ \A a, b \in DOMAIN s : a < b => Before(ps, s[a], s[b])
    /\ \A i \in Applicable(q, ps) : \E a \in DOMAIN s : s[a] = i

\* The why lines of a hit: the rules of the group that held.
MatchWhy(q, p) ==
    IF p.match = <<>> THEN [kind |-> "matches_all", rules |-> <<>>]
                      ELSE [kind |-> "rules", rules |-> p.match[FirstHolding(q, p)]]

DefaultWhy == [kind |-> "default_deny", rules |-> <<>>]

\* Mutant: the loop's index starts one too low.
Init_IndexFromZero ==
    /\ pc = "start"
    /\ explain \in BOOLEAN
    /\ request \in Requests
    /\ policies \in PolicyLists
    /\ order = <<>> /\ next = 0
    /\ evaluated = <<>> /\ almost = <<>>
    /\ deny_hit = 0 /\ allow_hit = 0
    /\ decision = Undecided

Init ==
    /\ pc = "start"
    /\ explain \in BOOLEAN
    /\ request \in Requests
    /\ policies \in PolicyLists
    /\ order = <<>> /\ next = 1
    /\ evaluated = <<>> /\ almost = <<>>
    /\ deny_hit = 0 /\ allow_hit = 0
    /\ decision = Undecided

FilterAndSort ==
    /\ pc = "start"
    /\ pc' = "loop"
    /\ LET scope == Applicable(request, policies)
       IN  \E s \in [1..Cardinality(scope) -> scope] :
              StablySorted(request, policies, s) /\ order' = s
    /\ UNCHANGED <<explain, request, policies, next, evaluated, almost,
                   deny_hit, allow_hit, decision>>

Current == policies[order[next]]

\* The part of an iteration common to both outcomes of match_policy.
Visit(matched) ==
    /\ pc = "loop"
    /\ next \in DOMAIN order
    /\ Matches(request, Current) = matched
    /\ next' = next + 1
    /\ evaluated' = Append(evaluated, [policy_id |-> Current.id,
                                       effect    |-> Current.effect,
                                       matched   |-> matched])
    /\ UNCHANGED <<pc, explain, request, policies, order, decision>>

\* Mutant: is_none() forgotten, so the last hit of each effect is kept.
VisitHit_KeepsLast ==
    /\ Visit(TRUE)
    /\ deny_hit' = IF Current.effect = "deny" THEN order[next] ELSE deny_hit
    /\ allow_hit' = IF Current.effect = "allow" THEN order[next] ELSE allow_hit
    /\ UNCHANGED almost

\* The first deny and the first allow in sorted order are remembered.
VisitHit ==
    /\ Visit(TRUE)
    /\ deny_hit' = IF Current.effect = "deny" /\ deny_hit = 0
                     THEN order[next] ELSE deny_hit
    /\ allow_hit' = IF Current.effect = "allow" /\ allow_hit = 0
                      THEN order[next] ELSE allow_hit
    /\ UNCHANGED almost

\* Mutant: the cap on almost-matches is off by one.
VisitMiss_OverCap ==
    /\ Visit(FALSE)
    /\ almost' = IF AlmostMatches(request, Current) /\ Len(almost) <= AlmostCap
                   THEN Append(almost, [id      |-> Current.id,
                                        missing |-> MissingRule(request, Current)])
                   ELSE almost
    /\ UNCHANGED <<deny_hit, allow_hit>>

VisitMiss ==
    /\ Visit(FALSE)
    /\ almost' = IF AlmostMatches(request, Current) /\ Len(almost) < AlmostCap
                   THEN Append(almost, [id      |-> Current.id,
                                        missing |-> MissingRule(request, Current)])
                   ELSE almost
    /\ UNCHANGED <<deny_hit, allow_hit>>

Finish(effect, matched, why) ==
    /\ pc = "loop"
    /\ next \notin DOMAIN order
    /\ pc' = "done"
    /\ decision' = [effect      |-> effect,
                    matched     |-> matched,
                    evaluated   |-> evaluated,
                    explanation |-> IF explain
                                      THEN [given   |-> TRUE,
                                            matched |-> matched,
                                            why     |-> why,
                                            almost  |-> almost]
                                      ELSE NoExplanation]
    /\ UNCHANGED <<explain, request, policies, order, next, evaluated, almost,
                   deny_hit, allow_hit>>

FinishDeny ==
    /\ deny_hit # 0
    /\ Finish("deny", Named(policies[deny_hit].id),
              MatchWhy(request, policies[deny_hit]))

FinishAllow ==
    /\ deny_hit = 0 /\ allow_hit # 0
    /\ Finish("allow", Named(policies[allow_hit].id),
              MatchWhy(request, policies[allow_hit]))

FinishDefault ==
    /\ deny_hit = 0 /\ allow_hit = 0
    /\ Finish("deny", NoPolicy, DefaultWhy)

Next == FilterAndSort \/ VisitHit \/ VisitMiss
          \/ FinishDeny \/ FinishAllow \/ FinishDefault

Spec == Init /\ [][Next]_vars

----------------------------------------------------------------------------

Entry == [policy_id : Ids, effect : Effects, matched : BOOLEAN]
Miss  == [id : Ids, missing : Rules]
Why   == [kind : {"matches_all", "rules", "default_deny"}, rules : Seq(Rules)]
Match == {NoPolicy} \cup [named : {TRUE}, id : Ids]

ExplanationType ==
    {NoExplanation} \cup
    [given : {TRUE}, matched : Match, why : Why, almost : Seq(Miss)]

DecisionType ==
    {Undecided} \cup
    [effect : Effects, matched : Match, evaluated : Seq(Entry),
     explanation : ExplanationType]

\* The type invariant of the loop and of the decision it builds.
TypeOK ==
    /\ pc \in {"start", "loop", "done"}
    /\ explain \in BOOLEAN
    /\ request \in Requests
    /\ policies \in PolicyLists
    /\ order \in Seq(DOMAIN policies)
    /\ next \in 1..(Len(order) + 1)
    /\ evaluated \in Seq(Entry)
    /\ almost \in Seq(Miss)
    /\ deny_hit \in {0} \cup DOMAIN policies
    /\ allow_hit \in {0} \cup DOMAIN policies
    /\ decision \in DecisionType

----------------------------------------------------------------------------
(* Properties of the decision *)

Decided == pc = "done"

Ahead(i, S) == {j \in S : Before(policies, j, i)}

\* The trace of a decision lists every policy in scope exactly once, highest
\* priority first and ties in file order, each with its own verdict: the audit
\* trail of Decision.evaluated never skips a policy because another one decided,
\* although docs/PROJECT.md has the evaluation end there (NothingAfterADeny).
TraceIsComplete ==
    Decided =>
        LET scope == Applicable(request, policies)
        IN  /\ Len(decision.evaluated) = Cardinality(scope)
            /\ \A i \in scope :
                 decision.evaluated[Cardinality(Ahead(i, scope)) + 1] =
                     [policy_id |-> policies[i].id,
                      effect    |-> policies[i].effect,
                      matched   |-> Matches(request, policies[i])]

\* docs/PROJECT.md:174: "First matching **Deny** -> immediate deny (nothing
\* further evaluated)".
NothingAfterADeny ==
    Decided =>
        \A k \in DOMAIN decision.evaluated :
            (decision.evaluated[k].effect = "deny" /\ decision.evaluated[k].matched)
                => k = Len(decision.evaluated)

\* An explanation names the policy the decision names, and its why lines are
\* the rules of a group of that policy that hold for this request; the default
\* deny is explained as such exactly when no policy in scope matched.
ExplanationSupportsDecision ==
    (Decided /\ decision.explanation.given) =>
        LET e == decision.explanation
            supports(p) ==
                \/ e.why.kind = "matches_all" /\ p.match = <<>>
                \/ /\ e.why.kind = "rules"
                   /\ \E g \in DOMAIN p.match : e.why.rules = p.match[g]
                   /\ \A k \in DOMAIN e.why.rules : RuleHolds(request, e.why.rules[k])
        IN  /\ e.matched = decision.matched
            /\ e.matched.named =>
                 \E i \in Hits(request, policies, decision.effect) :
                    policies[i].id = e.matched.id /\ supports(policies[i])
            /\ e.why.kind = "default_deny" <=>
                 \A i \in Applicable(request, policies) : ~Matches(request, policies[i])

\* The almost-matches of an explanation are the best-placed policies that
\* missed by one rule, as many as the cap allows, and the rule each one reports
\* is the only rule of its group that failed.
NearMissesReported ==
    (Decided /\ decision.explanation.given) =>
        LET reported == decision.explanation.almost
            misses   == {i \in Applicable(request, policies) :
                            AlmostMatches(request, policies[i])}
            onlyMiss(p, rule) ==
                \E g \in DOMAIN p.match : \E k \in DOMAIN p.match[g] :
                   rule = p.match[g][k] /\ Failing(request, p.match[g]) = {k}
        IN  /\ Len(reported) <= AlmostCap
            /\ \A i \in misses :
                 LET k == Cardinality(Ahead(i, misses)) + 1
                 IN  k <= AlmostCap =>
                        /\ k \in DOMAIN reported
                        /\ reported[k].id = policies[i].id
                        /\ onlyMiss(policies[i], reported[k].missing)
            /\ Len(reported) <= Cardinality(misses)

----------------------------------------------------------------------------

Contract == INSTANCE DecisionSpec
    WITH decision <- [effect |-> decision.effect, matched |-> decision.matched]

\* The loop implements the documented contract: a call decides once, what the
\* deny-overrides, highest-priority-first rule says, whatever the file's order.
RefinesContract == Contract!Spec
=============================================================================

---------------------------- MODULE PolicyMatch ----------------------------
(***************************************************************************)
(* What it means for a policy to be in scope of a request and to match it, *)
(* as lovebird-engine's evaluator decides it                               *)
(* (crates/lovebird-engine/src/evaluator.rs).  Every definition is a       *)
(* constant operator, so the abstract decision and the evaluation loop     *)
(* share them.                                                             *)
(*                                                                         *)
(* A single rule is opaque here: RuleHolds(q, r) stands for match_rule,    *)
(* which module RuleSemantics spells out.  The theorems therefore hold for *)
(* every set of operators and every resolution of fields.                  *)
(***************************************************************************)
EXTENDS Integers, Sequences

CONSTANTS
    Actions,         \* action names a request can carry
    Requests,        \* records with at least the field "action"
    Rules,           \* rules (field, operator, value), opaque
    Ids,             \* policy ids
    Priorities,      \* the i64 priorities in use
    RuleHolds(_, _)  \* does this request satisfy this rule?

\* Values of the fields the engine leaves as a free choice of the caller.
ASSUME RequestAssumption == \A q \in Requests : q.action \in Actions
ASSUME RuleAssumption ==
    \A q \in Requests, r \in Rules : RuleHolds(q, r) \in BOOLEAN
ASSUME PriorityAssumption == Priorities \subseteq Int

Effects == {"allow", "deny"}

\* A policy of the loaded file.  match is an OR of AND-groups of rules.
Policy == [id       : Ids,
           effect   : Effects,
           priority : Priorities,
           actions  : SUBSET Actions,
           match    : Seq(Seq(Rules))]

\* The scope filter: no actions listed means every action.
InScope(q, p) == p.actions = {} \/ q.action \in p.actions

Failing(q, group) == {k \in DOMAIN group : ~RuleHolds(q, group[k])}

\* Vacuously true for an empty group, as in the code: nothing failed and
\* "passed" equals the group's length.
GroupHolds(q, group) == Failing(q, group) = {}

Matches(q, p) ==
    p.match = <<>> \/ \E g \in DOMAIN p.match : GroupHolds(q, p.match[g])

\* Mutant: the why lines always come from the first group.
FirstHolding_FirstGroup(q, p) == 1

\* The group that match_policy returns on: the first one that holds.
FirstHolding(q, p) ==
    CHOOSE g \in DOMAIN p.match :
        /\ GroupHolds(q, p.match[g])
        /\ \A h \in 1..(g - 1) : ~GroupHolds(q, p.match[h])

\* All but one rule of a group of several passed.
NearMiss(q, group) ==
    Len(group) > 1 /\ \E k \in DOMAIN group : Failing(q, group) = {k}

\* The only rule of a group of one failed.
SingleMiss(q, group) == Len(group) = 1 /\ Failing(q, group) # {}

AlmostMatches(q, p) ==
    /\ ~Matches(q, p)
    /\ \E g \in DOMAIN p.match : NearMiss(q, p.match[g]) \/ SingleMiss(q, p.match[g])

\* The group reported for an almost-match: a later near miss overwrites what
\* was recorded, a single-rule miss is recorded only if nothing was.
MissedGroup(q, p) ==
    LET near   == {g \in DOMAIN p.match : NearMiss(q, p.match[g])}
        single == {g \in DOMAIN p.match : SingleMiss(q, p.match[g])}
    IN  IF near # {} THEN CHOOSE g \in near : \A h \in near : h <= g
                     ELSE CHOOSE g \in single : \A h \in single : g <= h

\* The rule an almost-match reports as missing.
MissingRule(q, p) ==
    LET group == p.match[MissedGroup(q, p)]
    IN  group[CHOOSE k \in Failing(q, group) : TRUE]

----------------------------------------------------------------------------

\* Positions of the policies in scope, in a list of policies.
Applicable(q, ps) == {i \in DOMAIN ps : InScope(q, ps[i])}

\* The order the stable sort by descending priority puts positions in.
Before(ps, i, j) ==
    \/ ps[i].priority > ps[j].priority
    \/ ps[i].priority = ps[j].priority /\ i < j

\* Positions of the policies of the given effect that match the request.
Hits(q, ps, effect) ==
    {i \in Applicable(q, ps) : ps[i].effect = effect /\ Matches(q, ps[i])}
============================================================================

---------------------------- MODULE MCEvaluator ----------------------------
(* Small instances of Evaluator for TLC. *)
EXTENDS Evaluator, SequencesExt

CONSTANTS r1, r2, MaxPolicies

MCRules    == {r1, r2}
MCRequests == [action : {"read", "pay"}, facts : SUBSET MCRules]

\* A request is the set of rules it satisfies.
MCRuleHolds(q, r) == r \in q.facts

P(id, effect, priority, actions, match) ==
    [id |-> id, effect |-> effect, priority |-> priority,
     actions |-> actions, match |-> match]

\* One policy of each kind the loop tells apart: scopes, empty match, empty
\* group, one group, alternatives, near misses of both sorts, equal priorities.
Pool == {
    P("all",    "allow", 1, {},      <<>>),
    P("pay_no", "deny",  1, {"pay"}, << <<r1>> >>),
    P("both",   "deny",  2, {},      << <<r1, r2>> >>),
    P("either", "allow", 2, {},      << <<r2>>, <<r1, r2>> >>),
    P("pair",   "allow", 1, {"pay"}, << <<r1, r2>>, <<r1>> >>),
    P("hollow", "deny",  0, {"read"}, << <<r2, r1>>, <<>> >>),
    P("late",   "deny",  3, {},      << <<r2>> >>) }

MCPolicyLists == BoundedSeq(Pool, MaxPolicies)
MCIds         == {p.id : p \in Pool}
============================================================================

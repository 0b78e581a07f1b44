--------------------------- MODULE MCPolicyRollout ---------------------------
(* Small instances of PolicyRollout for TLC. *)
EXTENDS PolicyRollout, SequencesExt

CONSTANTS r1, MaxPolicies, MaxTraffic

MCRequests == [action : {"read", "pay"}, facts : SUBSET {r1}]
MCRuleHolds(q, r) == r \in q.facts

P(id, effect, priority, actions, match) ==
    [id |-> id, effect |-> effect, priority |-> priority, actions |-> actions, match |-> match]

\* Two versions of two policies, differing in one part each, and an empty group.
Pool == {
    P("a", "allow", 1, {},      <<>>),
    P("a", "allow", 1, {"pay"}, <<>>),
    P("a", "deny",  1, {},      << <<r1>> >>),
    P("b", "deny",  0, {},      << <<r1>> >>),
    P("b", "deny",  2, {},      << <<r1>> >>),
    P("b", "allow", 0, {"pay"}, << <<r1>> >>),
    P("b", "allow", 0, {"pay"}, << <<>> >>) }

MCPolicyLists == BoundedSeq(Pool, MaxPolicies)
MCIds         == {p.id : p \in Pool}

Record(q, prior, who) == [request |-> q, prior_effect |-> prior, principal |-> who]
MCRecords ==
    {Record([action |-> "read", facts |-> {}], "allow", "ann"),
     Record([action |-> "read", facts |-> {r1}], "deny", "bob"),
     Record([action |-> "pay", facts |-> {r1}], "allow", "bob"),
     Record([action |-> "pay", facts |-> {}], "deny", "cy")}
MCTrafficLists == BoundedSeq(MCRecords, MaxTraffic)
==============================================================================

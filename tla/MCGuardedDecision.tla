------------------------- MODULE MCGuardedDecision -------------------------
(* A small instance of GuardedDecision for TLC. *)
EXTENDS GuardedDecision, TLC

CONSTANTS home, p1, host, other

MCDistance == [d \in {home} \X {home} |-> 0]

\* Requests and failed logins; no travel.
MCSamples == {<<"Request", Nowhere>>, <<"FailedAuth", Nowhere>>}

NoPattern(p, s) == FALSE

Score0 == <<"session", "anomaly_score">> :> R!JFloat(0)

\* Nothing, a forged flat key, forged nested objects.
MCCallers ==
    {<<>>, Score0 @@ (<<"graph", "crown_jewel_reachable">> :> R!JBool(FALSE)),
     <<"session">> :> R!JObj(<<"anomaly_score">> :> R!JInt(0))}

Rule(field, op, value) == [field |-> field, operator |-> op, value |-> value]
Policy(effect, actions, rules) ==
    [id |-> effect, effect |-> effect, priority |-> 1, actions |-> actions, match |-> rules]

\* The guards of examples/policies, with a lower score threshold.
MCPolicies ==
    <<Policy("allow", {<<"read">>}, << <<Rule(<<"action">>, "Equals", R!JStr(<<"read">>))>> >>),
      Policy("deny", {}, << <<AnomalyAbove(20)>> >>),
      Policy("deny", {<<"read">>}, << <<Rule(<<"graph", "crown_jewel_reachable">>, "Equals", R!JBool(TRUE)),
                                    Rule(<<"session", "request_count">>, "LessThan", R!JInt(1))>> >>)>>

MCGraphFacts ==
    [p \in {p1} |-> [blast_radius_score |-> 40000, crown_jewel_reachable |-> TRUE,
                     resource_sensitivity |-> 95]]
============================================================================

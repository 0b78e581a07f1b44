-------------------------- MODULE MCRuleSemantics --------------------------
(* Small instances of RuleSemantics for TLC: requests that hold or lack each
   kind of value, and rules over every operator.                           *)
EXTENDS RuleSemantics

\* Patterns are matched literally; "(" does not compile.
MCRecognises(p, s) == p # <<"(">> /\ Infix(p, s)

k     == <<"k">>
score == <<"score">>

Values == {JStr(<<"ann">>), JStr(<<"5">>), JInt(5), JFloat(5), JInt(3), JBool(TRUE),
           JNull, JArr(<<JStr(<<"ann">>)>>), JArr(<<JNull, JInt(5)>>)}

\* The attribute k, or no attribute.
Attributes(V) == {<<>>} \cup [{k} -> V]

\* What the caller and the extractor put in the context under session.score.
Sessions ==
    {<<>>,
     (<<"session">> :> JObj(score :> JInt(3))),
     (<<"session">> :> JInt(5)),
     (<<"session">> \o score :> JFloat(5)),
     (<<"session">> \o score :> JFloat(5)) @@ (<<"session">> :> JObj(score :> JInt(3)))}

Request(id, roles, rattrs, context) ==
    [action |-> <<"read">>, id |-> id, roles |-> roles,
     rtype |-> <<"doc">>, rid |-> <<"doc", "5">>,
     pattrs |-> <<>>, rattrs |-> rattrs, context |-> context]

Ids   == {<<"ann">>, <<"5">>}
Roles == {<<>>, <<<<"ann">>>>, <<<<"ann">>, <<"5">>>>}

\* Every kind of attribute beside every kind of principal; two attributes of
\* different maps; every way session.score can be there.
MCRequests ==
    {Request(id, roles, attrs, k :> JInt(5)) :
        id \in Ids, roles \in Roles, attrs \in Attributes(Values)}
      \cup {Request(<<"ann">>, <<<<"ann">>>>, attrs, more) :
               attrs \in Attributes(Values), more \in Attributes({JInt(3), JStr(<<"5">>), JNull})}
      \cup {Request(<<"5">>, <<>>, attrs, session) :
               attrs \in Attributes({JInt(5), JFloat(5)}), session \in Sessions}

Paths == {<<"principal", "id">>, <<"principal", "roles">>,
          <<"principal", "attributes">>, <<"resource", "attributes", "k">>,
          <<"context", "k">>, <<"session", "score">>, <<"context", "session", "score">>,
          <<"session">>, <<"unknown">>}

RefPaths == {<<"principal", "id">>, <<"principal", "roles">>, <<"resource", "attributes", "k">>,
             <<"context", "session">>,
             <<"context", "k">>, <<"context", "session", "score">>, <<"principal", "attributes">>}

MCValues ==
    {Ref(p) : p \in RefPaths}
      \cup {JInt(5), JFloat(5), JStr(<<"5">>), JStr(<<"(">>),
            Pieces(<<JStr(<<"doc">>), Ref(<<"principal", "id">>)>>),
            Pieces(<<Ref(<<"context", "k">>), Ref(<<"principal", "roles">>)>>),
            Items(<<Ref(<<"principal", "id">>), JNull>>)}

MCRules == [field : Paths, operator : Operators, value : MCValues]
============================================================================

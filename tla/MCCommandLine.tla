--------------------------- MODULE MCCommandLine ---------------------------
(* A small instance of CommandLine for TLC. *)
EXTENDS CommandLine

CONSTANTS k1, k2, k3, garbled

\* "{{" does not compile, a placeholder inside a character class does.
MCCompiles(v) == "ref" \notin DOMAIN v
MCCatastrophic(v) == v = R!JStr(<<"(a+)+">>)
MCRecognises(p, s) == p = s

Rule(field, op, value) == [field |-> field, operator |-> op, value |-> value]

Reads   == Rule(<<"action">>, "Equals", R!JStr(<<"read">>))
Admin   == Rule(<<"principal", "roles">>, "Contains", R!JStr(<<"admin">>))
Owner   == Rule(<<"principal", "id">>, "In", R!Items(<<R!Ref(<<"resource", "attributes", "owner">>)>>))
Class   == Rule(<<"resource", "id">>, "Regex", R!Pieces(<<R!JStr(<<"[">>), R!Ref(<<"action">>), R!JStr(<<"]">>)>>))
Slow    == Rule(<<"resource", "id">>, "Regex", R!JStr(<<"(a+)+">>))
Risky   == Rule(<<"session", "anomaly_score">>, "GreaterThan", R!JInt(0))
Faulty  == {Rule(<<"principal", "id">>, "In", R!Ref(<<"resource", "id">>)),
            Rule(<<"resource", "id">>, "Regex", R!Ref(<<"action">>)),
            Rule(<<"action">>, "Regex", R!JInt(1)),
            Rule(<<"subject", "id">>, "Exists", R!JNull),
            Rule(<<>>, "Exists", R!JNull)}

Policy(id, effect, priority, match) ==
    [id |-> id, description |-> <<"text">>, major |-> 1, effect |-> effect,
     priority |-> priority, actions |-> {}, match |-> match]

Allow(match) == Policy(<<"allow">>, "allow", 1, match)
Deny(match)  == Policy(<<"deny">>, "deny", 1, match)

Files ==
    {<<>>, <<Allow(<<>>)>>, <<Allow(<<<<Reads>>>>)>>, <<Allow(<<<<Reads, Admin>>, <<Owner, Risky>>>>)>>,
     <<Deny(<<<<Risky, Owner>>, <<Admin, Reads>>>>)>>, <<Deny(<<<<Risky>>>>)>>, <<Deny(<<<<Class>>>>)>>,
     <<Deny(<<<<Slow>>>>)>>, <<Policy(<<"broad">>, "allow", 0, <<<<Admin>>>>)>>,
     <<Allow(<<<<Reads, Owner>>>>), Deny(<<<<Risky>>>>)>>, <<Deny(<<<<>>>>)>>,
     <<Policy(<<>>, "deny", 1, <<>>)>>, <<Deny(<<>>)>>, <<Policy(<<"other">>, "deny", 1, <<>>)>>,
     <<[Deny(<<>>) EXCEPT !.description = <<>>]>>, <<[Deny(<<>>) EXCEPT !.major = 2]>>}
      \cup {<<Deny(<<<<rule>>>>)>> : rule \in Faulty}

Request(action, role, context) ==
    [action |-> action, id |-> <<"ann">>, roles |-> <<role>>, rtype |-> <<"doc">>,
     rid |-> <<"d1">>, pattrs |-> <<>>, rattrs |-> [k \in {<<"owner">>} |-> R!JStr(<<"ann">>)],
     context |-> context]

MCRequests ==
    {Request(<<"read">>, <<"admin">>, <<>>), Request(<<"write">>, <<"guest">>, <<>>),
     Request(<<"read">>, <<"guest">>,
             [k \in {<<"session", "anomaly_score">>} |-> R!JFloat(50)])}

Scenarios == [request : MCRequests, expected_effect : {"allow", "deny"}]

MCWords == {"allow", "deny", "ann", "read", "doc", "d1", "d2", "x", "y", "a", "r",
            "|", ";", ":", "action="}

Decision(id, rid, why) ==
    [decision_effect |-> "deny", matched_policy |-> {<<id>>}, principal_id |-> <<"ann">>,
     action |-> <<"read">>, resource_type |-> <<"doc">>, resource_id |-> rid,
     explanation |-> why]
Why(lines, almost) == {[matched_policy |-> {}, why |-> lines, almost |-> almost]}

Plain     == Decision("deny", <<"d1">>, {})
Explained == Decision("deny", <<"d1">>, Why(<<<<"x">>, <<"y">>>>, <<[id |-> <<"a">>, missing |-> <<"r">>]>>))
\* An edit of Explained that its payload does not show: one line for two.
Recut     == [Explained EXCEPT !.explanation =
                 Why(<<<<"x", ";", "y">>>>, <<[id |-> <<"a">>, missing |-> <<"r">>]>>)]
\* Two decisions whose payloads are the same text.
Ambiguous == [Plain EXCEPT !.principal_id = <<"ann", "|", "action=", "x">>]
Confused  == [Plain EXCEPT !.action = <<"x", "|", "action=", "read">>]

MCSigned == {<<Plain, k1>>, <<Explained, k2>>, <<Ambiguous, k3>>}

\* What was signed, and what may have become of it in the file.
Lines ==
    LET written == {Sign(Plain, k1), Sign(Explained, k2)}
    IN  written
          \cup {[e EXCEPT !.content.resource_id = <<"d2">>] : e \in written}
          \cup {[e EXCEPT !.content.explanation = Why(<<<<"x">>>>, <<>>)] : e \in written}
          \cup {[e EXCEPT !.content = c, !.payload_hash = Digest(CanonicalPayload(c))] :
                   e \in written, c \in {Plain, Explained}}
          \cup {[e EXCEPT !.public_key = key] : e \in written, key \in {{}, {garbled}, {k1}}}
          \cup {[e EXCEPT !.signature = s] : e \in written, s \in {{}, {garbled}}}
          \cup {Sign(Ambiguous, k3), [Sign(Ambiguous, k3) EXCEPT !.content = Confused],
                [Sign(Explained, k2) EXCEPT !.content = Recut], BlankLine, Malformed}

Command(name, files, strict, records) ==
    [name |-> name, files |-> files, strict |-> strict, records |-> records]

MCCommands ==
    LET anyFile == Files \cup {Unreadable}
    IN  {Command(name, files, strict, <<>>) :
            name \in {"validate", "lint"}, files \in BoundedSeq(anyFile, 2), strict \in BOOLEAN}
        \cup {Command("test", <<file>>, FALSE, records) :
                 file \in anyFile,
                 records \in BoundedSeq(Scenarios \cup {Malformed}, 2) \cup {Unreadable}}
        \cup {Command("verify", <<>>, FALSE, records) :
                 records \in BoundedSeq(Lines, 2) \cup {Unreadable}}
============================================================================

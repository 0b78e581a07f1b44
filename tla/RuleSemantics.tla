---------------------------- MODULE RuleSemantics ----------------------------
(***************************************************************************)
(* How one rule of a policy is decided: the field is resolved in the       *)
(* request, the placeholders of the rule's value are replaced, and the     *)
(* operator compares the two (crates/lovebird-engine/src: resolver.rs,     *)
(* operators.rs, match_rule of evaluator.rs).  Module PolicyMatch takes    *)
(* the outcome as its RuleHolds.                                           *)
(*                                                                         *)
(* A string is a sequence of words, a path the sequence of its dotted      *)
(* segments.  JSON numbers are integers, written with or without ".0": the *)
(* code's equality tells the two forms apart.  Objects are opaque except   *)
(* under the keys "session" and "graph".  Rule values nest one array deep. *)
(***************************************************************************)
EXTENDS Integers, SequencesExt

CONSTANTS
    Requests,          \* records action, id, roles, rtype, rid, pattrs, rattrs, context
    Rules,             \* records field, operator, value
    Numbers,           \* the integers numerals are parsed as
    Recognises(_, _)   \* does this pattern compile and match this string?

\* The fields of each kind of JSON value and of rule value defined below.
Shapes == {{"str"}, {"num", "form"}, {"bool"}, {"null"}, {"arr"}, {"obj"},
           {"ref"}, {"pieces"}, {"items"}}

\* The numbers in the maps of a request, and in the objects there.
WellTyped(map) ==
    \A key \in DOMAIN map :
        LET v == map[key]
        IN  /\ DOMAIN v \in Shapes
            /\ "num" \in DOMAIN v => v.num \in Int
            /\ "obj" \in DOMAIN v =>
                 \A k \in DOMAIN v.obj :
                    DOMAIN v.obj[k] \in Shapes /\ ("num" \in DOMAIN v.obj[k] => v.obj[k].num \in Int)

ASSUME RequestsAssumption ==
    \A q \in Requests : WellTyped(q.pattrs) /\ WellTyped(q.rattrs) /\ WellTyped(q.context)

VARIABLES pc, request, rule, outcome

vars == <<pc, request, rule, outcome>>

----------------------------------------------------------------------------
(* JSON values *)

JStr(s)   == [str |-> s]
JInt(n)   == [num |-> n, form |-> "int"]
JFloat(n) == [num |-> n, form |-> "float"]
JBool(b)  == [bool |-> b]
JNull     == [null |-> TRUE]
JArr(s)   == [arr |-> s]
JObj(f)   == [obj |-> f]   \* f: key -> value

Is(kind, v) == kind \in DOMAIN v

BoolText(b) == << IF b THEN "true" ELSE "false" >>
NumberText(v) ==
    << IF v.form = "int" THEN ToString(v.num) ELSE ToString(v.num) \o ".0" >>

\* str::parse::<f64>(): the numbers a string denotes, at most one of them since
\* no two numbers are written alike.
Parsed(s) == {n \in Numbers : s \in {NumberText(JInt(n)), NumberText(JFloat(n))}}

ASSUME NumbersAssumption ==
    /\ Numbers \subseteq Int
    /\ \A m, n \in Numbers :
          {NumberText(JInt(m)), NumberText(JFloat(m))}
            \cap {NumberText(JInt(n)), NumberText(JFloat(n))} # {} => m = n

Infix(t, s) == \E k \in 0..(Len(s) - Len(t)) : SubSeq(s, k + 1, k + Len(t)) = t

----------------------------------------------------------------------------
(* resolve_field: a request's own string, list or map, a JSON value in one
   of its maps, or nothing.                                                *)

Absent     == [absent |-> TRUE]
Own(s)     == [own |-> s]
OwnList(s) == [list |-> s]
OwnMap(f)  == [map |-> f]
Json(v)    == [json |-> v]

Get(map, key) == IF key \in DOMAIN map THEN Json(map[key]) ELSE Absent

\* Mutant: the nested object wins over the flat key.
LookupNamespaced_NestedFirst(context, space, key) ==
    IF <<space>> \in DOMAIN context /\ Is("obj", context[<<space>>])
      THEN Get(context[<<space>>].obj, key)
      ELSE Get(context, <<space>> \o key)

\* The flat key "session.x" if there is one, else x in the object "session".
LookupNamespaced(context, space, key) ==
    IF <<space>> \o key \in DOMAIN context
      THEN Json(context[<<space>> \o key])
      ELSE IF <<space>> \in DOMAIN context /\ Is("obj", context[<<space>>])
             THEN Get(context[<<space>>].obj, key)
             ELSE Absent

Beyond(prefix, path) == IsStrictPrefix(prefix, path)

ResolveField(q, path) ==
    CASE path = <<"action">>                  -> Own(q.action)
      [] path = <<"principal", "id">>         -> Own(q.id)
      [] path = <<"principal", "roles">>      -> OwnList(q.roles)
      [] path = <<"principal", "attributes">> -> OwnMap(q.pattrs)
      [] path = <<"resource", "type">>        -> Own(q.rtype)
      [] path = <<"resource", "id">>          -> Own(q.rid)
      [] path = <<"resource", "attributes">>  -> OwnMap(q.rattrs)
      [] path = <<"context">>                 -> OwnMap(q.context)
      [] Beyond(<<"principal", "attributes">>, path) -> Get(q.pattrs, Tail(Tail(path)))
      [] Beyond(<<"resource", "attributes">>, path)  -> Get(q.rattrs, Tail(Tail(path)))
      [] Beyond(<<"context">>, path)          -> Get(q.context, Tail(path))
      [] Beyond(<<"session">>, path)          -> LookupNamespaced(q.context, "session", Tail(path))
      [] Beyond(<<"graph">>, path)            -> LookupNamespaced(q.context, "graph", Tail(path))
      [] OTHER                                -> Absent

Present(q, path) == ResolveField(q, path) # Absent

----------------------------------------------------------------------------
(* substitute_placeholders.  A rule value is JSON, a whole placeholder
   [ref |-> path], a text with placeholders in it [pieces |-> ...], or an
   array of these [items |-> ...].                                         *)

Ref(path)    == [ref |-> path]
Pieces(s)    == [pieces |-> s]   \* of strings [str |-> s] and Refs
Items(s)     == [items |-> s]

Strings(list) == JArr([k \in DOMAIN list |-> JStr(list[k])])

\* Mutant: a JSON value is turned into text.
Native_AsText(rv) ==
    CASE Is("own", rv)  -> JStr(rv.own)
      [] Is("list", rv) -> Strings(rv.list)
      [] Is("json", rv) -> IF Is("num", rv.json) THEN JStr(NumberText(rv.json)) ELSE rv.json
      [] OTHER          -> JNull

\* Mutant: what is not there is the empty text, as it is inside a text.
Native_UnresolvedIsEmpty(rv) ==
    CASE Is("own", rv)  -> JStr(rv.own)
      [] Is("list", rv) -> Strings(rv.list)
      [] Is("json", rv) -> rv.json
      [] OTHER          -> JStr(<<>>)

\* The value a whole placeholder stands for; a map or nothing gives null.
Native(rv) ==
    CASE Is("own", rv)  -> JStr(rv.own)
      [] Is("list", rv) -> Strings(rv.list)
      [] Is("json", rv) -> rv.json
      [] OTHER          -> JNull

JsonText(v) ==
    CASE Is("str", v)  -> v.str
      [] Is("num", v)  -> NumberText(v)
      [] Is("bool", v) -> BoolText(v.bool)
      [] Is("null", v) -> <<"null">>
      [] OTHER         -> <<ToString(v)>>

\* The text an embedded placeholder leaves; a map or nothing leaves none.
Embedded(rv) ==
    CASE Is("own", rv)  -> rv.own
      [] Is("list", rv) -> FlattenSeq([k \in DOMAIN rv.list |->
                              IF k = 1 THEN rv.list[1] ELSE <<",">> \o rv.list[k]])
      [] Is("json", rv) -> JsonText(rv.json)
      [] OTHER          -> <<>>

ReplaceEmbedded(q, pieces) ==
    FlattenSeq([k \in DOMAIN pieces |->
                   IF Is("str", pieces[k]) THEN pieces[k].str
                   ELSE Embedded(ResolveField(q, pieces[k].ref))])

SubstituteOne(q, v) ==
    CASE Is("ref", v)    -> Native(ResolveField(q, v.ref))
      [] Is("pieces", v) -> JStr(ReplaceEmbedded(q, v.pieces))
      [] OTHER           -> v

Substitute(q, v) ==
    IF Is("items", v) THEN JArr([k \in DOMAIN v.items |-> SubstituteOne(q, v.items[k])])
                      ELSE SubstituteOne(q, v)

----------------------------------------------------------------------------
(* The operators.  rv is a resolved field that is present, t a JSON value. *)

IsStr(t, s) == t = JStr(s)

\* The text StartsWith, EndsWith and Regex look at, as a set of at most one.
AsStr(rv) ==
    CASE Is("own", rv)  -> {rv.own}
      [] Is("json", rv) -> IF Is("str", rv.json) \/ Is("num", rv.json) \/ Is("bool", rv.json)
                             THEN {JsonText(rv.json)} ELSE {}
      [] OTHER          -> {}

\* The numbers an ordering compares: a field's JSON string is not parsed, the
\* rule's is.
AsNumber(rv) ==
    CASE Is("own", rv)                        -> Parsed(rv.own)
      [] Is("json", rv) /\ Is("num", rv.json) -> {rv.json.num}
      [] OTHER                                -> {}

TargetNumber(t) ==
    CASE Is("num", t) -> {t.num}
      [] Is("str", t) -> Parsed(t.str)
      [] OTHER        -> {}

TargetStr(t) == IF Is("str", t) THEN {t.str} ELSE {}

ValueEquals(rv, t) ==
    CASE Is("own", rv)  -> IsStr(t, rv.own)
      [] Is("list", rv) -> \/ t = Strings(rv.list)
                           \/ Len(rv.list) = 1 /\ IsStr(t, rv.list[1])
      [] Is("map", rv)  -> FALSE
      [] OTHER          -> t = rv.json

ListContains(list, t) ==
    \E item \in ToSet(list) :
        IsStr(t, item) \/ (Is("num", t) /\ item = NumberText(t))

ValueIn(rv, t) ==
    /\ Is("arr", t)
    /\ CASE Is("own", rv)  -> JStr(rv.own) \in ToSet(t.arr)
         [] Is("list", rv) -> \A item \in ToSet(rv.list) : JStr(item) \in ToSet(t.arr)
         [] Is("map", rv)  -> FALSE
         [] OTHER          -> rv.json \in ToSet(t.arr)

ValueContains(rv, t) ==
    CASE Is("own", rv)  -> \E s \in TargetStr(t) : Infix(s, rv.own)
      [] Is("list", rv) -> ListContains(rv.list, t)
      [] Is("map", rv)  -> FALSE
      [] OTHER          -> \/ Is("str", rv.json) /\ \E s \in TargetStr(t) : Infix(s, rv.json.str)
                           \/ Is("arr", rv.json) /\ t \in ToSet(rv.json.arr)

\* Mutant: the rule's side is parsed, the field's own string is not.
GreaterThan_FieldNotParsed(rv, t) ==
    \E l \in (IF Is("own", rv) THEN {} ELSE AsNumber(rv)), r \in TargetNumber(t) : l > r

GreaterThan(rv, t) == \E l \in AsNumber(rv), r \in TargetNumber(t) : l > r
LessThan(rv, t)    == \E l \in AsNumber(rv), r \in TargetNumber(t) : l < r

Operators == {"Equals", "NotEquals", "In", "NotIn", "Contains", "NotContains",
              "StartsWith", "EndsWith", "GreaterThan", "LessThan", "Regex",
              "Exists", "NotExists"}

\* Any path and any operator may be written in a rule.
ASSUME RulesAssumption ==
    \A r \in Rules :
        /\ r \in [field : Seq(STRING), operator : Operators, value : {r.value}]
        /\ DOMAIN r.value \in Shapes
        /\ "ref" \in DOMAIN r.value => r.value.ref \in Seq(STRING)

Compare(op, rv, t) ==
    CASE op = "Equals"      -> ValueEquals(rv, t)
      [] op = "NotEquals"   -> ~ValueEquals(rv, t)
      [] op = "In"          -> ValueIn(rv, t)
      [] op = "NotIn"       -> ~ValueIn(rv, t)
      [] op = "Contains"    -> ValueContains(rv, t)
      [] op = "NotContains" -> ~ValueContains(rv, t)
      [] op = "StartsWith"  -> \E s \in AsStr(rv), p \in TargetStr(t) : IsPrefix(p, s)
      [] op = "EndsWith"    -> \E s \in AsStr(rv), p \in TargetStr(t) : IsSuffix(p, s)
      [] op = "GreaterThan" -> GreaterThan(rv, t)
      [] op = "LessThan"    -> LessThan(rv, t)
      [] op = "Regex"       -> \E s \in AsStr(rv), p \in TargetStr(t) : Recognises(p, s)

\* Mutant: a missing field is compared as null.
MatchRule_MissingIsNull(q, r) ==
    LET rv == ResolveField(q, r.field)
        t  == Substitute(q, r.value)
    IN  CASE r.operator = "Exists"    -> rv # Absent
          [] r.operator = "NotExists" -> rv = Absent
          [] OTHER -> Compare(r.operator, IF rv = Absent THEN Json(JNull) ELSE rv, t)

\* match_rule: the two presence operators ignore the value, every other one
\* fails on a missing field.
MatchRule(q, r) ==
    LET rv == ResolveField(q, r.field)
        t  == Substitute(q, r.value)
    IN  CASE r.operator = "Exists"    -> rv # Absent
          [] r.operator = "NotExists" -> rv = Absent
          [] OTHER                    -> rv # Absent /\ Compare(r.operator, rv, t)

----------------------------------------------------------------------------

Init ==
    /\ pc = "start"
    /\ request \in Requests
    /\ rule \in Rules
    /\ outcome = FALSE

EvaluateRule ==
    /\ pc = "start"
    /\ pc' = "done"
    /\ outcome' = MatchRule(request, rule)
    /\ UNCHANGED <<request, rule>>

Next == EvaluateRule

Spec == Init /\ [][Next]_vars

----------------------------------------------------------------------------

Done      == pc = "done"
Field     == ResolveField(request, rule.field)
WithOp(op) == MatchRule(request, [rule EXCEPT !.operator = op])
ByRef     == Is("ref", rule.value)
Other     == ResolveField(request, rule.value.ref)

\* The rule with its two fields the other way round.
Swapped(op) == MatchRule(request, [field |-> rule.value.ref, operator |-> op,
                                   value |-> Ref(rule.field)])

Negatives == {"NotEquals", "NotIn", "NotContains"}

\* q says nothing that r does not, and keeps the flat keys beyond "session" and
\* "graph", which are the extractors' to write.
SaysLess(q, r) ==
    /\ \A f \in {"action", "id", "roles", "rtype", "rid"} : q[f] = r[f]
    /\ \A f \in {"pattrs", "rattrs", "context"} : \A key \in DOMAIN q[f] :
          key \in DOMAIN r[f] /\ q[f][key] = r[f][key]
    /\ \A key \in DOMAIN r.context \ DOMAIN q.context :
          ~Beyond(<<"session">>, key) /\ ~Beyond(<<"graph">>, key)

\* A rule that does not match cannot be made to match by leaving attributes or
\* context out of the request, a negative one included, unless it asks for
\* absence or its own value is made of what is left out: who says less is not
\* let in for it.
LeavingOutNeverMatches ==
    (Done /\ ~outcome /\ rule.operator # "NotExists") =>
        \A q \in Requests :
            ( /\ SaysLess(q, request)
              /\ Substitute(q, rule.value) = Substitute(request, rule.value) )
                => ~MatchRule(q, rule)

\* "{{f}}" stands for the very value of f: a field equals itself, and whether two
\* fields are equal does not depend on which of them the rule names first, unless
\* one is a role list, which also equals its only role, or a whole map, which
\* stands for null on the right.
EqualityIsOfValues ==
    (Done /\ rule.operator = "Equals" /\ ByRef /\ Present(request, rule.field)) =>
        /\ rule.value.ref = rule.field => (outcome <=> ~Is("map", Field))
        /\ ( /\ Present(request, rule.value.ref)
             /\ \A f \in {Field, Other} : ~Is("map", f) /\ ~Is("list", f) )
             => (outcome <=> Swapped("Equals"))

\* x > y exactly when y < x, for two fields neither of which is a string inside
\* the request's JSON (such a string counts as a number on the right only); and
\* what is greater or less is not equal.
OrderIsConverse ==
    ( /\ Done /\ rule.operator = "GreaterThan" /\ ByRef
      /\ Present(request, rule.field) /\ Present(request, rule.value.ref)
      /\ \A f \in {Field, Other} : ~(Is("json", f) /\ Is("str", f.json)) )
        => /\ outcome <=> Swapped("LessThan")
           /\ ~(outcome /\ (WithOp("Equals") \/ WithOp("LessThan")))

\* A placeholder for a field the request lacks matches nothing but null: no
\* attribute the caller left out makes an ordinary value compare equal to it.
UnresolvedMatchesOnlyNull ==
    ( /\ Done /\ outcome
      /\ rule.operator \notin Negatives \cup {"Exists", "NotExists"}
      /\ ByRef /\ ~Present(request, rule.value.ref) )
        => /\ Is("json", Field)
           /\ Field.json = JNull \/ (Is("arr", Field.json) /\ JNull \in ToSet(Field.json.arr))

\* A value found beyond "session" or "graph" is the flat key's whenever there is
\* one, since that is where the extractors write: a nested object the caller
\* sends along cannot hide it.
ExtractedKeyWins ==
    ( /\ Done /\ rule.operator = "Equals"
      /\ \E space \in {"session", "graph"} : Beyond(<<space>>, rule.field)
      /\ rule.field \in DOMAIN request.context
      /\ Is("ref", rule.value) /\ rule.value.ref = <<"context">> \o rule.field )
        => outcome

----------------------------------------------------------------------------
(* What operators.rs says of the operators *)

\* operators.rs:6: "`In`: field value is a member of the target array (or
\* string in string array)".  Then some string of a list field is in the array.
InNeedsAMember ==
    (Done /\ rule.operator = "In" /\ outcome /\ Is("list", Field)) =>
        \E item \in ToSet(Field.list) :
            JStr(item) \in ToSet(Substitute(request, rule.value).arr)
============================================================================

------------------------- MODULE RuleSemanticsProofs -------------------------
(***************************************************************************)
(* Theorems about RuleSemantics, for every request, every rule and every   *)
(* way patterns are recognised and numerals parsed: what a rule's outcome  *)
(* says of the values it compares.                                         *)
(***************************************************************************)
EXTENDS RuleSemantics, SequenceTheorems, TLAPS

----------------------------------------------------------------------------
(* The outcome is that of match_rule *)

Decided ==
    /\ request \in Requests /\ rule \in Rules
    /\ Done => outcome = MatchRule(request, rule)

LEMMA OutcomeIsDecided == Spec => []Decided
<1>1. Init => Decided
  BY DEF Init, Decided, Done
<1>2. Decided /\ [Next]_vars => Decided'
  <2> SUFFICES ASSUME Decided, [Next]_vars PROVE Decided'
    OBVIOUS
  <2>1. CASE EvaluateRule
    BY <2>1 DEF EvaluateRule, Decided, Done
  <2>2. CASE UNCHANGED vars
    BY <2>2 DEF vars, Decided, Done
  <2> QED
    BY <2>1, <2>2 DEF Next
<1> QED
  BY <1>1, <1>2, PTL DEF Spec

\* A rule is its three fields, so another operator may be put in it.
LEMMA RuleWithOperator ==
    ASSUME rule \in Rules, NEW op
    PROVE  LET r == [rule EXCEPT !.operator = op]
           IN  r.field = rule.field /\ r.operator = op /\ r.value = rule.value
BY RulesAssumption

----------------------------------------------------------------------------
(* What the parts of match_rule return *)

\* An operator that compares needs the field.
LEMMA Compared ==
    ASSUME NEW q, NEW r, r.operator \notin {"Exists", "NotExists"}
    PROVE  MatchRule(q, r)
             <=> /\ ResolveField(q, r.field) # Absent
                 /\ Compare(r.operator, ResolveField(q, r.field), Substitute(q, r.value))
BY DEF MatchRule

\* A resolved field is of one of five kinds.
LEMMA FieldKinds ==
    ASSUME NEW q, NEW path
    PROVE  \E x : ResolveField(q, path) \in {Own(x), OwnList(x), OwnMap(x), Json(x), Absent}
<1>1. \A map, key : \E x : Get(map, key) \in {Own(x), OwnList(x), OwnMap(x), Json(x), Absent}
  BY DEF Get
<1>2. \A c, space, key :
        \E x : LookupNamespaced(c, space, key) \in {Own(x), OwnList(x), OwnMap(x), Json(x), Absent}
  BY <1>1 DEF LookupNamespaced
<1> HIDE DEF Get
<1> QED
  BY <1>1, <1>2 DEF ResolveField

\* The kinds are told apart by Is.
LEMMA KindsDiffer ==
    ASSUME NEW x
    PROVE  /\ Own(x) = [own |-> x] /\ Own(x).own = x /\ Own(x) # Absent
           /\ Is("own", Own(x)) /\ ~Is("list", Own(x)) /\ ~Is("map", Own(x)) /\ ~Is("json", Own(x))
           /\ OwnList(x).list = x /\ OwnList(x) # Absent
           /\ ~Is("own", OwnList(x)) /\ Is("list", OwnList(x))
           /\ ~Is("map", OwnList(x)) /\ ~Is("json", OwnList(x))
           /\ OwnMap(x) # Absent
           /\ ~Is("own", OwnMap(x)) /\ ~Is("list", OwnMap(x))
           /\ Is("map", OwnMap(x)) /\ ~Is("json", OwnMap(x))
           /\ Json(x).json = x /\ Json(x) # Absent
           /\ ~Is("own", Json(x)) /\ ~Is("list", Json(x)) /\ ~Is("map", Json(x))
           /\ Is("json", Json(x))
           /\ ~Is("own", Absent) /\ ~Is("list", Absent) /\ ~Is("map", Absent)
           /\ ~Is("json", Absent)
BY DEF Own, OwnList, OwnMap, Json, Absent, Is

\* The value of a whole placeholder.
LEMMA NativeOfKind ==
    ASSUME NEW x
    PROVE  /\ Native(Own(x)) = JStr(x)
           /\ Native(OwnList(x)) = Strings(x)
           /\ Native(OwnMap(x)) = JNull
           /\ Native(Json(x)) = x
           /\ Native(Absent) = JNull
BY KindsDiffer DEF Native

\* Equality with each kind of field.
LEMMA EqualsOfKind ==
    ASSUME NEW x, NEW t
    PROVE  /\ ValueEquals(Own(x), t) <=> t = JStr(x)
           /\ ValueEquals(OwnList(x), t)
                <=> t = Strings(x) \/ (Len(x) = 1 /\ t = JStr(x[1]))
           /\ ~ValueEquals(OwnMap(x), t)
           /\ ValueEquals(Json(x), t) <=> t = x
BY KindsDiffer DEF ValueEquals, IsStr

\* The number each kind of field is.
LEMMA NumberOfKind ==
    ASSUME NEW x
    PROVE  /\ AsNumber(Own(x)) = Parsed(x)
           /\ AsNumber(OwnList(x)) = {} /\ AsNumber(OwnMap(x)) = {}
           /\ AsNumber(Json(x)) = IF Is("num", x) THEN {x.num} ELSE {}
<1>1. AsNumber(Own(x)) = Parsed(x) /\ AsNumber(OwnList(x)) = {} /\ AsNumber(OwnMap(x)) = {}
  BY KindsDiffer DEF AsNumber
<1>2. CASE Is("num", x)
  BY <1>1, <1>2, KindsDiffer DEF AsNumber
<1>3. CASE ~Is("num", x)
  BY <1>1, <1>3, KindsDiffer DEF AsNumber
<1> QED
  BY <1>2, <1>3

\* The value of a rule that is one placeholder.
LEMMA PlaceholderAlone ==
    ASSUME NEW q, NEW v, DOMAIN v \in Shapes, Is("ref", v)
    PROVE  Substitute(q, v) = Native(ResolveField(q, v.ref))
<1>1. ~Is("items", v) /\ ~Is("pieces", v)
  BY DEF Shapes, Is
<1>2. Substitute(q, v) = SubstituteOne(q, v)
  BY <1>1 DEF Substitute
<1>3. SubstituteOne(q, v) = Native(ResolveField(q, v.ref))
  BY <1>1 DEF SubstituteOne
<1> QED
  BY <1>2, <1>3

\* What some operators compare.
LEMMA OperatorsCompare ==
    ASSUME NEW rv, NEW t
    PROVE  /\ {"Equals", "GreaterThan", "LessThan"} \subseteq Operators \ {"Exists", "NotExists"}
           /\ Compare("Equals", rv, t) <=> ValueEquals(rv, t)
           /\ Compare("GreaterThan", rv, t) <=> GreaterThan(rv, t)
           /\ Compare("LessThan", rv, t) <=> LessThan(rv, t)
BY DEF Operators, Compare

\* match_rule on a rule that compares two fields, and on one the other way round.
LEMMA ComparedByRef ==
    ASSUME rule \in Rules, ByRef, NEW op \in Operators \ {"Exists", "NotExists"}
    PROVE  /\ WithOp(op) <=> Field # Absent /\ Compare(op, Field, Native(Other))
           /\ rule.operator = op =>
                (MatchRule(request, rule) <=> Field # Absent /\ Compare(op, Field, Native(Other)))
<1> DEFINE r == [rule EXCEPT !.operator = op]
<1>1. r.field = rule.field /\ r.operator = op /\ r.value = rule.value
  BY RuleWithOperator
<1>2. Substitute(request, rule.value) = Native(Other)
  BY RulesAssumption, PlaceholderAlone DEF ByRef, Other
<1> HIDE DEF r
<1>3. MatchRule(request, r) <=> Field # Absent /\ Compare(op, Field, Native(Other))
  BY <1>1, <1>2, Compared DEF Field
<1>4. rule.operator = op =>
        (MatchRule(request, rule) <=> Field # Absent /\ Compare(op, Field, Native(Other)))
  BY <1>2, Compared DEF Field
<1> QED
  BY <1>3, <1>4 DEF WithOp, r

LEMMA ComparedSwapped ==
    ASSUME NEW op \in Operators \ {"Exists", "NotExists"}
    PROVE  Swapped(op) <=> Other # Absent /\ Compare(op, Other, Native(Field))
<1> DEFINE r == [field |-> rule.value.ref, operator |-> op, value |-> Ref(rule.field)]
<1>1. r.field = rule.value.ref /\ r.operator = op /\ r.value = Ref(rule.field)
  OBVIOUS
<1>2. Substitute(request, Ref(rule.field)) = Native(Field)
  <2>1. DOMAIN Ref(rule.field) \in Shapes /\ Is("ref", Ref(rule.field))
        /\ Ref(rule.field).ref = rule.field
    BY DEF Ref, Shapes, Is
  <2> QED
    BY <2>1, PlaceholderAlone DEF Field
<1> HIDE DEF r
<1>3. MatchRule(request, r) <=> Other # Absent /\ Compare(op, Other, Native(Field))
  BY <1>1, <1>2, Compared DEF Other
<1> QED
  BY <1>3 DEF Swapped, r

\* A field counts as the same number on either side, unless it is a string in the
\* request's JSON.
LEMMA NumberEitherSide ==
    ASSUME NEW q, NEW path, ResolveField(q, path) # Absent,
           ~(Is("json", ResolveField(q, path)) /\ Is("str", ResolveField(q, path).json))
    PROVE  TargetNumber(Native(ResolveField(q, path))) = AsNumber(ResolveField(q, path))
<1>1. PICK x : ResolveField(q, path) \in {Own(x), OwnList(x), OwnMap(x), Json(x)}
  BY FieldKinds
<1>2. /\ TargetNumber(JStr(x)) = Parsed(x)
      /\ TargetNumber(Strings(x)) = {} /\ TargetNumber(JNull) = {}
  BY DEF TargetNumber, JStr, Strings, JArr, JNull, Is
<1>3. ASSUME ~Is("str", x) PROVE TargetNumber(x) = IF Is("num", x) THEN {x.num} ELSE {}
  <2>1. CASE Is("num", x)
    BY <1>3, <2>1 DEF TargetNumber
  <2>2. CASE ~Is("num", x)
    BY <1>3, <2>2 DEF TargetNumber
  <2> QED
    BY <2>1, <2>2
<1>4. CASE ResolveField(q, path) = Json(x)
  BY <1>3, <1>4, KindsDiffer, NativeOfKind, NumberOfKind
<1> QED
  BY <1>1, <1>2, <1>4, NativeOfKind, NumberOfKind

\* What is looked up in a map of the request, when it is a number, is an integer.
LEMMA NumberInMap ==
    ASSUME NEW map, WellTyped(map), NEW space, NEW key, NEW v,
           Json(v) \in {Get(map, key), LookupNamespaced(map, space, key)}, Is("num", v)
    PROVE  v.num \in Int
<1>1. \A f, j : Get(f, j) = Json(v) => j \in DOMAIN f /\ f[j] = v
  <2> SUFFICES ASSUME NEW f, NEW j, Get(f, j) = Json(v) PROVE j \in DOMAIN f /\ f[j] = v
    OBVIOUS
  <2>1. j \in DOMAIN f
    BY KindsDiffer DEF Get
  <2>2. Json(f[j]) = Json(v)
    BY <2>1 DEF Get
  <2> QED
    BY <2>1, <2>2, KindsDiffer
<1>2. \A j \in DOMAIN map : map[j] = v => v.num \in Int
  BY DEF WellTyped, Is
<1>3. CASE Json(v) = Get(map, key)
  BY <1>1, <1>2, <1>3
<1>4. CASE Json(v) = LookupNamespaced(map, space, key)
  <2>1. CASE <<space>> \o key \in DOMAIN map
    <3>1. Json(map[<<space>> \o key]) = Json(v)
      BY <1>4, <2>1 DEF LookupNamespaced
    <3> QED
      BY <1>2, <2>1, <3>1, KindsDiffer
  <2>2. CASE <<space>> \o key \notin DOMAIN map
    <3>1. /\ <<space>> \in DOMAIN map /\ Is("obj", map[<<space>>])
          /\ Get(map[<<space>>].obj, key) = Json(v)
      BY <1>4, <2>2, KindsDiffer DEF LookupNamespaced
    <3>2. key \in DOMAIN map[<<space>>].obj /\ map[<<space>>].obj[key] = v
      BY <1>1, <3>1
    <3> QED
      BY <3>1, <3>2 DEF WellTyped, Is
  <2> QED
    BY <2>1, <2>2
<1> QED
  BY <1>3, <1>4

\* A field is at most one number, and that an integer.
LEMMA OneNumber ==
    ASSUME NEW q \in Requests, NEW path
    PROVE  /\ AsNumber(ResolveField(q, path)) \subseteq Int
           /\ \A m, n \in AsNumber(ResolveField(q, path)) : m = n
<1>1. PICK x : ResolveField(q, path) \in {Own(x), OwnList(x), OwnMap(x), Json(x), Absent}
  BY FieldKinds
<1>2. Parsed(x) \subseteq Int /\ \A m, n \in Parsed(x) : m = n
  <2>1. ASSUME NEW m \in Parsed(x), NEW n \in Parsed(x) PROVE m = n
    <3>1. m \in Numbers /\ n \in Numbers
          /\ x \in {NumberText(JInt(m)), NumberText(JFloat(m))}
                \cap {NumberText(JInt(n)), NumberText(JFloat(n))}
      BY DEF Parsed
    <3> QED
      BY <3>1, NumbersAssumption
  <2> QED
    BY <2>1, NumbersAssumption DEF Parsed
<1>3. ASSUME ResolveField(q, path) = Json(x), Is("num", x) PROVE x.num \in Int
  <2>1. WellTyped(q.pattrs) /\ WellTyped(q.rattrs) /\ WellTyped(q.context)
    BY RequestsAssumption
  <2>2. \E map \in {q.pattrs, q.rattrs, q.context} : \E space, key :
           Json(x) \in {Get(map, key), LookupNamespaced(map, space, key)}
    BY <1>3, KindsDiffer DEF ResolveField
  <2> QED
    BY <1>3, <2>1, <2>2, NumberInMap
<1>4. AsNumber(Absent) = {}
  BY KindsDiffer DEF AsNumber
<1> QED
  BY <1>1, <1>2, <1>3, <1>4, NumberOfKind

\* Null is no text, no number, no list and no string.
LEMMA NullIsNoText ==
    /\ TargetStr(JNull) = {} /\ TargetNumber(JNull) = {}
    /\ ~Is("arr", JNull) /\ ~Is("num", JNull)
    /\ \A x : JNull # JStr(x) /\ JNull # Strings(x)
<1>1. ~Is("arr", JNull) /\ ~Is("num", JNull) /\ ~Is("str", JNull)
  BY DEF JNull, Is
<1>2. ASSUME NEW x PROVE JNull # JStr(x) /\ JNull # Strings(x)
  <2>1. Is("str", JStr(x)) /\ Is("arr", Strings(x))
    BY DEF JStr, Strings, JArr, Is
  <2> QED
    BY <1>1, <2>1
<1> QED
  BY <1>1, <1>2 DEF TargetStr, TargetNumber

----------------------------------------------------------------------------
(* Paths *)

\* A segment put before a path.
LEMMA SegmentBefore ==
    ASSUME NEW S, NEW a \in S, NEW path \in Seq(S)
    PROVE  LET both == <<a>> \o path
           IN  /\ both \in Seq(S) /\ Len(both) = Len(path) + 1
               /\ both[1] = a /\ \A i \in 1..Len(path) : both[i + 1] = path[i]
               /\ Len(path) > 0 => Tail(both) = path
<1> DEFINE one == <<a>>
           both == one \o path
<1>1. one \in Seq(S) /\ Len(one) = 1 /\ one[1] = a
  OBVIOUS
<1> HIDE DEF one
<1>2. /\ both \in Seq(S) /\ Len(both) = Len(one) + Len(path)
      /\ \A i \in 1..(Len(one) + Len(path)) :
            both[i] = IF i <= Len(one) THEN one[i] ELSE path[i - Len(one)]
  BY <1>1, ConcatProperties
<1>3. Len(path) \in Nat
  OBVIOUS
<1> HIDE DEF both
<1>4. Len(both) = Len(path) + 1 /\ both[1] = a
  BY <1>1, <1>2, <1>3
<1>5. ASSUME NEW i \in 1..Len(path) PROVE both[i + 1] = path[i]
  <2>1. i + 1 \in 1..(Len(one) + Len(path)) /\ ~(i + 1 <= Len(one)) /\ (i + 1) - Len(one) = i
    BY <1>1, <1>3
  <2> QED
    BY <1>2, <2>1
<1>6. ASSUME Len(path) > 0 PROVE Tail(both) = path
  <2> DEFINE rest == Tail(both)
  <2>1. rest \in Seq(S) /\ Len(rest) = Len(path)
        /\ \A i \in 1..Len(path) : rest[i] = both[i + 1]
    BY <1>2, <1>3, <1>4, <1>6
  <2> HIDE DEF rest
  <2>2. rest = path
    BY <1>5, <2>1, SeqEqual
  <2> QED
    BY <2>2 DEF rest
<1> QED
  BY <1>2, <1>4, <1>5, <1>6 DEF both, one

\* A path beyond one segment is that segment and a rest.
LEMMA BeyondOne ==
    ASSUME NEW S, NEW a \in S, NEW path \in Seq(S)
    PROVE  /\ Beyond(<<a>>, path) <=> Len(path) > 1 /\ path[1] = a
           /\ Beyond(<<a>>, path) => <<a>> \o Tail(path) = path
<1> DEFINE one == <<a>>
<1>1. one \in Seq(S) /\ Len(one) = 1 /\ one[1] = a
  OBVIOUS
<1>2. Len(path) \in Nat
  OBVIOUS
<1>3. Len(path) >= 1 => (SubSeq(one, 1, 1) = SubSeq(path, 1, 1) <=> path[1] = a)
  <2> SUFFICES ASSUME Len(path) >= 1
               PROVE SubSeq(one, 1, 1) = SubSeq(path, 1, 1) <=> path[1] = a
    OBVIOUS
  <2>1. SubSeq(one, 1, 1) \in Seq(S) /\ Len(SubSeq(one, 1, 1)) = 1
        /\ SubSeq(one, 1, 1)[1] = a
    <3> HIDE DEF one
    <3> QED
      BY <1>1
  <2>2. SubSeq(path, 1, 1) \in Seq(S) /\ Len(SubSeq(path, 1, 1)) = 1
        /\ SubSeq(path, 1, 1)[1] = path[1]
    OBVIOUS
  <2> HIDE DEF one
  <2> QED
    BY <2>1, <2>2, SeqEqual
<1>4. path[1] = a /\ Len(path) >= 1 => (one # path <=> Len(path) > 1)
  <2> HIDE DEF one
  <2>1. Len(path) = 1 /\ path[1] = a => one = path
    BY <1>1, SeqEqual
  <2> QED
    BY <1>1, <1>2, <2>1
<1>5. Beyond(one, path) <=> Len(path) > 1 /\ path[1] = a
  <2> HIDE DEF one
  <2> QED
    BY <1>1, <1>2, <1>3, <1>4 DEF Beyond, IsStrictPrefix, IsPrefix
<1>6. ASSUME Len(path) > 1, path[1] = a PROVE one \o Tail(path) = path
  <2> DEFINE rest == Tail(path)
             both == <<a>> \o rest
  <2>1. rest \in Seq(S) /\ Len(rest) = Len(path) - 1
        /\ \A i \in 1..(Len(path) - 1) : rest[i] = path[i + 1]
    BY <1>6
  <2> HIDE DEF rest
  <2>2. /\ both \in Seq(S) /\ Len(both) = Len(rest) + 1
        /\ both[1] = a /\ \A i \in 1..Len(rest) : both[i + 1] = rest[i]
    BY <2>1, SegmentBefore
  <2> HIDE DEF both
  <2>3. ASSUME NEW i \in 1..Len(path) PROVE both[i] = path[i]
    <3>1. CASE i = 1
      BY <1>6, <2>2, <3>1
    <3>2. CASE i > 1
      <4>1. i - 1 \in 1..(Len(path) - 1) /\ (i - 1) + 1 = i
        BY <1>2, <3>2
      <4> QED
        BY <1>2, <2>1, <2>2, <4>1
    <3> QED
      BY <3>1, <3>2
  <2>4. Len(both) = Len(path)
    BY <1>2, <2>1, <2>2
  <2>5. both = path
    BY <2>2, <2>3, <2>4, SeqEqual
  <2> QED
    BY <2>5 DEF both, rest
<1> QED
  BY <1>5, <1>6 DEF one

\* The segments of a path, among them those the resolver looks for.
Segments == STRING \cup {"context", "session", "graph"}

\* No other field begins with the segment of a map or a space.
LEMMA FirstSegmentDecides ==
    ASSUME NEW q, NEW path \in Seq(Segments), Len(path) > 1,
           path[1] \in {"context", "session", "graph"}
    PROVE  ResolveField(q, path)
             = IF path[1] = "context" THEN Get(q.context, Tail(path))
                                      ELSE LookupNamespaced(q.context, path[1], Tail(path))
<1>1. /\ Beyond(<<"context">>, path) <=> path[1] = "context"
      /\ Beyond(<<"session">>, path) <=> path[1] = "session"
      /\ Beyond(<<"graph">>, path) <=> path[1] = "graph"
  <2>1. \A a \in Segments : Beyond(<<a>>, path) <=> path[1] = a
    BY BeyondOne
  <2> QED
    BY <2>1 DEF Segments
<1>2. /\ path # <<"action">> /\ path # <<"principal", "id">>
      /\ path # <<"principal", "roles">> /\ path # <<"principal", "attributes">>
      /\ path # <<"resource", "type">> /\ path # <<"resource", "id">>
      /\ path # <<"resource", "attributes">> /\ path # <<"context">>
  <2>1. \A a : path # <<a>>
    <3> SUFFICES ASSUME NEW a, path = <<a>> PROVE FALSE
      OBVIOUS
    <3>1. Len(<<a>>) = 1
      OBVIOUS
    <3> QED
      BY <3>1
  <2>2. \A a, b : path = <<a, b>> => path[1] = a
    OBVIOUS
  <2> QED
    BY <2>1, <2>2
<1>3. \A a \in {"principal", "resource"} : Beyond(<<a, "attributes">>, path) = FALSE
  <2> SUFFICES ASSUME NEW a \in {"principal", "resource"}, Len(path) >= 2
               PROVE  SubSeq(<<a, "attributes">>, 1, 2) # SubSeq(path, 1, 2)
    BY DEF Beyond, IsStrictPrefix, IsPrefix
  <2>1. SubSeq(<<a, "attributes">>, 1, 2)[1] = a /\ SubSeq(path, 1, 2)[1] = path[1]
    OBVIOUS
  <2> QED
    BY <2>1
<1>4. /\ Beyond(<<"principal", "attributes">>, path) = FALSE
      /\ Beyond(<<"resource", "attributes">>, path) = FALSE
  BY <1>3
<1> QED
  BY <1>1, <1>2, <1>4 DEF ResolveField

\* A flat key of the session or the graph is looked up before anything else.
LEMMA FlatKeyResolves ==
    ASSUME NEW q, NEW path \in Seq(Segments), NEW space \in {"session", "graph"},
           Beyond(<<space>>, path), path \in DOMAIN q.context
    PROVE  ResolveField(q, path) = Json(q.context[path])
<1>1. Len(path) > 1 /\ path[1] = space /\ <<space>> \o Tail(path) = path
  <2>1. space \in Segments
    BY DEF Segments
  <2> QED
    BY <2>1, BeyondOne
<1>2. ResolveField(q, path) = LookupNamespaced(q.context, space, Tail(path))
  BY <1>1, FirstSegmentDecides
<1> QED
  BY <1>1, <1>2 DEF LookupNamespaced

\* Behind "context" any key of the context is found.
LEMMA ContextKeyResolves ==
    ASSUME NEW q, NEW path \in Seq(Segments), NEW space \in {"session", "graph"},
           Beyond(<<space>>, path), path \in DOMAIN q.context
    PROVE  ResolveField(q, <<"context">> \o path) = Json(q.context[path])
<1>1. Len(path) > 0
  <2>1. space \in Segments
    BY DEF Segments
  <2> QED
    BY <2>1, BeyondOne
<1>2. ResolveField(q, <<"context">> \o path) = Get(q.context, path)
  <2> DEFINE longer == <<"context">> \o path
  <2>1. /\ longer \in Seq(Segments) /\ Len(longer) > 1 /\ longer[1] = "context"
        /\ Tail(longer) = path
    <3>1. "context" \in Segments
      BY DEF Segments
    <3> QED
      BY <1>1, <3>1, SegmentBefore
  <2> HIDE DEF longer
  <2>2. ResolveField(q, longer) = Get(q.context, Tail(longer))
    BY <2>1, FirstSegmentDecides
  <2> QED
    BY <2>1, <2>2 DEF longer
<1> QED
  BY <1>2 DEF Get

----------------------------------------------------------------------------
(* What a rule says of what it compares *)

\* What a request that says less has in a field: the same, or nothing, or a
\* smaller map.
LEMMA FieldOfLess ==
    ASSUME NEW q, NEW r, SaysLess(q, r), NEW path \in Seq(Segments)
    PROVE  \/ ResolveField(q, path) \in {ResolveField(r, path), Absent}
           \/ \E x, y : ResolveField(q, path) = OwnMap(x) /\ ResolveField(r, path) = OwnMap(y)
<1>1. /\ q.action = r.action /\ q.id = r.id /\ q.roles = r.roles
      /\ q.rtype = r.rtype /\ q.rid = r.rid
  BY DEF SaysLess
<1>2. \A key : /\ Get(q.pattrs, key) \in {Get(r.pattrs, key), Absent}
               /\ Get(q.rattrs, key) \in {Get(r.rattrs, key), Absent}
               /\ Get(q.context, key) \in {Get(r.context, key), Absent}
  BY DEF SaysLess, Get
<1>3. ASSUME NEW space \in {"session", "graph"}, Beyond(<<space>>, path)
      PROVE  LookupNamespaced(q.context, space, Tail(path))
               \in {LookupNamespaced(r.context, space, Tail(path)), Absent}
  <2>1. <<space>> \o Tail(path) = path
    <3>1. space \in Segments
      BY DEF Segments
    <3> QED
      BY <1>3, <3>1, BeyondOne
  <2>2. path \in DOMAIN q.context <=> path \in DOMAIN r.context
    BY <1>3 DEF SaysLess
  <2>3. \A key \in DOMAIN q.context : key \in DOMAIN r.context /\ q.context[key] = r.context[key]
    BY DEF SaysLess
  <2> QED
    BY <2>1, <2>2, <2>3 DEF LookupNamespaced
<1> DEFINE action == path = <<"action">>
           id     == path = <<"principal", "id">>
           roles  == path = <<"principal", "roles">>
           pmap   == path = <<"principal", "attributes">>
           rtype  == path = <<"resource", "type">>
           rid    == path = <<"resource", "id">>
           rmap   == path = <<"resource", "attributes">>
           cmap   == path = <<"context">>
           pattr  == Beyond(<<"principal", "attributes">>, path)
           rattr  == Beyond(<<"resource", "attributes">>, path)
           ckey   == Beyond(<<"context">>, path)
           skey   == Beyond(<<"session">>, path)
           gkey   == Beyond(<<"graph">>, path)
           two    == Tail(Tail(path))
           one    == Tail(path)
<1>4. \A z : ResolveField(z, path) =
        CASE action -> Own(z.action) [] id    -> Own(z.id)        [] roles -> OwnList(z.roles)
          [] pmap   -> OwnMap(z.pattrs) [] rtype -> Own(z.rtype)  [] rid   -> Own(z.rid)
          [] rmap   -> OwnMap(z.rattrs) [] cmap  -> OwnMap(z.context)
          [] pattr  -> Get(z.pattrs, two) [] rattr -> Get(z.rattrs, two)
          [] ckey   -> Get(z.context, one)
          [] skey   -> LookupNamespaced(z.context, "session", one)
          [] gkey   -> LookupNamespaced(z.context, "graph", one)
          [] OTHER  -> Absent
  BY DEF ResolveField
<1>5. /\ skey => LookupNamespaced(q.context, "session", one)
                    \in {LookupNamespaced(r.context, "session", one), Absent}
      /\ gkey => LookupNamespaced(q.context, "graph", one)
                    \in {LookupNamespaced(r.context, "graph", one), Absent}
  BY <1>3
<1> HIDE DEF action, id, roles, pmap, rtype, rid, rmap, cmap, pattr, rattr, ckey, skey, gkey,
             two, one
<1> QED
  BY <1>1, <1>2, <1>4, <1>5

\* No operator looks into a map.
LEMMA MapsCompareAlike ==
    ASSUME NEW op \in Operators \ {"Exists", "NotExists"}, NEW t, NEW x, NEW y
    PROVE  Compare(op, OwnMap(x), t) <=> Compare(op, OwnMap(y), t)
<1>1. \A z : /\ ~ValueEquals(OwnMap(z), t) /\ ~ValueIn(OwnMap(z), t)
             /\ ~ValueContains(OwnMap(z), t)
             /\ AsStr(OwnMap(z)) = {} /\ AsNumber(OwnMap(z)) = {}
  BY KindsDiffer DEF ValueEquals, ValueIn, ValueContains, AsStr, AsNumber
<1>2. \A z : ~GreaterThan(OwnMap(z), t) /\ ~LessThan(OwnMap(z), t)
  BY <1>1 DEF GreaterThan, LessThan
<1> HIDE DEF OwnMap, ValueEquals, ValueIn, ValueContains, AsStr, GreaterThan, LessThan
<1> QED
  BY <1>1, <1>2 DEF Compare, Operators

\* For every rule and request: a request that says less is not matched for it,
\* by a negative operator either.
THEOREM SayingLessMatchesNoMore == Spec => []LeavingOutNeverMatches
<1>1. Decided => LeavingOutNeverMatches
  <2> SUFFICES ASSUME Decided, Done, ~outcome, rule.operator # "NotExists",
                      NEW q \in Requests, SaysLess(q, request),
                      Substitute(q, rule.value) = Substitute(request, rule.value),
                      MatchRule(q, rule)
               PROVE  FALSE
    BY DEF LeavingOutNeverMatches
  <2> DEFINE less == ResolveField(q, rule.field)
             full == ResolveField(request, rule.field)
             t    == Substitute(request, rule.value)
  <2>1. ~MatchRule(request, rule) /\ rule.operator \in Operators /\ rule.field \in Seq(Segments)
    BY RulesAssumption DEF Decided, Segments
  <2>2. \/ less = full \/ less = Absent
        \/ \E x, y : less = OwnMap(x) /\ full = OwnMap(y)
    BY <2>1, FieldOfLess
  <2>3. CASE rule.operator = "Exists"
    <3>1. less # Absent /\ full = Absent
      BY <2>1, <2>3 DEF MatchRule
    <3> HIDE DEF less, full
    <3> QED
      BY <2>2, <3>1, KindsDiffer
  <2>4. CASE rule.operator # "Exists"
    <3>1. /\ less # Absent /\ Compare(rule.operator, less, t)
          /\ ~(full # Absent /\ Compare(rule.operator, full, t))
      BY <2>1, <2>4, Compared
    <3>2. rule.operator \in Operators \ {"Exists", "NotExists"}
      BY <2>1, <2>4
    <3> HIDE DEF less, full, t
    <3>3. CASE \E x, y : less = OwnMap(x) /\ full = OwnMap(y)
      <4>1. PICK x, y : less = OwnMap(x) /\ full = OwnMap(y)
        BY <3>3
      <4>2. full # Absent
        BY <4>1, KindsDiffer
      <4>3. Compare(rule.operator, OwnMap(x), t) <=> Compare(rule.operator, OwnMap(y), t)
        BY <3>2, MapsCompareAlike
      <4> QED
        BY <3>1, <4>1, <4>2, <4>3
    <3> QED
      BY <2>2, <3>1, <3>3
  <2> QED
    BY <2>3, <2>4
<1> QED
  BY <1>1, OutcomeIsDecided, PTL

\* For every rule and request: equality by placeholder is that of the values.
THEOREM EqualityComparesValues == Spec => []EqualityIsOfValues
<1>1. Decided => EqualityIsOfValues
  <2> SUFFICES ASSUME Decided, Done, rule.operator = "Equals", ByRef,
                      Present(request, rule.field)
               PROVE  /\ rule.value.ref = rule.field => (outcome <=> ~Is("map", Field))
                      /\ ( /\ Present(request, rule.value.ref)
                           /\ \A f \in {Field, Other} : ~Is("map", f) /\ ~Is("list", f) )
                           => (outcome <=> Swapped("Equals"))
    BY DEF EqualityIsOfValues
  <2>1. outcome <=> ValueEquals(Field, Native(Other))
    BY ComparedByRef, OperatorsCompare DEF Decided, Field, Present
  <2>2. Present(request, rule.value.ref) =>
          (Swapped("Equals") <=> ValueEquals(Other, Native(Field)))
    BY ComparedSwapped, OperatorsCompare DEF Other, Present
  <2>3. PICK x : Field \in {Own(x), OwnList(x), OwnMap(x), Json(x)}
    BY FieldKinds DEF Field, Present
  <2>4. ASSUME rule.value.ref = rule.field PROVE outcome <=> ~Is("map", Field)
    <3>1. Other = Field
      BY <2>4 DEF Other, Field
    <3>2. ValueEquals(Field, Native(Field)) <=> ~Is("map", Field)
      BY <2>3, KindsDiffer, NativeOfKind, EqualsOfKind
    <3> QED
      BY <2>1, <3>1, <3>2
  <2>5. ASSUME Present(request, rule.value.ref),
               \A f \in {Field, Other} : ~Is("map", f) /\ ~Is("list", f)
        PROVE  outcome <=> Swapped("Equals")
    <3>1. PICK y : Other \in {Own(y), OwnList(y), OwnMap(y), Json(y)}
      BY <2>5, FieldKinds DEF Other, Present
    <3>2. Field \in {Own(x), Json(x)} /\ Other \in {Own(y), Json(y)}
      BY <2>3, <2>5, <3>1, KindsDiffer
    <3>3. ValueEquals(Field, Native(Other)) <=> ValueEquals(Other, Native(Field))
      <4>1. JStr(x) = JStr(y) <=> JStr(y) = JStr(x)
        OBVIOUS
      <4> QED
        BY <3>2, NativeOfKind, EqualsOfKind
    <3> QED
      BY <2>1, <2>2, <2>5, <3>3
  <2> QED
    BY <2>4, <2>5
<1> QED
  BY <1>1, OutcomeIsDecided, PTL

\* For every rule and request: the two orders of numbers are converse, and apart
\* from equality.
THEOREM OrdersAreConverse == Spec => []OrderIsConverse
<1>1. Decided => OrderIsConverse
  <2> SUFFICES ASSUME Decided, Done, rule.operator = "GreaterThan", ByRef,
                      Present(request, rule.field), Present(request, rule.value.ref),
                      \A f \in {Field, Other} : ~(Is("json", f) /\ Is("str", f.json))
               PROVE  /\ outcome <=> Swapped("LessThan")
                      /\ ~(outcome /\ (WithOp("Equals") \/ WithOp("LessThan")))
    BY DEF OrderIsConverse
  <2>1. /\ outcome <=> GreaterThan(Field, Native(Other))
        /\ WithOp("Equals") <=> ValueEquals(Field, Native(Other))
        /\ WithOp("LessThan") <=> LessThan(Field, Native(Other))
    BY ComparedByRef, OperatorsCompare DEF Decided, Field, Present
  <2>2. Swapped("LessThan") <=> LessThan(Other, Native(Field))
    BY ComparedSwapped, OperatorsCompare DEF Other, Present
  <2>3. /\ TargetNumber(Native(Field)) = AsNumber(Field)
        /\ TargetNumber(Native(Other)) = AsNumber(Other)
    BY NumberEitherSide DEF Field, Other, Present
  <2>4. /\ AsNumber(Field) \subseteq Int /\ AsNumber(Other) \subseteq Int
        /\ \A m, n \in AsNumber(Field) : m = n
        /\ \A m, n \in AsNumber(Other) : m = n
    BY OneNumber DEF Decided, Field, Other
  <2>5. outcome <=> Swapped("LessThan")
    BY <2>1, <2>2, <2>3, <2>4 DEF GreaterThan, LessThan
  <2>6. ~(outcome /\ WithOp("LessThan"))
    BY <2>1, <2>3, <2>4 DEF GreaterThan, LessThan
  <2>7. ASSUME outcome, WithOp("Equals") PROVE FALSE
    <3>1. PICK x : Field \in {Own(x), OwnList(x), OwnMap(x), Json(x)}
      BY FieldKinds DEF Field, Present
    <3>2. AsNumber(Field) # {}
      BY <2>1, <2>7 DEF GreaterThan
    <3>3. Field \in {Own(x), Json(x)}
      BY <3>1, <3>2, NumberOfKind
    <3>4. Native(Other) = Native(Field)
      BY <2>1, <2>7, <3>3, NativeOfKind, EqualsOfKind
    <3> QED
      BY <2>1, <2>3, <2>4, <2>7, <3>4 DEF GreaterThan
  <2> QED
    BY <2>5, <2>6, <2>7
<1> QED
  BY <1>1, OutcomeIsDecided, PTL

\* For every rule and request: what the request lacks equals nothing but null.
THEOREM WhatIsMissingMatchesOnlyNull == Spec => []UnresolvedMatchesOnlyNull
<1>1. Decided => UnresolvedMatchesOnlyNull
  <2> SUFFICES ASSUME Decided, Done, outcome,
                      rule.operator \notin Negatives \cup {"Exists", "NotExists"},
                      ByRef, ~Present(request, rule.value.ref)
               PROVE  /\ Is("json", Field)
                      /\ Field.json = JNull
                           \/ (Is("arr", Field.json) /\ JNull \in ToSet(Field.json.arr))
    BY DEF UnresolvedMatchesOnlyNull
  <2> DEFINE op == rule.operator
  <2>1. op \in {"Equals", "In", "Contains", "StartsWith", "EndsWith", "GreaterThan",
                "LessThan", "Regex"}
    <3>1. op \in Operators
      BY RulesAssumption DEF Decided
    <3> HIDE DEF op
    <3> QED
      BY <3>1 DEF Operators, Negatives, op
  <2>2. Native(Other) = JNull
    BY NativeOfKind DEF Present, Other
  <2>3. Field # Absent /\ Compare(op, Field, JNull)
    <3>1. MatchRule(request, rule)
      BY DEF Decided
    <3>2. op \in Operators \ {"Exists", "NotExists"}
      BY <2>1 DEF Operators
    <3> QED
      BY <2>2, <3>1, <3>2, ComparedByRef DEF Decided
  <2>4. PICK x : Field \in {Own(x), OwnList(x), OwnMap(x), Json(x)}
    BY <2>3, FieldKinds DEF Field
  <2>5. ValueEquals(Field, JNull) \/ ValueContains(Field, JNull)
    BY <2>1, <2>3, NullIsNoText DEF Compare, GreaterThan, LessThan, ValueIn
  <2>6. CASE ValueEquals(Field, JNull)
    BY <2>4, <2>6, NullIsNoText, KindsDiffer, EqualsOfKind
  <2>7. CASE ValueContains(Field, JNull)
    <3>1. ~ValueContains(Own(x), JNull) /\ ~ValueContains(OwnMap(x), JNull)
      BY NullIsNoText, KindsDiffer DEF ValueContains
    <3>2. ~ValueContains(OwnList(x), JNull)
      BY NullIsNoText, KindsDiffer DEF ValueContains, ListContains, IsStr
    <3>3. ValueContains(Json(x), JNull) => Is("arr", x) /\ JNull \in ToSet(x.arr)
      BY NullIsNoText, KindsDiffer DEF ValueContains
    <3> QED
      BY <2>4, <2>7, <3>1, <3>2, <3>3, KindsDiffer
  <2> QED
    BY <2>5, <2>6, <2>7
<1> QED
  BY <1>1, OutcomeIsDecided, PTL

\* For every rule and request: the flat key is what the field reads.
THEOREM FlatKeyIsWhatIsRead == Spec => []ExtractedKeyWins
<1>1. Decided => ExtractedKeyWins
  <2> SUFFICES ASSUME Decided, Done, rule.operator = "Equals",
                      NEW space \in {"session", "graph"}, Beyond(<<space>>, rule.field),
                      rule.field \in DOMAIN request.context,
                      Is("ref", rule.value), rule.value.ref = <<"context">> \o rule.field
               PROVE  outcome
    BY DEF ExtractedKeyWins
  <2> DEFINE there == Json(request.context[rule.field])
  <2>1. rule.field \in Seq(Segments)
    BY RulesAssumption DEF Decided, Segments
  <2>2. Field = there
    BY <2>1, FlatKeyResolves DEF Field
  <2>3. Other = there
    BY <2>1, ContextKeyResolves DEF Other
  <2>4. outcome <=> there # Absent /\ ValueEquals(there, Native(there))
    BY <2>2, <2>3, ComparedByRef, OperatorsCompare DEF Decided, ByRef
  <2> QED
    BY <2>4, KindsDiffer, NativeOfKind, EqualsOfKind
<1> QED
  BY <1>1, OutcomeIsDecided, PTL

============================================================================

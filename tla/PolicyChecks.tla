---------------------------- MODULE PolicyChecks ----------------------------
(***************************************************************************)
(* What the tool demands of a policy file before it is used, and what it   *)
(* warns about (crates/lovebird-engine/src: validation.rs, linter.rs).     *)
(* Paths and rule values are those of RuleSemantics; a blank text or path  *)
(* is the empty one.  All definitions are constant operators.              *)
(***************************************************************************)
EXTENDS Integers, FiniteSets, SequencesExt

CONSTANTS
    Compiles(_),      \* Regex::new accepts this rule value as it is written
    Catastrophic(_),  \* it contains one of the nested quantifiers looked for
    SupportedMajor    \* of POLICY_LANGUAGE_VERSION

----------------------------------------------------------------------------
(* is_known_field_path *)

Known(path) ==
    \/ path \in {<<"action">>, <<"principal", "id">>, <<"principal", "roles">>,
                 <<"principal", "attributes">>, <<"resource", "type">>, <<"resource", "id">>,
                 <<"resource", "attributes">>, <<"context">>}
    \/ \E prefix \in {<<"principal", "attributes">>, <<"resource", "attributes">>,
                      <<"context">>, <<"session">>, <<"graph">>} : IsStrictPrefix(prefix, path)

----------------------------------------------------------------------------
(* validate_policies: every fault is collected *)

\* A placeholder, whole or inside a text, is a JSON string.
IsString(v) == \E kind \in {"str", "ref", "pieces"} : kind \in DOMAIN v

\* Mutant: a placeholder is taken for the array it may stand for.
IsArray_OrPlaceholder(v) == \E kind \in {"arr", "items", "ref"} : kind \in DOMAIN v

IsArray(v) == \E kind \in {"arr", "items"} : kind \in DOMAIN v

RuleFaults(rule) ==
    {fault \in {"empty field", "unknown field", "no pattern", "bad pattern", "no array"} :
        CASE fault = "empty field"   -> rule.field = <<>>
          [] fault = "unknown field" -> rule.field # <<>> /\ ~Known(rule.field)
          [] fault = "no pattern"    -> rule.operator = "Regex" /\ ~IsString(rule.value)
          [] fault = "bad pattern"   -> /\ rule.operator = "Regex" /\ IsString(rule.value)
                                        /\ ~Compiles(rule.value)
          [] fault = "no array"      -> rule.operator \in {"In", "NotIn"} /\ ~IsArray(rule.value)}

PolicyFaults(p) ==
    {<<fault>> : fault \in
        {f \in {"id", "description", "version"} :
            CASE f = "id"          -> p.id = <<>>
              [] f = "description" -> p.description = <<>>
              [] f = "version"     -> p.major # SupportedMajor}}
      \cup {<<"empty group", g>> : g \in {h \in DOMAIN p.match : p.match[h] = <<>>}}
      \cup UNION {UNION {{<<fault, g, k>> : fault \in RuleFaults(p.match[g][k])} :
                            k \in DOMAIN p.match[g]} : g \in DOMAIN p.match}

Faults(ps) ==
    {<<i, <<"duplicate id">>>> : i \in {j \in DOMAIN ps : \E h \in 1..(j - 1) : ps[h].id = ps[j].id}}
      \cup UNION {{<<i, fault>> : fault \in PolicyFaults(ps[i])} : i \in DOMAIN ps}

Valid(ps) == Faults(ps) = {}

----------------------------------------------------------------------------
(* lint_policies *)

\* Mutant: only the first rule of each group is looked at.
Conditions_FirstOnly(p) == {p.match[g][1] : g \in {h \in DOMAIN p.match : p.match[h] # <<>>}}

Conditions(p) == UNION {ToSet(p.match[g]) : g \in DOMAIN p.match}

\* rule_key: two rules have the same key when they are the same.
SharedConditions(ps) ==
    {rule \in UNION {Conditions(ps[i]) : i \in DOMAIN ps} :
        Cardinality({ps[i].id : i \in {j \in DOMAIN ps : rule \in Conditions(ps[j])}}) > 1}

\* The match up to the order of groups and of rules in a group, by which
\* identical blocks are found.
MatchFingerprint(p) == ToBag([g \in DOMAIN p.match |-> ToBag(p.match[g])])

BroadAllow(p) == p.effect = "allow" /\ p.actions = {} /\ p.priority = 0

SuspiciousRegexes(p) ==
    {rule \in Conditions(p) :
        rule.operator = "Regex" /\ IsString(rule.value) /\ Catastrophic(rule.value)}

\* The findings of severity Warning.  Identical blocks (unless they are empty),
\* and an allow with an empty match, are only suggested.
Warnings(ps) ==
    {<<"broad allow", ps[i].id>> : i \in {j \in DOMAIN ps : BroadAllow(ps[j])}}
      \cup {<<"shared condition", rule>> : rule \in SharedConditions(ps)}
      \cup UNION {{<<"suspicious regex", ps[i].id, rule>> : rule \in SuspiciousRegexes(ps[i])} :
                     i \in DOMAIN ps}
=============================================================================

---------------------------- MODULE CommandLine ----------------------------
(***************************************************************************)
(* The commands of the tool whose exit code gates a deployment             *)
(* (lovebird-cli/src/main.rs): policy validate, policy lint, policy test   *)
(* and audit verify.  Composes PolicyChecks and AuditLog with the decision *)
(* of PolicyMatch and RuleSemantics.  dry-run, diff and shadow-report are  *)
(* in PolicyRollout.                                                       *)
(***************************************************************************)
EXTENDS PolicyChecks, AuditLog

CONSTANTS
    Commands,        \* records name, files, strict, records
    Unreadable,      \* a file that is missing or does not parse
    Malformed,       \* a scenario or log line that does not deserialize
    BlankLine,
    Signed,          \* the <<content, key>> pairs ever signed (history)
    Requests,        \* the requests there are (for the properties only)
    Numbers, Recognises(_, _)   \* parameters of RuleSemantics

VARIABLES
    command,    \* what the tool was started with
    pc,         \* "loading", "reading", "running" or "done"
    opened,     \* policy files loaded so far
    policies,   \* all their policies
    position,   \* the next scenario or log line
    good, bad,  \* how the ones before it did
    exit        \* "none", "success" or "failure"

vars == <<command, pc, opened, policies, position, good, bad, exit>>

R == INSTANCE RuleSemantics
        WITH Requests <- {}, Rules <- {}, pc <- "", request <- "", rule <- "", outcome <- ""

MatchRule(q, r) == R!MatchRule(q, r)

P == INSTANCE PolicyMatch
        WITH Actions <- {}, Requests <- {}, Rules <- {}, Ids <- {}, Priorities <- {}, RuleHolds <- MatchRule

\* Evaluator::evaluate, as module Evaluator shows it to decide.
EffectFor(q, ps) ==
    IF P!Hits(q, ps, "deny") = {} /\ P!Hits(q, ps, "allow") # {} THEN "allow" ELSE "deny"

----------------------------------------------------------------------------
(* What the tool may be started with *)

IsList(s) == s \in Seq(ToSet(s))

\* test takes one file; a record is a scenario or a line.
ASSUME CommandsAssumption ==
    /\ Malformed # BlankLine
    /\ \A c \in Commands :
         /\ c.name \in {"validate", "lint", "test", "verify"}
         /\ IsList(c.files) /\ (c.name = "test" => Len(c.files) = 1)
         /\ c.records # Unreadable => IsList(c.records)

PolicyFiles == (UNION {ToSet(c.files) : c \in Commands}) \ {Unreadable}

Rules(ps) == UNION {Conditions(ps[i]) : i \in DOMAIN ps}

\* The request carries the attribute or the context key that the path names.
Carries(q, path) ==
    /\ R!Beyond(<<"principal", "attributes">>, path) => Tail(Tail(path)) \in DOMAIN q.pattrs
    /\ R!Beyond(<<"resource", "attributes">>, path) => Tail(Tail(path)) \in DOMAIN q.rattrs
    /\ R!Beyond(<<"context">>, path) => Tail(path) \in DOMAIN q.context
    /\ \A space \in {"session", "graph"} :
          R!Beyond(<<space>>, path) => <<space>> \o Tail(path) \in DOMAIN q.context

\* A pattern that is nothing but a placeholder, "{{path}}", does not compile;
\* some request carries the key that a rule asks for.
ASSUME FilesAssumption ==
    \A file \in PolicyFiles :
        /\ IsList(file)
        /\ \A p \in ToSet(file) : IsList(p.match) /\ \A group \in ToSet(p.match) : IsList(group)
        /\ \A rule \in Rules(file) :
             /\ DOMAIN rule.value \in R!Shapes
             /\ Compiles(rule.value) => ~R!Is("ref", rule.value)
             /\ \E q \in Requests : Carries(q, rule.field)

\* No signature is forged: one that a key made was made of something signed.
ASSUME SignaturesAssumption ==
    /\ Signed \subseteq Content \X Keys
    /\ \A c \in {d \in Commands : d.name = "verify" /\ d.records # Unreadable} :
         \A entry \in ToSet(c.records) \ {BlankLine, Malformed} :
            /\ entry.content \in Content
            /\ \A key \in Keys :
                 SignatureOf(key, CanonicalPayload(entry.content)) \in entry.signature =>
                    \E pair \in Signed :
                        /\ pair[2] = key
                        /\ CanonicalPayload(pair[1]) = CanonicalPayload(entry.content)

----------------------------------------------------------------------------

Init ==
    /\ command \in Commands
    /\ pc = IF command.name = "verify" THEN "reading" ELSE "loading"
    /\ opened = 0 /\ policies = <<>>
    /\ position = 1 /\ good = 0 /\ bad = 0
    /\ exit = "none"

Exit(code) ==
    /\ pc' = "done" /\ exit' = code
    /\ UNCHANGED <<command, opened, policies, position, good, bad>>

\* validate and lint take any number of files, but not none.
NoFiles == pc = "loading" /\ command.files = <<>> /\ Exit("failure")

ThisFile == command.files[opened + 1]

\* load_policies, of one file after the other into one list.
LoadFile ==
    /\ pc = "loading" /\ opened < Len(command.files) /\ ThisFile # Unreadable
    /\ opened' = opened + 1
    /\ policies' = policies \o ThisFile
    /\ UNCHANGED <<command, pc, position, good, bad, exit>>

CannotLoad ==
    /\ pc = "loading" /\ opened < Len(command.files) /\ ThisFile = Unreadable
    /\ Exit("failure")

Loaded == pc = "loading" /\ command.files # <<>> /\ opened = Len(command.files)

Reject == Loaded /\ ~Valid(policies) /\ Exit("failure")

Validate == Loaded /\ command.name = "validate" /\ Valid(policies) /\ Exit("success")

Lint ==
    /\ Loaded /\ command.name = "lint" /\ Valid(policies)
    /\ Exit(IF command.strict /\ Warnings(policies) # {} THEN "failure" ELSE "success")

StartTest ==
    /\ Loaded /\ command.name = "test" /\ Valid(policies)
    /\ pc' = "reading"
    /\ UNCHANGED <<command, opened, policies, position, good, bad, exit>>

\* The scenarios are one document, so that one bad one spoils it; the lines of
\* a log are parsed one by one.
Legible ==
    /\ command.records # Unreadable
    /\ command.name = "test" => Malformed \notin ToSet(command.records)

ReadRecords ==
    /\ pc = "reading" /\ Legible
    /\ pc' = "running"
    /\ UNCHANGED <<command, opened, policies, position, good, bad, exit>>

CannotRead == pc = "reading" /\ ~Legible /\ Exit("failure")

This == command.records[position]
Running(name) == pc = "running" /\ command.name = name /\ position <= Len(command.records)

\* Mutant: a success starts the count anew.
Judge_Forgets(ok) ==
    /\ good' = IF ok THEN good + 1 ELSE good
    /\ bad' = IF ok THEN 0 ELSE bad + 1
    /\ position' = position + 1
    /\ UNCHANGED <<command, pc, opened, policies, exit>>

Judge(ok) ==
    /\ good' = IF ok THEN good + 1 ELSE good
    /\ bad' = IF ok THEN bad ELSE bad + 1
    /\ position' = position + 1
    /\ UNCHANGED <<command, pc, opened, policies, exit>>

RunScenario ==
    /\ Running("test")
    /\ Judge(EffectFor(This.request, policies) = This.expected_effect)

SkipBlankLine ==
    /\ Running("verify") /\ This = BlankLine
    /\ position' = position + 1
    /\ UNCHANGED <<command, pc, opened, policies, good, bad, exit>>

\* The lines before it are forgotten.
BadLine == Running("verify") /\ This = Malformed /\ Exit("failure")

VerifyLine ==
    /\ Running("verify") /\ This \notin {BlankLine, Malformed}
    /\ Judge(Verified(This))

\* A log without entries fails, an empty list of scenarios does not.
Finish ==
    /\ pc = "running" /\ position > Len(command.records)
    /\ Exit(IF bad = 0 /\ (command.name = "verify" => good > 0) THEN "success" ELSE "failure")

Next ==
    \/ NoFiles \/ LoadFile \/ CannotLoad
    \/ Reject \/ Validate \/ Lint \/ StartTest
    \/ ReadRecords \/ CannotRead
    \/ RunScenario \/ SkipBlankLine \/ BadLine \/ VerifyLine \/ Finish

Spec == Init /\ [][Next]_vars

----------------------------------------------------------------------------

Succeeded(names) == exit = "success" /\ command.name \in names

\* Every policy of every file the tool was given.
AllPolicies == FlattenSeq(command.files)

\* After placeholders are replaced, whatever the request, the operator finds a
\* target of the type it can match.
TargetFits(rule) ==
    \A q \in Requests :
        LET target == R!Substitute(q, rule.value)
        IN  /\ rule.operator \in {"In", "NotIn"} => R!Is("arr", target)
            /\ rule.operator = "Regex" => R!Is("str", target)

\* Files that pass any command together can be deployed together: no id stands
\* for two policies, in one file or across them, no policy matches every request
\* by an empty group, every field is one that the resolver finds in some request,
\* and In, NotIn and Regex keep their array or text when placeholders are replaced.
PassedFilesAreSound ==
    Succeeded({"validate", "lint", "test"}) =>
        /\ \A i, j \in DOMAIN AllPolicies : AllPolicies[i].id = AllPolicies[j].id => i = j
        /\ \A i \in DOMAIN AllPolicies : <<>> \notin ToSet(AllPolicies[i].match)
        /\ \A rule \in Rules(AllPolicies) :
              TargetFits(rule) /\ \E q \in Requests : R!Present(q, rule.field)

\* A strict lint lets no two policies with conditions through that match the
\* same requests by the same rules, in whatever order the groups and the rules
\* stand: identical blocks are a mere suggestion, a shared condition is a warning.
\* Policies without conditions (an empty match) are not compared.
StrictLintLeavesNoTwins ==
    (Succeeded({"lint"}) /\ command.strict) =>
        \A i, j \in DOMAIN AllPolicies :
            (i # j /\ AllPolicies[i].match # <<>>) =>
                MatchFingerprint(AllPolicies[i]) # MatchFingerprint(AllPolicies[j])

Entries == ToSet(command.records) \ {BlankLine}

\* The exit code is the conjunction over the whole file: success exactly if the
\* file could be read to its end and every scenario was decided as expected, or
\* every entry of at least one verified.
ExitIsTheConjunction ==
    pc = "done" =>
        /\ command.name = "test" =>
              ( exit = "success" <=>
                  /\ Unreadable \notin ToSet(command.files) \cup {command.records}
                  /\ Valid(AllPolicies)
                  /\ \A s \in ToSet(command.records) :
                        s # Malformed /\ s.expected_effect = EffectFor(s.request, AllPolicies) )
        /\ command.name = "verify" =>
              ( exit = "success" <=>
                  /\ command.records # Unreadable /\ Entries # {}
                  /\ \A entry \in Entries : entry # Malformed /\ Verified(entry) )

\* No text of this content holds a separator of its place, and no item of a list
\* is empty: the payload can be read back.
Readable(c) ==
    /\ \A text \in {c.principal_id, c.action, c.resource_type, c.resource_id} \cup c.matched_policy :
          "|" \notin ToSet(text)
    /\ <<>> \notin c.matched_policy
    /\ \A e \in c.explanation :
          /\ <<>> \notin e.matched_policy \cup ToSet(e.why)
          /\ \A text \in e.matched_policy \cup ToSet(e.why) : {"|", ";"} \cap ToSet(text) = {}
          /\ \A k \in DOMAIN e.almost :
                /\ {"|", ";", ":"} \cap ToSet(e.almost[k].id) = {}
                /\ {"|", ";"} \cap ToSet(e.almost[k].missing) = {}

\* What the payload says of a content: its fields one by one, of each list the
\* text that it is joined to; no matched policy and one without a name are alike.
Said(c) ==
    <<c.decision_effect, OrEmpty(c.matched_policy), c.principal_id, c.action,
      c.resource_type, c.resource_id,
      {<<OrEmpty(e.matched_policy), Join(e.why, ";"), Join(AlmostText(e.almost), ";")>> :
          e \in c.explanation}>>

\* A log that passes says what was signed, although the signature is over a
\* payload in which the fields are merely strung together.  Whatever has become of
\* an entry, the key it names signed something that agrees with it field by field,
\* explanation included, up to where its lists are cut; and if no field of the
\* entry holds a separator, the key signed exactly this.  (It does not hold of a key
\* that signed fields with separators in them.)
VerifiedLinesAreAsSigned ==
    Succeeded({"verify"}) =>
        \A entry \in Entries : \E key \in entry.public_key :
            (\A pair \in Signed : pair[2] = key => Readable(pair[1])) =>
                \E pair \in Signed :
                    /\ pair[2] = key /\ Said(pair[1]) = Said(entry.content)
                    /\ Readable(entry.content) => pair[1] = entry.content
=============================================================================

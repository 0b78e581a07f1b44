---------------------------- MODULE PolicyRollout ----------------------------
(***************************************************************************)
(* Judging a policy change before it is made: the structural diff of two   *)
(* policy files, the replay of recorded traffic, and the shadow comparison *)
(* (crates/lovebird-engine/src/impact.rs), as the commands dry-run, diff   *)
(* --impact and shadow of lovebird-cli run them.  Decisions are those of   *)
(* PolicyMatch, which module Evaluator shows the evaluator to make.        *)
(***************************************************************************)
EXTENDS PolicyMatch, FiniteSets

CONSTANTS
    PolicyLists,   \* the files considered
    Principals,    \* who a record may be about
    TrafficLists,  \* the recorded traffic considered
    Thresholds,    \* values of --max-newly-denied
    NoThreshold    \* the option is absent

\* principal is the hint, or the requester.
TrafficRecord == [request : Requests, prior_effect : Effects, principal : Principals]

ASSUME RolloutAssumption ==
    /\ PolicyLists \subseteq Seq(Policy) /\ TrafficLists \subseteq Seq(TrafficRecord)
    /\ Thresholds \subseteq Nat /\ NoThreshold \notin Nat

VARIABLES
    pc,           \* "start", "baseline", "replay", "failed" or "done"
    command,      \* "dry_run", "diff" or "shadow"
    old, new,     \* the two files; dry_run reads new only
    threshold,
    traffic,      \* the records, with the prior effect they are compared to
    position,     \* the next record
    entries,      \* the diff, as <<id, change>> pairs
    report,       \* DryRunReport
    agreement     \* shadow's counters

vars == <<pc, command, old, new, threshold, traffic, position, entries, report, agreement>>

\* The effect of Evaluator::evaluate: deny overrides, and deny by default.
EffectFor(q, ps) ==
    IF Hits(q, ps, "deny") = {} /\ Hits(q, ps, "allow") # {} THEN "allow" ELSE "deny"

\* validate_policies, of what this model keeps of a policy.
UniqueIds(ps) == \A i, j \in DOMAIN ps : ps[i].id = ps[j].id => i = j
Valid(ps) ==
    /\ UniqueIds(ps)
    /\ \A i \in DOMAIN ps : \A g \in DOMAIN ps[i].match : ps[i].match[g] # <<>>

----------------------------------------------------------------------------
(* diff_policies *)

IdsOf(ps) == {ps[i].id : i \in DOMAIN ps}

\* The policy a map keyed by id keeps: the last one with that id.
Keyed(ps, id) ==
    ps[CHOOSE i \in DOMAIN ps :
         ps[i].id = id /\ \A j \in DOMAIN ps : ps[j].id = id => j <= i]

\* Mutant: a changed scope is not reported.
Changes_NoActions(a, b) ==
    {c \in {"priority", "effect", "match"} :
        CASE c = "priority" -> a.priority # b.priority
          [] c = "effect"   -> a.effect # b.effect
          [] c = "match"    -> a.match # b.match}

Changes(a, b) ==
    {c \in {"priority", "effect", "actions", "match"} :
        CASE c = "priority" -> a.priority # b.priority
          [] c = "effect"   -> a.effect # b.effect
          [] c = "actions"  -> a.actions # b.actions
          [] c = "match"    -> a.match # b.match}

DiffPolicies(a, b) ==
    {<<id, "added">> : id \in IdsOf(b) \ IdsOf(a)}
      \cup {<<id, "removed">> : id \in IdsOf(a) \ IdsOf(b)}
      \cup UNION {{<<id, c>> : c \in Changes(Keyed(a, id), Keyed(b, id))} :
                     id \in IdsOf(a) \cap IdsOf(b)}

----------------------------------------------------------------------------

EmptyReport == [total |-> 0, unchanged |-> 0, newly_denied |-> 0,
                newly_allowed |-> 0, affected_principals |-> {}]

Init ==
    /\ pc = "start"
    /\ command \in {"dry_run", "diff", "shadow"}
    /\ old \in PolicyLists /\ new \in PolicyLists
    /\ command = "dry_run" => old = new
    /\ threshold \in Thresholds \cup {NoThreshold}
    /\ command # "dry_run" => threshold = NoThreshold
    /\ traffic \in TrafficLists
    /\ position = 1
    /\ entries = {} /\ report = EmptyReport
    /\ agreement = [agree |-> 0, disagree |-> 0]

\* dry-run alone validates what it loads.
Reject ==
    /\ pc = "start" /\ command = "dry_run" /\ ~Valid(new)
    /\ pc' = "failed"
    /\ UNCHANGED <<command, old, new, threshold, traffic, position, entries, report, agreement>>

StartReplay ==
    /\ pc = "start" /\ command = "dry_run" /\ Valid(new)
    /\ pc' = "replay"
    /\ report' = [report EXCEPT !.total = Len(traffic)]
    /\ UNCHANGED <<command, old, new, threshold, traffic, position, entries, agreement>>

StartShadow ==
    /\ pc = "start" /\ command = "shadow"
    /\ pc' = "replay"
    /\ UNCHANGED <<command, old, new, threshold, traffic, position, entries, report, agreement>>

StartDiff ==
    /\ pc = "start" /\ command = "diff"
    /\ entries' = DiffPolicies(old, new)
    /\ pc' = "baseline"
    /\ UNCHANGED <<command, old, new, threshold, traffic, position, report, agreement>>

\* diff --impact replaces what the traffic recorded by what old decides.
Baseline ==
    /\ pc = "baseline" /\ position \in DOMAIN traffic
    /\ traffic' = [traffic EXCEPT ![position].prior_effect =
                      EffectFor(traffic[position].request, old)]
    /\ position' = position + 1
    /\ UNCHANGED <<pc, command, old, new, threshold, entries, report, agreement>>

BaselineDone ==
    /\ pc = "baseline" /\ position \notin DOMAIN traffic
    /\ pc' = "replay" /\ position' = 1
    /\ report' = [report EXCEPT !.total = Len(traffic)]
    /\ UNCHANGED <<command, old, new, threshold, traffic, entries, agreement>>

This == traffic[position]

\* Mutant: the counters of the two directions are swapped.
Replayed_Swapped(r, rec, effect) ==
    IF rec.prior_effect = effect THEN [r EXCEPT !.unchanged = @ + 1]
    ELSE [r EXCEPT !.newly_denied = IF effect = "allow" THEN @ + 1 ELSE @,
                   !.newly_allowed = IF effect = "deny" THEN @ + 1 ELSE @,
                   !.affected_principals = @ \cup {rec.principal}]

\* Mutant: only newly denied principals are listed.
Replayed_DeniedOnly(r, rec, effect) ==
    IF rec.prior_effect = effect THEN [r EXCEPT !.unchanged = @ + 1]
    ELSE IF effect = "deny"
      THEN [r EXCEPT !.newly_denied = @ + 1, !.affected_principals = @ \cup {rec.principal}]
      ELSE [r EXCEPT !.newly_allowed = @ + 1]

\* One record of dry_run's loop.
Replayed(r, rec, effect) ==
    IF rec.prior_effect = effect THEN [r EXCEPT !.unchanged = @ + 1]
    ELSE IF effect = "deny"
      THEN [r EXCEPT !.newly_denied = @ + 1, !.affected_principals = @ \cup {rec.principal}]
      ELSE [r EXCEPT !.newly_allowed = @ + 1, !.affected_principals = @ \cup {rec.principal}]

Replay ==
    /\ pc = "replay" /\ command \in {"dry_run", "diff"} /\ position \in DOMAIN traffic
    /\ report' = Replayed(report, This, EffectFor(This.request, new))
    /\ position' = position + 1
    /\ UNCHANGED <<pc, command, old, new, threshold, traffic, entries, agreement>>

\* evaluate_shadow: old is in production, new is the shadow.
Compare ==
    /\ pc = "replay" /\ command = "shadow" /\ position \in DOMAIN traffic
    /\ agreement' = IF EffectFor(This.request, old) = EffectFor(This.request, new)
                      THEN [agreement EXCEPT !.agree = @ + 1]
                      ELSE [agreement EXCEPT !.disagree = @ + 1]
    /\ position' = position + 1
    /\ UNCHANGED <<pc, command, old, new, threshold, traffic, entries, report>>

\* dry-run fails the build if it denies more than it may.
Finish ==
    /\ pc = "replay" /\ position \notin DOMAIN traffic
    /\ pc' = IF threshold # NoThreshold /\ report.newly_denied > threshold
               THEN "failed" ELSE "done"
    /\ UNCHANGED <<command, old, new, threshold, traffic, position, entries, report, agreement>>

Next == Reject \/ StartReplay \/ StartShadow \/ StartDiff
          \/ Baseline \/ BaselineDone \/ Replay \/ Compare \/ Finish

Spec == Init /\ [][Next]_vars

----------------------------------------------------------------------------

\* The type invariant of the commands.
TypeOK ==
    /\ pc \in {"start", "baseline", "replay", "failed", "done"}
    /\ command \in {"dry_run", "diff", "shadow"}
    /\ old \in PolicyLists /\ new \in PolicyLists
    /\ threshold \in Thresholds \cup {NoThreshold}
    /\ traffic \in Seq(TrafficRecord)
    /\ position \in 1..(Len(traffic) + 1)
    /\ entries \subseteq Ids \X {"added", "removed", "priority", "effect", "actions", "match"}
    /\ report \in [total : Nat, unchanged : Nat, newly_denied : Nat, newly_allowed : Nat,
                   affected_principals : SUBSET Principals]
    /\ agreement \in [agree : Nat, disagree : Nat]

Changed == report.newly_denied + report.newly_allowed

\* Two files without a structural difference decide every recorded request
\* alike, however their policies are ordered, as long as no file repeats an id:
\* neither the impact of one on the other nor the shadow comparison counts one.
NoDifferenceNoImpact ==
    ( /\ pc = "done" /\ command \in {"diff", "shadow"}
      /\ DiffPolicies(old, new) = {} /\ UniqueIds(old) /\ UniqueIds(new) )
        => Changed = 0 /\ agreement.disagree = 0

\* A change that only adds denies never newly allows a request, and one that
\* only adds allows never newly denies one: deny overrides whatever the
\* priorities of what was there.
AddedEffectOnlyTightens ==
    (pc = "done" /\ command = "diff" /\ UniqueIds(old) /\ UniqueIds(new)) =>
        /\ (\A e \in entries : e[2] = "added" /\ Keyed(new, e[1]).effect = "deny")
              => report.newly_allowed = 0
        /\ (\A e \in entries : e[2] = "added" /\ Keyed(new, e[1]).effect = "allow")
              => report.newly_denied = 0

\* Every record is counted in one of the three ways, and the principals listed
\* as affected are those of the records whose decision the new file changes, in
\* either direction.
AffectedAreThoseChanged ==
    (pc = "done" /\ command \in {"dry_run", "diff"}) =>
        /\ report.total = report.unchanged + Changed
        /\ report.affected_principals =
            {traffic[i].principal : i \in {j \in DOMAIN traffic :
                EffectFor(traffic[j].request, new) # traffic[j].prior_effect}}
=============================================================================

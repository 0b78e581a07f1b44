--------------------------- MODULE GuardedDecision ---------------------------
(***************************************************************************)
(* A decision that rests on session and graph facts, end to end: hosts     *)
(* recompute a principal's state in the shared store, put it and the graph *)
(* facts into a caller's request (crates/lovebird-session and              *)
(* crates/lovebird-graph, context_extractor.rs) and evaluate it, while     *)
(* other threads record and clear.  Composes SessionStore, RuleSemantics   *)
(* and PolicyMatch.                                                        *)
(*                                                                         *)
(* The host is not part of the repository: it calls the crates in the      *)
(* order their tests do.                                                   *)
(***************************************************************************)
EXTENDS SessionStore

CONSTANTS
    Hosts,               \* the threads that decide; the others only use the store
    Callers,             \* the contexts that callers send along
    Policies,            \* the policy list
    GraphFacts,          \* principal -> what AssetGraph!GraphContext says of it
    Numbers, Recognises(_, _)   \* parameters of RuleSemantics

GraphFields == {"blast_radius_score", "crown_jewel_reachable", "resource_sensitivity"}

ASSUME HostsAssumption ==
    /\ Hosts \subseteq Threads
    /\ \A p \in Principals : DOMAIN GraphFacts[p] = GraphFields

VARIABLES
    held,     \* per host: what its last recompute returned, not yet used
    answer    \* the decision the last step made, with what it was made from

gdVars == <<vars, held, answer>>

R == INSTANCE RuleSemantics
        WITH Requests <- {}, Rules <- {}, pc <- "", request <- "", rule <- "", outcome <- ""

MatchRule(q, r) == R!MatchRule(q, r)

P == INSTANCE PolicyMatch
        WITH Actions <- {}, Requests <- {}, Rules <- {}, Ids <- {}, Priorities <- {},
             RuleHolds <- MatchRule

\* Evaluator::evaluate, as module Evaluator shows it to decide.
EffectFor(q) ==
    IF P!Hits(q, Policies, "deny") = {} /\ P!Hits(q, Policies, "allow") # {}
      THEN "allow" ELSE "deny"

----------------------------------------------------------------------------
(* The two extractors *)

\* Mutant: a score of hundredths is written as an integer, like the counts.
SessionContext_IntScore(state) ==
    [key \in {<<"session", field>> : field \in DOMAIN DefaultState} |->
        IF key[2] = "impossible_travel_detected"
          THEN R!JBool(state[key[2]]) ELSE R!JInt(state[key[2]])]

\* SessionContextExtractor::extract: the score is an f64, the counts integers.
SessionContext(state) ==
    [key \in {<<"session", field>> : field \in DOMAIN DefaultState} |->
        LET value == state[key[2]]
        IN  CASE key[2] = "anomaly_score"              -> R!JFloat(value)
              [] key[2] = "impossible_travel_detected" -> R!JBool(value)
              [] OTHER                                 -> R!JInt(value)]

\* GraphContextExtractor::extract.
GraphContext(facts) ==
    [key \in {<<"graph", field>> : field \in DOMAIN facts} |->
        LET value == facts[key[2]]
        IN  CASE key[2] = "blast_radius_score"    -> R!JFloat(value)
              [] key[2] = "crown_jewel_reachable" -> R!JBool(value)
              [] key[2] = "resource_sensitivity"  -> R!JInt(value)]

Keyed(f, g) == [k \in DOMAIN f \cup DOMAIN g |-> IF k \in DOMAIN f THEN f[k] ELSE g[k]]

\* Mutant: a key that is there already is kept, as entry().or_insert() would.
EnrichRequest_KeepsCallers(q, facts) == [q EXCEPT !.context = Keyed(@, facts)]

\* enrich_request: an extracted key overwrites the caller's.
EnrichRequest(q, facts) == [q EXCEPT !.context = Keyed(facts, @)]

Enriched(q, state) ==
    EnrichRequest(EnrichRequest(q, SessionContext(state)), GraphContext(GraphFacts[q.id[1]]))

\* What an application asks for p; only the context is the caller's to fill.
RequestOf(p, context) ==
    [action |-> <<"read">>, id |-> <<p>>, roles |-> <<>>, rtype |-> <<"doc">>, rid |-> <<"doc">>,
     pattrs |-> <<>>, rattrs |-> <<>>, context |-> context]

----------------------------------------------------------------------------

NoAnswer == [made |-> FALSE]

GDInit ==
    /\ Init
    /\ held = [t \in Hosts |-> Nothing]
    /\ answer = NoAnswer

\* Any call of the store by any thread but get, which changes nothing.  A host
\* keeps what recompute returns to it; log is what the principal's history then
\* was (for the properties only).
StoreStep ==
    /\ \/ Tick /\ UNCHANGED held
       \/ \E t \in Threads :
            \/ /\ BeginRecord(t) \/ Record(t) \/ Clear(t)
                 \/ BeginRecompute(t) \/ EnsurePrincipal(t)
               /\ UNCHANGED held
            \/ /\ RescorePresent(t) \/ RescoreAbsent(t)
               /\ held' = [h \in Hosts |->
                     IF h # t THEN held[h]
                     ELSE Some([principal |-> call[t].principal,
                                state     |-> result'.value.state,
                                now       |-> call[t].now,
                                log       |-> log[call[t].principal]])]
    /\ answer' = NoAnswer

\* A host puts the state it holds into a caller's request and evaluates it.
Decide(t) ==
    /\ pc[t] = "idle" /\ held[t].some
    /\ \E context \in Callers :
         LET basis == held[t].state
             q     == Enriched(RequestOf(basis.principal, context), basis.state)
         IN  answer' = [made |-> TRUE, basis |-> basis, sent |-> context,
                        request |-> q, effect |-> EffectFor(q)]
    /\ held' = [held EXCEPT ![t] = Nothing]
    /\ UNCHANGED vars

GDNext == StoreStep \/ \E t \in Hosts : Decide(t)

GDSpec == GDInit /\ [][GDNext]_gdVars

----------------------------------------------------------------------------

\* What a recompute returned to a host, and what it was computed from.
Basis == [principal : Principals, state : SessionState, now : Int, log : Seq(Event)]

\* The type invariant of the host's part.
GDTypeOK ==
    /\ TypeOK
    /\ held \in [Hosts -> {Nothing} \cup [some : {TRUE}, state : Basis]]
    /\ answer.made => answer.basis \in Basis /\ answer.effect \in {"allow", "deny"}

\* A deny policy for every action with this one rule.
DeniesOn(rule) ==
    \E i \in DOMAIN Policies :
        Policies[i].effect = "deny" /\ Policies[i].actions = {}
          /\ Policies[i].match = << <<rule>> >>

AnomalyAbove(n) ==
    [field |-> <<"session", "anomaly_score">>, operator |-> "GreaterThan", value |-> R!JFloat(n)]

\* With a deny on any anomaly (a threshold below the smallest weight), a burst of
\* requests or failed authentications in the last minute of the log is denied,
\* whatever the other threads did before the recompute returned, whatever was
\* evicted, whatever the caller sent and whatever else the file allows.
BurstIsDenied ==
    ( /\ answer.made /\ CapOutnumbersThresholds
      /\ \E n \in 0..24 : DeniesOn(AnomalyAbove(n))
      /\ InOrder(answer.basis.log) /\ MinuteSignal(answer.basis.log, answer.basis.now) )
        => answer.effect = "deny"

Computed == {"session", "graph"}

\* The fields validation lists by name under session and graph.
Extracted ==
    {<<"session", field>> : field \in DOMAIN DefaultState}
      \cup {<<"graph", field>> : field \in GraphFields}

\* The file names only extracted keys under session and graph, and does not
\* look at the context by another path.
UsesExtractedKeysOnly ==
    \A i \in DOMAIN Policies : \A g \in DOMAIN Policies[i].match :
        \A k \in DOMAIN Policies[i].match[g] :
            LET rule == Policies[i].match[g][k]
            IN  /\ Head(rule.field) \in Computed => rule.field \in Extracted
                /\ Head(rule.field) # "context"
                /\ \A kind \in {"ref", "pieces", "items"} : ~R!Is(kind, rule.value)

\* Such a file decides the same whatever the caller put into the context, flat
\* keys that look extracted and nested objects included: by the stored state.
CallerNeverDecides ==
    (answer.made /\ UsesExtractedKeysOnly) =>
        answer.effect =
            EffectFor(Enriched(RequestOf(answer.basis.principal, <<>>), answer.basis.state))

Holds(op, field, value) ==
    R!MatchRule(answer.request, [field |-> <<"session", field>>, operator |-> op, value |-> value])

\* A guard reads the number that was stored: an ordering whichever way its
\* threshold is written, an equality on a count when written as an integer, and
\* no equality between the score, a float, and an integer, at 0 and 1 either.
GuardsReadTheState ==
    answer.made =>
        \A field \in DOMAIN DefaultState \ {"impossible_travel_detected"}, n \in 0..3 \cup {100} :
            LET stored == answer.basis.state[field]
            IN  /\ \A target \in {R!JInt(n), R!JFloat(n)} :
                      /\ Holds("GreaterThan", field, target) <=> stored > n
                      /\ Holds("LessThan", field, target) <=> stored < n
                /\ Holds("Equals", field, R!JInt(n))
                      <=> stored = n /\ field # "anomaly_score"
=============================================================================

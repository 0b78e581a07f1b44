# Lovebird in TLA+

Lovebird decides authorization requests against a file of policies, on what the
request says and on two kinds of computed context: how the principal has behaved
lately (session) and what it could reach (asset graph). This directory holds TLA+
modules of that code, TLC runs of small instances of them, and TLAPS proofs.
Paths below are relative to the repository.

## 1. Inventory

| Component | Code | State | Operations | Used by |
|---|---|---|---|---|
| Policy evaluator | `lovebird-engine/evaluator.rs` | none between calls; loop state inside one | `evaluate` | everything that decides |
| Rules: resolver, operators | `resolver.rs`, `operators.rs` | none | `resolve_field`, `substitute_placeholders`, `apply_*` | evaluator |
| Session store | `lovebird-session/store.rs` | mutex over map principal -> (events, state) | `record`, `get`, `clear`, `ensure_principal`, `with_history_mut` | host application threads, analyzer |
| Behavior analyzer | `analyzer.rs` | configuration | `recompute` (two critical sections of the store), `score` | host application |
| Context extractors | `session/`, `graph/context_extractor.rs` | none | put `session.*`, `graph.*` into a request's context | host application, before `evaluate` |
| Asset graph | `lovebird-graph/graph.rs`, `builder.rs` | nodes, adjacency lists | `build_graph`, `add_node`, `add_edge`, `reachable`, `shortest_path` | blast radius, attack paths, CLI |
| Blast radius | `blast_radius.rs` | none | `compute_blast_radius` | graph extractor, CLI |
| Attack paths | `attack_paths.rs` | none | `find_attack_paths` | CLI |
| Rollout | `impact.rs`, `lovebird-cli/main.rs` | the counters of one command | `diff_policies`, `dry_run`, `evaluate_shadow` | CLI |
| Validation, linter | `validation.rs`, `linter.rs` | none | `validate_policies`, `lint_policies` | CLI, server start-up |
| Command line | `lovebird-cli/main.rs` | the counters of one command | `policy validate`, `lint`, `test`, `audit verify` | deployment pipelines |
| Decision signer | `signer.rs` | a key | `sign`, `verify_entry` | CLI audit |
| Sidecar server | `lovebird-server` | an immutable policy list, the requests it took up | load, bind, `evaluate`, `evaluate_batch`, `policies`, `health`, shutdown | python client |
| Python client | `clients/python` | none | HTTP calls | applications |
| ct, honeypot crates | 4 lines each | none | none | nobody |

How they meet: the host application records session events and calls `recompute`;
an extractor reads the stored state (or the graph) and writes flat keys such as
`session.anomaly_score` into the request's context; the evaluator resolves these
keys, and those the caller sent, in the rules of the policies. The rollout commands
run the evaluator twice, over two files. The store is the only state that threads
share; everything else is called with its own arguments.

What is hard here, and what would make each part correct (`PROJECT.json` lists the
places under "hazards"):

- **Store and analyzer**: `recompute` takes the lock twice; other threads record,
  clear or recompute in between. Events are dropped at a cap, and a score that is not
  recomputed is stale. Correct if a recompute is as good as atomic, a state is never
  that of a cleared principal, and the cap does not hide an attack.
- **Evaluator**: ties, empty matches, empty groups, near misses under a cap, one
  result assembled from four accumulators. Correct if it decides as documented and the
  trace and the explanation support the decision.
- **Rules**: values change type on their way (native, JSON, text, number), and a
  missing field must fail a negative rule as well: correct if leaving data out of a
  request never makes a rule match.
- **Graph**: cycles, self-loops, parallel edges, malformed documents, caps.
- **Rollout**: three ways to compare two files must agree.
- **Guarded decision**: between a recompute and the decision that rests on it other
  threads go on; the caller fills the same context that the extractors write to.
  Correct if a burst is denied whatever happens around it, and the caller cannot say
  otherwise.
- **Sidecar and client**: several requests at once, shutdown and crash with requests
  open, a policy file edited under a running process, timeouts, clients that stall.
  Correct if an answer is always the whole result of one valid list, and nobody waits
  for ever on anything but a client that stalls.
- **Command line**: many files and records, one exit code. Correct if zero means what a
  pipeline takes it for.

## 2. Modules

| Module | Models | How it corresponds |
|---|---|---|
| `PolicyMatch` | `match_policy`, the scope filter, the sort order | constant operators; a rule's outcome is the parameter `RuleHolds` |
| `DecisionSpec` | the contract of `evaluate` (docs/SYSTEM.md, section 5) | one atomic step |
| `Evaluator` | `evaluate` and `finish` | `FilterAndSort`, then one `VisitHit`/`VisitMiss` per policy in scope, then one of three `Finish...`; variables are the function's locals |
| `RuleSemantics` | `resolve_field`, placeholders, all operators, `match_rule` | one `EvaluateRule` step per request and rule |
| `SessionScore` | `BehaviorAnalyzer::score` | constant operators |
| `SessionStore` | the store, the analyzer and the threads that call them | one action per critical section |
| `AssetGraph` | `build_graph`, `add_node`, `add_edge`, blast radius, graph context | one action per node or edge taken, or refused |
| `GraphSearch` | `reachable` and `shortest_path` | one action per queue pop and per edge scanned |
| `AttackPaths` | `find_attack_paths` | one action per stack pop, then `Rank` |
| `GraphCommand` | `graph attack-paths` | `LoadFile`: a step of `AssetGraph`; `FindAttackPaths`: what was loaded becomes the graph of `AttackPaths`; `Search`: a step of that |
| `PolicyRollout` | `impact.rs` and the commands dry-run, diff --impact, shadow | one action per record |
| `GuardedDecision` | the two extractors, `enrich_request`, and a host that decides on a stored state | `StoreStep`: any call of `SessionStore` by any thread; `Decide`: a host enriches a caller's request with the state its last recompute returned, and evaluates it |
| `Sidecar` | the server process, its handlers, and `client.py` | process: `Load`, `Bind`, `Interrupt`, `Stop`, `Crash`; handlers: `Accept` (the connection; its request is still awaited), `Abandon`, `Refuse`, `DecideNext` (one request of a batch), `Respond`; client: `Send`, `Arrive` (the request is complete), `Refused`, `Receive`, `Disconnected`, `Timeout`; and `Edit` of the policy file |
| `PolicyChecks` | `validate_policies`, `lint_policies` | constant operators: the sets of faults and of warnings of a list; suggestions have no effect and are left out |
| `AuditLog` | `signer.rs` | constant operators: the payload, `Sign`, `Verified` |
| `CommandLine` | `policy validate`, `lint`, `test`, `audit verify` | one action per file loaded, per scenario or log line, and one per way to exit |
| `*Proofs` | nothing: the theorems of the module they are named after; `GuardedDecisionProofs` has those of `SessionStore` too, `GraphProofs` those of `AssetGraph` and `AttackPaths`, `CommandProofs` those of `CommandLine` | |

How they compose:

- `Evaluator` implements `DecisionSpec` (property `RefinesContract`): the abstract
  decision is the detailed one without trace and explanation, and every step but the
  last is a stutter.
- `PolicyMatch` is shared by the evaluator, the rollout, the guarded decision and the
  command line, so that they all decide with what the evaluator is shown to decide
  with (`EffectFor`). In `GuardedDecision` and `CommandLine` its parameter `RuleHolds`
  is `RuleSemantics!MatchRule`; elsewhere it is left open.
- `GuardedDecision` extends `SessionStore`: its steps are the store's, and hosts
  remember what a recompute returned. The graph facts are what
  `AssetGraph!GraphContext` computes; since the graph does not change they are a
  constant.
- `GraphCommand` extends `AssetGraph` and `AttackPaths`: the graph that is searched is
  the one that was loaded, and none if the document was refused. The theorem
  `LoadedGraphsAreSearchable` carries what is proved of the searches over to every graph
  that a document can yield.
- `CommandLine` extends `PolicyChecks` and `AuditLog`.
- `AssetGraph` says what `reachable` returns (`ReachableFrom`); `GraphSearch` shows the
  queue to return it.

`MC*` modules only instantiate constants; definitions whose comment begins with
"Mutant:" are wrong variants, kept to see each property fail.

### Abstractions

- A string is a sequence of words, and a path the sequence of its dotted segments.
  Substrings are therefore runs of whole words, and the text of an array or an object
  embedded in a string is opaque. Blank is empty.
- JSON numbers are integers written with or without `.0`, which equality
  distinguishes, as serde_json's does. Infinities and NaN are left out. A placeholder
  value nests one array deep; the code recurses further into arrays and objects.
- The regex library is the parameter `Recognises`, its compiler the parameter
  `Compiles`. In the run a pattern that is nothing but a placeholder does not compile,
  as `{{` does not, while one inside a character class does.
- Anomaly scores are in hundredths, blast-radius scores in 1/100000, so that sums and
  comparisons are those of the code but for floating-point rounding.
- A distance is measured in what the maximum speed covers per tick, which leaves the
  speed test of `detect_impossible_travel` and hides the haversine formula.
- The 60 seconds of the velocity window, the thresholds, the caps 16 and 2048, the 8
  near misses, 40 nodes of reach and 12 hops are constants, smaller in the runs and
  arbitrary in the proofs.
- Priorities are integers; only their order matters. Ids the code compares are model
  values.
- Lock poisoning is not modelled: nothing that runs under the lock panics. The
  saturating counters of `score` do not saturate.
- Clocks: a caller reads the time before it calls. The store may therefore see events
  out of timestamp order, which the model has; the clock itself does not go back.
- The host is not part of the repository. `GuardedDecision` has it call the crates in
  the order their tests do, and use the state of the principal it asks about.
- A body is the sequence of its requests, so that the body limit counts requests; what
  does not deserialize is one value, `Junk`. `Verdict` stands for the evaluator, which
  is a function of the list and the request. An oversized body is answered without
  being read: the client may get the status or lose the connection, and `Disconnected`
  has both. A retry is a second call with the same body; the client has no retry of
  its own. What is JSON but no request stands for all that is refused as malformed;
  what is no JSON gets a status of its own (400) and is left out. A call that was cut off
  leaves nothing behind on the server's side (`Gone`).
- SHA-256 and Ed25519 are ideal: a digest is its preimage, a signature its key and its
  payload. The payload itself is modelled with its separators, since the fields it
  strings together may contain them.

## 3. Runs

| Run | Instance | Shows |
|---|---|---|
| `evaluator` | files of up to 3 of 7 kinds of policy, in every order, 8 requests, near-miss cap 2, with and without explanation | the contract; a complete trace; an explanation that supports the decision; near misses up to the cap |
| `rule_semantics` | 9 fields, 13 operators, 14 rule values, all requests over 9 kinds of attribute | leaving data out makes no rule match; equality, converse orderings, unresolved placeholders, precedence of extracted keys |
| `session_store` | 2 threads, 1 principal, cap 2, logs of 3 events, 3 instants, located requests, failed logins and MFA prompts | atomic recompute, states of this incarnation only, retention at the cap, bursts and travel not silenced |
| `graph_command` | every document of up to 3 nodes and 3 edges over 3 ids; those of every graph of 4 nodes with up to 2 edges from two of them, a fan, a chain, a tie; 4 ids as ends, limits 0 to 2, hop cap 3 | whole document or refusal; no dangling edge; monotone blast radius; real paths, ranked; repeats only along parallel edges; best ones unless cut |
| `graph_search` | every graph of 3 nodes with up to 2 edges each, two of 5 nodes, ends that are not in the graph | exact reachability, shortest paths, termination |
| `rollout` | every pair of files of up to 2 of 7 policies, up to 2 of 4 records | diff, replay and shadow agree |
| `guarded_decision` | 1 principal, a host and another thread, cap 2, logs of 3 events, 3 contexts of a caller (none, forged flat keys, forged nested objects), 3 policies | a burst is denied; the caller never decides; a guard reads the number that was stored |
| `sidecar` | 2 calls, up to 2 processes, 3 contents of the policy file (one invalid), 5 messages (single, batch, junk, oversized, list of policies), clients that stall | answers from one valid list; every call ends; shutdown completes |
| `command_line` | every pair of 22 files (unreadable and empty ones, and every kind of fault), lists of up to 2 scenarios or log lines (altered, malformed, blank) | what a zero exit code promises, for each command |
| `evaluator_stop`, `rule_in`, `session_default` | as above | the findings below: each ends in a counterexample |

Why the bounds are enough. Three policies are two candidates and one that interferes,
in either order, with equal and different priorities, and a near-miss cap of 2 is
exceeded by three near misses. Two threads suffice to put any call between the two
critical sections of `recompute`, and between a recompute and the decision that rests
on it; one principal, because principals share nothing but the lock; logs one longer
than the cap, because each event evicts at most one. `guarded_decision` does not move
its clock: time is what `session_store` explores, and what is new here is whose facts
a decision sees. Documents of three nodes have duplicates, self-loops, cycles, parallel
edges and missing ends; a reach cap of 2 is exceeded by the third node. Three nodes with
two edges each are all the shapes a queue distinguishes up to the two larger graphs,
which have a short way behind a long one and cycles that share a node. A fan of five
paths exceeds a surplus of four times a limit of one. Two calls are one that ends and one
that stalls beside it, or two that overlap; two processes are one before and one after a restart, with
the file edited in between; batches of two and three are within and over a limit of
two. Two files, scenarios or lines are one that passes and one that does not, in either
order. For the components with proofs, the theorems remove the bounds.

Deadlock is checked in `session_store`, `guarded_decision` and `sidecar` (where a file
can always be edited once more, so that `EveryCallEnds` and `ShutdownCompletes` say what
matters). The other components are functions and commands that return, and their runs
stop when they have.

**Fairness.** `SearchTerminates` assumes weak fairness of the next-state relation of
one call: `reachable` and `shortest_path` are loops without waiting, and a thread that
is in them goes on. `EveryCallEnds` and `ShutdownCompletes` assume weak fairness of what
the runtime drives by itself: it accepts a queued connection and notices one that its
client closed, a handler goes on once its request has arrived (tokio polls a task that is
ready), `serve` returns once nothing is open, and a client notices an answer or a closed
connection. Nobody has to start, interrupt or call the server, and no timeout needs to
strike, so that a client without a timeout is covered. Nor need a client finish the
request it began: the Json extractor waits for a body without a timeout, and `serve` for
the extractor, so that one stalled client keeps a draining server from stopping for as
long as it stalls. Both properties therefore have a hypothesis, `ComesToAnEnd`: a client
in the middle of its request finishes it or gives up. `ShutdownCompletes` asks it of
every client, `EveryCallEnds` of the caller itself only: nobody hangs because another
client stalls. No fairness is assumed of the threads of `SessionStore`.

## 4. Findings

Each of these has a run that ends in a counterexample.

1. `rule_in` (`InNeedsAMember`): `In` on a role list asks that all roles be in the
   array, so a principal without roles is In every array, where operators.rs:6 speaks of
   membership.
2. `session_default` (`RecordAppends`): the derived `Default` of `SessionStore` has a cap
   of zero. Such a store drops every event it is given and answers Ok.
3. `evaluator_stop` (`NothingAfterADeny`): docs/PROJECT.md:174 says nothing is evaluated
   after the first matching deny. The loop of `evaluate` goes on; the decision is the
   same, the trace longer. `TraceIsComplete` says what the trace does contain.

Further disagreements between code and documentation were met while translating. The
models follow the code, and no run is spent on them.

- `NotIn` of a target that is no array, and `NotContains` of a field that is neither text
  nor list, hold, where operators.rs:4 says mismatches return false: the two negate what
  their positive form answers, mismatch included (`Compare` in `RuleSemantics`).
- Orderings parse strings, where operators.rs:9 asks for JSON numbers on both sides.
  (docs/PROJECT.md:166 says that both sides are parsed; a string inside the request's
  JSON is not, and `OrderIsConverse` leaves it out.)
- `StartsWith` and `EndsWith` take a number by its text, where operators.rs:8 says they
  are string-only (`AsStr`).
- docs/THREAT-MODEL.md:44 has an invalid body answered with 400. A body that is JSON but
  no request gets 422 (`Refuse` in `Sidecar`); 400 is for what is no JSON at all.
- docs/SYSTEM.md:73 lists dupes among the warnings of a lint. The duplicate check passes
  over empty matches (linter.rs:109), and policies without conditions share none: two
  denies that differ in their ids only pass a strict lint. `StrictLintLeavesNoTwins` is
  therefore about policies that have conditions.
- The test `tamper_breaks_verification` (signer.rs:181) edits an id. An edit of where the
  lines of an explanation are cut, `["x;y"]` for `["x", "y"]`, leaves the payload as it
  was, and the entry verifies: `VerifiedLinesAreAsSigned` compares such lists by the
  text that they are joined to.
- `find_attack_paths` ranks after its search stopped at four times the limit, so that
  the most severe path can be missing (attack_paths.rs:12 promises severity order). The
  exception in `BestPathsUnlessCut` is this one.
- `diff_policies` keys policies by id and does not validate. Files that repeat an id can
  decide differently and show no difference (impact.rs:93); `NoDifferenceNoImpact` asks
  for unique ids.
- A whole-string placeholder for a map becomes null, where docs/PROJECT.md:169 says it
  keeps its type (`EqualityIsOfValues`).
- `recompute` persists nothing if the principal is cleared between its two sections,
  where analyzer.rs:49 says it persists (`RecomputeIsAtomic`).
- Two decisions whose fields hold the separators of the signed payload can have the same
  payload, and one entry then verifies in the other's place. `VerifiedLinesAreAsSigned`
  leaves out keys that *signed* such fields; the instance has such a pair. It does not
  leave out entries that were edited into such fields.
- `client.py` maps HTTP and URL errors. A timeout or a reset while it waits for the
  answer passes through as it is (`Raised` in `Sidecar`).

## 5. Proofs

Each theorem holds for every value of the constants that satisfies the named
assumptions of the module.

**Evaluator** (`EvaluatorProofs`). `TypeCorrect`, and `ImplementsContract`: the loop
refines `DecisionSpec` for any policies, rules, priorities and file order. The
inductive invariant `IInv` adds to the types that `order` is the sorted scope and that
`deny_hit` (`allow_hit`) is the first position in `order` before `next` with a matching
deny (allow), or 0 if there is none. The types alone do not say that the remembered
hit is the best one. At the end the first in a sorted sequence is the `Winner` of the
contract. `ExplanationIsTrue` follows from it
together with what each of the three ways to finish puts into the explanation. For
`TraceCoversTheScope` and `MissesAreReported` a second invariant, `Lists`, counts: the
trace has one entry per policy visited, in the place that its rank in the scope gives
it, and the k-th miss visited is the k-th near miss reported, while there is room.

**Session store** (first half of `GuardedDecisionProofs`). Seven theorems for any number of threads and
principals, any cap and any configuration. `TypeOK /\ CappedLog` is inductive: the
events of a principal are the capped log, and the log is empty while the principal is
absent. From it follow
`RecomputeTakesEffectOnce` (`RecomputeIsAtomic`: the second section reads the events
under the lock and writes the state of that one principal; if the principal vanished,
its log is empty, the default state is the score of nothing, and nothing is written),
`RecordAppendsUnlessDefault` (assuming the constructor is not `default`, which is
exactly the finding), `NoBurstIsSilenced` (a full history of the last minute exceeds
one of three thresholds, by counting; the configuration assumption
`Minute <= MfaWindow` is used here), `TravelSticks` (a pair of samples outlives
appends) and `StateIsExplained`, whose invariant adds the explanation of each stored
state.

**Guarded decision** (`GuardedDecisionProofs`). `HostsTypeCorrect`; `BurstsAreDenied`,
for any threads, callers, other policies, cap and thresholds; `CallersNeverDecide`; and
`GuardsReadTheStoredNumber` (`GuardsReadTheState`), for any thresholds and callers.
The invariant `GDInv` adds to that of the store that what a host holds is the score of
the capped log as it was when recompute returned. The first theorem is then a chain: a
burst in the log scores through the eviction (the counting argument of the store), the
score is written to its key over the caller's (`ScoreIsWritten`), an ordering on that
key fires (`AnomalyRuleFires`), and a deny that fires wins (`DeniesOnDenies`). Every
signal of the last minute weighs at least 25, which is why the threshold may be any from
0 to 24. The second theorem compares two requests that differ in the caller's context:
the fields that such a file names resolve alike, so rules, hits and effect are alike.
The third follows one number from the stored state through the flat key, the resolver
and the operators.

**Sidecar** (`SidecarProofs`). `Invariance` and `Consistency`
(`AnswersFromOneValidFile`), for any number of calls, processes and policy files, any messages and any evaluator. The inductive
invariant says that every process started had a valid list and the running one serves
its last (`ProcessesAreValid`), that a request in work belongs to the running process
(`CallsOfThisProcess`), that a batch is decided up to a prefix by the list of its
process (`DecidedSoFar`), that an answer is a full result or a refusal of that body
(`AnswersAreComplete`), and that a client's value is such an answer
(`OutcomesAreAnswers`). Without the second, a request could outlive its process and be
finished on the next one's list.

**Rollout** (`PolicyRolloutProofs`). `TypeCorrect`, `ReportIsComplete`
(`AffectedAreThoseChanged`), `UnchangedFilesAgree` (`NoDifferenceNoImpact`) and
`AddedPoliciesAreMonotone` (`AddedEffectOnlyTightens`), for any files, traffic and
meaning of a rule. The invariant `RInv` says what each phase has computed so far: the
baseline is taken with the first file (`BaselineTaken`), the counters count the records
replayed (`Counted`), the comparison has seen the rest (`Compared`). The lemmas
`Counterpart`, `Carried` and `CarriedBack` turn an empty difference into equal sets of
hits: a policy of one file that the diff is silent about has its like in the other.

**Command line** (`CommandProofs`). One theorem for each property of the run:
`ExitCodesAreConjunctions` (`ExitIsTheConjunction`), `PassedLogsAreAsSigned`
(`VerifiedLinesAreAsSigned`), `StrictLintFindsTwins` (`StrictLintLeavesNoTwins`) and
`PassedFilesCanBeDeployed` (`PassedFilesAreSound`), for any files, scenarios and log
lines, any regex compiler and any texts, under `CommandsAssumption`, `FilesAssumption`
and `SignaturesAssumption`, which TLC evaluates in the run.

- What was loaded is the concatenation of the files opened (`LoadInv`), `good` and `bad`
  count the records before `position` (`RunInv`), and a command that succeeded opened
  every file and passed every check (`PassInv`). With `ExitIsTheConjunction` they are
  inductive: the exit code alone does not say that the counters missed no record.
- `VerifiedLinesAreAsSigned` compares what was signed with an entry that may have been
  edited into anything. The payload strings variable-length fields together without
  lengths or quotes. That of a readable content has a fixed number of bars, counted in
  `PayloadBars`; an entry with the same payload has as many, and since each of its fields
  adds those it contains, it can contain none. Its fields are then read back one by one,
  each up to the first bar (`FieldsAreTheSame`, `PayloadSaysTheContent`), and the joined
  lists of the explanation come out as texts: that is `Said`. Whether there is an
  explanation shows in whether bars follow `expl=` (`ExplanationIsNotLost`). If the entry
  is readable as well, its lists are cut where the separators are (`JoinIsInjective`, by
  induction over the set of sequences), and it is the content that was signed
  (`SaidIsReadBack`). `SignaturesAssumption` says that no signature is forged: one that a
  key made was made of something signed with it.
- `TwinsAreWarnedOf`: two policies with conditions and the same fingerprint have
  different ids, or the list is invalid, and no empty group, so that they share a
  condition, which is a warning. With an empty match there is no such condition, and the
  statement is false (section 4).
- `FaultlessFits` and `KnownIsFound` follow a rule without fault through the
  substitution of placeholders and the resolver. `FilesAssumption` has the two facts they
  need from outside: a bare placeholder does not compile as a regex, and for each field
  that a rule may name, some request has the attribute or context key.

**Rules** (`RuleSemanticsProofs`). One theorem for each property of the run, for any
requests, rules and reading of texts as numbers: `SayingLessMatchesNoMore`
(`LeavingOutNeverMatches`), `EqualityComparesValues`, `OrdersAreConverse`, `WhatIsMissingMatchesOnlyNull` and
`FlatKeyIsWhatIsRead`. `RequestsAssumption`, `NumbersAssumption` and `RulesAssumption`
say that requests, recognised numerals and rules are of the shape that deserialization
gives them, every JSON value having one of the kinds of `Shapes`. The invariant is
short, an outcome is what `match_rule` computes, and the theorems are about that
function: a field is native, a list, a map or JSON, and each kind goes its own way
through placeholder and operator. `FieldKinds` lists the kinds once. For
`SayingLessMatchesNoMore`, a field that is still there in the smaller request has the
value it had, since a flat key may not vanish from over a nested one, and a field that is
not fails every operator but `NotExists`. `NumbersAssumption`
also says that no text stands for two numbers, without which an ordering would depend on
the side a text is read from.

**Asset graph** (`GraphProofs`). `TypeCorrect`, `EdgesStayInside`,
`WholeDocumentOrNone` (`LoadsTheWholeDocument`) and `EdgesNeverLowerTheScore`
(`MoreEdgesNeverSafer`), for any documents, caps and sensitivities. The invariant
`LoadedSoFar` says that the nodes are those of the document up to `loaded`, none of them
twice, and that the edges taken from a node stand in its adjacency list at their number
among the edges of that node. For the score: what is closed under more edges
is closed under fewer, so that an edge makes no node unreachable (`ReachGrows`), and
each of the score's terms grows with the set it is taken of (`TermsGrow`).
`LoadedGraphsAreSearchable` shows that what `AttackPaths` assumes of a graph
(`Searchable`) holds of every graph that loading built.

**Searches** (`GraphSearchProofs`). `TypeCorrect`, `ReachableIsExact` and
`ShortestPathIsExact` (`PathIsShortest`). `reachable` returns the least set that holds
the start and is closed under edges, for any graph without dangling edges. The inductive
invariant says that everything seen is in every closed set, and that each target of a
node seen is seen, unless the node is still queued or being scanned. At the end the
queue is empty and the set is closed. For `shortest_path` the invariant `Levelled` says
that there is a level for each node seen, 1 at the start and one more than its parent's
elsewhere (`BackLevels`); that the queue is ordered by level and spans at most two of
them (`QueueLevels`); and that no edge from a node already scanned skips a level
(`TargetLevels`). No walk is then shorter than the level of its end. The levels are
nowhere in the code, and so the invariant only says that they exist.

**Attack paths** (`GraphProofs`). `PathsAreOfTheGraph` (`ReportedPathsAreReal`),
`BestPathsAreReported` (`BestPathsUnlessCut`) and `RepeatsAreParallelEdges`
(`RepeatedOnlyByParallelEdges`), for any graphs, hop cap, surplus and limit. `PathsInv`: what is on the stack, and the hops of what was found, are simple
paths from the start within the cap. `NoneIsLost`: while searching, every simple path
between the two nodes was found or some beginning of it is on the stack; a path that
arrived or is too long begins no other (`NothingFollows`), and any other that is popped
is replaced by one that goes on along it (`SomeTargetFollows`). The sort is modelled by
ranks, how many paths come before; that each rank is taken by exactly one path
(`OneOfEachRank`) is why the truncated list loses only the last and repeats none.
`NoRouteTwice`: each path on the stack or found stands for a route, one edge for each
hop, and no route that waits on the stack begins another. A path that is extended takes
each onward target along an edge of its own (`OnwardEdges`), so that its routes stay
apart; two equal paths that are found are two routes, and the routes along a path are
as many as `Ways` says (`RoutesAreCounted`). The routes are nowhere in the code, and so
this invariant too only says that they exist.

Only model-checked: liveness (`SearchTerminates`, `EveryCallEnds`, `ShutdownCompletes`),
which rests on fairness and is out of the prover's reach.

## 6. Not modelled

- `/health`, which touches no state; what the graph commands print of a result that the
  graph modules model; `load_traffic`'s choice between an array and lines.
- The linter's suggestions (identical match blocks, an allow with an empty match): they
  change no outcome, not even of a strict lint.
- Cases that the properties leave out because the code promises nothing there, each a
  hazard without a property: an event cap smaller than the thresholds together, policies
  that read keys no extractor writes, files with duplicate ids in a diff, searches that
  the surplus cut short, and a regex that no longer compiles once a request's values are
  substituted into it.
- Key generation, the HTTP library and runtime, the regex engine: external.
- The load generator and the benchmark (`stress.rs`), which measure time; the two empty
  crates; CI scripts and packaging.
- docs/PROJECT.md describes further parts (identity, federation, signal collectors) that
  have no code.

## 7. Plan

Done, in this order: `PolicyMatch`, `DecisionSpec`, `Evaluator`, its proofs;
`SessionScore`, `SessionStore`, its proofs; `RuleSemantics`; `AssetGraph`,
`GraphSearch`, their proofs; `AttackPaths`, `GraphCommand`; `PolicyRollout`; `GuardedDecision` and
`Sidecar` with their proofs; `PolicyChecks`, `AuditLog`, `CommandLine`; the proofs of
the rollout and of the evaluator's trace, explanation and near misses; those of the
rules, of loading, of shortest paths, of attack paths and of the command line.

What could follow:

1. Two principals in `GuardedDecision`, with a host that confuses them, once the
   repository says whose duty the check is.

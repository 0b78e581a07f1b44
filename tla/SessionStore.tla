---------------------------- MODULE SessionStore ----------------------------
(***************************************************************************)
(* The concurrent session store and the analyzer that writes to it         *)
(* (crates/lovebird-session/src/store.rs and analyzer.rs).  Threads of the *)
(* embedding application call record, get, clear and recompute.  Each      *)
(* critical section of the store's mutex is one action; recompute has two  *)
(* of them, and other threads run in between.                              *)
(*                                                                         *)
(* The caller reads the clock when it builds an event or calls recompute,  *)
(* outside the lock, so events may arrive out of timestamp order.          *)
(***************************************************************************)
EXTENDS SessionScore

CONSTANTS
    Principals, Threads,
    Samples,      \* the <<kind, place>> pairs the callers record
    Constructor,  \* how the store was built: "new", "with_capacity", "default"
    Requested,    \* the argument of with_capacity_per_principal
    NewCapacity,  \* 2048 in SessionStore::new
    CapFloor,     \* 16 in with_capacity_per_principal
    NoCall,
    MaxClock,     \* bound of the clock
    MaxLog        \* bound of the events recorded for a principal

ASSUME StoreAssumption ==
    /\ Constructor \in {"new", "with_capacity", "default"}
    /\ Requested \in Nat /\ NewCapacity \in Nat \ {0} /\ CapFloor \in Nat \ {0}
    /\ Samples \subseteq EventKind \X (Places \cup {Nowhere})
    /\ MaxClock \in Nat /\ MaxLog \in Nat

VARIABLES
    clock,     \* the time callers read
    map,       \* the store: per principal, its history or Absent
    pc, call,  \* per thread: where it is, and what it was called with
    result,    \* what the last step returned to its caller, if it was a return
    log        \* history variable: every event since the principal appeared

vars == <<clock, map, pc, call, result, log>>

\* max_events_per_principal as the constructors set it; the derived Default
\* leaves it at zero.
MaxEvents ==
    CASE Constructor = "new"           -> NewCapacity
      [] Constructor = "with_capacity" ->
            IF Requested > CapFloor THEN Requested ELSE CapFloor
      [] Constructor = "default"       -> 0

Absent   == [present |-> FALSE]
Nothing  == [some |-> FALSE]
Some(state) == [some |-> TRUE, state |-> state]
NoResult == [returned |-> FALSE]
Returned(value) == [returned |-> TRUE, value |-> value]

History(events, state) == [present |-> TRUE, events |-> events, state |-> state]
NewHistory == History(<<>>, DefaultState)

\* or_insert_with: the history of p, created on first use.
Entry(p) == IF map[p].present THEN map[p] ELSE NewHistory

\* Mutant: the newest event is dropped instead of the oldest.
Capped_DropsNewest(events) ==
    IF Len(events) > MaxEvents THEN SubSeq(events, 1, MaxEvents) ELSE events

\* Mutant: a full deque is halved.
Capped_DropsHalf(events) ==
    IF Len(events) > MaxEvents
      THEN SubSeq(events, Len(events) - (MaxEvents \div 2) + 1, Len(events))
      ELSE events

\* What pop_front leaves of a sequence that may be too long.
Capped(events) ==
    IF Len(events) > MaxEvents
      THEN SubSeq(events, Len(events) - MaxEvents + 1, Len(events))
      ELSE events

----------------------------------------------------------------------------

Init ==
    /\ clock = 0
    /\ map = [p \in Principals |-> Absent]
    /\ pc = [t \in Threads |-> "idle"]
    /\ call = [t \in Threads |-> NoCall]
    /\ result = NoResult
    /\ log = [p \in Principals |-> <<>>]

Tick ==
    /\ clock < MaxClock
    /\ clock' = clock + 1
    /\ result' = NoResult /\ UNCHANGED <<map, pc, call, log>>

Goto(t, from, to) == pc[t] = from /\ pc' = [pc EXCEPT ![t] = to]

\* A caller builds an event at the current time.
BeginRecord(t) ==
    /\ Goto(t, "idle", "record")
    /\ \E p \in Principals, s \in Samples :
         /\ Len(log[p]) < MaxLog
         /\ call' = [call EXCEPT ![t] = [principal |-> p,
                        event |-> [at |-> clock, kind |-> s[1], place |-> s[2]]]]
    /\ result' = NoResult /\ UNCHANGED <<clock, map, log>>

Record(t) ==
    LET p == call[t].principal
        e == call[t].event
    IN  /\ Goto(t, "record", "idle")
        /\ map' = [map EXCEPT ![p] =
                      History(Capped(Append(Entry(p).events, e)), Entry(p).state)]
        /\ log' = [log EXCEPT ![p] = Append(@, e)]
        /\ call' = [call EXCEPT ![t] = NoCall]
        /\ result' = NoResult /\ UNCHANGED clock

Get(t) ==
    /\ pc[t] = "idle"
    /\ \E p \in Principals :
         result' = Returned(IF map[p].present THEN Some(map[p].state) ELSE Nothing)
    /\ UNCHANGED <<clock, map, pc, call, log>>

\* Mutant: clear empties the deque and leaves the state.
Clear_KeepsState(t) ==
    /\ pc[t] = "idle"
    /\ \E p \in Principals :
         /\ map' = [map EXCEPT ![p] = IF @.present THEN History(<<>>, @.state) ELSE @]
         /\ log' = [log EXCEPT ![p] = <<>>]
    /\ result' = NoResult /\ UNCHANGED <<clock, pc, call>>

Clear(t) ==
    /\ pc[t] = "idle"
    /\ \E p \in Principals :
         /\ map' = [map EXCEPT ![p] = Absent]
         /\ log' = [log EXCEPT ![p] = <<>>]
    /\ result' = NoResult /\ UNCHANGED <<clock, pc, call>>

\* A caller reads the clock and calls recompute.
BeginRecompute(t) ==
    /\ Goto(t, "idle", "ensure")
    /\ \E p \in Principals :
         call' = [call EXCEPT ![t] = [principal |-> p, now |-> clock]]
    /\ result' = NoResult /\ UNCHANGED <<clock, map, log>>

\* Mutant: insert instead of entry().or_insert_with().
EnsurePrincipal_AlwaysNew(t) ==
    /\ Goto(t, "ensure", "rescore")
    /\ map' = [map EXCEPT ![call[t].principal] = NewHistory]
    /\ result' = NoResult /\ UNCHANGED <<clock, call, log>>

\* recompute's first critical section: ensure_principal.
EnsurePrincipal(t) ==
    /\ Goto(t, "ensure", "rescore")
    /\ map' = [map EXCEPT ![call[t].principal] = Entry(call[t].principal)]
    /\ result' = NoResult /\ UNCHANGED <<clock, call, log>>

\* Mutant: the state is cloned before the new score is stored.
RescorePresent_ReturnsOld(t) ==
    LET p == call[t].principal
        s == Score(map[p].events, call[t].now)
    IN  /\ Goto(t, "rescore", "idle")
        /\ map[p].present
        /\ map' = [map EXCEPT ![p].state = s]
        /\ result' = Returned(Some(map[p].state))
        /\ call' = [call EXCEPT ![t] = NoCall]
        /\ UNCHANGED <<clock, log>>

\* The second one, with_history_mut: score the events and persist the state.
RescorePresent(t) ==
    LET p == call[t].principal
        s == Score(map[p].events, call[t].now)
    IN  /\ Goto(t, "rescore", "idle")
        /\ map[p].present
        /\ map' = [map EXCEPT ![p].state = s]
        /\ result' = Returned(Some(s))
        /\ call' = [call EXCEPT ![t] = NoCall]
        /\ UNCHANGED <<clock, log>>

\* ... unless the principal was cleared meanwhile: a default state is returned
\* and nothing is persisted.
RescoreAbsent(t) ==
    /\ Goto(t, "rescore", "idle")
    /\ ~map[call[t].principal].present
    /\ result' = Returned(Some(DefaultState))
    /\ call' = [call EXCEPT ![t] = NoCall]
    /\ UNCHANGED <<clock, map, log>>

Step(t) ==
    \/ BeginRecord(t) \/ Record(t)
    \/ Get(t) \/ Clear(t)
    \/ BeginRecompute(t) \/ EnsurePrincipal(t)
    \/ RescorePresent(t) \/ RescoreAbsent(t)

Next == Tick \/ \E t \in Threads : Step(t)

Spec == Init /\ [][Next]_vars

----------------------------------------------------------------------------

PrincipalHistory ==
    [present : {TRUE}, events : Seq(Event), state : SessionState]
RecordCall    == [principal : Principals, event : Event]
RecomputeCall == [principal : Principals, now : Int]

\* The type invariant; a history never holds more events than the cap.
TypeOK ==
    /\ clock \in 0..MaxClock
    /\ pc \in [Threads -> {"idle", "record", "ensure", "rescore"}]
    /\ map \in [Principals -> {Absent} \cup PrincipalHistory]
    /\ \A p \in Principals : map[p].present => Len(map[p].events) <= MaxEvents
    /\ log \in [Principals -> Seq(Event)]
    /\ call \in [Threads -> {NoCall} \cup RecordCall \cup RecomputeCall]
    /\ \A t \in Threads :
         /\ pc[t] = "idle" => call[t] = NoCall
         /\ pc[t] = "record" => call[t] \in RecordCall
         /\ pc[t] \in {"ensure", "rescore"} => call[t] \in RecomputeCall
    /\ result \in {NoResult} \cup
          [returned : {TRUE},
           value : {Nothing} \cup [some : {TRUE}, state : SessionState]]

\* Whatever the threads interleave, a history holds exactly the most recent
\* events recorded since its principal was last cleared, in the order the lock
\* let them in, and as many as the cap allows.
RetainsLatest ==
    \A p \in Principals :
        /\ map[p].present =>
             LET events == map[p].events
                 all    == Len(log[p])
             IN  /\ Len(events) = IF all > MaxEvents THEN MaxEvents ELSE all
                 /\ \A k \in DOMAIN events :
                      events[k] = log[p][all - Len(events) + k]
        /\ ~map[p].present => log[p] = <<>>

\* The state kept for a principal is the score of a beginning of its log at
\* some past time: nothing a recompute saw before a clear, or of another
\* principal, ever ends up in the state of the history created afterwards.
StateOfThisIncarnation ==
    \A p \in Principals :
        map[p].present =>
            \/ map[p].state = DefaultState
            \/ \E n \in 0..Len(log[p]), now \in 0..clock :
                  map[p].state = Score(Capped(SubSeq(log[p], 1, n)), now)

InOrder(events) == \A i, j \in DOMAIN events : i < j => events[i].at <= events[j].at

\* The cap is large enough that a full history of one minute trips a threshold.
CapOutnumbersThresholds ==
    MaxEvents > (VelocityWarn - 1) + (FailedAuthBurst - 1) + (MfaFatigueCount - 1)

\* Evicting old events never hides a burst altogether: if the requests or the
\* failed authentications recorded in the last minute reach their threshold, the
\* score of the events that are left is not zero, as long as callers record in
\* timestamp order.  A burst may hide behind another one, never behind silence.
BurstSurvivesEviction ==
    CapOutnumbersThresholds =>
        \A p \in Principals : \A now \in 0..MaxClock :
            (InOrder(log[p]) /\ map[p].present /\ MinuteSignal(log[p], now))
                => Score(map[p].events, now).anomaly_score > 0

RecomputeReturns(t) == pc[t] = "rescore" /\ pc'[t] = "idle"

\* The second section of recompute behaves as if it were all of it, even when
\* the principal is cleared or recorded between the two: it returns the score of
\* the log as it stands in that step, for the time it was called with, keeps
\* that score for the principal if it is still there, does not bring it back if
\* it is not, and changes no event and no other principal.
RecomputeIsAtomic ==
    [][\A t \in Threads : RecomputeReturns(t) =>
          LET p == call[t].principal
              s == Score(Capped(log'[p]), call[t].now)
          IN  /\ result' = Returned(Some(s))
              /\ map' = [map EXCEPT ![p] =
                           IF @.present THEN [@ EXCEPT !.state = s] ELSE @]]_vars

\* An impossible-travel verdict is forgotten only when the principal is cleared
\* or in a step that records one more event than the cap holds: never by time
\* passing, by a later plausible sample or by a recompute.
TravelForgottenOnlyByEviction ==
    [][\A p \in Principals :
          (/\ map[p].present /\ ImpossibleTravel(map[p].events)
           /\ ~(map'[p].present /\ ImpossibleTravel(map'[p].events)))
          => \/ log'[p] = <<>>
             \/ Len(log'[p]) > MaxEvents /\ Len(log'[p]) > Len(log[p])]_vars

\* store.rs:52, "Append an event": once record returns, its event is the newest
\* of the principal's history.
RecordAppends ==
    [][\A t \in Threads : (pc[t] = "record" /\ pc'[t] = "idle") =>
          LET events == map'[call[t].principal].events
          IN  events # <<>> /\ events[Len(events)] = call[t].event]_vars
=============================================================================

------------------------ MODULE GuardedDecisionProofs ------------------------
(***************************************************************************)
(* Theorems about SessionStore, for any number of threads and principals,  *)
(* any cap, any configuration of the analyzer and logs of any length, and  *)
(* then about GuardedDecision, which adds hosts and policies to it: a      *)
(* burst is denied, callers never decide, and guards read what is stored.  *)
(***************************************************************************)
EXTENDS GuardedDecision, TLAPS, FiniteSetTheorems, SequenceTheorems

USE ConfigAssumption, PlacesAssumption, StoreAssumption

----------------------------------------------------------------------------
(* Lemmas about capped sequences *)

\* The cap is a number, and zero only in a store built by Default.
LEMMA MaxEventsType ==
    /\ MaxEvents \in Nat
    /\ Constructor # "default" => MaxEvents > 0
BY DEF MaxEvents

\* Capped keeps a suffix, as long as the cap allows.
LEMMA CappedIsASuffix ==
    ASSUME NEW s \in Seq(Event)
    PROVE  /\ Capped(s) \in Seq(Event)
           /\ Len(Capped(s)) = IF Len(s) > MaxEvents THEN MaxEvents ELSE Len(s)
           /\ \A k \in 1..Len(Capped(s)) :
                Capped(s)[k] = s[Len(s) - Len(Capped(s)) + k]
<1>1. Len(s) \in Nat /\ MaxEvents \in Nat
  BY MaxEventsType
<1>2. CASE Len(s) <= MaxEvents
  <2>1. Capped(s) = s
    BY <1>1, <1>2 DEF Capped
  <2>2. \A k \in 1..Len(s) : Len(s) - Len(s) + k = k
    BY <1>1
  <2> QED
    BY <1>1, <1>2, <2>1, <2>2
<1>3. CASE Len(s) > MaxEvents
  <2> DEFINE m == Len(s) - MaxEvents + 1
  <2>1. m \in Int /\ \A k \in m..Len(s) : s[k] \in Event
    BY <1>1, <1>3
  <2>2. Capped(s) = SubSeq(s, m, Len(s))
    BY <1>3 DEF Capped
  <2>3. /\ Capped(s) \in Seq(Event)
        /\ Len(Capped(s)) = IF m <= Len(s) THEN Len(s) - m + 1 ELSE 0
        /\ \A k \in 1..(Len(s) - m + 1) : Capped(s)[k] = s[m + k - 1]
    <3> HIDE DEF m
    <3> QED
      BY <1>1, <2>1, <2>2, SubSeqProperties
  <2>4. Len(Capped(s)) = MaxEvents
    BY <1>1, <2>3
  <2>5. \A k \in 1..MaxEvents : m + k - 1 = Len(s) - MaxEvents + k
    BY <1>1
  <2>6. ASSUME NEW k \in 1..MaxEvents
        PROVE  Capped(s)[k] = s[Len(s) - MaxEvents + k]
    <3>1. k \in 1..(Len(s) - m + 1)
      BY <1>1
    <3> HIDE DEF m
    <3> QED
      BY <2>3, <2>5, <3>1
  <2> HIDE DEF m
  <2> QED
    BY <1>3, <2>3, <2>4, <2>6
<1> QED
  BY <1>1, <1>2, <1>3

\* Recording into a capped history is recording into the log and capping that.
LEMMA CappedAppend ==
    ASSUME NEW s \in Seq(Event), NEW e \in Event
    PROVE  Capped(Append(Capped(s), e)) = Capped(Append(s, e))
<1> DEFINE c == Capped(s)
           a == Append(c, e)
           b == Append(s, e)
<1>1. /\ c \in Seq(Event) /\ Len(c) \in Nat /\ Len(s) \in Nat /\ MaxEvents \in Nat
      /\ Len(c) = IF Len(s) > MaxEvents THEN MaxEvents ELSE Len(s)
      /\ \A k \in 1..Len(c) : c[k] = s[Len(s) - Len(c) + k]
  BY CappedIsASuffix, MaxEventsType
<1> HIDE DEF c
<1>2. /\ a \in Seq(Event) /\ Len(a) = Len(c) + 1
      /\ \A k \in 1..Len(c) : a[k] = c[k]
      /\ a[Len(c) + 1] = e
  BY <1>1, AppendProperties
<1>3. /\ b \in Seq(Event) /\ Len(b) = Len(s) + 1
      /\ \A k \in 1..Len(s) : b[k] = s[k]
      /\ b[Len(s) + 1] = e
  BY <1>1, AppendProperties
<1> HIDE DEF a, b
<1>4. /\ Len(a) = Len(c) + 1 /\ Len(b) = Len(s) + 1
      /\ Len(c) \in Nat /\ Len(s) \in Nat /\ Len(c) <= Len(s)
  BY <1>1, <1>2, <1>3
<1>4a. ASSUME NEW k \in 1..Len(a) PROVE a[k] = b[Len(b) - Len(a) + k]
  <2>1. CASE k = Len(c) + 1
    <3>1. Len(b) - Len(a) + k = Len(s) + 1
      BY <1>4, <2>1
    <3> QED
      BY <1>2, <1>3, <2>1, <3>1
  <2>2. CASE k \in 1..Len(c)
    <3>1. /\ Len(b) - Len(a) + k = Len(s) - Len(c) + k
          /\ Len(s) - Len(c) + k \in 1..Len(s)
      BY <1>4, <2>2
    <3>2. a[k] = c[k] /\ c[k] = s[Len(s) - Len(c) + k]
      BY <1>1, <1>2, <2>2
    <3>3. b[Len(s) - Len(c) + k] = s[Len(s) - Len(c) + k]
      BY <1>3, <3>1
    <3> QED
      BY <3>1, <3>2, <3>3, Zenon
  <2> QED
    BY <1>4, <2>1, <2>2
<1>5. /\ Capped(a) \in Seq(Event) /\ Capped(b) \in Seq(Event)
      /\ Len(Capped(a)) = IF Len(a) > MaxEvents THEN MaxEvents ELSE Len(a)
      /\ Len(Capped(b)) = IF Len(b) > MaxEvents THEN MaxEvents ELSE Len(b)
      /\ \A k \in 1..Len(Capped(a)) : Capped(a)[k] = a[Len(a) - Len(Capped(a)) + k]
      /\ \A k \in 1..Len(Capped(b)) : Capped(b)[k] = b[Len(b) - Len(Capped(b)) + k]
  BY <1>2, <1>3, CappedIsASuffix
<1>6. /\ Len(a) \in Nat /\ Len(b) \in Nat
      /\ Len(Capped(a)) = Len(Capped(b))
      /\ Len(Capped(a)) \in 0..Len(a)
  BY <1>1, <1>2, <1>3, <1>5
<1>7. ASSUME NEW k \in 1..Len(Capped(a)) PROVE Capped(a)[k] = Capped(b)[k]
  <2>1. Len(a) - Len(Capped(a)) + k \in 1..Len(a)
    BY <1>6
  <2>2. Len(b) - Len(a) + (Len(a) - Len(Capped(a)) + k) = Len(b) - Len(Capped(b)) + k
    BY <1>6
  <2>3. Capped(a)[k] = a[Len(a) - Len(Capped(a)) + k]
    BY <1>5
  <2>4. Capped(b)[k] = b[Len(b) - Len(Capped(b)) + k]
    BY <1>5, <1>6
  <2> QED
    BY <1>4a, <2>1, <2>2, <2>3, <2>4
<1> QED
  BY <1>5, <1>6, <1>7, SeqEqual DEF a, b, c

\* A short sequence is left as it is, the empty one in particular.
LEMMA CappedEmpty == Capped(<<>>) = <<>>
BY MaxEventsType DEF Capped

----------------------------------------------------------------------------
(* Lemmas about the score *)

\* Sets of positions of a sequence are finite, and their cardinals naturals.
LEMMA CountsAreNaturals ==
    ASSUME NEW events \in Seq(Event), NEW kind, NEW since
    PROVE  /\ IsFiniteSet(OfKind(events, kind))
           /\ IsFiniteSet(OfKindSince(events, kind, since))
           /\ Cardinality(OfKind(events, kind)) \in Nat
           /\ CountSince(events, kind, since) \in Nat
<1>1. IsFiniteSet(1..Len(events)) /\ DOMAIN events = 1..Len(events)
  BY FS_Interval, LenProperties
<1>2. /\ OfKind(events, kind) \in SUBSET (1..Len(events))
      /\ OfKindSince(events, kind, since) \in SUBSET (1..Len(events))
  BY <1>1 DEF OfKind, OfKindSince
<1> QED
  BY <1>1, <1>2, FS_Subset, FS_CardinalityType DEF CountSince

\* The score of any history is a session state.
LEMMA ScoreType ==
    ASSUME NEW events \in Seq(Event), NEW now
    PROVE  Score(events, now) \in SessionState
<1>1. /\ CountSince(events, "Request", now - Minute) \in Nat
      /\ Cardinality(OfKind(events, "FailedAuth")) \in Nat
      /\ Cardinality(OfKind(events, "Request")) \in Nat
  BY CountsAreNaturals
<1>2. ImpossibleTravel(events) \in BOOLEAN
  BY DEF ImpossibleTravel
<1>3. ASSUME NEW r, NEW f, NEW m, NEW t PROVE Points(r, f, m, t) \in 0..100
  BY DEF Points, VelocityPoints
<1> QED
  BY <1>1, <1>2, <1>3 DEF Score, SessionState

\* Scoring no events gives the default state: recompute's answer for a
\* principal cleared under it is the score of what the store holds.
LEMMA ScoreOfNothing ==
    ASSUME NEW now PROVE Score(<<>>, now) = DefaultState
<1>1. ASSUME NEW kind, NEW since
      PROVE  OfKind(<<>>, kind) = {} /\ OfKindSince(<<>>, kind, since) = {}
  BY DEF OfKind, OfKindSince
<1>2. \A kind, since : CountSince(<<>>, kind, since) = 0
  BY <1>1, FS_EmptySet DEF CountSince
<1>3. ImpossibleTravel(<<>>) = FALSE
  BY DEF ImpossibleTravel
<1>4. \A kind : Cardinality(OfKind(<<>>, kind)) = 0
  BY <1>1, FS_EmptySet
<1>5. 0 < VelocityWarn /\ 0 < VelocitySpike /\ 0 < FailedAuthBurst /\ 0 < MfaFatigueCount
  OBVIOUS
<1>6. Points(0, 0, 0, FALSE) = 0
  BY <1>5 DEF Points, VelocityPoints
<1> QED
  BY <1>2, <1>3, <1>4, <1>6 DEF Score, DefaultState

----------------------------------------------------------------------------
(* The inductive invariant *)

\* What the store holds of a principal is what Capped leaves of its log.
CappedLog ==
    \A p \in Principals :
        /\ map[p].present => map[p].events = Capped(log[p])
        /\ ~map[p].present => log[p] = <<>>

\* The type invariant alone is inductive, but it is proved together with
\* CappedLog, which every other theorem needs as well.
IInv == TypeOK /\ CappedLog

\* The empty store satisfies the invariant.
LEMMA InitIInv == Init => IInv
BY CappedEmpty DEF Init, IInv, TypeOK, CappedLog, Absent, NoResult

\* A principal that is present has a history.
LEMMA PresentHistory ==
    ASSUME IInv, NEW p \in Principals, map[p].present
    PROVE  map[p] \in PrincipalHistory /\ map[p].events = Capped(log[p])
<1>1. map[p] \in {Absent} \cup PrincipalHistory
  BY DEF IInv, TypeOK
<1>2. map[p] # Absent
  BY DEF Absent
<1> QED
  BY <1>1, <1>2 DEF IInv, CappedLog

\* What or_insert_with yields is a history of what the log retains.
LEMMA EntryFacts ==
    ASSUME IInv, NEW p \in Principals
    PROVE  /\ Entry(p) \in PrincipalHistory
           /\ Entry(p).events = Capped(log[p])
           /\ Len(Entry(p).events) <= MaxEvents
           /\ map[p].present => Entry(p) = map[p]
<1>1. DefaultState \in SessionState
  BY DEF DefaultState, SessionState
<1>2. CASE map[p].present
  BY <1>2 DEF IInv, TypeOK, CappedLog, Entry, Absent
<1>3. CASE ~map[p].present
  <2>1. Entry(p) = NewHistory
    BY <1>3 DEF Entry
  <2>2. NewHistory \in PrincipalHistory /\ NewHistory.events = <<>>
    BY <1>1 DEF NewHistory, History, PrincipalHistory
  <2>3. log[p] = <<>>
    BY <1>3 DEF IInv, CappedLog
  <2>4. Len(<<>>) <= MaxEvents
    BY MaxEventsType
  <2> QED
    BY <1>3, <2>1, <2>2, <2>3, <2>4, CappedEmpty
<1> QED
  BY <1>2, <1>3

\* The invariant survives a step that sets the history of one principal to what
\* its new log retains.
LEMMA OneHistory ==
    ASSUME IInv, NEW p \in Principals, NEW h \in PrincipalHistory,
           NEW l \in Seq(Event), h.events = Capped(l),
           map' = [map EXCEPT ![p] = h], log' = [log EXCEPT ![p] = l]
    PROVE  /\ map' \in [Principals -> {Absent} \cup PrincipalHistory]
           /\ \A q \in Principals : map'[q].present => Len(map'[q].events) <= MaxEvents
           /\ log' \in [Principals -> Seq(Event)]
           /\ CappedLog'
<1>1. h.present = TRUE /\ Len(h.events) <= MaxEvents
  <2>1. /\ Len(Capped(l)) = IF Len(l) > MaxEvents THEN MaxEvents ELSE Len(l)
        /\ Len(l) \in Nat /\ MaxEvents \in Nat
    BY CappedIsASuffix, MaxEventsType
  <2>2. Len(Capped(l)) <= MaxEvents
    BY <2>1
  <2>3. h.present = TRUE
    BY DEF PrincipalHistory
  <2> QED
    BY <2>2, <2>3
<1>2. \A q \in Principals :
        /\ map'[q] = IF q = p THEN h ELSE map[q]
        /\ log'[q] = IF q = p THEN l ELSE log[q]
  BY DEF IInv, TypeOK
<1>3. CappedLog'
  <2>1. \A q \in Principals : Capped(log[q])' = Capped(log'[q])
    BY DEF Capped, MaxEvents
  <2> QED
    BY <1>1, <1>2, <2>1 DEF IInv, CappedLog
<1> QED
  BY <1>1, <1>2, <1>3 DEF IInv, TypeOK

\* What the steps of a recompute return and store is a score.
LEMMA RecomputeFacts ==
    ASSUME IInv, NEW t \in Threads, pc[t] \in {"ensure", "rescore"}
    PROVE  /\ call[t].principal \in Principals /\ call[t].now \in Int
           /\ map[call[t].principal].present =>
                Score(map[call[t].principal].events, call[t].now) \in SessionState
<1>1. call[t].principal \in Principals /\ call[t].now \in Int
  BY DEF IInv, TypeOK, RecomputeCall
<1>2. ASSUME map[call[t].principal].present
      PROVE  map[call[t].principal].events \in Seq(Event)
  BY <1>1, <1>2, PresentHistory DEF PrincipalHistory
<1> QED
  BY <1>1, <1>2, ScoreType

\* Every critical section of every thread preserves the invariant.
LEMMA NextIInv == IInv /\ [Next]_vars => IInv'
<1> SUFFICES ASSUME IInv, [Next]_vars PROVE IInv'
  OBVIOUS
<1>1. CASE Tick
  <2>1. clock' \in 0..MaxClock /\ result' = NoResult
    BY <1>1 DEF Tick, IInv, TypeOK
  <2>2. UNCHANGED <<map, pc, call, log>>
    BY <1>1 DEF Tick
  <2>3. TypeOK'
    BY <2>1, <2>2 DEF IInv, TypeOK, MaxEvents
  <2>4. CappedLog'
    BY <2>2 DEF IInv, CappedLog, Capped, MaxEvents
  <2> QED
    BY <2>3, <2>4 DEF IInv
<1>2. ASSUME NEW t \in Threads, BeginRecord(t) PROVE IInv'
  <2>1. PICK p \in Principals, s \in Samples :
          call' = [call EXCEPT ![t] = [principal |-> p,
                      event |-> [at |-> clock, kind |-> s[1], place |-> s[2]]]]
    BY <1>2 DEF BeginRecord
  <2>2. [principal |-> p, event |-> [at |-> clock, kind |-> s[1], place |-> s[2]]]
          \in RecordCall
    BY DEF RecordCall, Event, IInv, TypeOK
  <2>3. TypeOK'
    BY <1>2, <2>1, <2>2 DEF BeginRecord, Goto, IInv, TypeOK, MaxEvents
  <2> QED
    BY <1>2, <2>3 DEF BeginRecord, IInv, CappedLog, Capped, MaxEvents
<1>3. ASSUME NEW t \in Threads, Record(t) PROVE IInv'
  <2> DEFINE p == call[t].principal
             e == call[t].event
             h == History(Capped(Append(Entry(p).events, e)), Entry(p).state)
  <2>1. pc[t] = "record" /\ p \in Principals /\ e \in Event
    BY <1>3 DEF Record, Goto, IInv, TypeOK, RecordCall
  <2>2. log[p] \in Seq(Event) /\ Append(log[p], e) \in Seq(Event)
    BY <2>1 DEF IInv, TypeOK
  <2>3. Capped(Append(Entry(p).events, e)) = Capped(Append(log[p], e))
    BY <2>1, <2>2, EntryFacts, CappedAppend
  <2>4. h \in PrincipalHistory /\ h.events = Capped(Append(log[p], e))
    BY <2>1, <2>2, <2>3, EntryFacts, CappedIsASuffix DEF History, PrincipalHistory
  <2>5. /\ map' = [map EXCEPT ![p] = h]
        /\ log' = [log EXCEPT ![p] = Append(log[p], e)]
    BY <1>3 DEF Record
  <2> HIDE DEF p, e, h
  <2>6. /\ map' \in [Principals -> {Absent} \cup PrincipalHistory]
        /\ \A q \in Principals : map'[q].present => Len(map'[q].events) <= MaxEvents
        /\ log' \in [Principals -> Seq(Event)]
        /\ CappedLog'
    BY <2>1, <2>2, <2>4, <2>5, OneHistory
  <2> QED
    BY <1>3, <2>6 DEF Record, Goto, IInv, TypeOK, MaxEvents
<1>4. ASSUME NEW t \in Threads, Get(t) PROVE IInv'
  <2>1. PICK p \in Principals :
          result' = Returned(IF map[p].present THEN Some(map[p].state) ELSE Nothing)
    BY <1>4 DEF Get
  <2>2. map[p].present => map[p].state \in SessionState
    BY PresentHistory DEF PrincipalHistory
  <2>3. TypeOK'
    BY <1>4, <2>1, <2>2 DEF Get, IInv, TypeOK, Returned, Some, MaxEvents
  <2> QED
    BY <1>4, <2>3 DEF Get, IInv, CappedLog, Capped, MaxEvents
<1>5. ASSUME NEW t \in Threads, Clear(t) PROVE IInv'
  <2>1. PICK p \in Principals :
          map' = [map EXCEPT ![p] = Absent] /\ log' = [log EXCEPT ![p] = <<>>]
    BY <1>5 DEF Clear
  <2>2. TypeOK'
    <3>1. UNCHANGED <<clock, pc, call>> /\ result' = NoResult
      BY <1>5 DEF Clear
    <3>2. /\ map' \in [Principals -> {Absent} \cup PrincipalHistory]
          /\ \A q \in Principals : map'[q].present => Len(map'[q].events) <= MaxEvents
      BY <2>1 DEF IInv, TypeOK, Absent
    <3>3. log' \in [Principals -> Seq(Event)]
      BY <2>1 DEF IInv, TypeOK
    <3> QED
      BY <3>1, <3>2, <3>3 DEF IInv, TypeOK, MaxEvents
  <2>3. CappedLog'
    BY <2>1 DEF IInv, TypeOK, CappedLog, Absent, Capped, MaxEvents
  <2> QED
    BY <2>2, <2>3 DEF IInv
<1>6. ASSUME NEW t \in Threads, BeginRecompute(t) PROVE IInv'
  <2>1. PICK p \in Principals :
          call' = [call EXCEPT ![t] = [principal |-> p, now |-> clock]]
    BY <1>6 DEF BeginRecompute
  <2>2. [principal |-> p, now |-> clock] \in RecomputeCall
    BY DEF RecomputeCall, IInv, TypeOK
  <2>3. TypeOK'
    BY <1>6, <2>1, <2>2 DEF BeginRecompute, Goto, IInv, TypeOK, MaxEvents
  <2> QED
    BY <1>6, <2>3 DEF BeginRecompute, IInv, CappedLog, Capped, MaxEvents
<1>7. ASSUME NEW t \in Threads, EnsurePrincipal(t) PROVE IInv'
  <2> DEFINE p == call[t].principal
  <2>1. pc[t] = "ensure" /\ p \in Principals
    BY <1>7, RecomputeFacts DEF EnsurePrincipal, Goto
  <2>2. map' = [map EXCEPT ![p] = Entry(p)] /\ log' = [log EXCEPT ![p] = log[p]]
    BY <1>7, <2>1 DEF EnsurePrincipal, IInv, TypeOK
  <2>3. log[p] \in Seq(Event)
    BY <2>1 DEF IInv, TypeOK
  <2>4. Entry(p) \in PrincipalHistory /\ Entry(p).events = Capped(log[p])
    BY <2>1, EntryFacts
  <2> HIDE DEF p
  <2>5. /\ map' \in [Principals -> {Absent} \cup PrincipalHistory]
        /\ \A q \in Principals : map'[q].present => Len(map'[q].events) <= MaxEvents
        /\ log' \in [Principals -> Seq(Event)]
        /\ CappedLog'
    BY <2>1, <2>2, <2>3, <2>4, OneHistory
  <2> QED
    BY <1>7, <2>5 DEF EnsurePrincipal, Goto, IInv, TypeOK, MaxEvents
<1>8. ASSUME NEW t \in Threads, RescorePresent(t) PROVE IInv'
  <2> DEFINE p == call[t].principal
             s == Score(map[p].events, call[t].now)
  <2>1. pc[t] = "rescore" /\ p \in Principals /\ s \in SessionState /\ map[p].present
    BY <1>8, RecomputeFacts DEF RescorePresent, Goto
  <2>2. map[p] \in PrincipalHistory /\ map[p].events = Capped(log[p])
    BY <2>1, PresentHistory
  <2>3. log[p] \in Seq(Event)
    BY <2>1 DEF IInv, TypeOK
  <2>4. /\ map' = [map EXCEPT ![p] = [map[p] EXCEPT !.state = s]]
        /\ log' = [log EXCEPT ![p] = log[p]]
    BY <1>8, <2>1 DEF RescorePresent, IInv, TypeOK
  <2>5. /\ [map[p] EXCEPT !.state = s] \in PrincipalHistory
        /\ [map[p] EXCEPT !.state = s].events = Capped(log[p])
    BY <2>1, <2>2 DEF PrincipalHistory
  <2>6. result' = Returned(Some(s))
    BY <1>8 DEF RescorePresent
  <2> HIDE DEF p, s
  <2>7. /\ map' \in [Principals -> {Absent} \cup PrincipalHistory]
        /\ \A q \in Principals : map'[q].present => Len(map'[q].events) <= MaxEvents
        /\ log' \in [Principals -> Seq(Event)]
        /\ CappedLog'
    BY <2>1, <2>3, <2>4, <2>5, OneHistory
  <2>8. /\ clock' = clock
        /\ pc' = [pc EXCEPT ![t] = "idle"]
        /\ call' = [call EXCEPT ![t] = NoCall]
    BY <1>8 DEF RescorePresent, Goto
  <2>9. /\ pc' \in [Threads -> {"idle", "record", "ensure", "rescore"}]
        /\ call' \in [Threads -> {NoCall} \cup RecordCall \cup RecomputeCall]
        /\ \A u \in Threads :
             /\ pc'[u] = "idle" => call'[u] = NoCall
             /\ pc'[u] = "record" => call'[u] \in RecordCall
             /\ pc'[u] \in {"ensure", "rescore"} => call'[u] \in RecomputeCall
    BY <2>8 DEF IInv, TypeOK
  <2>10. result' \in [returned : {TRUE},
                      value : {Nothing} \cup [some : {TRUE}, state : SessionState]]
    BY <2>1, <2>6 DEF Returned, Some
  <2> QED
    BY <2>7, <2>8, <2>9, <2>10 DEF IInv, TypeOK, MaxEvents
<1>9. ASSUME NEW t \in Threads, RescoreAbsent(t) PROVE IInv'
  <2>1. DefaultState \in SessionState
    BY DEF DefaultState, SessionState
  <2>2. TypeOK'
    BY <1>9, <2>1 DEF RescoreAbsent, Goto, IInv, TypeOK, Returned, Some, MaxEvents
  <2> QED
    BY <1>9, <2>2 DEF RescoreAbsent, IInv, CappedLog, Capped, MaxEvents
<1>10. CASE UNCHANGED vars
  BY <1>10 DEF vars, IInv, TypeOK, CappedLog, Capped, MaxEvents
<1> QED
  BY <1>1, <1>2, <1>3, <1>4, <1>5, <1>6, <1>7, <1>8, <1>9, <1>10 DEF Next, Step

\* The invariant holds whatever the threads interleave.
LEMMA Invariance == Spec => []IInv
BY InitIInv, NextIInv, PTL DEF Spec

\* Types, and the bound on what the store keeps per principal.
THEOREM TypeCorrect == Spec => []TypeOK
<1>1. IInv => TypeOK
  BY DEF IInv
<1> QED
  BY <1>1, Invariance, PTL

\* For any interleaving of any number of threads, a history holds the latest
\* events of its principal's log, in lock order.
THEOREM StoreRetainsLatest == Spec => []RetainsLatest
<1>1. IInv => RetainsLatest
  <2> SUFFICES ASSUME IInv, NEW p \in Principals, map[p].present
               PROVE  LET events == map[p].events
                          all    == Len(log[p])
                      IN  /\ Len(events) = IF all > MaxEvents THEN MaxEvents ELSE all
                          /\ \A k \in DOMAIN events :
                               events[k] = log[p][all - Len(events) + k]
    BY DEF IInv, CappedLog, RetainsLatest
  <2>1. map[p].events = Capped(log[p]) /\ log[p] \in Seq(Event)
    BY DEF IInv, TypeOK, CappedLog
  <2>2. Capped(log[p]) \in Seq(Event)
    BY <2>1, CappedIsASuffix
  <2>3. DOMAIN Capped(log[p]) = 1..Len(Capped(log[p]))
    BY <2>2, LenProperties
  <2> QED
    BY <2>1, <2>3, CappedIsASuffix
<1> QED
  BY <1>1, Invariance, PTL

----------------------------------------------------------------------------
(* Calls *)

\* Only its own second section ends a recompute, and only Record ends a record.
LEMMA WhoReturns ==
    ASSUME IInv, Next, NEW t \in Threads
    PROVE  /\ RecomputeReturns(t) => RescorePresent(t) \/ RescoreAbsent(t)
           /\ pc[t] = "record" /\ pc'[t] = "idle" => Record(t)
<1>1. pc \in [Threads -> {"idle", "record", "ensure", "rescore"}]
  BY DEF IInv, TypeOK
<1>2. CASE Tick
  BY <1>2 DEF Tick, RecomputeReturns
<1>3. ASSUME NEW u \in Threads, Step(u)
      PROVE  /\ RecomputeReturns(t) => RescorePresent(t) \/ RescoreAbsent(t)
             /\ pc[t] = "record" /\ pc'[t] = "idle" => Record(t)
  BY <1>1, <1>3 DEF Step, BeginRecord, Record, Get, Clear, BeginRecompute,
       EnsurePrincipal, RescorePresent, RescoreAbsent, Goto, RecomputeReturns
<1> QED
  BY <1>2, <1>3 DEF Next

\* recompute takes effect at one instant, whatever runs between its two
\* critical sections: what it returns and what it stores is the score of the log
\* in that step, and a principal that was cleared meanwhile stays cleared.
THEOREM RecomputeTakesEffectOnce == Spec => RecomputeIsAtomic
<1> DEFINE Atomic ==
      \A t \in Threads : RecomputeReturns(t) =>
          LET p == call[t].principal
              s == Score(Capped(log'[p]), call[t].now)
          IN  /\ result' = Returned(Some(s))
              /\ map' = [map EXCEPT ![p] = IF @.present THEN [@ EXCEPT !.state = s] ELSE @]
<1>1. IInv /\ [Next]_vars => [Atomic]_vars
  <2> SUFFICES ASSUME IInv, Next, NEW t \in Threads, RecomputeReturns(t)
               PROVE  LET p == call[t].principal
                          s == Score(Capped(log'[p]), call[t].now)
                      IN  /\ result' = Returned(Some(s))
                          /\ map' = [map EXCEPT ![p] =
                                       IF @.present THEN [@ EXCEPT !.state = s] ELSE @]
    OBVIOUS
  <2> DEFINE p == call[t].principal
             s == Score(Capped(log'[p]), call[t].now)
  <2>1. p \in Principals
    BY RecomputeFacts DEF RecomputeReturns
  <2>2. CASE RescorePresent(t)
    <3>1. map[p].events = Capped(log[p]) /\ log' = log /\ map[p] \in PrincipalHistory
      BY <2>1, <2>2, PresentHistory DEF RescorePresent
    <3>2. /\ result' = Returned(Some(s)) /\ map[p].present
          /\ map' = [map EXCEPT ![p] = [map[p] EXCEPT !.state = s]]
      BY <2>2, <3>1 DEF RescorePresent
    <3> HIDE DEF s
    <3>4. map' = [map EXCEPT ![p] = IF @.present THEN [@ EXCEPT !.state = s] ELSE @]
      BY <3>2
    <3> QED
      BY <3>2, <3>4 DEF s
  <2>3. CASE RescoreAbsent(t)
    <3>1. log'[p] = <<>> /\ result' = Returned(Some(DefaultState))
      BY <2>1, <2>3 DEF RescoreAbsent, IInv, CappedLog
    <3>2. result' = Returned(Some(s))
      BY <3>1, CappedEmpty, ScoreOfNothing
    <3>3. map' = map /\ ~map[p].present /\ DOMAIN map = Principals
          /\ map = [q \in Principals |-> map[q]]
      BY <2>3 DEF RescoreAbsent, IInv, TypeOK
    <3> HIDE DEF s
    <3>4. map' = [map EXCEPT ![p] = IF @.present THEN [@ EXCEPT !.state = s] ELSE @]
      BY <2>1, <3>3
    <3> QED
      BY <3>2, <3>4 DEF s
  <2> QED
    BY <2>2, <2>3, WhoReturns
<1> QED
  BY <1>1, Invariance, PTL DEF Spec, RecomputeIsAtomic

\* Except in a store made by SessionStore::default(), whose cap is zero, a
\* recorded event is in the history when record returns.
THEOREM RecordAppendsUnlessDefault ==
    ASSUME Constructor # "default" PROVE Spec => RecordAppends
<1> DEFINE Appends ==
      \A t \in Threads : (pc[t] = "record" /\ pc'[t] = "idle") =>
          LET events == map'[call[t].principal].events
          IN  events # <<>> /\ events[Len(events)] = call[t].event
<1>1. IInv /\ [Next]_vars => [Appends]_vars
  <2> SUFFICES ASSUME IInv, Next, NEW t \in Threads, pc[t] = "record", pc'[t] = "idle"
               PROVE  LET events == map'[call[t].principal].events
                      IN  events # <<>> /\ events[Len(events)] = call[t].event
    OBVIOUS
  <2> DEFINE p == call[t].principal
             e == call[t].event
             a == Append(Entry(p).events, e)
  <2>1. Record(t)
    BY WhoReturns
  <2>2. p \in Principals /\ e \in Event
    BY DEF IInv, TypeOK, RecordCall
  <2>3. Entry(p).events \in Seq(Event)
    BY <2>2, EntryFacts DEF PrincipalHistory
  <2>4. a \in Seq(Event) /\ Len(a) > 0 /\ Len(a) \in Nat /\ a[Len(a)] = e
    BY <2>2, <2>3
  <2>5. map'[p].events = Capped(a)
    BY <2>1, <2>2 DEF Record, History, IInv, TypeOK
  <2> HIDE DEF a
  <2>6. /\ Capped(a) \in Seq(Event)
        /\ Len(Capped(a)) \in 1..Len(a)
        /\ \A k \in 1..Len(Capped(a)) : Capped(a)[k] = a[Len(a) - Len(Capped(a)) + k]
    BY <2>4, CappedIsASuffix, MaxEventsType
  <2>7. Capped(a)[Len(Capped(a))] = a[Len(a) - Len(Capped(a)) + Len(Capped(a))]
    BY <2>6
  <2>8. Len(a) - Len(Capped(a)) + Len(Capped(a)) = Len(a)
    BY <2>4, <2>6
  <2>9. Capped(a) # <<>>
    BY <2>6
  <2> QED
    BY <2>4, <2>5, <2>7, <2>8, <2>9
<1> QED
  BY <1>1, Invariance, PTL DEF Spec, RecordAppends

----------------------------------------------------------------------------
(* Eviction and bursts *)

\* Any threshold reached makes the score at least the smallest weight.
LEMMA ThresholdsScore ==
    ASSUME NEW r \in Nat, NEW f \in Nat, NEW m \in Nat, NEW t \in BOOLEAN,
           r >= VelocityWarn \/ f >= FailedAuthBurst \/ m >= MfaFatigueCount
    PROVE  Points(r, f, m, t) >= 25
<1> DEFINE v == VelocityPoints(r)
           a == IF f >= FailedAuthBurst THEN 30 ELSE 0
           b == IF m >= MfaFatigueCount THEN 25 ELSE 0
           c == IF t THEN 50 ELSE 0
<1>1. v \in {0, 35, 55} /\ (r >= VelocityWarn => v >= 25)
  BY DEF VelocityPoints
<1>2. a \in {0, 30} /\ b \in {0, 25} /\ c \in {0, 50}
  OBVIOUS
<1>3. v >= 25 \/ a >= 25 \/ b >= 25
  BY <1>1
<1>4. Points(r, f, m, t) = IF v + a + b + c > 100 THEN 100 ELSE v + a + b + c
  BY DEF Points
<1> HIDE DEF v, a, b, c
<1>5. v + a + b + c >= 25
  BY <1>1, <1>2, <1>3
<1> QED
  BY <1>4, <1>5

\* Counting is not affected by dropping older events that do not count.
LEMMA CountOfSuffix ==
    ASSUME NEW s \in Seq(Event), NEW e \in Seq(Event), NEW d \in Nat,
           Len(s) = d + Len(e), \A k \in 1..Len(e) : e[k] = s[d + k],
           NEW kind, NEW since, \A i \in 1..d : ~(s[i].at >= since)
    PROVE  CountSince(s, kind, since) = CountSince(e, kind, since)
<1> DEFINE A == OfKindSince(e, kind, since)
           B == OfKindSince(s, kind, since)
           f == [k \in A |-> d + k]
<1>1. A \subseteq 1..Len(e) /\ B \subseteq 1..Len(s) /\ Len(e) \in Nat
  BY LenProperties DEF OfKindSince, OfKind
<1>2. \A k \in 1..Len(e) : k \in A <=> d + k \in B
  <2> SUFFICES ASSUME NEW k \in 1..Len(e) PROVE k \in A <=> d + k \in B
    OBVIOUS
  <2>1. k \in DOMAIN e /\ d + k \in DOMAIN s /\ e[k] = s[d + k]
    BY <1>1
  <2> QED
    BY <2>1 DEF OfKindSince, OfKind
<1>3. \A i \in B : i > d
  <2> SUFFICES ASSUME NEW i \in B, ~(i > d) PROVE FALSE
    OBVIOUS
  <2>1. i \in 1..d
    BY <1>1
  <2> QED
    BY <2>1 DEF OfKindSince
<1> HIDE DEF A, B
<1>4. \A k \in A : d + k \in B
  BY <1>1, <1>2
<1>5. \A i \in B : i - d \in A /\ d + (i - d) = i
  <2> SUFFICES ASSUME NEW i \in B PROVE i - d \in A /\ d + (i - d) = i
    OBVIOUS
  <2>1. i - d \in 1..Len(e) /\ d + (i - d) = i
    BY <1>1, <1>3
  <2> QED
    BY <1>2, <2>1
<1>6. f \in Bijection(A, B)
  <2>1. f \in [A -> B]
    BY <1>4
  <2>2. \A k, l \in A : f[k] = f[l] => k = l
    BY <1>1
  <2>3. \A i \in B : \E k \in A : f[k] = i
    BY <1>5
  <2> QED
    BY <2>1, <2>2, <2>3 DEF Bijection, Injection, Surjection, IsInjective
<1>7. IsFiniteSet(A)
  BY CountsAreNaturals DEF A
<1>8. Cardinality(B) = Cardinality(A)
  BY <1>6, <1>7, FS_Bijection DEF ExistsBijection
<1> QED
  BY <1>8 DEF CountSince, A, B

\* A full history of events of the last minute reaches one of the thresholds:
\* otherwise it would hold fewer events than it does.
LEMMA FullMinuteScores ==
    ASSUME CapOutnumbersThresholds,
           NEW e \in Seq(Event), Len(e) = MaxEvents, NEW now \in Int,
           \A k \in 1..Len(e) : e[k].at >= now - Minute
    PROVE  \/ CountSince(e, "Request", now - Minute) >= VelocityWarn
           \/ CountSince(e, "FailedAuth", now - Minute) >= FailedAuthBurst
           \/ CountSince(e, "MfaPrompt", now - MfaWindow) >= MfaFatigueCount
<1> DEFINE Q == OfKindSince(e, "Request", now - Minute)
           A == OfKindSince(e, "FailedAuth", now - Minute)
           M == OfKindSince(e, "MfaPrompt", now - MfaWindow)
<1>1. DOMAIN e = 1..Len(e) /\ Len(e) \in Nat
  BY LenProperties
<1>2. Q \cup A \cup M = 1..Len(e)
  <2> SUFFICES ASSUME NEW k \in 1..Len(e) PROVE k \in Q \cup A \cup M
    BY <1>1 DEF OfKindSince, OfKind
  <2>1. e[k] \in Event /\ e[k].at >= now - Minute
    BY <1>1
  <2>2. e[k].kind \in EventKind /\ e[k].at >= now - MfaWindow
    BY <2>1 DEF Event
  <2> QED
    BY <1>1, <2>1, <2>2 DEF EventKind, OfKindSince, OfKind
<1>3. IsFiniteSet(Q) /\ IsFiniteSet(A) /\ IsFiniteSet(M)
  BY CountsAreNaturals
<1>4. /\ Cardinality(Q) \in Nat /\ Cardinality(A) \in Nat /\ Cardinality(M) \in Nat
      /\ Cardinality(Q) = CountSince(e, "Request", now - Minute)
      /\ Cardinality(A) = CountSince(e, "FailedAuth", now - Minute)
      /\ Cardinality(M) = CountSince(e, "MfaPrompt", now - MfaWindow)
  BY <1>3, FS_CardinalityType DEF CountSince
<1> HIDE DEF Q, A, M
<1>5. /\ IsFiniteSet(Q \cup A)
      /\ Cardinality(Q \cup A) <= Cardinality(Q) + Cardinality(A)
  <2>1. Cardinality(Q \cap A) \in Nat
    BY <1>3, FS_Intersection, FS_CardinalityType
  <2>2. /\ IsFiniteSet(Q \cup A)
        /\ Cardinality(Q \cup A) = Cardinality(Q) + Cardinality(A) - Cardinality(Q \cap A)
    BY <1>3, FS_Union
  <2> QED
    BY <1>4, <2>1, <2>2
<1>6. Cardinality(Q \cup A \cup M) <= Cardinality(Q \cup A) + Cardinality(M)
  <2>1. Cardinality((Q \cup A) \cap M) \in Nat /\ Cardinality(Q \cup A) \in Nat
    BY <1>3, <1>5, FS_Intersection, FS_CardinalityType
  <2>2. Cardinality((Q \cup A) \cup M)
          = Cardinality(Q \cup A) + Cardinality(M) - Cardinality((Q \cup A) \cap M)
    BY <1>3, <1>5, FS_Union
  <2> QED
    BY <1>4, <2>1, <2>2
<1>7. Cardinality(Q \cup A \cup M) = MaxEvents /\ MaxEvents \in Nat
  <2>1. Cardinality(1..Len(e)) = Len(e)
    BY <1>1, FS_Interval
  <2> QED
    BY <1>2, <2>1, MaxEventsType
<1>8. Cardinality(Q \cup A) \in Nat
  BY <1>5, FS_CardinalityType
<1>9. MaxEvents <= Cardinality(Q) + Cardinality(A) + Cardinality(M)
  BY <1>4, <1>5, <1>6, <1>7, <1>8
<1> QED
  BY <1>4, <1>7, <1>9 DEF CapOutnumbersThresholds

\* If the log of a principal carries a signal of the last minute, so does what
\* the cap leaves of it, possibly another one.
LEMMA CappedLogScores ==
    ASSUME CapOutnumbersThresholds, NEW s \in Seq(Event), InOrder(s),
           NEW now \in Int, MinuteSignal(s, now)
    PROVE  Score(Capped(s), now).anomaly_score >= 25
<1> DEFINE e == Capped(s)
           d == Len(s) - Len(e)
           r == CountSince(e, "Request", now - Minute)
           f == CountSince(e, "FailedAuth", now - Minute)
           m == CountSince(e, "MfaPrompt", now - MfaWindow)
<1>1. /\ e \in Seq(Event) /\ Len(e) \in Nat /\ Len(s) \in Nat /\ d \in Nat
      /\ Len(s) = d + Len(e)
      /\ \A k \in 1..Len(e) : e[k] = s[d + k]
      /\ d > 0 => Len(e) = MaxEvents
  BY CappedIsASuffix, MaxEventsType
<1> HIDE DEF e, d
<1>2. r >= VelocityWarn \/ f >= FailedAuthBurst \/ m >= MfaFatigueCount
  <2>1. CASE \A i \in 1..d : ~(s[i].at >= now - Minute)
    <3> DEFINE since == now - Minute
    <3>1. ASSUME NEW kind PROVE CountSince(s, kind, since) = CountSince(e, kind, since)
      <4>1. \A i \in 1..d : ~(s[i].at >= since)
        BY <2>1
      <4> HIDE DEF since
      <4> QED
        BY ONLY <1>1, <4>1, s \in Seq(Event), CountOfSuffix
    <3> QED
      BY <3>1 DEF MinuteSignal
  <2>2. CASE \E i \in 1..d : s[i].at >= now - Minute
    <3>1. PICK i \in 1..d : s[i].at >= now - Minute
      BY <2>2
    <3>2. d > 0 /\ Len(e) = MaxEvents
      BY <1>1, <3>1
    <3>3. ASSUME NEW k \in 1..Len(e) PROVE e[k].at >= now - Minute
      <4>1. i \in DOMAIN s /\ d + k \in DOMAIN s /\ i < d + k
        BY <1>1, <3>1
      <4>2. s[i].at \in Int /\ s[d + k].at \in Int
        <5>1. s[i] \in Event /\ s[d + k] \in Event
          BY <4>1
        <5> QED
          BY <5>1 DEF Event
      <4>3. s[i].at <= s[d + k].at /\ e[k] = s[d + k]
        BY <1>1, <4>1 DEF InOrder
      <4> QED
        BY <3>1, <4>2, <4>3
    <3> QED
      BY <1>1, <3>2, <3>3, FullMinuteScores
  <2> QED
    BY <2>1, <2>2
<1>3. r \in Nat /\ f \in Nat /\ m \in Nat
  BY <1>1, CountsAreNaturals
<1>4. ImpossibleTravel(e) \in BOOLEAN
  BY DEF ImpossibleTravel
<1>5. Score(e, now).anomaly_score = Points(r, f, m, ImpossibleTravel(e))
  BY DEF Score
<1> HIDE DEF r, f, m
<1> QED
  BY <1>2, <1>3, <1>4, <1>5, ThresholdsScore DEF e

\* For every configuration whose cap outnumbers its thresholds, as the defaults
\* do, no flood of events can silence a burst of the last minute.
THEOREM NoBurstIsSilenced == Spec => []BurstSurvivesEviction
<1>1. IInv => BurstSurvivesEviction
  <2> SUFFICES ASSUME IInv, CapOutnumbersThresholds, NEW p \in Principals,
                      NEW now \in 0..MaxClock, InOrder(log[p]), map[p].present,
                      MinuteSignal(log[p], now)
               PROVE  Score(map[p].events, now).anomaly_score > 0
    BY DEF BurstSurvivesEviction
  <2>1. map[p].events = Capped(log[p]) /\ log[p] \in Seq(Event) /\ now \in Int
    BY DEF IInv, TypeOK, CappedLog
  <2>2. Score(map[p].events, now).anomaly_score >= 25
    BY <2>1, CappedLogScores
  <2>3. Score(map[p].events, now).anomaly_score \in Int
    <3>1. Score(map[p].events, now) \in SessionState
      BY <2>1, ScoreType, CappedIsASuffix
    <3> QED
      BY <3>1 DEF SessionState
  <2> QED
    BY <2>2, <2>3
<1> QED
  BY <1>1, Invariance, PTL

----------------------------------------------------------------------------
(* Impossible travel *)

\* A verdict on a sequence stands when an event is appended.
LEMMA TravelOfAppend ==
    ASSUME NEW s \in Seq(Event), NEW e \in Event, ImpossibleTravel(s)
    PROVE  ImpossibleTravel(Append(s, e))
<1> DEFINE a == Append(s, e)
<1>1. PICK i \in DOMAIN s, j \in DOMAIN s : Consecutive(s, i, j) /\ TooFast(s[i], s[j])
  BY DEF ImpossibleTravel
<1>2. /\ i \in 1..Len(s) /\ j \in 1..Len(s) /\ Len(s) \in Nat
      /\ DOMAIN a = 1..(Len(s) + 1)
      /\ \A k \in 1..Len(s) : a[k] = s[k]
  BY AppendProperties
<1> HIDE DEF a
<1>3. Consecutive(a, i, j)
  <2>1. ASSUME NEW k \in (i + 1)..(j - 1) PROVE k \in 1..Len(s)
    BY <1>2
  <2> QED
    BY <1>1, <1>2, <2>1 DEF Consecutive
<1>4. TooFast(a[i], a[j]) /\ i \in DOMAIN a /\ j \in DOMAIN a
  BY <1>1, <1>2
<1> QED
  BY <1>3, <1>4 DEF ImpossibleTravel, a

\* What a step does to one principal: nothing that matters here, or it clears
\* it, or it records an event.
LeftAlone(p) ==
    map'[p].present /\ map'[p].events = map[p].events /\ log'[p] = log[p]
Cleared(p) == ~map'[p].present /\ log'[p] = <<>>
Recorded(p) ==
    \E e \in Event :
        /\ map'[p].present /\ map'[p].events = Capped(Append(map[p].events, e))
        /\ map'[p].state = map[p].state
        /\ log'[p] = Append(log[p], e)

\* These three are all that a step can do to a principal that is present.
LEMMA StepOnPrincipal ==
    ASSUME IInv, Next, NEW p \in Principals, map[p].present
    PROVE  LeftAlone(p) \/ Cleared(p) \/ Recorded(p)
<1>1. CASE Tick
  BY <1>1 DEF Tick, LeftAlone
<1>2. ASSUME NEW t \in Threads, Record(t) PROVE Recorded(p) \/ LeftAlone(p)
  <2>1. call[t].event \in Event /\ call[t].principal \in Principals
    BY <1>2 DEF Record, Goto, IInv, TypeOK, RecordCall
  <2>2. CASE call[t].principal = p
    <3>1. Entry(p) = map[p]
      BY EntryFacts
    <3>2. /\ map'[p] = History(Capped(Append(map[p].events, call[t].event)), map[p].state)
          /\ log'[p] = Append(log[p], call[t].event)
      BY <1>2, <2>2, <3>1 DEF Record, IInv, TypeOK
    <3> QED
      BY <2>1, <3>2 DEF History, Recorded
  <2>3. CASE call[t].principal # p
    BY <1>2, <2>3 DEF Record, IInv, TypeOK, LeftAlone
  <2> QED
    BY <2>2, <2>3
<1>3. ASSUME NEW t \in Threads, Clear(t) PROVE Cleared(p) \/ LeftAlone(p)
  <2>1. PICK q \in Principals :
          map' = [map EXCEPT ![q] = Absent] /\ log' = [log EXCEPT ![q] = <<>>]
    BY <1>3 DEF Clear
  <2> QED
    BY <2>1 DEF IInv, TypeOK, Absent, Cleared, LeftAlone
<1>4. ASSUME NEW t \in Threads, EnsurePrincipal(t) PROVE LeftAlone(p)
  <2>1. Entry(p) = map[p]
    BY EntryFacts
  <2> QED
    BY <1>4, <2>1 DEF EnsurePrincipal, IInv, TypeOK, LeftAlone
<1>5. ASSUME NEW t \in Threads, RescorePresent(t) PROVE LeftAlone(p)
  <2>1. map[p] \in PrincipalHistory
    BY PresentHistory
  <2> QED
    BY <1>5, <2>1 DEF RescorePresent, IInv, TypeOK, PrincipalHistory, LeftAlone
<1>6. ASSUME NEW t \in Threads,
             BeginRecord(t) \/ Get(t) \/ BeginRecompute(t) \/ RescoreAbsent(t)
      PROVE  map' = map /\ log' = log
  BY <1>6 DEF BeginRecord, Get, BeginRecompute, RescoreAbsent
<1> QED
  BY <1>1, <1>2, <1>3, <1>4, <1>5, <1>6 DEF Next, Step, LeftAlone

\* An impossible-travel verdict outlives every interleaving of calls until the
\* principal is cleared or the cap evicts.
THEOREM TravelSticks == Spec => TravelForgottenOnlyByEviction
<1> DEFINE Sticks ==
      \A p \in Principals :
          (/\ map[p].present /\ ImpossibleTravel(map[p].events)
           /\ ~(map'[p].present /\ ImpossibleTravel(map'[p].events)))
          => \/ log'[p] = <<>>
             \/ Len(log'[p]) > MaxEvents /\ Len(log'[p]) > Len(log[p])
<1>1. IInv /\ [Next]_vars => [Sticks]_vars
  <2> SUFFICES ASSUME IInv, Next, NEW p \in Principals,
                      map[p].present, ImpossibleTravel(map[p].events),
                      ~(map'[p].present /\ ImpossibleTravel(map'[p].events))
               PROVE  \/ log'[p] = <<>>
                      \/ Len(log'[p]) > MaxEvents /\ Len(log'[p]) > Len(log[p])
    OBVIOUS
  <2>1. CASE LeftAlone(p)
    BY <2>1 DEF LeftAlone
  <2>2. CASE Cleared(p)
    BY <2>2 DEF Cleared
  <2>3. CASE Recorded(p)
    <3>1. PICK e \in Event : /\ map'[p].present
                             /\ map'[p].events = Capped(Append(map[p].events, e))
                             /\ log'[p] = Append(log[p], e)
      BY <2>3 DEF Recorded
    <3>2. /\ log[p] \in Seq(Event) /\ Len(log[p]) \in Nat /\ MaxEvents \in Nat
          /\ map[p].events = Capped(log[p])
      <4>1. log[p] \in Seq(Event)
        BY DEF IInv, TypeOK
      <4> QED
        BY <4>1, MaxEventsType, PresentHistory
    <3>4. Len(Append(log[p], e)) = Len(log[p]) + 1
      BY <3>2
    <3>3. CASE Len(log[p]) + 1 <= MaxEvents
      <4>1. Capped(log[p]) = log[p] /\ Capped(Append(log[p], e)) = Append(log[p], e)
        BY <3>2, <3>3, <3>4 DEF Capped
      <4>2. map'[p].events = Append(map[p].events, e)
        BY <3>1, <3>2, <4>1
      <4>3. ImpossibleTravel(map'[p].events)
        BY <3>2, <4>1, <4>2, TravelOfAppend
      <4> QED
        BY <3>1, <4>3
    <3> QED
      BY <3>1, <3>2, <3>3, <3>4
  <2> QED
    BY <2>1, <2>2, <2>3, StepOnPrincipal
<1> QED
  BY <1>1, Invariance, PTL DEF Spec, TravelForgottenOnlyByEviction

----------------------------------------------------------------------------
(* The kept state *)

\* p's state is the score of a beginning of its log, at a time already past.
Explained(p) ==
    \/ map[p].state = DefaultState
    \/ \E n \in 0..Len(log[p]), now \in 0..clock :
          map[p].state = Score(Capped(SubSeq(log[p], 1, n)), now)

\* A recompute scores for a time its caller has read: needed to explain the
\* state by a past time.
StateInv ==
    /\ IInv
    /\ StateOfThisIncarnation
    /\ \A t \in Threads : pc[t] \in {"ensure", "rescore"} => call[t].now \in 0..clock

\* An explanation of a state stays one while the log grows and time passes.
LEMMA ExplanationLasts ==
    ASSUME NEW l \in Seq(Event), NEW c \in Nat, NEW l2 \in Seq(Event), NEW c2 \in Nat,
           c <= c2, l2 = l \/ \E e \in Event : l2 = Append(l, e),
           NEW n \in 0..Len(l), NEW now \in 0..c
    PROVE  /\ n \in 0..Len(l2) /\ now \in 0..c2
           /\ SubSeq(l2, 1, n) = SubSeq(l, 1, n)
<1>1. CASE l2 = l
  BY <1>1
<1>2. ASSUME NEW e \in Event, l2 = Append(l, e)
      PROVE  n \in 0..Len(l2) /\ SubSeq(l2, 1, n) = SubSeq(l, 1, n)
  <2>1. Len(l2) = Len(l) + 1 /\ \A k \in 1..Len(l) : l2[k] = l[k]
    BY <1>2, AppendProperties
  <2>2. \A k \in 1..n : l[k] \in Event /\ l2[k] \in Event /\ l2[k] = l[k]
    BY <2>1
  <2>3. /\ SubSeq(l, 1, n) \in Seq(Event) /\ SubSeq(l2, 1, n) \in Seq(Event)
        /\ Len(SubSeq(l, 1, n)) = n /\ Len(SubSeq(l2, 1, n)) = n
        /\ \A k \in 1..n : SubSeq(l, 1, n)[k] = l[k] /\ SubSeq(l2, 1, n)[k] = l2[k]
    <3>1. n \in Int /\ 1 \in Int /\ n \in Nat
      OBVIOUS
    <3>2. n - 1 + 1 = n /\ \A k \in 1..n : 1 + k - 1 = k
      BY <3>1
    <3> QED
      BY <2>2, <3>1, <3>2, SubSeqProperties
  <2>4. n \in 0..Len(l2)
    BY <2>1
  <2> QED
    BY <2>2, <2>3, <2>4, SeqEqual
<1> QED
  BY <1>1, <1>2

\* The clock moves with Tick alone, and forwards.
LEMMA ClockAdvances ==
    ASSUME IInv, Next
    PROVE  clock \in Nat /\ clock' \in Nat /\ clock <= clock'
<1>1. clock \in Nat
  BY DEF IInv, TypeOK
<1>2. CASE Tick
  BY <1>1, <1>2 DEF Tick
<1>3. ASSUME NEW t \in Threads, Step(t) PROVE clock' = clock
  BY <1>3 DEF Step, BeginRecord, Record, Get, Clear, BeginRecompute,
              EnsurePrincipal, RescorePresent, RescoreAbsent
<1> QED
  BY <1>1, <1>2, <1>3 DEF Next

\* A state other than the default one that is new to a principal is written by
\* the second section of a recompute.
LEMMA WhoWritesState ==
    ASSUME IInv, Next, NEW p \in Principals, map'[p].present,
           ~(map[p].present /\ map'[p].state = map[p].state)
    PROVE  \/ ~map[p].present /\ map'[p].state = DefaultState
           \/ \E t \in Threads : RescorePresent(t) /\ call[t].principal = p
<1>1. \A q \in Principals :
        /\ map[q].present => Entry(q) = map[q]
        /\ ~map[q].present => Entry(q).state = DefaultState
  BY EntryFacts DEF Entry, NewHistory, History
<1>2. map \in [Principals -> {Absent} \cup PrincipalHistory]
  BY DEF IInv, TypeOK
<1>3. ASSUME NEW t \in Threads, Record(t)
      PROVE  ~map[p].present /\ map'[p].state = DefaultState
  <2>1. call[t].principal \in Principals
    BY <1>3 DEF Record, Goto, IInv, TypeOK, RecordCall
  <2>2. call[t].principal = p
    BY <1>2, <1>3, <2>1 DEF Record
  <2>3. map'[p].state = Entry(p).state
    BY <1>2, <1>3, <2>2 DEF Record, History
  <2> QED
    BY <1>1, <2>3
<1>4. ASSUME NEW t \in Threads, Clear(t) PROVE FALSE
  BY <1>2, <1>4 DEF Clear, Absent
<1>5. ASSUME NEW t \in Threads, EnsurePrincipal(t)
      PROVE  ~map[p].present /\ map'[p].state = DefaultState
  <2>1. call[t].principal = p /\ map'[p] = Entry(p)
    BY <1>2, <1>5 DEF EnsurePrincipal
  <2> QED
    BY <1>1, <2>1
<1>6. ASSUME NEW t \in Threads, RescorePresent(t) PROVE call[t].principal = p
  BY <1>2, <1>6 DEF RescorePresent
<1>7. ASSUME NEW t \in Threads,
             BeginRecord(t) \/ Get(t) \/ BeginRecompute(t) \/ RescoreAbsent(t)
      PROVE  FALSE
  BY <1>7 DEF BeginRecord, Get, BeginRecompute, RescoreAbsent
<1>8. ~Tick
  BY DEF Tick
<1> QED
  BY <1>3, <1>4, <1>5, <1>6, <1>7, <1>8 DEF Next, Step

\* Every step preserves the explanation of each stored state.
LEMMA NextStateInv == StateInv /\ [Next]_vars => StateInv'
<1> SUFFICES ASSUME StateInv, Next PROVE StateInv'
  <2> SUFFICES ASSUME StateInv, UNCHANGED vars PROVE StateInv'
    OBVIOUS
  <2>1. IInv'
    BY NextIInv DEF StateInv
  <2>2. StateOfThisIncarnation'
    <3>1. map' = map /\ log' = log /\ clock' = clock
      BY DEF vars
    <3>2. StateOfThisIncarnation
      BY DEF StateInv
    <3> QED
      BY ONLY <3>1, <3>2 DEF StateOfThisIncarnation, Capped, MaxEvents
  <2> QED
    BY <2>1, <2>2 DEF StateInv, vars
<1>1. IInv /\ IInv'
  BY NextIInv DEF StateInv
<1>2. /\ clock \in Nat /\ clock' \in Nat /\ clock <= clock'
  BY <1>1, ClockAdvances
<1>3. ASSUME NEW t \in Threads, pc'[t] \in {"ensure", "rescore"}
      PROVE  call'[t].now \in 0..clock'
  <2>1. \A c : c \in 0..clock => c \in 0..clock'
    BY <1>2
  <2>2. clock \in 0..clock'
    BY <1>2
  <2>3. CASE Tick
    BY <1>3, <2>1, <2>3 DEF Tick, StateInv
  <2>4. /\ pc \in [Threads -> {"idle", "record", "ensure", "rescore"}]
        /\ call \in [Threads -> {NoCall} \cup RecordCall \cup RecomputeCall]
    BY <1>1 DEF IInv, TypeOK
  <2>5. ASSUME NEW u \in Threads, BeginRecompute(u) PROVE call'[t].now \in 0..clock'
    <3>1. PICK p \in Principals : call' = [call EXCEPT ![u] = [principal |-> p, now |-> clock]]
      BY <2>5 DEF BeginRecompute
    <3>2. CASE u = t
      BY <2>2, <2>4, <3>1, <3>2
    <3>3. CASE u # t
      BY <1>3, <2>1, <2>4, <2>5, <3>1, <3>3 DEF BeginRecompute, Goto, StateInv
    <3> QED
      BY <3>2, <3>3
  <2>6. ASSUME NEW u \in Threads, Get(u) \/ Clear(u) \/ EnsurePrincipal(u)
        PROVE  call'[t].now \in 0..clock'
    BY <1>3, <2>1, <2>4, <2>6 DEF Get, Clear, EnsurePrincipal, Goto, StateInv
  <2>7. ASSUME NEW u \in Threads,
               BeginRecord(u) \/ Record(u) \/ RescorePresent(u) \/ RescoreAbsent(u)
        PROVE  call'[t].now \in 0..clock'
    <3>1. u # t /\ pc'[t] = pc[t]
      BY <1>3, <2>4, <2>7 DEF BeginRecord, Record, RescorePresent, RescoreAbsent, Goto
    <3>2. call'[t] = call[t]
      BY <2>4, <2>7, <3>1 DEF BeginRecord, Record, RescorePresent, RescoreAbsent
    <3> QED
      BY <1>3, <2>1, <3>1, <3>2 DEF StateInv
  <2> QED
    BY <2>3, <2>5, <2>6, <2>7 DEF Next, Step
<1>4. ASSUME NEW p \in Principals, map'[p].present,
             map[p].present, map'[p].state = map[p].state,
             log'[p] = log[p] \/ \E e \in Event : log'[p] = Append(log[p], e)
      PROVE  Explained(p)'
  <2>1. log[p] \in Seq(Event) /\ log'[p] \in Seq(Event)
    BY <1>1 DEF IInv, TypeOK
  <2>2. Explained(p)
    BY <1>4 DEF StateInv, StateOfThisIncarnation, Explained
  <2>3. ASSUME NEW n \in 0..Len(log[p]), NEW now \in 0..clock,
               map[p].state = Score(Capped(SubSeq(log[p], 1, n)), now)
        PROVE  Explained(p)'
    <3>1. /\ n \in 0..Len(log'[p]) /\ now \in 0..clock'
          /\ SubSeq(log'[p], 1, n) = SubSeq(log[p], 1, n)
      <4>1. now \in 0..clock'
        BY ONLY <1>2, now \in 0..clock
      <4>2. CASE log'[p] = log[p]
        BY <4>1, <4>2
      <4>3. ASSUME NEW e \in Event, log'[p] = Append(log[p], e)
            PROVE  /\ n \in 0..Len(log'[p])
                   /\ SubSeq(log'[p], 1, n) = SubSeq(log[p], 1, n)
        BY ONLY <2>1, <4>3, n \in 0..Len(log[p]), e \in Event, ExplanationLasts
      <4> QED
        BY <1>4, <4>1, <4>2, <4>3
    <3>2. map'[p].state = Score(Capped(SubSeq(log'[p], 1, n)), now)
      BY <1>4, <2>3, <3>1
    <3> QED
      BY <3>1, <3>2 DEF Explained, Capped, MaxEvents
  <2> QED
    BY <1>4, <2>2, <2>3 DEF Explained
<1>5. ASSUME NEW p \in Principals, map'[p].present PROVE Explained(p)'
  <2>1. CASE map[p].present /\ map'[p].state = map[p].state /\ ~Cleared(p)
    <3>1. LeftAlone(p) \/ Recorded(p)
      BY <1>1, <2>1, StepOnPrincipal
    <3> QED
      BY <1>4, <1>5, <2>1, <3>1 DEF LeftAlone, Recorded
  <2>2. ASSUME NEW t \in Threads, RescorePresent(t), call[t].principal = p
        PROVE  Explained(p)'
    <3>1. map[p] \in PrincipalHistory /\ map[p].events = Capped(log[p]) /\ log[p] \in Seq(Event)
      BY <1>1, <2>2, PresentHistory DEF RescorePresent, IInv, TypeOK
    <3>2. map'[p].state = Score(map[p].events, call[t].now) /\ log'[p] = log[p]
      BY <1>1, <2>2, <3>1 DEF RescorePresent, IInv, TypeOK, PrincipalHistory
    <3>3. call[t].now \in 0..clock'
      BY <1>2, <2>2 DEF RescorePresent, Goto, StateInv
    <3>4. SubSeq(log[p], 1, Len(log[p])) = log[p] /\ Len(log[p]) \in 0..Len(log[p])
      BY <3>1, SubSeqFull
    <3>5. map'[p].state = Score(Capped(SubSeq(log'[p], 1, Len(log'[p]))), call[t].now)
      BY <3>1, <3>2, <3>4
    <3>6. Len(log'[p]) \in 0..Len(log'[p])
      BY <3>2, <3>4
    <3> QED
      BY <3>3, <3>5, <3>6 DEF Explained, Capped, MaxEvents
  <2>3. CASE ~(map[p].present /\ map'[p].state = map[p].state)
    BY <1>1, <1>5, <2>2, <2>3, WhoWritesState DEF Explained
  <2>4. ~Cleared(p)
    BY <1>5 DEF Cleared
  <2> QED
    BY <2>1, <2>3, <2>4
<1>6. StateOfThisIncarnation'
  BY <1>5 DEF Explained, StateOfThisIncarnation
<1> QED
  BY <1>1, <1>3, <1>6 DEF StateInv

\* No interleaving of clear with the two sections of recompute leaves a
\* principal with a state that its own events do not explain.
THEOREM StateIsExplained == Spec => []StateOfThisIncarnation
<1>1. Init => StateInv
  BY InitIInv DEF StateInv, Init, StateOfThisIncarnation, Absent
<1>2. StateInv => StateOfThisIncarnation
  BY DEF StateInv
<1> QED
  BY <1>1, <1>2, NextStateInv, PTL DEF Spec

----------------------------------------------------------------------------
(* From the stored score to the rule that reads it *)

score == <<"session", "anomaly_score">>

LEMMA TailOfPair ==
    ASSUME NEW S, NEW a \in S, NEW b \in S PROVE Tail(<<a, b>>) = <<b>>
OBVIOUS

LEMMA PairOf ==
    ASSUME NEW S, NEW a \in S, NEW b \in S PROVE <<a>> \o <<b>> = <<a, b>>
<1> DEFINE r == <<a>>
           s == <<b>>
           t == <<a, b>>
           u == r \o s
<1>1. /\ r \in Seq(S) /\ s \in Seq(S) /\ t \in Seq(S)
      /\ Len(r) = 1 /\ Len(s) = 1 /\ Len(t) = 2
      /\ r[1] = a /\ s[1] = b /\ t[1] = a /\ t[2] = b
  OBVIOUS
<1> HIDE DEF r, s, t
<1>2. /\ u \in Seq(S) /\ Len(u) = Len(r) + Len(s)
      /\ \A i \in 1..(Len(r) + Len(s)) :
            u[i] = IF i <= Len(r) THEN r[i] ELSE s[i - Len(r)]
  BY <1>1, ConcatProperties
<1> HIDE DEF u
<1>3. Len(u) = 2 /\ u[1] = t[1] /\ u[2] = t[2]
  BY <1>1, <1>2
<1>4. u = t
  BY <1>1, <1>2, <1>3, SeqEqual
<1> QED
  BY <1>4 DEF r, s, t, u

\* A flat key of the session or the graph is looked up before anything else.
LEMMA FlatKeyResolves ==
    ASSUME NEW q, NEW space \in Computed, NEW name,
           <<space, name>> \in DOMAIN q.context
    PROVE  R!ResolveField(q, <<space, name>>) = R!Json(q.context[<<space, name>>])
<1> DEFINE path == <<space, name>>
<1>1. <<space>> \o Tail(path) = path
  <2>1. ASSUME NEW S, NEW a \in S, NEW b \in S PROVE <<a>> \o Tail(<<a, b>>) = <<a, b>>
    BY TailOfPair, PairOf
  <2>2. space \in {space, name} /\ name \in {space, name}
    OBVIOUS
  <2> QED
    BY ONLY <2>1, <2>2
<1>2. /\ R!Beyond(<<"principal", "attributes">>, path) = FALSE
      /\ R!Beyond(<<"resource", "attributes">>, path) = FALSE
      /\ R!Beyond(<<"context">>, path) = FALSE
      /\ R!Beyond(<<"session">>, path) = (space = "session")
      /\ R!Beyond(<<"graph">>, path) = (space = "graph")
  BY DEF Computed, R!Beyond, R!IsStrictPrefix, R!IsPrefix
<1>3. /\ path # <<"action">> /\ path # <<"principal", "id">>
      /\ path # <<"principal", "roles">> /\ path # <<"principal", "attributes">>
      /\ path # <<"resource", "type">> /\ path # <<"resource", "id">>
      /\ path # <<"resource", "attributes">> /\ path # <<"context">>
  BY DEF Computed
<1>4. R!ResolveField(q, path) = R!LookupNamespaced(q.context, space, Tail(path))
  <2> HIDE DEF path
  <2> QED
    BY <1>2, <1>3 DEF R!ResolveField, Computed
<1> QED
  BY <1>1, <1>4 DEF R!LookupNamespaced

\* The extractors leave every field of the state in the request, whatever was there.
LEMMA StateIsWritten ==
    ASSUME NEW p, NEW sent, NEW s, NEW field \in DOMAIN DefaultState
    PROVE  LET q   == Enriched(RequestOf(p, sent), s)
               key == <<"session", field>>
           IN  /\ key \in DOMAIN q.context
               /\ field = "anomaly_score" => q.context[key] = R!JFloat(s[field])
               /\ field \notin {"anomaly_score", "impossible_travel_detected"}
                    => q.context[key] = R!JInt(s[field])
<1> DEFINE key  == <<"session", field>>
           base == RequestOf(p, sent)
           one  == EnrichRequest(base, SessionContext(s))
           two  == EnrichRequest(one, GraphContext(GraphFacts[base.id[1]]))
<1>1. /\ key \in DOMAIN SessionContext(s)
      /\ field = "anomaly_score" => SessionContext(s)[key] = R!JFloat(s[field])
      /\ field \notin {"anomaly_score", "impossible_travel_detected"}
           => SessionContext(s)[key] = R!JInt(s[field])
  BY DEF SessionContext
<1>2. key \notin DOMAIN GraphContext(GraphFacts[base.id[1]])
  BY DEF GraphContext
<1>3. one.context = Keyed(SessionContext(s), sent)
  BY DEF EnrichRequest, RequestOf
<1>4. key \in DOMAIN one.context /\ one.context[key] = SessionContext(s)[key]
  BY <1>1, <1>3 DEF Keyed
<1>5. two.context = Keyed(GraphContext(GraphFacts[base.id[1]]), one.context)
  BY DEF EnrichRequest, RequestOf
<1>6. Enriched(base, s) = two
  BY DEF Enriched
<1> HIDE DEF base, one, two, key
<1>7. key \in DOMAIN two.context /\ two.context[key] = SessionContext(s)[key]
  BY <1>2, <1>4, <1>5 DEF Keyed
<1> QED
  BY <1>1, <1>6, <1>7 DEF base, key

\* The request holds this number, in this form, under the session's field.
HasNumber(q, field, n, form) ==
    /\ <<"session", field>> \in DOMAIN q.context
    /\ q.context[<<"session", field>>] = [num |-> n, form |-> form]

Guard(q, op, field, value) ==
    R!MatchRule(q, [field |-> <<"session", field>>, operator |-> op, value |-> value])

\* A rule on an extracted number compares the numbers, and an equality also how
\* the two are written.
LEMMA NumbersCompared ==
    ASSUME NEW q, NEW field, NEW v \in Int, NEW f, NEW n \in Int, NEW g,
           HasNumber(q, field, v, f)
    PROVE  /\ Guard(q, "GreaterThan", field, [num |-> n, form |-> g]) <=> v > n
           /\ Guard(q, "LessThan", field, [num |-> n, form |-> g]) <=> v < n
           /\ Guard(q, "Equals", field, [num |-> n, form |-> g]) <=> (v = n /\ f = g)
<1> DEFINE Rule(op) == [field |-> <<"session", field>>, operator |-> op,
                        value |-> [num |-> n, form |-> g]]
           rv == R!Json([num |-> v, form |-> f])
           t  == [num |-> n, form |-> g]
<1>1. R!ResolveField(q, <<"session", field>>) = rv
  BY FlatKeyResolves DEF Computed, HasNumber
<1>2. R!Substitute(q, t) = t
  BY DEF R!Substitute, R!SubstituteOne, R!Is
<1>3. rv # R!Absent
  BY DEF R!Json, R!Absent
<1>4. R!AsNumber(rv) = {v}
  BY DEF R!AsNumber, R!Is, R!Json
<1>5. R!TargetNumber(t) = {n}
  BY DEF R!TargetNumber, R!Is
<1>6. (t = [num |-> v, form |-> f]) <=> (v = n /\ f = g)
  OBVIOUS
<1>7. R!ValueEquals(rv, t) = (t = [num |-> v, form |-> f])
  BY DEF R!ValueEquals, R!Is, R!Json
<1> HIDE DEF rv, t
<1>8. \A op \in {"GreaterThan", "LessThan", "Equals"} :
        R!MatchRule(q, Rule(op)) = R!Compare(op, rv, t)
  <2>1. ASSUME NEW op \in {"GreaterThan", "LessThan", "Equals"}
        PROVE  R!MatchRule(q, Rule(op)) = (rv # R!Absent /\ R!Compare(op, rv, t))
    <3>1. Rule(op).field = <<"session", field>> /\ Rule(op).operator = op /\ Rule(op).value = t
      BY DEF t
    <3> HIDE DEF Rule
    <3> QED
      BY <1>1, <1>2, <3>1 DEF R!MatchRule
  <2>2. \A op \in {"GreaterThan", "LessThan", "Equals"} : R!Compare(op, rv, t) \in BOOLEAN
    <3>1. R!Compare("GreaterThan", rv, t) = R!GreaterThan(rv, t)
      BY DEF R!Compare
    <3>2. R!Compare("LessThan", rv, t) = R!LessThan(rv, t)
      BY DEF R!Compare
    <3>3. R!Compare("Equals", rv, t) = R!ValueEquals(rv, t)
      BY DEF R!Compare
    <3>4. /\ R!GreaterThan(rv, t) \in BOOLEAN /\ R!LessThan(rv, t) \in BOOLEAN
          /\ R!ValueEquals(rv, t) \in BOOLEAN
      BY <1>7 DEF R!GreaterThan, R!LessThan
    <3> QED
      BY <3>1, <3>2, <3>3, <3>4
  <2> HIDE DEF Rule
  <2> QED
    BY <1>3, <2>1, <2>2
<1>9. /\ R!Compare("GreaterThan", rv, t) <=> v > n
      /\ R!Compare("LessThan", rv, t) <=> v < n
      /\ R!Compare("Equals", rv, t) <=> (v = n /\ f = g)
  BY <1>4, <1>5, <1>6, <1>7 DEF R!Compare, R!GreaterThan, R!LessThan
<1> QED
  BY <1>8, <1>9 DEF t, Guard

\* The rule "the anomaly score is greater than n" then fires on a greater score.
LEMMA AnomalyRuleFires ==
    ASSUME NEW q, score \in DOMAIN q.context, NEW v \in Int, NEW n \in Int, v > n,
           q.context[score] = R!JFloat(v)
    PROVE  MatchRule(q, AnomalyAbove(n)) = TRUE
<1>1. Guard(q, "GreaterThan", "anomaly_score", [num |-> n, form |-> "float"])
  <2>1. HasNumber(q, "anomaly_score", v, "float")
    BY DEF score, R!JFloat, HasNumber
  <2> QED
    BY <2>1, NumbersCompared
<1>2. R!MatchRule(q, AnomalyAbove(n)) \in BOOLEAN
  BY DEF R!MatchRule, R!Compare, R!GreaterThan, AnomalyAbove
<1> QED
  BY <1>1, <1>2 DEF Guard, MatchRule, AnomalyAbove, R!JFloat

\* A file that denies on a rule which holds denies.
LEMMA DeniesOnDenies ==
    ASSUME NEW q, NEW rule, MatchRule(q, rule) = TRUE, DeniesOn(rule)
    PROVE  EffectFor(q) = "deny"
<1>1. PICK i \in DOMAIN Policies :
        Policies[i].effect = "deny" /\ Policies[i].actions = {}
          /\ Policies[i].match = << <<rule>> >>
  BY DEF DeniesOn
<1>2. P!InScope(q, Policies[i])
  BY <1>1 DEF P!InScope
<1>3. P!Failing(q, <<rule>>) = {}
  BY DEF P!Failing
<1>4. P!Matches(q, Policies[i])
  BY <1>1, <1>3 DEF P!Matches, P!GroupHolds
<1>5. i \in P!Hits(q, Policies, "deny")
  BY <1>1, <1>2, <1>4 DEF P!Hits, P!Applicable
<1> QED
  BY <1>5 DEF EffectFor

----------------------------------------------------------------------------
(* The inductive invariant *)

\* The state is the score of the log, and the answer was made from it.
Scored(basis) == basis.state = Score(Capped(basis.log), basis.now)

Decided ==
    /\ answer.request = Enriched(RequestOf(answer.basis.principal, answer.sent),
                                 answer.basis.state)
    /\ answer.effect = EffectFor(answer.request)

GDInv ==
    /\ IInv
    /\ held \in [Hosts -> {Nothing} \cup [some : {TRUE}, state : Basis]]
    /\ \A t \in Hosts : held[t].some => Scored(held[t].state)
    /\ answer.made => answer.basis \in Basis /\ Scored(answer.basis) /\ Decided

\* A recompute returns the score of the log as it is at that moment, also when
\* the principal was cleared between its two critical sections.
LEMMA ReturnedIsScored ==
    ASSUME IInv, NEW t \in Threads, RescorePresent(t) \/ RescoreAbsent(t)
    PROVE  LET b == [principal |-> call[t].principal, state |-> result'.value.state,
                     now |-> call[t].now, log |-> log[call[t].principal]]
           IN  b \in Basis /\ Scored(b)
<1> DEFINE p == call[t].principal
           n == call[t].now
<1>1. p \in Principals /\ n \in Int /\ log[p] \in Seq(Event)
  <2>1. pc[t] = "rescore"
    BY DEF RescorePresent, RescoreAbsent, Goto
  <2> QED
    BY <2>1, RecomputeFacts DEF IInv, TypeOK
<1>2. result'.value.state = Score(Capped(log[p]), n)
  <2>1. CASE RescorePresent(t)
    <3>1. map[p].present /\ result' = Returned(Some(Score(map[p].events, n)))
      BY <2>1 DEF RescorePresent
    <3>2. map[p].events = Capped(log[p])
      BY <1>1, <3>1, PresentHistory
    <3> QED
      BY <3>1, <3>2 DEF Returned, Some
  <2>2. CASE RescoreAbsent(t)
    <3>1. ~map[p].present /\ result' = Returned(Some(DefaultState))
      BY <2>2 DEF RescoreAbsent
    <3>2. log[p] = <<>>
      BY <1>1, <3>1 DEF IInv, CappedLog
    <3>3. Score(Capped(log[p]), n) = DefaultState
      BY <3>2, CappedEmpty, ScoreOfNothing
    <3> QED
      BY <3>1, <3>3 DEF Returned, Some
  <2> QED
    BY <2>1, <2>2
<1>3. Score(Capped(log[p]), n) \in SessionState
  BY <1>1, CappedIsASuffix, ScoreType
<1> HIDE DEF p, n
<1> QED
  BY <1>1, <1>2, <1>3 DEF Basis, Scored, p, n

LEMMA NextGDInv == GDInv /\ [GDNext]_gdVars => GDInv'
<1> SUFFICES ASSUME GDInv, [GDNext]_gdVars PROVE GDInv'
  OBVIOUS
<1> USE DEF GDInv
<1>1. CASE StoreStep
  <2>1. /\ answer' = NoAnswer
        /\ \/ Tick /\ UNCHANGED held
           \/ \E t \in Threads :
                \/ (Step(t) /\ UNCHANGED held)
                \/ /\ RescorePresent(t) \/ RescoreAbsent(t)
                   /\ held' = [h \in Hosts |->
                         IF h # t THEN held[h]
                         ELSE Some([principal |-> call[t].principal,
                                    state     |-> result'.value.state,
                                    now       |-> call[t].now,
                                    log       |-> log[call[t].principal]])]
    BY <1>1 DEF StoreStep, Step
  <2>2. ~answer'.made
    BY <2>1 DEF NoAnswer
  <2>3. IInv'
    <3>1. Next
      BY <2>1 DEF Next, Step
    <3> QED
      BY <3>1, NextIInv
  <2>4. CASE UNCHANGED held
    BY <2>2, <2>3, <2>4 DEF Scored, Capped, MaxEvents
  <2>5. ASSUME NEW t \in Threads, RescorePresent(t) \/ RescoreAbsent(t),
               held' = [h \in Hosts |->
                  IF h # t THEN held[h]
                  ELSE Some([principal |-> call[t].principal,
                             state     |-> result'.value.state,
                             now       |-> call[t].now,
                             log       |-> log[call[t].principal]])]
        PROVE  /\ held' \in [Hosts -> {Nothing} \cup [some : {TRUE}, state : Basis]]
               /\ \A h \in Hosts : held'[h].some => Scored(held'[h].state)
    <3> DEFINE b == [principal |-> call[t].principal, state |-> result'.value.state,
                     now |-> call[t].now, log |-> log[call[t].principal]]
    <3>1. b \in Basis /\ Scored(b)
      BY <2>5, ReturnedIsScored
    <3> HIDE DEF b
    <3>2. held' = [h \in Hosts |-> IF h # t THEN held[h] ELSE Some(b)]
      BY <2>5 DEF b
    <3>3. Some(b) \in [some : {TRUE}, state : Basis] /\ Some(b).state = b
      BY <3>1 DEF Some
    <3>4. \A h \in Hosts : held'[h] = IF h # t THEN held[h] ELSE Some(b)
      BY <3>2
    <3> QED
      BY <3>1, <3>2, <3>3, <3>4
  <2> QED
    BY <2>1, <2>2, <2>3, <2>4, <2>5 DEF Scored, Capped, MaxEvents
<1>2. ASSUME NEW t \in Hosts, Decide(t) PROVE GDInv'
  <2>1. PICK context \in Callers :
          LET b == held[t].state
              q == Enriched(RequestOf(b.principal, context), b.state)
          IN  answer' = [made |-> TRUE, basis |-> b, sent |-> context,
                         request |-> q, effect |-> EffectFor(q)]
    BY <1>2 DEF Decide
  <2>2. held[t].some /\ held' = [held EXCEPT ![t] = Nothing] /\ UNCHANGED vars
    BY <1>2 DEF Decide
  <2>3. IInv'
    BY <2>2, NextIInv
  <2>4. held[t].state \in Basis /\ Scored(held[t].state)
    <3>1. held[t] \in {Nothing} \cup [some : {TRUE}, state : Basis]
      OBVIOUS
    <3>2. held[t] # Nothing
      BY <2>2 DEF Nothing
    <3> QED
      BY <2>2, <3>1, <3>2
  <2>5. answer'.basis \in Basis /\ Scored(answer'.basis) /\ Decided'
    BY <2>1, <2>4 DEF Decided
  <2>6. /\ held' \in [Hosts -> {Nothing} \cup [some : {TRUE}, state : Basis]]
        /\ \A h \in Hosts : held'[h].some => Scored(held'[h].state)
    BY <2>2 DEF Nothing
  <2> QED
    BY <2>3, <2>5, <2>6
<1>3. CASE UNCHANGED gdVars
  <2>1. UNCHANGED <<vars, held, answer>>
    BY <1>3 DEF gdVars
  <2>2. IInv'
    BY <2>1, NextIInv
  <2> QED
    BY <2>1, <2>2 DEF Scored, Decided
<1> QED
  BY <1>1, <1>2, <1>3 DEF GDNext

LEMMA GDInvariance == GDSpec => []GDInv
<1>1. GDInit => GDInv
  BY InitIInv DEF GDInit, GDInv, NoAnswer, Nothing
<1> QED
  BY <1>1, NextGDInv, PTL DEF GDSpec

\* Types of what the hosts hold and answer.
THEOREM HostsTypeCorrect == GDSpec => []GDTypeOK
<1>1. GDInv => GDTypeOK
  BY DEF GDInv, IInv, GDTypeOK, Decided, EffectFor
<1> QED
  BY <1>1, GDInvariance, PTL

\* From the events to the decision, for any threads, callers and graph facts, any
\* other policies of the file and any windows and thresholds that the cap
\* outnumbers: a recent burst is denied by a deny on any anomaly.
THEOREM BurstsAreDenied == GDSpec => []BurstIsDenied
<1>1. GDInv => BurstIsDenied
  <2> SUFFICES ASSUME GDInv, answer.made, CapOutnumbersThresholds,
                      NEW n \in 0..24, DeniesOn(AnomalyAbove(n)),
                      InOrder(answer.basis.log),
                      MinuteSignal(answer.basis.log, answer.basis.now)
               PROVE  answer.effect = "deny"
    BY DEF BurstIsDenied
  <2> DEFINE b == answer.basis
             v == b.state.anomaly_score
             q == Enriched(RequestOf(b.principal, answer.sent), b.state)
  <2>1. b \in Basis /\ Scored(b)
    BY DEF GDInv
  <2>2. b.log \in Seq(Event) /\ b.now \in Int /\ b.state \in SessionState
    BY <2>1 DEF Basis
  <2>3. v >= 25
    BY <2>1, <2>2, CappedLogScores DEF Scored
  <2>4. v \in Int
    <3>1. \A s \in SessionState : s.anomaly_score \in Int
      BY DEF SessionState
    <3> QED
      BY <2>2, <3>1
  <2>5. score \in DOMAIN q.context /\ q.context[score] = R!JFloat(v)
    BY StateIsWritten DEF score, DefaultState
  <2>6. MatchRule(q, AnomalyAbove(n)) = TRUE
    <3> HIDE DEF q, v
    <3>1. v > n /\ n \in Int
      BY <2>3, <2>4
    <3> QED
      BY <2>4, <2>5, <3>1, AnomalyRuleFires
  <2>7. EffectFor(q) = "deny"
    BY <2>6, DeniesOnDenies
  <2> QED
    BY <2>7 DEF GDInv, Decided
<1> QED
  BY <1>1, GDInvariance, PTL

----------------------------------------------------------------------------
(* Two callers in the same state *)

\* Requests that differ in their context only, and not in what is extracted.
Alike(q1, q2) ==
    /\ <<q1.action, q1.id, q1.roles, q1.rtype, q1.rid, q1.pattrs, q1.rattrs>>
         = <<q2.action, q2.id, q2.roles, q2.rtype, q2.rid, q2.pattrs, q2.rattrs>>
    /\ \A k \in Extracted :
          k \in DOMAIN q1.context /\ k \in DOMAIN q2.context /\ q1.context[k] = q2.context[k]

\* Only paths that begin with a segment lie beyond it.
LEMMA BeyondBeginsWith ==
    ASSUME NEW segment, NEW path, R!Beyond(<<segment>>, path)
    PROVE  Head(path) = segment
<1> DEFINE s == SubSeq(<<segment>>, 1, 1)
           t == SubSeq(path, 1, 1)
<1>1. s = t
  BY DEF R!Beyond, R!IsStrictPrefix, R!IsPrefix
<1>2. s[1] = <<segment>>[1]
  <2>1. \A i \in 1..1 : <<segment>>[i] \in {segment}
    OBVIOUS
  <2> QED
    BY <2>1, SubSeqProperties
<1>3. t[1] = path[1]
  <2>1. \A i \in 1..1 : path[i] \in {path[1]}
    OBVIOUS
  <2> QED
    BY <2>1, SubSeqProperties
<1> HIDE DEF s, t
<1> QED
  BY <1>1, <1>2, <1>3

\* A field of a file that uses extracted keys only is the same in both.
LEMMA FieldsAlike ==
    ASSUME NEW q1, NEW q2, Alike(q1, q2), NEW path,
           Head(path) \in Computed => path \in Extracted, Head(path) # "context"
    PROVE  R!ResolveField(q1, path) = R!ResolveField(q2, path)
<1>1. CASE path \in Extracted
  <2>1. PICK space \in Computed : \E name : path = <<space, name>>
    BY <1>1 DEF Extracted, Computed
  <2>2. /\ path \in DOMAIN q1.context /\ path \in DOMAIN q2.context
        /\ q1.context[path] = q2.context[path]
    BY <1>1 DEF Alike
  <2>3. \A q : path \in DOMAIN q.context => R!ResolveField(q, path) = R!Json(q.context[path])
    BY <2>1, FlatKeyResolves
  <2> QED
    BY <2>2, <2>3
<1>2. CASE path \notin Extracted
  <2>1. /\ ~R!Beyond(<<"context">>, path) /\ ~R!Beyond(<<"session">>, path)
        /\ ~R!Beyond(<<"graph">>, path)
    BY <1>2, BeyondBeginsWith DEF Computed
  <2>2. path # <<"context">>
    OBVIOUS
  <2>3. /\ q1.action = q2.action /\ q1.id = q2.id /\ q1.roles = q2.roles
        /\ q1.rtype = q2.rtype /\ q1.rid = q2.rid
        /\ q1.pattrs = q2.pattrs /\ q1.rattrs = q2.rattrs
    BY DEF Alike
  <2> QED
    BY <2>1, <2>2, <2>3 DEF R!ResolveField
<1> QED
  BY <1>1, <1>2

\* So is the outcome of a rule whose value is written out.
LEMMA RulesAlike ==
    ASSUME NEW q1, NEW q2, Alike(q1, q2), NEW rule,
           Head(rule.field) \in Computed => rule.field \in Extracted,
           Head(rule.field) # "context",
           \A kind \in {"ref", "pieces", "items"} : ~R!Is(kind, rule.value)
    PROVE  MatchRule(q1, rule) = MatchRule(q2, rule)
<1>1. R!ResolveField(q1, rule.field) = R!ResolveField(q2, rule.field)
  BY FieldsAlike
<1>2. R!Substitute(q1, rule.value) = rule.value /\ R!Substitute(q2, rule.value) = rule.value
  BY DEF R!Substitute, R!SubstituteOne
<1> QED
  BY <1>1, <1>2 DEF MatchRule, R!MatchRule

\* And so is the decision.
LEMMA EffectsAlike ==
    ASSUME NEW q1, NEW q2, Alike(q1, q2), UsesExtractedKeysOnly
    PROVE  EffectFor(q1) = EffectFor(q2)
<1>1. ASSUME NEW i \in DOMAIN Policies, NEW g \in DOMAIN Policies[i].match
      PROVE  P!GroupHolds(q1, Policies[i].match[g]) <=> P!GroupHolds(q2, Policies[i].match[g])
  <2> DEFINE group == Policies[i].match[g]
  <2>1. \A k \in DOMAIN group : MatchRule(q1, group[k]) = MatchRule(q2, group[k])
    BY RulesAlike DEF UsesExtractedKeysOnly
  <2> HIDE DEF group
  <2>2. P!Failing(q1, group) = P!Failing(q2, group)
    BY <2>1 DEF P!Failing
  <2> QED
    BY <2>2 DEF P!GroupHolds, group
<1>2. \A i \in DOMAIN Policies :
        /\ P!InScope(q1, Policies[i]) <=> P!InScope(q2, Policies[i])
        /\ P!Matches(q1, Policies[i]) <=> P!Matches(q2, Policies[i])
  BY <1>1 DEF P!InScope, P!Matches, Alike
<1>3. \A effect : P!Hits(q1, Policies, effect) = P!Hits(q2, Policies, effect)
  BY <1>2 DEF P!Hits, P!Applicable
<1> QED
  BY <1>3 DEF EffectFor

\* The extractors overwrite every extracted key, whatever the caller sent.
LEMMA EnrichedAlike ==
    ASSUME NEW p \in Principals, NEW s, NEW sent1, NEW sent2
    PROVE  Alike(Enriched(RequestOf(p, sent1), s), Enriched(RequestOf(p, sent2), s))
<1> DEFINE G == GraphContext(GraphFacts[p])
           S == SessionContext(s)
           Base(sent) == RequestOf(p, sent)
           context(sent) == Keyed(G, Keyed(S, sent))
<1>1. /\ DOMAIN S = {<<"session", field>> : field \in DOMAIN DefaultState}
      /\ DOMAIN G = {<<"graph", field>> : field \in GraphFields}
  BY HostsAssumption DEF SessionContext, GraphContext
<1> HIDE DEF G, S
<1>2. ASSUME NEW sent
      PROVE  LET q == Enriched(Base(sent), s)
             IN  /\ q.context = context(sent)
                 /\ <<q.action, q.id, q.roles, q.rtype, q.rid, q.pattrs, q.rattrs>>
                       = << <<"read">>, <<p>>, <<>>, <<"doc">>, <<"doc">>, <<>>, <<>> >>
  <2> DEFINE one == EnrichRequest(Base(sent), S)
  <2>1. /\ one.context = Keyed(S, sent)
        /\ <<one.action, one.id, one.roles, one.rtype, one.rid, one.pattrs, one.rattrs>>
              = << <<"read">>, <<p>>, <<>>, <<"doc">>, <<"doc">>, <<>>, <<>> >>
    BY DEF EnrichRequest, RequestOf
  <2>2. Enriched(Base(sent), s) = EnrichRequest(one, G)
    BY DEF Enriched, RequestOf, G, S
  <2>3. one = [action |-> <<"read">>, id |-> <<p>>, roles |-> <<>>, rtype |-> <<"doc">>,
               rid |-> <<"doc">>, pattrs |-> <<>>, rattrs |-> <<>>, context |-> Keyed(S, sent)]
    BY ONLY <2>1 DEF EnrichRequest, RequestOf
  <2> HIDE DEF one
  <2> QED
    BY <2>2, <2>3 DEF EnrichRequest
<1>3. ASSUME NEW sent, NEW k \in Extracted
      PROVE  k \in DOMAIN context(sent)
             /\ context(sent)[k] = IF k \in DOMAIN G THEN G[k] ELSE S[k]
  BY <1>1, <1>3 DEF Keyed, Extracted
<1> QED
  BY <1>2, <1>3 DEF Alike

\* For any threads, callers, graph facts and files that name extracted keys only
\* under session and graph: a decision does not depend on the caller's context.
THEOREM CallersNeverDecide == GDSpec => []CallerNeverDecides
<1>1. GDInv => CallerNeverDecides
  <2> SUFFICES ASSUME GDInv, answer.made, UsesExtractedKeysOnly
               PROVE  answer.effect
                 = EffectFor(Enriched(RequestOf(answer.basis.principal, <<>>), answer.basis.state))
    BY DEF CallerNeverDecides
  <2>1. answer.basis.principal \in Principals
    BY DEF GDInv, Basis
  <2> QED
    BY <2>1, EnrichedAlike, EffectsAlike DEF GDInv, Decided
<1> QED
  BY <1>1, GDInvariance, PTL

\* Whatever the thresholds and the callers: a guard on the score or on a count
\* compares the number the store returned.
THEOREM GuardsReadTheStoredNumber == GDSpec => []GuardsReadTheState
<1>1. GDInv => GuardsReadTheState
  <2> SUFFICES ASSUME GDInv, answer.made,
                      NEW field \in DOMAIN DefaultState \ {"impossible_travel_detected"},
                      NEW n \in 0..3 \cup {100}
               PROVE  LET stored == answer.basis.state[field]
                      IN  /\ \A target \in {R!JInt(n), R!JFloat(n)} :
                                /\ Holds("GreaterThan", field, target) <=> stored > n
                                /\ Holds("LessThan", field, target) <=> stored < n
                          /\ Holds("Equals", field, R!JInt(n))
                                <=> stored = n /\ field # "anomaly_score"
    BY DEF GuardsReadTheState
  <2> DEFINE s == answer.basis.state
             q == answer.request
             form == IF field = "anomaly_score" THEN "float" ELSE "int"
             key == <<"session", field>>
  <2>1. s \in SessionState
    BY DEF GDInv, Basis
  <2>2. s[field] \in Int
    <3>1. field \in {"anomaly_score", "failed_auth_count", "request_count", "requests_last_minute"}
      BY DEF DefaultState
    <3> QED
      BY <2>1, <3>1 DEF SessionState
  <2>3. HasNumber(q, field, s[field], form)
    <3>1. q = Enriched(RequestOf(answer.basis.principal, answer.sent), s)
      BY DEF GDInv, Decided
    <3> HIDE DEF q, s
    <3>2. /\ key \in DOMAIN q.context
          /\ field = "anomaly_score" => q.context[key] = R!JFloat(s[field])
          /\ field \notin {"anomaly_score", "impossible_travel_detected"}
               => q.context[key] = R!JInt(s[field])
      BY <3>1, StateIsWritten
    <3> QED
      BY <3>2 DEF R!JInt, R!JFloat, HasNumber
  <2>4. n \in Int
    OBVIOUS
  <2> HIDE DEF s, q, form
  <2>5. ASSUME NEW g
        PROVE  /\ Holds("GreaterThan", field, [num |-> n, form |-> g]) <=> s[field] > n
               /\ Holds("LessThan", field, [num |-> n, form |-> g]) <=> s[field] < n
               /\ Holds("Equals", field, [num |-> n, form |-> g])
                    <=> (s[field] = n /\ form = g)
    BY ONLY <2>2, <2>3, <2>4, NumbersCompared DEF Holds, Guard, q
  <2> QED
    BY <2>5 DEF s, form, R!JInt, R!JFloat
<1> QED
  BY <1>1, GDInvariance, PTL
=============================================================================

---------------------------- MODULE SessionScore ----------------------------
(***************************************************************************)
(* BehaviorAnalyzer::score: what a principal's retained events say about   *)
(* its session as of a caller-supplied time                                *)
(* (crates/lovebird-session/src/analyzer.rs).                              *)
(*                                                                         *)
(* Scores are in hundredths.  A distance is what an actor covers between   *)
(* two places, in units of MaxSpeed per tick, so that the haversine        *)
(* formula is a parameter and the speed test is kept.                      *)
(***************************************************************************)
EXTENDS Integers, Sequences, FiniteSets

CONSTANTS
    Places, Nowhere,    \* geo samples, and an event without coordinates
    Distance,           \* Distance[a, b] between two places
    Minute,             \* the hard-coded 60 seconds
    VelocityWarn, VelocitySpike, FailedAuthBurst,
    MfaFatigueCount, MfaWindow,
    MaxSpeed, MinTravelInterval

\* The windows of BehaviorConfig, which nothing validates; its defaults satisfy
\* these relations.
ASSUME ConfigAssumption ==
    /\ Minute \in Nat /\ MfaWindow \in Nat /\ Minute <= MfaWindow
    /\ VelocityWarn \in Nat \ {0} /\ VelocitySpike \in Nat
    /\ VelocityWarn <= VelocitySpike
    /\ FailedAuthBurst \in Nat \ {0} /\ MfaFatigueCount \in Nat \ {0}
    /\ MaxSpeed \in Nat /\ MinTravelInterval \in Nat
ASSUME PlacesAssumption ==
    /\ Nowhere \notin Places
    /\ Distance \in [Places \X Places -> Nat]

EventKind == {"Request", "FailedAuth", "MfaPrompt"}
Event == [at : Int, kind : EventKind, place : Places \cup {Nowhere}]

OfKind(events, kind) == {k \in DOMAIN events : events[k].kind = kind}
OfKindSince(events, kind, since) ==
    {k \in OfKind(events, kind) : events[k].at >= since}
CountSince(events, kind, since) == Cardinality(OfKindSince(events, kind, since))

----------------------------------------------------------------------------
(* detect_impossible_travel *)

\* Two located events with no located event between them: what "last" pairs.
\* The order is that of arrival, whatever the timestamps.
Consecutive(events, i, j) ==
    /\ i < j
    /\ events[i].place # Nowhere /\ events[j].place # Nowhere
    /\ \A k \in (i + 1)..(j - 1) : events[k].place = Nowhere

\* Samples closer than the minimum interval, or out of order, are not compared.
TooFast(e, f) ==
    LET dt == f.at - e.at
    IN  /\ dt >= MinTravelInterval /\ dt > 0
        /\ Distance[e.place, f.place] > MaxSpeed * dt

ImpossibleTravel(events) ==
    \E i, j \in DOMAIN events :
        Consecutive(events, i, j) /\ TooFast(events[i], events[j])

----------------------------------------------------------------------------
(* score *)

VelocityPoints(requests) ==
    IF requests >= VelocitySpike THEN 55
    ELSE IF requests >= VelocityWarn THEN 35
    ELSE 0

\* Mutant: the sum is not clamped.
Points_NoClamp(requests, failed, mfa, travel) ==
    VelocityPoints(requests)
      + (IF failed >= FailedAuthBurst THEN 30 ELSE 0)
      + (IF mfa >= MfaFatigueCount THEN 25 ELSE 0)
      + (IF travel THEN 50 ELSE 0)

Points(requests, failed, mfa, travel) ==
    LET sum == VelocityPoints(requests)
             + (IF failed >= FailedAuthBurst THEN 30 ELSE 0)
             + (IF mfa >= MfaFatigueCount THEN 25 ELSE 0)
             + (IF travel THEN 50 ELSE 0)
    IN  IF sum > 100 THEN 100 ELSE sum

Score(events, now) ==
    LET requests == CountSince(events, "Request", now - Minute)
        failed   == CountSince(events, "FailedAuth", now - Minute)
        mfa      == CountSince(events, "MfaPrompt", now - MfaWindow)
        travel   == ImpossibleTravel(events)
    IN  [anomaly_score              |-> Points(requests, failed, mfa, travel),
         impossible_travel_detected |-> travel,
         failed_auth_count    |-> Cardinality(OfKind(events, "FailedAuth")),
         request_count        |-> Cardinality(OfKind(events, "Request")),
         requests_last_minute |-> requests]

SessionState ==
    [anomaly_score : 0..100, impossible_travel_detected : BOOLEAN,
     failed_auth_count : Nat, request_count : Nat, requests_last_minute : Nat]

\* SessionState::default()
DefaultState ==
    [anomaly_score |-> 0, impossible_travel_detected |-> FALSE,
     failed_auth_count |-> 0, request_count |-> 0, requests_last_minute |-> 0]

\* One of the two signals over the last minute is on.
MinuteSignal(events, now) ==
    \/ CountSince(events, "Request", now - Minute) >= VelocityWarn
    \/ CountSince(events, "FailedAuth", now - Minute) >= FailedAuthBurst
=============================================================================

---------------------------- MODULE SidecarProofs ----------------------------
(***************************************************************************)
(* Theorems about Sidecar, for any set of calls, any files and any number  *)
(* of processes: whoever gets a value gets the decisions of one valid      *)
(* list.                                                                   *)
(***************************************************************************)
EXTENDS Sidecar, SequenceTheorems, TLAPS

Body     == Seq(Requests \cup {Junk})
Verdicts == {Verdict(list, q) : list \in Files, q \in Requests \cup {Junk}}
Place    == {"queued", "reading", "handling", "answered"}

Job == [at : Place, op : {"evaluate", "batch", "policies"}, body : Body,
        decided : Seq(Verdicts) \cup Files, status : {NoStatus, 200, 413, 422}, process : Nat]

Typed ==
    /\ file \in Files
    /\ phase \in {"off", "failed", "loaded", "listening", "draining", "stopped"}
    /\ job \in [Calls -> Job \cup {NoJob, Gone}]
    /\ outcome \in [Calls -> {Unsent, Waiting, Raised}
                                \cup [end : {"value"}, value : Seq(Verdicts) \cup Files]
                                \cup [end : {"error"}, status : {NoStatus, 413, 422}]]
    /\ served \in Seq(Files)

\* The server has the call in hand, or has answered it.
Made(c) == job[c] \notin {NoJob, Gone}

\* The list of the process that a call was made to.
ListOf(c) == served[job[c].process]

\* Every process that got as far as serving had a valid list, and the one that
\* runs has the last.
ProcessesAreValid ==
    /\ \A i \in 1..Len(served) : Valid(served[i])
    /\ Running => Len(served) > 0 /\ policies = served[Len(served)]

\* Only the process that runs has calls in hand.
CallsOfThisProcess ==
    \A c \in Calls : Made(c) =>
        /\ job[c].process \in 1..Len(served)
        /\ At(c, "queued") => phase = "listening"
        /\ job[c].at \in {"reading", "handling"} => phase \in {"listening", "draining"}
        /\ job[c].at \in {"queued", "reading", "handling"} => job[c].process = Len(served)

\* What has been decided so far is the beginning of what must be decided.
DecidedSoFar ==
    \A c \in Calls : Made(c) =>
        /\ job[c].op # "policies" =>
              /\ job[c].decided \in Seq(Verdicts)
              /\ Len(job[c].decided) <= Len(job[c].body)
              /\ \A k \in 1..Len(job[c].decided) :
                    job[c].decided[k] = Verdict(ListOf(c), job[c].body[k])
              /\ ~Wellformed(c) => job[c].decided = <<>>
        /\ job[c].op = "policies" /\ ~At(c, "answered") => job[c].decided = <<>>

\* An answer's status is a function of the call.
StatusOf(c) ==
    IF job[c].op = "policies" \/ Wellformed(c) THEN 200
    ELSE IF Oversized(job[c].body) THEN 413 ELSE 422

AnswersAreComplete ==
    \A c \in Calls : Made(c) /\ At(c, "answered") =>
        /\ job[c].status = StatusOf(c)
        /\ job[c].op = "policies" => job[c].decided = ListOf(c)
        /\ job[c].op # "policies" /\ Wellformed(c) => Len(job[c].decided) = Len(job[c].body)

\* A client ends with what the server answered, or without an answer.
OutcomesAreAnswers ==
    \A c \in Calls :
        /\ outcome[c] = Unsent => job[c] = NoJob
        /\ Open(c) => job[c] # NoJob
        /\ outcome[c].end = "value" =>
              /\ Made(c) /\ At(c, "answered")
              /\ job[c].status = 200 /\ outcome[c].value = job[c].decided
        /\ outcome[c].end = "error" /\ outcome[c].status # NoStatus =>
              Made(c) /\ At(c, "answered") /\ job[c].status = outcome[c].status

IInv ==
    /\ Typed
    /\ ProcessesAreValid
    /\ CallsOfThisProcess
    /\ DecidedSoFar
    /\ AnswersAreComplete
    /\ OutcomesAreAnswers

----------------------------------------------------------------------------

LEMMA InitIInv == Init => IInv
<1> SUFFICES ASSUME Init PROVE IInv
  OBVIOUS
<1>1. Typed
  BY DEF Init, Typed, NoJob, Unsent
<1>2. ProcessesAreValid /\ CallsOfThisProcess /\ DecidedSoFar /\ AnswersAreComplete
  BY DEF Init, ProcessesAreValid, CallsOfThisProcess, DecidedSoFar, AnswersAreComplete,
         Made, Running
<1>3. OutcomesAreAnswers
  BY DEF Init, OutcomesAreAnswers, Made, Open, Unsent, Waiting
<1> QED
  BY <1>1, <1>2, <1>3 DEF IInv

\* Calls are cut off: those that the process no longer answers.
LEMMA CutIInv ==
    ASSUME IInv, NEW calls \in SUBSET CallsAt({"queued", "reading", "handling"}), Cut(calls),
           UNCHANGED <<file, policies, outcome, served>>,
           \/ phase' = phase
           \/ /\ CallsAt({"queued"}) \subseteq calls
              /\ \/ phase = "listening" /\ phase' = "draining"
                 \/ /\ phase' \in {"stopped", "off"}
                    /\ CallsAt({"reading", "handling"}) \subseteq calls
    PROVE  IInv'
<1> USE DEF IInv
<1>1. \A c \in Calls : job'[c] = IF c \in calls THEN Gone ELSE job[c]
  BY DEF Cut
<1>2. \A c \in calls : c \in Calls /\ Made(c) /\ job[c].at \in {"queued", "reading", "handling"}
  BY DEF CallsAt, Made, NoJob, Gone
<1>3. \A c \in Calls : Made(c)' <=> Made(c) /\ c \notin calls
  BY <1>1 DEF Made
<1>4. \A c \in Calls : Made(c)' => Made(c) /\ c \notin calls /\ job'[c] = job[c]
  BY <1>1, <1>3
<1>5. Typed'
  <2>1. job' \in [Calls -> Job \cup {NoJob, Gone}]
    BY DEF Typed, Cut
  <2> QED
    BY <2>1 DEF Typed
<1>6. ProcessesAreValid'
  BY DEF ProcessesAreValid, Running
<1>7. CallsOfThisProcess'
  BY <1>4 DEF CallsOfThisProcess, At, CallsAt
<1>8. DecidedSoFar'
  BY <1>4 DEF DecidedSoFar, ListOf, Wellformed, At
<1>9. AnswersAreComplete'
  BY <1>4 DEF AnswersAreComplete, ListOf, Wellformed, StatusOf, At
<1>10. OutcomesAreAnswers'
  <2>1. \A c \in Calls : job[c] = NoJob => job'[c] = NoJob
    BY <1>1, <1>2 DEF Made
  <2>2. \A c \in Calls : job[c] # NoJob => job'[c] # NoJob
    BY <1>1 DEF Gone, NoJob
  <2>3. \A c \in Calls : Made(c) /\ At(c, "answered") => job'[c] = job[c] /\ Made(c)'
    BY <1>1, <1>2, <1>3 DEF At
  <2> QED
    BY <2>1, <2>2, <2>3 DEF OutcomesAreAnswers, At, Open
<1> QED
  BY <1>5, <1>6, <1>7, <1>8, <1>9, <1>10

\* The steps of the process.
LEMMA ProcessIInv == ASSUME IInv, Process PROVE IInv'
<1> USE DEF IInv
<1>1. CASE Load
  <2>1. CASE Valid(file)
    <3>1. /\ phase' = "loaded" /\ policies' = file /\ served' = Append(served, file)
          /\ UNCHANGED <<file, job, outcome>> /\ phase \notin {"loaded", "listening", "draining"}
      BY <1>1, <2>1 DEF Load, Running
    <3>2. /\ served' \in Seq(Files) /\ Len(served') = Len(served) + 1
          /\ served'[Len(served')] = file
          /\ \A i \in 1..Len(served) : served'[i] = served[i]
      BY <3>1 DEF Typed
    <3>3. Typed'
      BY <3>1, <3>2 DEF Typed
    <3>4. ProcessesAreValid'
      BY <3>1, <3>2, <2>1 DEF ProcessesAreValid, Running, Typed
    <3>5. CallsOfThisProcess'
      BY <3>1, <3>2 DEF CallsOfThisProcess, Typed, Made, At
    <3>6. \A c \in Calls : Made(c) => ListOf(c)' = ListOf(c)
      BY <3>1, <3>2 DEF CallsOfThisProcess, ListOf
    <3>7. DecidedSoFar'
      BY <3>1, <3>6 DEF DecidedSoFar, Made, At, Wellformed
    <3>8. AnswersAreComplete'
      BY <3>1, <3>6 DEF AnswersAreComplete, Made, At, Wellformed, StatusOf
    <3>9. OutcomesAreAnswers'
      BY <3>1 DEF OutcomesAreAnswers, Made, At, Open
    <3> QED
      BY <3>3, <3>4, <3>5, <3>7, <3>8, <3>9
  <2>2. CASE ~Valid(file)
    <3>1. phase' = "failed" /\ UNCHANGED <<file, job, outcome, policies, served>>
          /\ phase \notin {"loaded", "listening", "draining"}
      BY <1>1, <2>2 DEF Load, Running
    <3>2. Typed' /\ ProcessesAreValid' /\ CallsOfThisProcess'
      BY <3>1 DEF Typed, ProcessesAreValid, CallsOfThisProcess, Running, Made, At
    <3>3. DecidedSoFar' /\ AnswersAreComplete' /\ OutcomesAreAnswers'
      BY <3>1 DEF DecidedSoFar, AnswersAreComplete, OutcomesAreAnswers, ListOf, Made, At,
                  Wellformed, StatusOf, Open
    <3> QED
      BY <3>2, <3>3
  <2> QED
    BY <2>1, <2>2
<1>2. CASE Bind
  <2>1. /\ UNCHANGED <<file, policies, job, outcome, served>>
        /\ phase = "loaded" /\ phase' \in {"listening", "failed"}
    BY <1>2 DEF Bind
  <2>2. Typed' /\ ProcessesAreValid'
    BY <2>1 DEF Typed, ProcessesAreValid, Running
  <2>3. CallsOfThisProcess'
    BY <2>1 DEF CallsOfThisProcess, Made, At
  <2>4. DecidedSoFar' /\ AnswersAreComplete' /\ OutcomesAreAnswers'
    BY <2>1 DEF DecidedSoFar, AnswersAreComplete, OutcomesAreAnswers, ListOf, Made, At,
                Wellformed, StatusOf, Open
  <2> QED
    BY <2>2, <2>3, <2>4
<1>3. CASE Interrupt \/ Stop \/ Crash
  <2>1. PICK calls \in SUBSET CallsAt({"queued", "reading", "handling"}) :
          /\ Cut(calls) /\ UNCHANGED <<file, policies, outcome, served>>
          /\ CallsAt({"queued"}) \subseteq calls
          /\ \/ phase = "listening" /\ phase' = "draining"
             \/ /\ phase' \in {"stopped", "off"}
                /\ CallsAt({"reading", "handling"}) \subseteq calls
    <3>1. CASE Interrupt
      <4>1. PICK idle \in SUBSET CallsAt({"reading"}) : Cut(CallsAt({"queued"}) \cup idle)
        BY <3>1 DEF Interrupt
      <4>2. CallsAt({"queued"}) \cup idle \subseteq CallsAt({"queued", "reading", "handling"})
        BY DEF CallsAt
      <4> QED
        BY <3>1, <4>1, <4>2 DEF Interrupt
    <3>2. CASE Stop
      <4>1. CallsAt({"queued"}) \subseteq CallsAt({"queued", "reading", "handling"})
        BY DEF CallsAt
      <4> QED
        BY <3>2, <4>1 DEF Stop
    <3>3. CASE Crash
      <4>1. /\ CallsAt({"queued"}) \subseteq CallsAt({"queued", "reading", "handling"})
            /\ CallsAt({"reading", "handling"}) \subseteq
                  CallsAt({"queued", "reading", "handling"})
        BY DEF CallsAt
      <4> QED
        BY <3>3, <4>1 DEF Crash
    <3> QED
      BY <1>3, <3>1, <3>2, <3>3
  <2> QED
    BY <2>1, CutIInv
<1> QED
  BY <1>1, <1>2, <1>3 DEF Process

LEMMA EditIInv == ASSUME IInv, Edit PROVE IInv'
<1>1. file' \in Files /\ UNCHANGED <<phase, policies, job, outcome, served>>
  BY DEF Edit
<1>2. Typed' /\ ProcessesAreValid' /\ CallsOfThisProcess'
  BY <1>1 DEF IInv, Typed, ProcessesAreValid, CallsOfThisProcess, Running, Made, At
<1>3. DecidedSoFar' /\ AnswersAreComplete' /\ OutcomesAreAnswers'
  BY <1>1 DEF IInv, DecidedSoFar, AnswersAreComplete, OutcomesAreAnswers, ListOf, Made, At,
              Wellformed, StatusOf, Open
<1> QED
  BY <1>2, <1>3 DEF IInv

\* The job of an answered call.
AnsweredJob(c, status, decided) ==
    [job[c] EXCEPT !.at = "answered", !.status = status, !.decided = decided]

LEMMA AnsweredFacts ==
    ASSUME NEW c \in Calls, job[c] \in Job,
           NEW status \in {200, 413, 422}, NEW decided \in Seq(Verdicts) \cup Files
    PROVE  LET j == AnsweredJob(c, status, decided)
           IN  /\ j \in Job /\ Answered(c, status, decided) = [job EXCEPT ![c] = j]
               /\ j.op = job[c].op /\ j.body = job[c].body /\ j.process = job[c].process
               /\ j.at = "answered" /\ j.status = status /\ j.decided = decided
<1> DEFINE k == [job[c] EXCEPT !.at = "answered"]
           l == [k EXCEPT !.status = status]
           j == [l EXCEPT !.decided = decided]
<1>1. /\ k \in Job /\ k.at = "answered"
      /\ k.op = job[c].op /\ k.body = job[c].body /\ k.process = job[c].process
  BY DEF Job, Place
<1>2. AnsweredJob(c, status, decided) = j
  BY DEF AnsweredJob
<1>3. Answered(c, status, decided) = [job EXCEPT ![c] = AnsweredJob(c, status, decided)]
  BY DEF Answered, AnsweredJob
<1> HIDE DEF k
<1>4. /\ l \in Job /\ l.at = "answered" /\ l.status = status
      /\ l.op = job[c].op /\ l.body = job[c].body /\ l.process = job[c].process
  BY <1>1 DEF Job
<1> HIDE DEF l
<1>5. /\ j \in Job /\ j.at = "answered" /\ j.status = status /\ j.decided = decided
      /\ j.op = job[c].op /\ j.body = job[c].body /\ j.process = job[c].process
  BY <1>4 DEF Job
<1> HIDE DEF j
<1> QED
  BY <1>2, <1>3, <1>5

\* The server gives a call up.
LEMMA AbandonIInv == ASSUME IInv, NEW c \in Calls, Abandon(c) PROVE IInv'
<1>1. {c} \in SUBSET CallsAt({"queued", "reading", "handling"})
  BY DEF Abandon, CallsAt, At
<1> QED
  BY <1>1, CutIInv DEF Abandon

\* The steps in which the server goes on with one of its calls, the arrival of
\* its request included.
Proceeds(c) == Accept(c) \/ Arrive(c) \/ Refuse(c) \/ DecideNext(c) \/ Respond(c)

LEMMA HandlerIInv == ASSUME IInv, NEW c \in Calls, Proceeds(c) PROVE IInv'
<1> USE DEF IInv
<1>1. /\ UNCHANGED <<file, phase, policies, outcome, served>>
      /\ job[c] \in Job /\ Made(c) /\ job[c].at \in {"queued", "reading", "handling"}
  BY DEF Proceeds, Accept, Arrive, Moves, Refuse, DecideNext, Respond, Answered, At, Typed,
     Made, NoJob, Gone
<1>2. job[c].process \in 1..Len(served) /\ policies = ListOf(c) /\ ListOf(c) \in Files
      /\ phase \in {"listening", "draining"}
  BY <1>1 DEF CallsOfThisProcess, ProcessesAreValid, Typed, At, Running, ListOf
<1>3. PICK j \in Job :
        /\ job' = [job EXCEPT ![c] = j]
        /\ j.op = job[c].op /\ j.body = job[c].body /\ j.process = job[c].process
        /\ \/ /\ Accept(c) \/ Arrive(c)
              /\ j.at \in {"reading", "handling"} /\ j.decided = job[c].decided
           \/ /\ Refuse(c) /\ j.at = "answered" /\ j.decided = job[c].decided
              /\ j.status = StatusOf(c) /\ job[c].op # "policies" /\ ~Wellformed(c)
           \/ /\ DecideNext(c) /\ j.at = "handling" /\ job[c].op # "policies" /\ Wellformed(c)
              /\ Len(job[c].decided) < Len(job[c].body)
              /\ j.decided = Append(job[c].decided,
                                    Verdict(ListOf(c), job[c].body[Len(job[c].decided) + 1]))
           \/ /\ Respond(c) /\ j.at = "answered" /\ j.status = StatusOf(c)
              /\ \/ job[c].op = "policies" /\ j.decided = ListOf(c)
                 \/ /\ job[c].op # "policies" /\ Wellformed(c) /\ j.decided = job[c].decided
                    /\ Len(job[c].decided) >= Len(job[c].body)
  <2>1. CASE Accept(c) \/ Arrive(c)
    <3>1. PICK to \in {"reading", "handling"} : job' = [job EXCEPT ![c].at = to]
      BY <2>1 DEF Accept, Arrive, Moves
    <3> DEFINE j == [job[c] EXCEPT !.at = to]
    <3>2. j \in Job /\ j.at = to /\ j.decided = job[c].decided
          /\ j.op = job[c].op /\ j.body = job[c].body /\ j.process = job[c].process
      BY <1>1 DEF Job, Place
    <3>3. job' = [job EXCEPT ![c] = j]
      BY <3>1 DEF Typed
    <3> QED
      BY <2>1, <3>2, <3>3
  <2>2. CASE Refuse(c)
    <3>1. PICK status \in {413, 422} :
            job' = Answered(c, status, <<>>) /\ status = StatusOf(c) /\ ~Wellformed(c)
      BY <2>2 DEF Refuse, StatusOf, Wellformed
    <3>2. job[c].op # "policies" /\ job[c].decided = <<>> /\ <<>> \in Seq(Verdicts)
      BY <2>2, <3>1, <1>1 DEF Refuse, DecidedSoFar
    <3> DEFINE j == AnsweredJob(c, status, job[c].decided)
    <3>3. /\ j \in Job /\ job' = [job EXCEPT ![c] = j]
          /\ j.op = job[c].op /\ j.body = job[c].body /\ j.process = job[c].process
          /\ j.at = "answered" /\ j.status = status
          /\ j.decided = job[c].decided
      <4>1. job[c].decided \in Seq(Verdicts) \cup Files /\ status \in {200, 413, 422}
        BY <3>2
      <4>2. job' = Answered(c, status, job[c].decided)
        BY <3>1, <3>2
      <4> QED
        BY <4>1, <4>2, <1>1, AnsweredFacts
    <3> HIDE DEF j
    <3> QED
      BY <2>2, <3>1, <3>2, <3>3
  <2>3. CASE DecideNext(c)
    <3> DEFINE next == Verdict(policies, job[c].body[Len(job[c].decided) + 1])
               j    == [job[c] EXCEPT !.decided = Append(@, next)]
    <3>1. /\ job[c].decided \in Seq(Verdicts) /\ Len(job[c].decided) < Len(job[c].body)
          /\ job[c].body \in Body
      BY <2>3, <1>1 DEF DecideNext, DecidedSoFar, Undecided, Job
    <3>2. job[c].body[Len(job[c].decided) + 1] \in Requests \cup {Junk}
      BY <3>1 DEF Body
    <3>3. next \in Verdicts
      BY <3>2, <1>2 DEF Verdicts
    <3>4. j \in Job
      <4>1. Append(job[c].decided, next) \in Seq(Verdicts)
        BY <3>1, <3>3
      <4> HIDE DEF next
      <4> QED
        BY <4>1, <1>1, SMTT(30) DEF Job
    <3>5. job' = [job EXCEPT ![c] = j] /\ j.at = "handling"
      BY <2>3, <1>1 DEF DecideNext, Typed, At, Job
    <3>6. /\ j.op = job[c].op /\ j.body = job[c].body /\ j.process = job[c].process
          /\ j.decided = Append(job[c].decided, next)
      BY <1>1 DEF Job
    <3>7. job[c].op # "policies" /\ Wellformed(c)
      BY <2>3 DEF DecideNext
    <3> HIDE DEF j
    <3> QED
      BY <3>1, <3>4, <3>5, <3>6, <3>7, <2>3, <1>2
  <2>4. CASE Respond(c)
    <3>1. CASE job[c].op = "policies"
      <4>1. job' = Answered(c, 200, ListOf(c)) /\ StatusOf(c) = 200
        BY <2>4, <3>1, <1>2 DEF Respond, StatusOf
      <4> DEFINE j == AnsweredJob(c, 200, ListOf(c))
      <4>2. /\ j \in Job /\ job' = [job EXCEPT ![c] = j]
            /\ j.op = job[c].op /\ j.body = job[c].body /\ j.process = job[c].process
            /\ j.at = "answered" /\ j.status = 200 /\ j.decided = ListOf(c)
        BY <4>1, <1>1, <1>2, AnsweredFacts
      <4> HIDE DEF j
      <4> QED
        BY <2>4, <3>1, <4>1, <4>2
    <3>2. CASE job[c].op # "policies"
      <4>1. /\ job' = Answered(c, 200, job[c].decided) /\ StatusOf(c) = 200
            /\ Wellformed(c) /\ Len(job[c].decided) >= Len(job[c].body)
        <5>1. /\ job' = Answered(c, 200, job[c].decided)
              /\ Wellformed(c) /\ ~Undecided(c)
          BY <2>4, <3>2 DEF Respond
        <5>2. job[c].decided \in Seq(Verdicts) /\ job[c].body \in Body
          BY <3>2, <1>1 DEF DecidedSoFar, Job
        <5> QED
          BY <5>1, <5>2 DEF StatusOf, Undecided, Body
      <4> DEFINE j == AnsweredJob(c, 200, job[c].decided)
      <4>2. job[c].decided \in Seq(Verdicts) \cup Files
        BY <1>1 DEF Job
      <4>3. /\ j \in Job /\ job' = [job EXCEPT ![c] = j]
            /\ j.op = job[c].op /\ j.body = job[c].body /\ j.process = job[c].process
            /\ j.at = "answered" /\ j.status = 200 /\ j.decided = job[c].decided
        BY <4>1, <4>2, <1>1, AnsweredFacts
      <4>4. job[c].op # "policies" /\ Wellformed(c) /\ j.decided = job[c].decided
              /\ Len(job[c].decided) >= Len(job[c].body) /\ j.status = StatusOf(c)
        BY <3>2, <4>1, <4>3
      <4> HIDE DEF j
      <4> QED
        BY <2>4, <4>3, <4>4
    <3> QED
      BY <3>1, <3>2
  <2> QED
    BY <2>1, <2>2, <2>3, <2>4 DEF Proceeds
<1>4. /\ job'[c] = j /\ Made(c)'
      /\ \A d \in Calls : d # c => job'[d] = job[d]
  BY <1>3 DEF Typed, Made, Job, NoJob, Gone, Place
<1>5. Typed' /\ ProcessesAreValid'
  BY <1>1, <1>3 DEF Typed, ProcessesAreValid, Running
<1>6. CallsOfThisProcess'
  BY <1>1, <1>2, <1>3, <1>4 DEF CallsOfThisProcess, Made, At
<1>7. DecidedSoFar'
  <2> SUFFICES ASSUME NEW d \in Calls, Made(d)'
               PROVE  /\ job'[d].op # "policies" =>
                            /\ job'[d].decided \in Seq(Verdicts)
                            /\ Len(job'[d].decided) <= Len(job'[d].body)
                            /\ \A k \in 1..Len(job'[d].decided) :
                                  job'[d].decided[k] = Verdict(ListOf(d)', job'[d].body[k])
                            /\ ~Wellformed(d)' => job'[d].decided = <<>>
                      /\ job'[d].op = "policies" /\ job'[d].at # "answered"
                            => job'[d].decided = <<>>
    BY DEF DecidedSoFar, At
  <2>1. CASE d # c
    BY <2>1, <1>1, <1>4 DEF DecidedSoFar, ListOf, Made, At, Wellformed
  <2>2. CASE d = c
    <3>1. /\ ListOf(d)' = ListOf(c) /\ (Wellformed(d)' <=> Wellformed(c)) /\ job'[d] = j
          /\ j.op = job[c].op /\ j.body = job[c].body
      BY <2>2, <1>1, <1>3, <1>4 DEF ListOf, Wellformed
    <3>2. CASE /\ j.decided = job[c].decided
               /\ j.op = "policies" => j.at = "answered" \/ job[c].at # "answered"
      BY <3>1, <3>2, <1>1 DEF DecidedSoFar, At
    <3>3. CASE j.op # "policies" /\ DecideNext(c) /\ Wellformed(c)
               /\ Len(job[c].decided) < Len(job[c].body)
               /\ j.decided = Append(job[c].decided,
                                     Verdict(ListOf(c), job[c].body[Len(job[c].decided) + 1]))
      <4>1. job[c].decided \in Seq(Verdicts) /\ job[c].body \in Body
        BY <3>3, <1>1, <1>3 DEF DecidedSoFar, Job
      <4>2. job[c].body[Len(job[c].decided) + 1] \in Requests \cup {Junk}
        BY <3>3, <4>1 DEF Body
      <4>3. j.decided \in Seq(Verdicts) /\ Len(j.decided) = Len(job[c].decided) + 1
        BY <3>3, <4>1, <4>2, <1>2 DEF Verdicts
      <4>4. \A k \in 1..Len(j.decided) : j.decided[k] = Verdict(ListOf(c), job[c].body[k])
        BY <3>3, <4>1, <4>3, <1>1, <1>3 DEF DecidedSoFar
      <4> QED
        BY <3>1, <3>3, <4>1, <4>3, <4>4 DEF Body
    <3>4. CASE j.op = "policies" /\ j.at = "answered"
      BY <3>1, <3>4
    <3> QED
      BY <3>1, <3>2, <3>3, <3>4, <1>1, <1>3
  <2> QED
    BY <2>1, <2>2
<1>8. AnswersAreComplete'
  <2> SUFFICES ASSUME NEW d \in Calls, Made(d)', At(d, "answered")'
               PROVE  /\ job'[d].status = StatusOf(d)'
                      /\ job'[d].op = "policies" => job'[d].decided = ListOf(d)'
                      /\ job'[d].op # "policies" /\ Wellformed(d)'
                            => Len(job'[d].decided) = Len(job'[d].body)
    BY DEF AnswersAreComplete
  <2>1. CASE d # c
    BY <2>1, <1>1, <1>4 DEF AnswersAreComplete, ListOf, Made, At, Wellformed, StatusOf
  <2>2. CASE d = c
    <3>1. /\ ListOf(c)' = ListOf(c) /\ (Wellformed(c)' <=> Wellformed(c))
          /\ StatusOf(c)' = StatusOf(c)
      BY <1>1, <1>3, <1>4 DEF ListOf, Wellformed, StatusOf
    <3>2. j.at = "answered" /\ j.status = StatusOf(c)
      BY <2>2, <1>3, <1>4 DEF At
    <3>3. job[c].op # "policies" =>
            /\ Len(job[c].decided) <= Len(job[c].body)
            /\ Len(job[c].decided) \in Nat /\ Len(job[c].body) \in Nat
      BY <1>1 DEF DecidedSoFar, Job, Body
    <3> QED
      BY <2>2, <3>1, <3>2, <3>3, <1>3, <1>4
  <2> QED
    BY <2>1, <2>2
<1>9. OutcomesAreAnswers'
  BY <1>1, <1>4 DEF OutcomesAreAnswers, Made, At, Open
<1> QED
  BY <1>5, <1>6, <1>7, <1>8, <1>9

\* A call is made.
LEMMA SendIInv == ASSUME IInv, NEW c \in Calls, Send(c) PROVE IInv'
<1> USE DEF IInv
<1>1. /\ UNCHANGED <<file, phase, policies, served>> /\ phase = "listening"
      /\ ~Made(c) /\ outcome' = [outcome EXCEPT ![c] = Waiting]
  BY DEF Send, OutcomesAreAnswers, Made
<1>2. PICK message \in Messages :
        job' = [job EXCEPT ![c] = [at |-> "queued", op |-> message[1], body |-> message[2],
                                   decided |-> <<>>, status |-> NoStatus,
                                   process |-> Len(served)]]
  BY DEF Send
<1> DEFINE j == [at |-> "queued", op |-> message[1], body |-> message[2],
                 decided |-> <<>>, status |-> NoStatus, process |-> Len(served)]
<1>3. Len(served) \in Nat /\ Len(served) > 0
  BY <1>1 DEF ProcessesAreValid, Running, Typed
<1>4. j \in Job
  <2>1. message[1] \in {"evaluate", "batch", "policies"} /\ message[2] \in Body
    BY SidecarAssumption DEF Body
  <2> QED
    BY <2>1, <1>3 DEF Job, Place
<1>5. /\ job'[c] = j /\ Made(c)' /\ outcome'[c] = Waiting
      /\ \A d \in Calls : d # c => job'[d] = job[d] /\ outcome'[d] = outcome[d]
  BY <1>1, <1>2, <1>4 DEF Typed, Made, Job, NoJob, Gone, Place
<1>6. Typed'
  <2>1. job' \in [Calls -> Job \cup {NoJob, Gone}]
    BY <1>2, <1>4 DEF Typed
  <2> QED
    BY <2>1, <1>1 DEF Typed
<1>7. ProcessesAreValid' /\ CallsOfThisProcess'
  BY <1>1, <1>3, <1>5 DEF ProcessesAreValid, CallsOfThisProcess, Running, Made, At
<1>8. DecidedSoFar'
  <2> SUFFICES ASSUME NEW d \in Calls, Made(d)'
               PROVE  /\ job'[d].op # "policies" =>
                            /\ job'[d].decided \in Seq(Verdicts)
                            /\ Len(job'[d].decided) <= Len(job'[d].body)
                            /\ \A k \in 1..Len(job'[d].decided) :
                                  job'[d].decided[k] = Verdict(ListOf(d)', job'[d].body[k])
                            /\ ~Wellformed(d)' => job'[d].decided = <<>>
                      /\ job'[d].op = "policies" /\ job'[d].at # "answered"
                            => job'[d].decided = <<>>
    BY DEF DecidedSoFar, At
  <2>1. CASE d # c
    BY <2>1, <1>1, <1>5 DEF DecidedSoFar, ListOf, Made, At, Wellformed
  <2>2. CASE d = c
    <3>1. job'[d] = j /\ j.decided = <<>> /\ Len(j.body) \in Nat
      BY <2>2, <1>4, <1>5 DEF Job, Body
    <3> QED
      BY <3>1
  <2> QED
    BY <2>1, <2>2
<1>9. AnswersAreComplete'
  BY <1>1, <1>5 DEF AnswersAreComplete, ListOf, Made, At, Wellformed, StatusOf
<1>10. OutcomesAreAnswers'
  BY <1>1, <1>5 DEF OutcomesAreAnswers, Made, At, Open, Waiting, Unsent
<1> QED
  BY <1>6, <1>7, <1>8, <1>9, <1>10

\* A call ends.
LEMMA EndIInv ==
    ASSUME IInv, NEW c \in Calls, Refused(c) \/ Receive(c) \/ Disconnected(c) \/ Timeout(c)
    PROVE  IInv'
<1> USE DEF IInv
<1>1. UNCHANGED <<file, phase, policies, job, served>>
  BY DEF Refused, Receive, Disconnected, Timeout, Ends
<1>2. PICK how \in {Raised, Error(NoStatus), Value(job[c].decided), Error(job[c].status)} :
        /\ outcome' = [outcome EXCEPT ![c] = how]
        /\ \/ how = Raised
           \/ how = Error(NoStatus)
           \/ /\ Made(c) /\ At(c, "answered")
              /\ \/ how = Value(job[c].decided) /\ job[c].status = 200
                 \/ how = Error(job[c].status) /\ job[c].status \in {413, 422}
  <2>1. CASE Refused(c) \/ Disconnected(c) \/ Timeout(c)
    BY <2>1 DEF Refused, Disconnected, Timeout, Ends
  <2>2. CASE Receive(c)
    <3>1. /\ Made(c) /\ At(c, "answered") /\ StatusOf(c) \in {200, 413, 422}
          /\ job[c].status = StatusOf(c)
      BY <2>2 DEF Receive, AnswersAreComplete, StatusOf, Made, At, NoJob, Gone
    <3>2. job[c].status = 200 \/ job[c].status \in {413, 422}
      BY <3>1
    <3> QED
      BY <2>2, <3>1, <3>2 DEF Receive, Ends
  <2> QED
    BY <2>1, <2>2
<1>3. outcome'[c] = how /\ \A d \in Calls : d # c => outcome'[d] = outcome[d]
  BY <1>2 DEF Typed
<1>4. Typed'
  <2>1. Made(c) => job[c].decided \in Seq(Verdicts) \cup Files
    BY DEF Made, Typed, Job
  <2>2. how \in {Unsent, Waiting, Raised}
                  \cup [end : {"value"}, value : Seq(Verdicts) \cup Files]
                  \cup [end : {"error"}, status : {NoStatus, 413, 422}]
    BY <2>1, <1>2 DEF Error, Value
  <2> QED
    BY <2>2, <1>1, <1>2 DEF Typed
<1>5. ProcessesAreValid' /\ CallsOfThisProcess'
  BY <1>1 DEF ProcessesAreValid, CallsOfThisProcess, Running, Made, At
<1>6. DecidedSoFar' /\ AnswersAreComplete'
  BY <1>1 DEF DecidedSoFar, AnswersAreComplete, ListOf, Made, At, Wellformed, StatusOf
<1>7. OutcomesAreAnswers'
  <2>1. /\ how # Unsent /\ how # Waiting
        /\ how.end = "value" => /\ Made(c) /\ At(c, "answered") /\ job[c].status = 200
                                /\ how.value = job[c].decided
        /\ how.end = "error" /\ how.status # NoStatus =>
              Made(c) /\ At(c, "answered") /\ job[c].status = how.status
    BY <1>2 DEF Unsent, Waiting, Raised, Error, Value
  <2> QED
    BY <2>1, <1>1, <1>3 DEF OutcomesAreAnswers, Made, At, Open
<1> QED
  BY <1>4, <1>5, <1>6, <1>7

LEMMA StutterIInv == ASSUME IInv, UNCHANGED vars PROVE IInv'
<1>1. UNCHANGED <<file, phase, policies, job, outcome, served>>
  BY DEF vars
<1> QED
  BY <1>1 DEF IInv, Typed, ProcessesAreValid, CallsOfThisProcess, DecidedSoFar,
      AnswersAreComplete, OutcomesAreAnswers, Running, ListOf, Made, At, Wellformed, StatusOf, Open
----------------------------------------------------------------------------

\* The invariant of the server and its clients: the process that runs serves
\* one valid list, and every call has been decided by its own process's list
\* as far as it went.
THEOREM Invariance == Spec => []IInv
<1>1. IInv /\ [Next]_vars => IInv'
  <2> SUFFICES ASSUME IInv, [Next]_vars PROVE IInv'
    OBVIOUS
  <2>1. ASSUME NEW c \in Calls, Client(c) PROVE IInv'
    BY <2>1, SendIInv, EndIInv, HandlerIInv DEF Client, Proceeds
  <2>2. ASSUME NEW c \in Calls, Handler(c) PROVE IInv'
    BY <2>2, AbandonIInv, HandlerIInv DEF Handler, Proceeds
  <2> QED
    BY <2>1, <2>2, ProcessIInv, EditIInv, StutterIInv DEF Next
<1> QED
  BY InitIInv, <1>1, PTL DEF Spec

\* The values that clients get are the complete, ordered decisions of the list
\* that the process they called had loaded and validated.
THEOREM Consistency == Spec => []AnswersFromOneValidFile
<1>1. IInv => AnswersFromOneValidFile
  <2> SUFFICES ASSUME IInv, NEW c \in Calls, outcome[c].end = "value"
               PROVE  Valid(ListOf(c)) /\ outcome[c].value = Decisions(c)
    BY DEF AnswersFromOneValidFile, ListOf
  <2>1. /\ Made(c) /\ At(c, "answered") /\ job[c].status = 200
        /\ outcome[c].value = job[c].decided /\ job[c] \in Job
    BY DEF IInv, OutcomesAreAnswers, Typed, Made
  <2>2. Valid(ListOf(c))
    BY <2>1 DEF IInv, CallsOfThisProcess, ProcessesAreValid, ListOf
  <2>3. CASE job[c].op = "policies"
    BY <2>1, <2>2, <2>3 DEF IInv, AnswersAreComplete, Decisions, ListOf
  <2>4. CASE job[c].op # "policies"
    <3>1. Wellformed(c)
      BY <2>1, <2>4 DEF IInv, AnswersAreComplete, StatusOf
    <3>2. /\ job[c].decided \in Seq(Verdicts) /\ job[c].body \in Body
          /\ Len(job[c].decided) = Len(job[c].body)
          /\ \A k \in 1..Len(job[c].decided) :
                job[c].decided[k] = Verdict(ListOf(c), job[c].body[k])
      BY <2>1, <2>4, <3>1 DEF IInv, AnswersAreComplete, DecidedSoFar, Job
    <3>3. DOMAIN job[c].body = 1..Len(job[c].decided)
      BY <3>2 DEF Body
    <3>4. job[c].decided = [k \in DOMAIN job[c].body |-> Verdict(ListOf(c), job[c].body[k])]
      BY <3>2, <3>3
    <3> QED
      BY <2>1, <2>2, <2>4, <3>4 DEF Decisions, ListOf
  <2> QED
    BY <2>3, <2>4
<1> QED
  BY Invariance, <1>1, PTL
=============================================================================

------------------------------- MODULE Sidecar -------------------------------
(***************************************************************************)
(* The evaluate sidecar and the calls clients make to it                   *)
(* (lovebird-server/src, clients/python/lovebird/client.py): start-up,     *)
(* concurrent requests, graceful shutdown, crash and restart on one side,  *)
(* timeouts and retries on the other, a policy file edited in between.     *)
(*                                                                         *)
(* A body is the sequence of its requests; Junk is a part of a body that   *)
(* is JSON but no Request (a body that is no JSON at all is refused the    *)
(* same way, with a status of its own).  The sockets and the HTTP library  *)
(* are external.  A retry is one more call with the same body.             *)
(***************************************************************************)
EXTENDS Integers, Sequences

CONSTANTS
    Requests, Junk,    \* what a body consists of
    Files,             \* contents of the policy file
    Valid(_),          \* it parses, deserializes and passes validate_policies
    Verdict(_, _),     \* the decision of the evaluator on a list and a request
    Messages,          \* the operations and bodies clients send
    MaxBody,           \* requests that fit into the body limit
    Calls,             \* the calls made, each once
    MaxStarts          \* bound of the processes started

ASSUME SidecarAssumption ==
    /\ Junk \notin Requests
    /\ Messages \subseteq {"evaluate", "batch", "policies"} \X Seq(Requests \cup {Junk})
    /\ MaxBody \in Nat /\ MaxStarts \in Nat
    /\ \A list \in Files : Valid(list) \in BOOLEAN

VARIABLES
    file,      \* what the policy file holds
    phase,     \* of the server process
    policies,  \* the list in its AppState
    job,       \* the server's side of each call
    outcome,   \* the client's side of each call
    served     \* history: the list of every process started so far

vars == <<file, phase, policies, job, outcome, served>>

NoJob   == [at |-> "none"]
Gone    == [at |-> "cut"]
Waiting == [end |-> "waiting"]
Unsent  == [end |-> "unsent"]
Value(v)      == [end |-> "value", value |-> v]
\* LovebirdError, with the HTTP status if there was an answer.
Error(status) == [end |-> "error", status |-> status]
NoStatus      == 0
\* An exception the client does not map: TimeoutError, ConnectionResetError.
Raised        == [end |-> "raised"]

Running == phase \in {"loaded", "listening", "draining"}
Open(c) == outcome[c] = Waiting
At(c, place) == job[c].at = place

Init ==
    /\ file \in Files
    /\ phase = "off" /\ policies = <<>>
    /\ job = [c \in Calls |-> NoJob]
    /\ outcome = [c \in Calls |-> Unsent]
    /\ served = <<>>

----------------------------------------------------------------------------
(* The process: run() of main.rs *)

\* load_policies: what cannot be read, parsed or validated ends the process.
Load ==
    /\ ~Running /\ Len(served) < MaxStarts
    /\ IF Valid(file)
         THEN /\ phase' = "loaded" /\ policies' = file
              /\ served' = Append(served, file)
         ELSE phase' = "failed" /\ UNCHANGED <<policies, served>>
    /\ UNCHANGED <<file, job, outcome>>

\* The address does not parse, or the port is taken.
Bind ==
    /\ phase = "loaded"
    /\ phase' \in {"listening", "failed"}
    /\ UNCHANGED <<file, policies, job, outcome, served>>

CallsAt(places) == {c \in Calls : job[c].at \in places}

\* Their connections are closed without an answer, and what was done for them is
\* lost.
Cut(calls) == job' = [c \in Calls |-> IF c \in calls THEN Gone ELSE job[c]]

\* Mutant: the listening socket stays open while the server drains.
Interrupt_KeepsListening ==
    /\ phase = "listening"
    /\ phase' = "draining"
    /\ UNCHANGED <<file, policies, job, outcome, served>>

\* ctrl_c: the listening socket is closed, with the connections in its queue
\* and those accepted ones on which nothing has arrived yet.
Interrupt ==
    /\ phase = "listening"
    /\ phase' = "draining"
    /\ \E idle \in SUBSET CallsAt({"reading"}) : Cut(CallsAt({"queued"}) \cup idle)
    /\ UNCHANGED <<file, policies, outcome, served>>

\* serve returns when every request it took up, those that are still arriving
\* included, is answered or abandoned.  The process ends, and with it all its
\* sockets.
Stop ==
    /\ phase = "draining"
    /\ CallsAt({"reading", "handling"}) = {}
    /\ phase' = "stopped"
    /\ Cut(CallsAt({"queued"}))
    /\ UNCHANGED <<file, policies, outcome, served>>

\* The process is killed, and with it whatever it was doing.
Crash ==
    /\ Running
    /\ phase' = "off"
    /\ Cut(CallsAt({"queued", "reading", "handling"}))
    /\ UNCHANGED <<file, policies, outcome, served>>

\* Somebody edits the policy file.
Edit ==
    /\ file' \in Files \ {file}
    /\ UNCHANGED <<phase, policies, job, outcome, served>>

----------------------------------------------------------------------------
(* The handlers: router() of lib.rs *)

Moves(c, from, to) ==
    /\ At(c, from)
    /\ job' = [job EXCEPT ![c].at = to]
    /\ UNCHANGED <<file, phase, policies, outcome, served>>

\* The connection is taken from the listen queue; its request is awaited, with
\* no limit of time.
Accept(c) == phase = "listening" /\ Moves(c, "queued", "reading")

\* The end of a connection whose client gave up is noticed.
Abandon(c) ==
    /\ At(c, "reading") /\ ~Open(c)
    /\ Cut({c})
    /\ UNCHANGED <<file, phase, policies, outcome, served>>

Oversized(body) == Len(body) > MaxBody
Malformed(op, body) ==
    \/ \E k \in DOMAIN body : body[k] = Junk
    \/ op = "evaluate" /\ Len(body) # 1

Answered(c, status, decided) ==
    [job EXCEPT ![c] = [@ EXCEPT !.at = "answered", !.status = status, !.decided = decided]]

\* Mutant: oversized bodies are left unread.
Refuse_MalformedOnly(c) ==
    /\ At(c, "handling") /\ job[c].op # "policies"
    /\ ~Oversized(job[c].body) /\ Malformed(job[c].op, job[c].body)
    /\ job' = Answered(c, 422, <<>>)
    /\ UNCHANGED <<file, phase, policies, outcome, served>>

\* The body limit, then the Json extractor: the handler is not entered.
Refuse(c) ==
    /\ At(c, "handling") /\ job[c].op # "policies"
    /\ \/ Oversized(job[c].body) /\ job' = Answered(c, 413, <<>>)
       \/ /\ ~Oversized(job[c].body) /\ Malformed(job[c].op, job[c].body)
          /\ job' = Answered(c, 422, <<>>)
    /\ UNCHANGED <<file, phase, policies, outcome, served>>

Wellformed(c) == ~Oversized(job[c].body) /\ ~Malformed(job[c].op, job[c].body)
Undecided(c)  == Len(job[c].decided) < Len(job[c].body)

\* Mutant: the policy file is read again for every request.
DecideNext_Rereads(c) ==
    /\ At(c, "handling") /\ job[c].op # "policies" /\ Wellformed(c) /\ Undecided(c)
    /\ job' = [job EXCEPT ![c].decided =
                  Append(@, Verdict(file, job[c].body[Len(@) + 1]))]
    /\ UNCHANGED <<file, phase, policies, outcome, served>>

\* evaluate, and the loop of evaluate_batch.
DecideNext(c) ==
    /\ At(c, "handling") /\ job[c].op # "policies" /\ Wellformed(c) /\ Undecided(c)
    /\ job' = [job EXCEPT ![c].decided =
                  Append(@, Verdict(policies, job[c].body[Len(@) + 1]))]
    /\ UNCHANGED <<file, phase, policies, outcome, served>>

Respond(c) ==
    /\ At(c, "handling")
    /\ \/ job[c].op = "policies" /\ job' = Answered(c, 200, policies)
       \/ /\ job[c].op # "policies" /\ Wellformed(c) /\ ~Undecided(c)
          /\ job' = Answered(c, 200, job[c].decided)
    /\ UNCHANGED <<file, phase, policies, outcome, served>>

----------------------------------------------------------------------------
(* The client: _request of client.py *)

\* The request has arrived, or as much of it as the body limit lets in.
Arrive(c) == Moves(c, "reading", "handling")

\* The socket is bound: the connection waits to be accepted.  process is a
\* history field: which process the connection was made to.
Send(c) ==
    /\ outcome[c] = Unsent /\ phase = "listening"
    /\ \E message \in Messages :
         job' = [job EXCEPT ![c] = [at |-> "queued", op |-> message[1], body |-> message[2],
                                    decided |-> <<>>, status |-> NoStatus,
                                    process |-> Len(served)]]
    /\ outcome' = [outcome EXCEPT ![c] = Waiting]
    /\ UNCHANGED <<file, phase, policies, served>>

Ends(c, how) ==
    /\ outcome' = [outcome EXCEPT ![c] = how]
    /\ UNCHANGED <<file, phase, policies, job, served>>

\* No socket: URLError.
Refused(c) ==
    /\ outcome[c] = Unsent /\ phase # "listening"
    /\ Ends(c, Error(NoStatus))

\* HTTPError for any status but 200; evaluate returns the only decision.
Receive(c) ==
    /\ Open(c) /\ At(c, "answered")
    /\ Ends(c, IF job[c].status = 200 THEN Value(job[c].decided) ELSE Error(job[c].status))

\* The connection was never accepted, its process died, or it is closed after
\* an answer that did not wait for the body.  The error is a URLError only if it
\* strikes while the request is being sent.
Disconnected(c) ==
    /\ Open(c)
    /\ At(c, "cut") \/ (At(c, "answered") /\ job[c].status = 413)
    /\ \/ Ends(c, Error(NoStatus))
       \/ Ends(c, Raised)

\* The answer did not come in time: it is no longer read, should it come.  The
\* socket's timeout passes through the two handlers of _request, unless it
\* strikes while the request is being sent.
Timeout(c) ==
    /\ Open(c) /\ ~At(c, "answered")
    /\ \/ Ends(c, Raised)
       \/ job[c].at \in {"queued", "reading"} /\ Ends(c, Error(NoStatus))

----------------------------------------------------------------------------

Handler(c) == Accept(c) \/ Abandon(c) \/ Refuse(c) \/ DecideNext(c) \/ Respond(c)
Client(c)  ==
    Send(c) \/ Arrive(c) \/ Refused(c) \/ Receive(c) \/ Disconnected(c) \/ Timeout(c)
Process    == Load \/ Bind \/ Interrupt \/ Stop \/ Crash

Next == Process \/ Edit \/ \E c \in Calls : Handler(c) \/ Client(c)

\* The runtime accepts what is queued, goes on with the requests that have
\* arrived, notices closed connections and then returns; a client notices an
\* answer or a closed connection.  Nobody has to start, interrupt or call the
\* server, a client need not finish the request that it began, and a timeout
\* need not strike.
Fairness ==
    /\ WF_vars(Stop)
    /\ \A c \in Calls :
         /\ WF_vars(Handler(c))
         /\ WF_vars(Receive(c) \/ Disconnected(c))

Spec == Init /\ [][Next]_vars /\ Fairness
----------------------------------------------------------------------------

\* The body of a call as its process must have decided it.
Decisions(c) ==
    LET list == served[job[c].process]
    IN  IF job[c].op = "policies" THEN list
        ELSE [k \in DOMAIN job[c].body |-> Verdict(list, job[c].body[k])]

\* Every value a client gets is the complete and ordered result of one policy
\* list, a valid one: the one that the process it called had loaded, whatever
\* became of the file and of other processes since.
AnswersFromOneValidFile ==
    \A c \in Calls : outcome[c].end = "value" =>
        Valid(served[job[c].process]) /\ outcome[c].value = Decisions(c)

\* The client of c sends all of its request, or gives up.
ComesToAnEnd(c) == At(c, "reading") ~> ~At(c, "reading")

\* A client that sends its request gets an answer or an error, even without a
\* timeout: it is not left hanging by a shutdown, a crash or another call, nor
\* by another client that stalls in the middle of its request.
EveryCallEnds == \A c \in Calls : ComesToAnEnd(c) => (Open(c) ~> ~Open(c))

\* A server told to stop does stop, if its clients finish the requests they
\* began or give up, be they answered or refused.  The condition is needed: the
\* Json extractor waits for a body, and serve for the extractor, with no timeout.
ShutdownCompletes ==
    (\A c \in Calls : ComesToAnEnd(c)) => (phase = "draining" ~> phase \in {"stopped", "off"})
=============================================================================

------------------------------ MODULE Receiver ------------------------------
(***************************************************************************)
(* The request pipeline of src/hec_receiver/hec_request.rs, run by many    *)
(* requests at once over the phase of the server, the statistics and the   *)
(* sink they share.  A handler is cut where another thread can get in      *)
(* between and see a difference: at every await and after every report.    *)
(* Only at an await (reading the body, waiting for the sink) can hyper     *)
(* drop it because the client went away.  Before the handler there is the  *)
(* connection, whose request head hyper reads, and the router.             *)
(***************************************************************************)
EXTENDS HecOutcome, Router, Sequences

CONSTANTS
  Requests,       (* the requests clients send                             *)
  Inputs,         (* what a request may look like, see Input               *)
  Capture,        (* TRUE: Sink::CaptureFile, FALSE: Sink::Drop            *)
  MaxEvents,      (* limits.max_events_per_request                         *)
  Parts,          (* of CaptureSink: file buffers an event's JSON fills    *)
  WriteMayFail,   (* of CaptureSink                                        *)
  CallersMayLeave (* whether a client may disconnect                       *)

(***************************************************************************)
(* A request as its handler sees it: each field is what one check of the   *)
(* pipeline finds, "fine" or the error the check returns.                  *)
(***************************************************************************)
Input ==
  [method   : {"GET", "HEAD", "POST", "PUT", "DELETE", "PATCH", "OPTIONS"},
   path     : UNION {HecPaths[e] : e \in Endpoints} \cup HealthPaths \cup StatsPaths
              \cup {"/"},
   query    : {"plain", "token"},
   auth     : {"fine", "TokenRequired", "InvalidAuthorization", "InvalidToken",
               "TokenDisabled"},
   encoding : {"identity", "gzip", "UnsupportedEncoding"},
   length   : {"fine", "BodyTooLarge", "InvalidDataFormat"},
   body     : {"fine", "BodyTooLarge", "Timeout", "InvalidDataFormat"},
   decode   : {"fine", "MalformedGzip", "BodyTooLarge"},
   parse    : {"fine"} \cup EventError,
   events   : 1..MaxEvents]

(* An identity body cannot fail to decode: max_decoded_bytes is at least    *)
(* max_bytes (RuntimeConfig refuses anything else).  /raw has two errors.   *)
PossibleInput(q) ==
  /\ q.encoding # "gzip" => q.decode = "fine"
  /\ Route(q.method, q.path) = "raw" => q.parse \in {"fine", "NoData", "ServerBusy"}

ASSUME ReceiverAssumption ==
  /\ IsFiniteSet(Requests)
  /\ MaxEvents \in Nat \ {0}
  /\ Inputs \subseteq Input
  /\ \A q \in Inputs : PossibleInput(q)
  /\ Capture \in BOOLEAN
  /\ Parts \in Nat \ {0}
  /\ WriteMayFail \in BOOLEAN
  /\ CallersMayLeave \in BOOLEAN

VARIABLES
  phase,    (* HealthState: Serving, and Stopping after ctrl_c              *)
  exited,   (* axum::serve returned and main with it                        *)
  told,     (* some client read "Server is shutting down" from /health      *)
  pc,       (* per request: how far its connection or handler is            *)
  input,    (* per request: what it looks like                              *)
  late,     (* per request: it was sent after a client had been told        *)
  failure,  (* per request: the PipelineErr, its error and its reason       *)
  trace,    (* per request: the facts reported under its id, with reasons   *)
  counters  (* Stats                                                        *)

VARIABLES queue, handle, op, disk, state, size, next, faults  \* CaptureSink

(* The model is of one process: CaptureSink's Crash is not among its steps. *)
Sink == INSTANCE CaptureSink WITH Callers <- Requests, MaxLives <- 1, lives <- 1

serverVars == <<phase, exited, told>>
requestVars == <<pc, input, late, failure, trace, counters>>
sinkVars == <<queue, handle, op, disk, state, size, next, faults>>
vars == <<serverVars, requestVars, sinkVars>>

Steps ==
  {"new", "heading", "elsewhere", "received", "admitted", "authorized", "reading", "read",
   "decoded", "sink", "succeeding", "failing", "answered", "gone"}

NoInput == [method |-> "none", path |-> "none"]
RouteOf(r) == Route(input[r].method, input[r].path)
NoFailure == [error |-> "none", reason |-> "none"]
Failure(e, why) == [error |-> e, reason |-> why]

(* Reporter::submit for a set of <<fact, reason>> pairs of r.               *)
Submitted(r, facts) ==
  /\ trace' = [trace EXCEPT ![r] = @ \cup facts]
  /\ counters' = [c \in Counter |->
       counters[c] + Cardinality({f \in facts : f[1] \in DOMAIN CounterOf
                                                /\ CounterOf[f[1]] = c})]

(* The same for a fact that adds its fields to sums.                        *)
SubmittedSum(r, f, fields) ==
  /\ trace' = [trace EXCEPT ![r] = @ \cup {<<f, "none">>}]
  /\ counters' = [c \in Counter |->
       counters[c] + IF c \in SumsOf[f] THEN fields[c] ELSE 0]

Goto(r, step) ==
  /\ pc' = [pc EXCEPT ![r] = step]
  /\ UNCHANGED failure

(* The pipeline returns Err: first the fact of the cause, if there is one.  *)
Fails(r, e, why, fact, others) ==
  /\ pc' = [pc EXCEPT ![r] = "failing"]
  /\ failure' = [failure EXCEPT ![r] = Failure(e, why)]
  /\ Submitted(r, others \cup {f \in {<<fact, why>>} : fact # NoFact})

Local == UNCHANGED <<serverVars, input, late, sinkVars>>
------------------------------------------------------------------------------
Init ==
  /\ phase = "Serving"
  /\ exited = FALSE
  /\ told = FALSE
  /\ pc = [r \in Requests |-> "new"]
  /\ input = [r \in Requests |-> NoInput]
  /\ late = [r \in Requests |-> FALSE]
  /\ failure = [r \in Requests |-> NoFailure]
  /\ trace = [r \in Requests |-> {}]
  /\ counters = [c \in Counter |-> 0]
  /\ Sink!Init

(* A client connects and sends a part of a request head.  (The listener is  *)
(* closed some time after the signal; until the exit a client may get in.)  *)
Connect(r) ==
  /\ ~exited
  /\ pc[r] = "new"
  /\ Goto(r, "heading")
  /\ UNCHANGED <<trace, counters>>
  /\ Local

(* The head is complete: the router picks the handler, which starts and     *)
(* reports REQUEST_RECEIVED.                                                *)
Arrive(r, q) ==
  /\ pc[r] = "heading"
  /\ Route(q.method, q.path) \in Endpoints
  /\ Goto(r, "received")
  /\ input' = [input EXCEPT ![r] = q]
  /\ late' = [late EXCEPT ![r] = told]
  /\ Submitted(r, {<<"REQUEST_RECEIVED", "none">>})
  /\ UNCHANGED <<serverVars, sinkVars>>

(* Health, stats, method_not_allowed, not_found and axum's own answer       *)
(* report nothing; who is answered 503 by health has been told.             *)
Elsewhere(r, q) ==
  /\ pc[r] = "heading"
  /\ Route(q.method, q.path) \notin Endpoints
  /\ Goto(r, "elsewhere")
  /\ input' = [input EXCEPT ![r] = q]
  /\ told' = (told \/ StatusElsewhere(Route(q.method, q.path), phase) = 503)
  /\ UNCHANGED <<phase, exited, late, trace, counters, sinkVars>>

(* process_ack_request: it does not look at the phase, always fails, and    *)
(* reports a query token only with the failure itself.                      *)
Ack(r) ==
  /\ pc[r] = "received"
  /\ RouteOf(r) = "ack"
  /\ \/ /\ input[r].query = "token"
        /\ Fails(r, "QueryStringAuthorizationDisabled",
                 ReasonOf("QueryStringAuthorizationDisabled"), NoFact, {})
     \/ /\ input[r].query = "plain"
        /\ input[r].auth # "fine"
        /\ Fails(r, input[r].auth, ReasonOf(input[r].auth), AuthFact(input[r].auth), {})
     \/ /\ input[r].query = "plain"
        /\ input[r].auth = "fine"
        /\ Fails(r, "AckDisabled", ReasonOf("AckDisabled"), NoFact, {})
  /\ Local

AdmitAll(r) ==  \* variant: the phase is not read
  /\ pc[r] = "received"
  /\ RouteOf(r) # "ack"
  /\ Goto(r, "admitted")
  /\ UNCHANGED <<trace, counters>>
  /\ Local

(* The phase is read once.                                                  *)
Admit(r) ==
  /\ pc[r] = "received"
  /\ RouteOf(r) # "ack"
  /\ IF phase = "Serving"
       THEN Goto(r, "admitted") /\ UNCHANGED <<trace, counters>>
       ELSE Fails(r, "ServerShuttingDown", ReasonOf("ServerShuttingDown"), NoFact, {})
  /\ Local

AuthorizeHeaderOnly(r) ==  \* variant: a token in the query is not looked for
  /\ pc[r] = "admitted"
  /\ IF input[r].auth = "fine"
       THEN Goto(r, "authorized") /\ UNCHANGED <<trace, counters>>
       ELSE Fails(r, input[r].auth, ReasonOf(input[r].auth), AuthFact(input[r].auth), {})
  /\ Local

(* A token in the query string is refused before the header is looked at.   *)
Authorize(r) ==
  /\ pc[r] = "admitted"
  /\ LET e == IF input[r].query = "token" THEN "QueryStringAuthorizationDisabled"
              ELSE input[r].auth
     IN  IF e = "fine"
           THEN Goto(r, "authorized") /\ UNCHANGED <<trace, counters>>
           ELSE Fails(r, e, ReasonOf(e), AuthFact(e), {})
  /\ Local

(* Content-Encoding, then Content-Length.                                   *)
CheckHeaders(r) ==
  /\ pc[r] = "authorized"
  /\ LET gzip == {f \in {<<"GZIP_REQUEST", "none">>} : input[r].encoding = "gzip"}
         e == input[r].length
     IN  \/ /\ input[r].encoding = "UnsupportedEncoding"
            /\ Fails(r, "UnsupportedEncoding", ReasonOf("UnsupportedEncoding"),
                     "BODY_UNSUPPORTED_ENCODING", {})
         \/ /\ input[r].encoding # "UnsupportedEncoding"
            /\ IF e = "fine" THEN Goto(r, "reading") /\ Submitted(r, gzip)
               ELSE Fails(r, e, ReasonOf(e), BodyFact(e), gzip)
  /\ Local

(* read_limited_body ends: with the body, or at a limit, a timeout or a     *)
(* broken connection.  Every body counts one unit of bytes.                 *)
ReadBody(r) ==
  /\ pc[r] = "reading"
  /\ LET e == input[r].body
     IN  IF e = "fine"
           THEN /\ Goto(r, "read")
                /\ SubmittedSum(r, "HTTP_BODY_READ", [http_body_bytes |-> 1])
           ELSE Fails(r, e, ReasonOf(e), BodyFact(e), {})
  /\ Local

Decode(r) ==
  /\ pc[r] = "read"
  /\ LET e == input[r].decode
     IN  IF e = "fine"
           THEN /\ Goto(r, "decoded")
                /\ SubmittedSum(r, "BODY_DECODED", [decoded_bytes |-> 1])
           ELSE Fails(r, e, ReasonOf(e), DecodeFact(input[r].encoding, e), {})
  /\ Local

(* The body is parsed as a whole; then its events are counted and, in the   *)
(* same poll of the handler, submitted to the sink.                         *)
Parse(r) ==
  /\ pc[r] = "decoded"
  /\ input[r].parse = "fine"
  /\ Goto(r, "sink")
  /\ SubmittedSum(r, "EVENTS_PARSED", [events_observed |-> input[r].events])
  /\ IF Capture THEN Sink!Submit(r, input[r].events) ELSE UNCHANGED sinkVars
  /\ UNCHANGED <<serverVars, input, late>>

RefuseEvents(r) ==
  /\ pc[r] = "decoded"
  /\ RouteOf(r) = "event"
  /\ input[r].parse # "fine"
  /\ LET e == input[r].parse
     IN  Fails(r, e, ReasonFromCode(CodeOf(e)), EventFact(e), {})
  /\ Local

RefuseRaw(r) ==
  /\ pc[r] = "decoded"
  /\ RouteOf(r) = "raw"
  /\ input[r].parse # "fine"
  /\ LET e == input[r].parse
     IN  Fails(r, e, ReasonOf(e), RawFact(e), {})
  /\ Local

SinkReturnsEarly(r) ==  \* variant: the events count as written once queued
  /\ pc[r] = "sink"
  /\ Capture => state[r] # "failed"
  /\ Goto(r, "succeeding")
  /\ SubmittedSum(r, "SINK_COMPLETED",
       [events_dropped |-> IF Capture THEN 0 ELSE input[r].events,
        events_written |-> IF Capture THEN input[r].events ELSE 0])
  /\ Local

(* submit_events returns Ok: all events dropped or all written.             *)
SinkReturns(r) ==
  /\ pc[r] = "sink"
  /\ Capture => state[r] = "ok"
  /\ Goto(r, "succeeding")
  /\ SubmittedSum(r, "SINK_COMPLETED",
       [events_dropped |-> IF Capture THEN 0 ELSE input[r].events,
        events_written |-> IF Capture THEN input[r].events ELSE 0])
  /\ Local

SinkErrsDropped(r) ==  \* variant: events lost to a sink error count as dropped
  /\ pc[r] = "sink"
  /\ Capture /\ state[r] = "failed"
  /\ pc' = [pc EXCEPT ![r] = "failing"]
  /\ failure' = [failure EXCEPT ![r] = Failure("ServerBusy", "SinkFailed")]
  /\ SubmittedSum(r, "SINK_COMPLETED",
       [events_dropped |-> input[r].events, events_written |-> 0])
  /\ Local

(* A sink error is answered like an overload, under a reason of its own.    *)
SinkErrs(r) ==
  /\ pc[r] = "sink"
  /\ Capture /\ state[r] = "failed"
  /\ Fails(r, "ServerBusy", "SinkFailed", "SINK_FAILED", {})
  /\ Local

Succeed(r) ==
  /\ pc[r] = "succeeding"
  /\ Goto(r, "answered")
  /\ Submitted(r, {<<"REQUEST_SUCCEEDED", "none">>})
  /\ Local

Fail(r) ==
  /\ pc[r] = "failing"
  /\ Goto(r, "answered")
  /\ Submitted(r, {<<"REQUEST_FAILED", failure[r].reason>>})
  /\ Local

DisconnectReported(r) ==  \* variant: a dropped handler reports its failure
  /\ CallersMayLeave
  /\ \/ pc[r] = "reading" /\ UNCHANGED sinkVars
     \/ pc[r] = "sink" /\ Sink!Leave(r)
  /\ Goto(r, "gone")
  /\ Submitted(r, {<<"REQUEST_FAILED", "none">>})
  /\ UNCHANGED <<serverVars, input, late>>

(* The client goes away before it has a handler, or while its handler is at *)
(* an await and hyper drops it: none of its code runs after that, nothing   *)
(* is reported.                                                             *)
(* (A connection lost while the body is read may also end the body with an  *)
(* error, ReadBody's InvalidDataFormat.)                                    *)
Disconnect(r) ==
  /\ CallersMayLeave
  /\ \/ pc[r] \in {"heading", "reading"} /\ UNCHANGED sinkVars
     \/ pc[r] = "sink" /\ Sink!Leave(r)
  /\ Goto(r, "gone")
  /\ UNCHANGED <<serverVars, input, late, trace, counters>>

(* The sink's own steps.                                                    *)
SinkStep ==
  /\ \/ \E r \in Requests :
          Sink!OpenFile(r) \/ Sink!OpenFails(r) \/ Sink!WritePiece(r) \/ Sink!WriteFails(r)
     \/ Sink!DiskWrites
     \/ Sink!DiskFails
  /\ UNCHANGED <<serverVars, requestVars>>

(* shutdown_signal: ctrl_c sets the phase; axum drains its connections.     *)
Signal ==
  /\ phase = "Serving"
  /\ phase' = "Stopping"
  /\ UNCHANGED <<exited, told, requestVars, sinkVars>>

ExitAnswered ==  \* variant: a dropped handler keeps its connection counted
  /\ ~exited
  /\ phase = "Stopping"
  /\ \A r \in Requests : pc[r] \in {"new", "elsewhere", "answered"}
  /\ exited' = TRUE
  /\ UNCHANGED <<phase, told, requestVars, sinkVars>>

(* Every connection has ended: axum::serve returns.  hyper waits for one    *)
(* that has begun a request head, without a timer.  The runtime still runs  *)
(* the blocking write that is queued.                                       *)
Exit ==
  /\ ~exited
  /\ phase = "Stopping"
  /\ \A r \in Requests : pc[r] \in {"new", "elsewhere", "answered", "gone"}
  /\ exited' = TRUE
  /\ UNCHANGED <<phase, told, requestVars, sinkVars>>

Quiet ==
  /\ exited
  /\ op.st # "busy"
  /\ UNCHANGED vars

HandlerStep(r) ==
  \/ Ack(r) \/ Admit(r) \/ Authorize(r) \/ CheckHeaders(r) \/ ReadBody(r)
  \/ Decode(r) \/ Parse(r) \/ RefuseEvents(r) \/ RefuseRaw(r)
  \/ SinkReturns(r) \/ SinkErrs(r) \/ Succeed(r) \/ Fail(r)

Next ==
  \/ \E r \in Requests :
       \/ Connect(r)
       \/ \E q \in Inputs : Arrive(r, q) \/ Elsewhere(r, q)
       \/ HandlerStep(r)
       \/ Disconnect(r)
  \/ SinkStep
  \/ Signal
  \/ Exit
  \/ Quiet

Spec == Init /\ [][Next]_vars

(* The runtime polls every woken handler; a body ends, if only by the total *)
(* timeout; the blocking pool runs what it was given; main sees the end of  *)
(* its server.  Clients and the signal promise nothing.                      *)
Fairness ==
  /\ \A r \in Requests : WF_vars(HandlerStep(r))
  /\ \A r \in Requests : WF_vars(Sink!Progress(r) /\ UNCHANGED <<serverVars, requestVars>>)
  /\ WF_vars((Sink!DiskWrites \/ Sink!DiskFails) /\ UNCHANGED <<serverVars, requestVars>>)
  /\ WF_vars(Exit)

FairSpec == Spec /\ Fairness
------------------------------------------------------------------------------
Having(step) == {r \in Requests : pc[r] = step}
Accepted == {r \in Having("answered") : failure[r] = NoFailure}
Refused == Having("answered") \ Accepted

(* The number of events that the requests of S carry.                       *)
EventsOf(S) == Cardinality({e \in S \X (1..MaxEvents) : e[2] <= input[e[1]].events})

(* Every variable stays in its range.                                       *)
TypeOK ==
  /\ phase \in {"Serving", "Stopping"}
  /\ exited \in BOOLEAN
  /\ told \in BOOLEAN
  /\ pc \in [Requests -> Steps]
  /\ input \in [Requests -> Inputs \cup {NoInput}]
  /\ late \in [Requests -> BOOLEAN]
  /\ failure \in [Requests -> [error : HecError, reason : Reason] \cup {NoFailure}]
  /\ trace \in [Requests -> SUBSET (Fact \X (Reason \cup {"none"}))]
  /\ counters \in [Counter -> Nat]
  /\ Sink!TypeOK

(* /hec/stats accounts for every request to a HEC endpoint, and for no      *)
(* other: each is counted when it arrives and once more with its answer,    *)
(* and a client that left is counted as neither a success nor a failure.    *)
RequestsAccounted ==
  /\ counters["requests_ok"] = Cardinality(Accepted)
  /\ counters["requests_failed"] = Cardinality(Refused)
  /\ counters["requests_total"] =
       counters["requests_ok"] + counters["requests_failed"]
       + Cardinality({r \in Requests : RouteOf(r) \in Endpoints /\ pc[r] # "answered"})

(* The failures /hec/stats counts by no cause: refusals by the phase, what  *)
(* the ack endpoint refuses on its own, and a /raw body with too many lines.*)
Uncaused(r) ==
  \/ failure[r].error \in {"ServerShuttingDown", "AckDisabled"}
  \/ RouteOf(r) = "ack" /\ failure[r].error = "QueryStringAuthorizationDisabled"
  \/ RouteOf(r) = "raw" /\ failure[r].reason = "ServerBusy"

(* Every other failure is counted by exactly one cause, before the answer   *)
(* leaves: the cause counters add up to the failures.                       *)
FailuresByCause ==
  CausesCounted(counters) =
    Cardinality({r \in Requests : failure[r] # NoFailure /\ ~Uncaused(r)})

(* All facts reported under a request's id that give a reason give the one  *)
(* of the error it is answered with (a sink error is answered as busy but   *)
(* reported as what it is), although the pipeline has to find the reason of *)
(* an event error again from its code.                                      *)
ReasonsAgree ==
  \A r \in Requests : \A f \in trace[r] :
    f[2] # "none" =>
      \/ f[2] = ReasonOf(failure[r].error)
      \/ f[2] = "SinkFailed" /\ failure[r].error = "ServerBusy"

(* Once a client has been told that the server is shutting down, no request *)
(* sent after that has its body read, let alone accepted.                   *)
LateIsRefused ==
  \A r \in Requests :
    late[r] /\ RouteOf(r) # "ack" =>
      pc[r] \in {"received", "failing", "answered"}
      /\ (pc[r] # "received" => failure[r].error = "ServerShuttingDown")

(* Every parsed event is accounted for: dropped, written, refused with a    *)
(* sink error, abandoned by its client, or still with the sink.             *)
EventsAccounted ==
  counters["events_observed"] =
    counters["events_dropped"] + counters["events_written"]
    + EventsOf({r \in Requests :
         \/ pc[r] = "sink"
         \/ pc[r] = "gone" /\ size[r] > 0
         \/ failure[r].reason = "SinkFailed"})

(* The events whose JSON text is whole in the capture file.                 *)
WholeOnDisk ==
  {e \in Requests \X (1..MaxEvents) :
     \A k \in 1..Parts : Sink!OnDisk(e[1], (e[2] - 1) * Sink!PerEvent + k)}

(* events_written never claims an event whose JSON text is not whole in the *)
(* file, although the sink's last write is still in flight when it counts.  *)
WrittenIsOnDisk ==
  counters["events_written"] <= Cardinality(WholeOnDisk)

(* A client that was answered 200 finds its events in the capture file, and *)
(* one that was refused for anything but a sink error left nothing there.   *)
AnswersMatchFile ==
  Capture =>
    /\ \A r \in Accepted : \A i \in 1..input[r].events : <<r, i>> \in WholeOnDisk
    /\ \A r \in Requests :
         failure[r] # NoFailure /\ failure[r].reason # "SinkFailed" =>
           \A j \in DOMAIN disk : disk[j].by # r

(* Nothing gets into the file that the router or the checks of the pipeline *)
(* would refuse.                                                            *)
FileIsAuthorized ==
  \A j \in DOMAIN disk :
    LET q == input[disk[j].by]
    IN  /\ q.method = "POST"
        /\ q.path \in HecPaths["event"] \cup HecPaths["raw"]
        /\ q.query = "plain" /\ q.auth = "fine" /\ q.parse = "fine"

(* Every request that arrives is answered, or its client is gone.           *)
EveryRequestEnds ==
  \A r \in Requests : (pc[r] = "received") ~> (pc[r] \in {"answered", "gone"})

(* After ctrl_c the process comes to its end, whatever the sink meets, if   *)
(* no client leaves a request head unfinished for ever: for that nothing    *)
(* has a timeout.                                                           *)
DrainsToExit ==
  (\A r \in Requests : []<>(pc[r] # "heading")) => ((phase = "Stopping") ~> exited)
==============================================================================

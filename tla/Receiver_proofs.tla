--------------------------- MODULE Receiver_proofs ---------------------------
(***************************************************************************)
(* What the pipeline guarantees for any set of requests, whatever they     *)
(* look like and whatever the sink does: no late request is served, and    *)
(* nothing that was not authorized gets into the file.                     *)
(***************************************************************************)
EXTENDS ReceiverReports_proofs

(* A client that has been told the server stops makes it stopping for good, *)
(* and a request is late only if there is such a client.                    *)
ToldInv ==
  /\ phase \in {"Serving", "Stopping"}
  /\ told => phase = "Stopping"
  /\ \A r \in Requests : late[r] => told

(* The variables of the requests are functions, and no request is late      *)
(* before it has been sent.                                                 *)
LateShape ==
  /\ pc \in [Requests -> Steps]
  /\ late \in [Requests -> BOOLEAN]
  /\ told \in BOOLEAN
  /\ failure = [r \in Requests |-> failure[r]]
  /\ input = [r \in Requests |-> input[r]]
  /\ \A r \in Requests : pc[r] \in {"new", "heading"} => ~late[r]

LateInv == ToldInv /\ LateShape /\ LateIsRefused

(* What LateIsRefused says of one request. *)
LateOK(r) ==
  late[r] /\ RouteOf(r) # "ack" =>
    pc[r] \in {"received", "failing", "answered"}
    /\ (pc[r] # "received" => failure[r].error = "ServerShuttingDown")

(* A step of the handler of r. *)
Only(r) ==
  /\ \E step \in Steps \ {"new", "heading"} : pc' = [pc EXCEPT ![r] = step]
  /\ failure' = failure \/ \E f : failure' = [failure EXCEPT ![r] = f]
  /\ UNCHANGED <<phase, told, input, late>>

LEMMA OnlyKeeps ==
  ASSUME LateInv, NEW r \in Requests, Only(r), LateOK(r)'
  PROVE  LateInv'
  <1>1. PICK step \in Steps \ {"new", "heading"} : pc' = [pc EXCEPT ![r] = step]
    BY DEF Only
  <1>2. pc' \in [Requests -> Steps] /\ \A q \in Requests \ {r} : pc'[q] = pc[q]
    BY <1>1 DEF LateInv, LateShape
  <1>3. /\ failure' = [q \in Requests |-> failure'[q]]
        /\ \A q \in Requests \ {r} : failure'[q] = failure[q]
    <2>1. CASE failure' = failure
      BY <2>1 DEF LateInv, LateShape
    <2>2. ASSUME NEW f, failure' = [failure EXCEPT ![r] = f]
          PROVE  /\ failure' = [q \in Requests |-> failure'[q]]
                 /\ \A q \in Requests \ {r} : failure'[q] = failure[q]
      BY <2>2 DEF LateInv, LateShape
    <2> QED
      BY <2>1, <2>2 DEF Only
  <1>4. LateShape'
    BY <1>1, <1>2, <1>3 DEF LateInv, LateShape, Only
  <1>5. ToldInv'
    BY DEF LateInv, ToldInv, Only
  <1>6. LateIsRefused'
    <2> SUFFICES ASSUME NEW q \in Requests PROVE LateOK(q)'
      BY DEF LateIsRefused, LateOK
    <2>1. CASE q = r
      BY <2>1
    <2>2. CASE q # r
      BY <1>2, <1>3, <2>2 DEF LateInv, LateIsRefused, LateOK, Only, RouteOf
    <2> QED
      BY <2>1, <2>2
  <1> QED
    BY <1>4, <1>5, <1>6 DEF LateInv

(* Where a late request never is, a step takes it only to where it is no    *)
(* worse.                                                                   *)
LEMMA FartherOn ==
  ASSUME LateInv, NEW r \in Requests, Only(r),
         pc[r] \notin {"received", "failing", "answered"}
  PROVE  LateInv'
  <1>1. ~(late[r] /\ RouteOf(r) # "ack")
    BY DEF LateInv, LateIsRefused
  <1>2. LateOK(r)'
    BY <1>1 DEF LateOK, Only, RouteOf
  <1> QED
    BY <1>2, OnlyKeeps

LEMMA InitLate == Init => LateInv
  BY DEF Init, LateInv, ToldInv, LateShape, LateIsRefused, Steps

LEMMA ArriveLate ==
  ASSUME LateInv, NEW r \in Requests, NEW q \in Inputs, Arrive(r, q)
  PROVE  LateInv'
  <1>1. /\ pc' = [pc EXCEPT ![r] = "received"]
        /\ late' = [late EXCEPT ![r] = told]
        /\ input' = [input EXCEPT ![r] = q]
        /\ UNCHANGED <<phase, told, failure>>
    BY DEF Arrive, Goto, serverVars
  <1>2. /\ pc' \in [Requests -> Steps] /\ late' \in [Requests -> BOOLEAN]
        /\ pc'[r] = "received" /\ late'[r] = told
        /\ \A s \in Requests \ {r} :
             pc'[s] = pc[s] /\ late'[s] = late[s] /\ input'[s] = input[s]
        /\ input' = [s \in Requests |-> input'[s]]
    BY <1>1 DEF LateInv, LateShape, Steps
  <1>3. ToldInv'
    BY <1>1, <1>2 DEF LateInv, ToldInv
  <1>4. LateShape'
    BY <1>1, <1>2 DEF LateInv, LateShape
  <1>5. LateIsRefused'
    BY <1>1, <1>2 DEF LateInv, LateIsRefused, RouteOf
  <1> QED
    BY <1>3, <1>4, <1>5 DEF LateInv

LEMMA ElsewhereLate ==
  ASSUME LateInv, NEW r \in Requests, NEW q \in Inputs, Elsewhere(r, q)
  PROVE  LateInv'
  <1>1. /\ pc[r] = "heading" /\ pc' = [pc EXCEPT ![r] = "elsewhere"]
        /\ input' = [input EXCEPT ![r] = q]
        /\ told' \in BOOLEAN /\ (told' => told \/ phase # "Serving") /\ (told => told')
        /\ UNCHANGED <<phase, late, failure>>
    BY DEF Elsewhere, Goto, StatusElsewhere, LateInv, LateShape
  <1>2. /\ pc' \in [Requests -> Steps] /\ pc'[r] = "elsewhere" /\ ~late[r]
        /\ \A s \in Requests \ {r} : pc'[s] = pc[s] /\ input'[s] = input[s]
        /\ input' = [s \in Requests |-> input'[s]]
    BY <1>1 DEF LateInv, LateShape, Steps
  <1>3. ToldInv'
    BY <1>1 DEF LateInv, ToldInv
  <1>4. LateShape'
    BY <1>1, <1>2 DEF LateInv, LateShape
  <1>5. LateIsRefused'
    BY <1>1, <1>2 DEF LateInv, LateIsRefused, RouteOf
  <1> QED
    BY <1>3, <1>4, <1>5 DEF LateInv

LEMMA ConnectLate ==
  ASSUME LateInv, NEW r \in Requests, Connect(r)
  PROVE  LateInv'
  <1>1. /\ pc[r] = "new" /\ pc' = [pc EXCEPT ![r] = "heading"]
        /\ UNCHANGED <<phase, told, late, input, failure>>
    BY DEF Connect, Goto, Local, serverVars
  <1>2. /\ pc' \in [Requests -> Steps] /\ ~late[r]
        /\ \A s \in Requests \ {r} : pc'[s] = pc[s]
    BY <1>1 DEF LateInv, LateShape, Steps
  <1>3. ToldInv' /\ LateShape'
    BY <1>1, <1>2 DEF LateInv, ToldInv, LateShape
  <1>4. LateIsRefused'
    BY <1>1, <1>2 DEF LateInv, LateIsRefused, RouteOf
  <1> QED
    BY <1>3, <1>4 DEF LateInv

LEMMA HandlerLate ==
  ASSUME LateInv, NEW r \in Requests, HandlerStep(r)
  PROVE  LateInv'
  <1> USE DEF Goto, Fails, Local, serverVars, Only, Steps
  <1>1. CASE Ack(r)
    <2>1. Only(r) /\ RouteOf(r) = "ack"
      BY <1>1 DEF Ack
    <2>2. LateOK(r)'
      BY <2>1 DEF LateOK, RouteOf
    <2> QED
      BY <2>1, <2>2, OnlyKeeps
  <1>2. CASE Admit(r)
    <2>1. Only(r)
      BY <1>2 DEF Admit
    <2>2. LateOK(r)'
      <3>1. CASE phase = "Serving"
        <4>1. ~late[r] /\ late' = late
          BY <1>2, <3>1 DEF Admit, LateInv, ToldInv
        <4> QED
          BY <4>1 DEF LateOK
      <3>2. CASE phase # "Serving"
        <4> DEFINE f == Failure("ServerShuttingDown", ReasonOf("ServerShuttingDown"))
        <4>1. pc' = [pc EXCEPT ![r] = "failing"] /\ failure' = [failure EXCEPT ![r] = f]
          BY <1>2, <3>2 DEF Admit
        <4>2. pc'[r] = "failing"
          BY <4>1 DEF LateInv, LateShape
        <4>3. failure'[r] = f
          <5>1. r \in DOMAIN failure
            BY DEF LateInv, LateShape
          <5> HIDE DEF f
          <5> QED
            BY <4>1, <5>1
        <4>4. f.error = "ServerShuttingDown"
          BY DEF Failure
        <4> QED
          BY <4>2, <4>3, <4>4 DEF LateOK
      <3> QED
        BY <3>1, <3>2
    <2> QED
      BY <2>1, <2>2, OnlyKeeps
  <1>3. CASE Authorize(r)
    BY <1>3, FartherOn DEF Authorize
  <1>4. CASE CheckHeaders(r)
    BY <1>4, FartherOn DEF CheckHeaders
  <1>5. CASE ReadBody(r)
    BY <1>5, FartherOn DEF ReadBody
  <1>6. CASE Decode(r)
    BY <1>6, FartherOn DEF Decode
  <1>7. CASE Parse(r)
    BY <1>7, FartherOn DEF Parse
  <1>8. CASE RefuseEvents(r) \/ RefuseRaw(r)
    BY <1>8, FartherOn DEF RefuseEvents, RefuseRaw
  <1>9. CASE SinkReturns(r) \/ SinkErrs(r)
    BY <1>9, FartherOn DEF SinkReturns, SinkErrs
  <1>10. CASE Succeed(r)
    BY <1>10, FartherOn DEF Succeed
  <1>11. CASE Fail(r)
    <2>1. Only(r) /\ pc[r] = "failing" /\ UNCHANGED <<failure, input, late>>
      BY <1>11 DEF Fail
    <2>2. pc'[r] = "answered"
      BY <1>11 DEF Fail, LateInv, LateShape
    <2>3. LateOK(r)'
      BY <2>1, <2>2 DEF LateOK, LateInv, LateIsRefused, RouteOf
    <2> QED
      BY <2>1, <2>3, OnlyKeeps
  <1> QED
    BY <1>1, <1>2, <1>3, <1>4, <1>5, <1>6, <1>7, <1>8, <1>9, <1>10, <1>11 DEF HandlerStep

LEMMA NextLate == LateInv /\ [Next]_vars => LateInv'
  <1> SUFFICES ASSUME LateInv, [Next]_vars PROVE LateInv'
    OBVIOUS
  <1>1. ASSUME NEW r \in Requests, NEW q \in Inputs, Arrive(r, q) PROVE LateInv'
    BY <1>1, ArriveLate
  <1>2. ASSUME NEW r \in Requests, HandlerStep(r) PROVE LateInv'
    BY <1>2, HandlerLate
  <1>3. ASSUME NEW r \in Requests, Disconnect(r) PROVE LateInv'
    BY <1>3, FartherOn DEF Disconnect, Only, Goto, Steps, serverVars
  <1>4. CASE Signal
    BY <1>4 DEF Signal, requestVars, LateInv, ToldInv, LateShape, LateIsRefused, RouteOf
  <1>5. ASSUME NEW r \in Requests, Connect(r) \/ \E q \in Inputs : Elsewhere(r, q)
        PROVE  LateInv'
    BY <1>5, ConnectLate, ElsewhereLate
  <1>6. CASE Exit \/ SinkStep \/ Quiet \/ UNCHANGED vars
    BY <1>6 DEF Exit, SinkStep, Quiet, vars, serverVars, requestVars,
                LateInv, ToldInv, LateShape, LateIsRefused, RouteOf
  <1> QED
    BY <1>1, <1>2, <1>3, <1>4, <1>5, <1>6 DEF Next

(* Once a client has read "Server is shutting down", no request sent after  *)
(* that is taken further than its refusal, for any number of requests that  *)
(* are on their way meanwhile.                                              *)
THEOREM LateRefused == Spec => []LateIsRefused
  <1>1. LateInv => LateIsRefused
    BY DEF LateInv
  <1> QED
    BY <1>1, InitLate, NextLate, PTL DEF Spec
-----------------------------------------------------------------------------
(* The requests that have called the sink. *)
Called == {r \in Requests : state[r] # "idle"}

(* What the checks of the pipeline and the router find in what they let     *)
(* through.                                                                *)
Posted(r) ==
  /\ input[r].method = "POST"
  /\ input[r].path \in HecPaths["event"] \cup HecPaths["raw"]
Authorized(r) == input[r].query = "plain" /\ input[r].auth = "fine"
Checked(r) == Posted(r) /\ Authorized(r) /\ input[r].parse = "fine"

(* How far a handler is that has passed which of them. *)
PassedInv ==
  \A r \in Requests :
    /\ pc[r] = "received" => RouteOf(r) \in Endpoints
    /\ pc[r] \in {"received", "admitted"} => input[r] \in Inputs
    /\ pc[r] \in {"admitted", "authorized", "reading", "read", "decoded"} => Posted(r)
    /\ pc[r] \in {"authorized", "reading", "read", "decoded"} => Authorized(r)
    /\ pc[r] \in {"new", "heading"} => r \notin Called
    /\ r \in Called => Checked(r)

(* All that the sink holds and writes is of calls that were made. *)
OwnersInv ==
  /\ state \in [Requests -> Sink!States]
  /\ next \in [Requests -> Nat]
  /\ queue \in Seq(Called)
  /\ op \in [st : {"idle"}] \cup [st : {"busy", "done", "failed"}, by : Called, at : Nat]
  /\ disk \in Seq([by : Called, at : Nat, whole : BOOLEAN])

FunctionsInv ==
  /\ pc \in [Requests -> Steps]
  /\ input = [r \in Requests |-> input[r]]

FileInv == FunctionsInv /\ PassedInv /\ OwnersInv

(* The routes of the two handlers that write. *)
LEMMA PostedRoute ==
  ASSUME NEW r, RouteOf(r) \in Endpoints, RouteOf(r) # "ack"
  PROVE  Posted(r)
  <1> DEFINE m == input[r].method
             p == input[r].path
             e == CHOOSE e \in Endpoints : p \in HecPaths[e]
  <1>1. Endpoints = {"event", "raw", "ack"}
    BY DEF Endpoints, HecPaths
  <1>2. /\ \E f \in Endpoints : p \in HecPaths[f]
        /\ RouteOf(r) = HecPost(e, m)
    <2>0. /\ p \in HealthPaths => p \notin StatsPaths
          /\ p \in HealthPaths \cup StatsPaths => ~\E f \in Endpoints : p \in HecPaths[f]
      BY <1>1 DEF HealthPaths, StatsPaths, HecPaths
    <2>1. CASE p \in HealthPaths
      <3>1. Route(m, p) \in {"health", "axum"}
        <4>1. Route(m, p) = IF m \in {"GET", "HEAD", "POST"} THEN "health" ELSE "axum"
          BY <2>0, <2>1 DEF Route
        <4> QED
          BY <4>1
      <3> QED
        BY <1>1, <3>1 DEF RouteOf
    <2>2. CASE p \notin HealthPaths /\ p \in StatsPaths
      <3>1. Route(m, p) \in {"stats", "axum"}
        <4>1. Route(m, p) = IF m \in {"GET", "HEAD"} THEN "stats" ELSE "axum"
          BY <2>0, <2>2 DEF Route
        <4> QED
          BY <4>1
      <3> QED
        BY <1>1, <3>1 DEF RouteOf
    <2>3. CASE /\ p \notin HealthPaths /\ p \notin StatsPaths
               /\ ~\E f \in Endpoints : p \in HecPaths[f]
      <3>1. Route(m, p) = "not_found"
        BY <2>3 DEF Route
      <3> QED
        BY <1>1, <3>1 DEF RouteOf
    <2>4. CASE /\ p \notin HealthPaths /\ p \notin StatsPaths
               /\ \E f \in Endpoints : p \in HecPaths[f]
      <3>1. Route(m, p) = HecPost(e, m)
        BY <2>4 DEF Route
      <3> QED
        BY <2>4, <3>1 DEF RouteOf
    <2> QED
      BY <2>1, <2>2, <2>3, <2>4
  <1>3. e \in Endpoints /\ p \in HecPaths[e]
    BY <1>2
  <1>4. m = "POST" /\ e = RouteOf(r)
    BY <1>1, <1>2 DEF HecPost
  <1> QED
    BY <1>1, <1>3, <1>4 DEF Posted

LEMMA SequenceFacts ==
  ASSUME NEW S, NEW T, S \subseteq T, NEW s \in Seq(S)
  PROVE  /\ s \in Seq(T)
         /\ s # <<>> => Head(s) \in S /\ Tail(s) \in Seq(S)
         /\ \A i \in DOMAIN s : Sink!RemoveAt(s, i) \in Seq(S)
  BY DEF Sink!RemoveAt

(* A step that leaves the sink and the calls alone keeps what they own. *)
LEMMA OwnersKept ==
  ASSUME OwnersInv, UNCHANGED sinkVars
  PROVE  OwnersInv' /\ Called' = Called
  BY DEF OwnersInv, Called, sinkVars

LEMMA InitFile == Init => FileInv
  <1> SUFFICES ASSUME Init PROVE FileInv
    OBVIOUS
  <1>1. FunctionsInv /\ PassedInv
    BY DEF Init, Sink!Init, FunctionsInv, PassedInv, Called, Steps
  <1>2. OwnersInv
    BY DEF Init, Sink!Init, Sink!Idle, Sink!States, OwnersInv
  <1> QED
    BY <1>1, <1>2 DEF FileInv

(* A step of one request before, at or after the checks, which submits      *)
(* nothing.                                                                *)
LEMMA HandlerFile ==
  ASSUME FileInv, NEW r \in Requests, NEW step \in Steps \ {"new"},
         pc' = [pc EXCEPT ![r] = step], UNCHANGED sinkVars,
         input' = input \/ (pc[r] = "heading" /\ \E q : input' = [input EXCEPT ![r] = q]),
         step = "heading" => pc[r] = "new",
         step = "received" => RouteOf(r)' \in Endpoints,
         step \in {"received", "admitted"} => input'[r] \in Inputs,
         step \in {"admitted", "authorized", "reading", "read", "decoded"} => Posted(r)',
         step \in {"authorized", "reading", "read", "decoded"} => Authorized(r)'
  PROVE  FileInv'
  <1>1. OwnersInv' /\ Called' = Called
    BY OwnersKept DEF FileInv
  <1>2. \A s \in Requests : s # r => pc'[s] = pc[s] /\ input'[s] = input[s]
    BY DEF FileInv, FunctionsInv
  <1>3. pc'[r] = step /\ FunctionsInv'
    BY DEF FileInv, FunctionsInv
  <1>4. PassedInv'
    <2> SUFFICES ASSUME NEW s \in Requests
                 PROVE  /\ pc'[s] = "received" => RouteOf(s)' \in Endpoints
                        /\ pc'[s] \in {"received", "admitted"} => input'[s] \in Inputs
                        /\ pc'[s] \in {"admitted", "authorized", "reading", "read", "decoded"}
                              => Posted(s)'
                        /\ pc'[s] \in {"authorized", "reading", "read", "decoded"}
                              => Authorized(s)'
                        /\ pc'[s] \in {"new", "heading"} => s \notin Called
                        /\ s \in Called => Checked(s)'
      BY <1>1 DEF PassedInv
    <2>1. CASE s # r
      BY <1>2, <2>1 DEF FileInv, PassedInv, Posted, Authorized, Checked, RouteOf
    <2>2. CASE s = r
      BY <1>3, <2>2 DEF FileInv, PassedInv, Posted, Authorized, Checked, RouteOf
    <2> QED
      BY <2>1, <2>2
  <1> QED
    BY <1>1, <1>3, <1>4 DEF FileInv

(* Parse is the only step of a handler that calls the sink.                 *)
LEMMA ParseFile ==
  ASSUME FileInv, NEW r \in Requests, Parse(r)
  PROVE  FileInv'
  <1>1. /\ pc[r] = "decoded" /\ input[r].parse = "fine"
        /\ pc' = [pc EXCEPT ![r] = "sink"] /\ input' = input
        /\ OwnersInv
    BY DEF Parse, Goto, FileInv
  <1>2. Checked(r)
    BY <1>1 DEF FileInv, PassedInv, Checked
  <1>3. CASE ~Capture
    BY <1>1, <1>3, HandlerFile DEF Parse, Steps
  <1>4. CASE Capture
    <2>1. /\ state' = [state EXCEPT ![r] = "pending"] /\ queue' = Append(queue, r)
          /\ UNCHANGED <<op, disk, next>>
      BY <1>4 DEF Parse, Sink!Submit
    <2>2. state' \in [Requests -> Sink!States] /\ Called' = Called \cup {r}
      BY <1>1, <2>1 DEF OwnersInv, Called, Sink!States
    <2>3. OwnersInv'
      <3>1. queue' \in Seq(Called')
        BY <1>1, <2>1, <2>2, SequenceFacts DEF OwnersInv
      <3>2. disk' \in Seq([by : Called', at : Nat, whole : BOOLEAN])
        <4> DEFINE Old == [by : Called, at : Nat, whole : BOOLEAN]
                   New == [by : Called', at : Nat, whole : BOOLEAN]
        <4>1. Old \subseteq New
          BY <2>2
        <4>2. disk \in Seq(Old) /\ disk' = disk
          BY <1>1, <2>1 DEF OwnersInv
        <4> HIDE DEF Old, New
        <4>3. disk \in Seq(New)
          BY <4>1, <4>2, SequenceFacts
        <4> QED
          BY <4>2, <4>3 DEF New
      <3>3. op' \in [st : {"idle"}] \cup [st : {"busy", "done", "failed"}, by : Called', at : Nat]
        BY <1>1, <2>1, <2>2 DEF OwnersInv
      <3> QED
        BY <1>1, <2>1, <2>2, <3>1, <3>2, <3>3 DEF OwnersInv
    <2>4. FunctionsInv' /\ \A s \in Requests : pc'[s] = IF s = r THEN "sink" ELSE pc[s]
      BY <1>1 DEF FileInv, FunctionsInv, Steps
    <2>5. PassedInv'
      BY <1>1, <1>2, <2>2, <2>4 DEF FileInv, PassedInv, Posted, Authorized, Checked, RouteOf
    <2> QED
      BY <2>3, <2>4, <2>5 DEF FileInv
  <1> QED
    BY <1>3, <1>4

LEMMA StepsFile ==
  ASSUME FileInv, NEW r \in Requests, HandlerStep(r)
  PROVE  FileInv'
  <1> USE DEF Goto, Fails, Local, Steps
  <1>1. CASE Ack(r)
    BY <1>1, HandlerFile DEF Ack
  <1>2. CASE Admit(r)
    <2>1. Posted(r)
      BY <1>2, PostedRoute DEF Admit, FileInv, PassedInv
    <2>2. Posted(r)'
      BY <1>2, <2>1 DEF Admit, Posted
    <2>3. CASE phase = "Serving"
      <3>1. input'[r] \in Inputs
        BY <1>2 DEF Admit, FileInv, PassedInv
      <3> QED
        BY <1>2, <2>2, <2>3, <3>1, HandlerFile DEF Admit
    <2>4. CASE phase # "Serving"
      BY <1>2, <2>4, HandlerFile DEF Admit
    <2> QED
      BY <2>3, <2>4
  <1>3. CASE Authorize(r)
    <2>1. Posted(r) /\ Posted(r)'
      BY <1>3 DEF Authorize, FileInv, PassedInv, Posted
    <2>2. input' = input /\ UNCHANGED sinkVars
      BY <1>3 DEF Authorize
    <2>3. CASE pc' = [pc EXCEPT ![r] = "failing"]
      BY <2>2, <2>3, HandlerFile
    <2>4. CASE pc' = [pc EXCEPT ![r] = "authorized"] /\ Authorized(r)
      <3>1. Authorized(r)'
        BY <2>2, <2>4 DEF Authorized
      <3> QED
        BY <2>1, <2>2, <2>4, <3>1, HandlerFile
    <2>5. CASE input[r].query = "token"
      BY <1>3, <2>3, <2>5 DEF Authorize
    <2>6. CASE input[r].query # "token"
      <3>1. \/ input[r].auth = "fine" /\ pc' = [pc EXCEPT ![r] = "authorized"]
            \/ pc' = [pc EXCEPT ![r] = "failing"]
        BY <1>3, <2>6 DEF Authorize
      <3>2. input[r] \in Input
        BY <1>3, ReceiverAssumption DEF Authorize, FileInv, PassedInv
      <3>3. input[r].query = "plain"
        BY <2>6, <3>2 DEF Input
      <3> QED
        BY <2>3, <2>4, <3>1, <3>3 DEF Authorized
    <2> QED
      BY <2>5, <2>6
  <1>4. CASE CheckHeaders(r) \/ ReadBody(r) \/ Decode(r)
    <2>1. Posted(r)' /\ Authorized(r)'
      BY <1>4 DEF CheckHeaders, ReadBody, Decode, FileInv, PassedInv, Posted, Authorized
    <2> QED
      BY <1>4, <2>1, HandlerFile DEF CheckHeaders, ReadBody, Decode
  <1>5. CASE \/ RefuseEvents(r) \/ RefuseRaw(r) \/ SinkErrs(r) \/ SinkReturns(r)
             \/ Succeed(r) \/ Fail(r)
    BY <1>5, HandlerFile DEF RefuseEvents, RefuseRaw, SinkErrs, SinkReturns, Succeed, Fail
  <1>6. CASE Parse(r)
    BY <1>6, ParseFile
  <1> QED
    BY <1>1, <1>2, <1>3, <1>4, <1>5, <1>6 DEF HandlerStep

LEMMA DiskFile ==
  ASSUME FileInv, UNCHANGED <<pc, input>>, Sink!DiskWrites \/ Sink!DiskFails
  PROVE  FileInv'
  <1>1. OwnersInv
    BY DEF FileInv
  <1>2. op.by \in Called /\ op.at \in Nat /\ op.st = "busy"
    BY <1>1 DEF OwnersInv, Sink!DiskWrites, Sink!DiskFails
  <1>3. UNCHANGED <<queue, state, next>> /\ Called' = Called
    BY DEF Sink!DiskWrites, Sink!DiskFails, Called
  <1>4. disk' \in Seq([by : Called, at : Nat, whole : BOOLEAN])
    <2>1. \A w \in BOOLEAN :
            Sink!Piece(op.by, op.at, w) \in [by : Called, at : Nat, whole : BOOLEAN]
      BY <1>2 DEF Sink!Piece
    <2>2. \/ disk' = disk
          \/ \E w \in BOOLEAN : disk' = Append(disk, Sink!Piece(op.by, op.at, w))
      BY DEF Sink!DiskWrites, Sink!DiskFails
    <2> DEFINE Pieces == [by : Called, at : Nat, whole : BOOLEAN]
    <2>3. disk \in Seq(Pieces)
      BY <1>1 DEF OwnersInv
    <2>4. \A w \in BOOLEAN : Sink!Piece(op.by, op.at, w) \in Pieces
      BY <2>1
    <2> HIDE DEF Pieces
    <2>5. disk' \in Seq(Pieces)
      BY <2>2, <2>3, <2>4
    <2> QED
      BY <2>5 DEF Pieces
  <1>5. op' \in [st : {"busy", "done", "failed"}, by : Called, at : Nat]
    BY <1>1, <1>2 DEF OwnersInv, Sink!DiskWrites, Sink!DiskFails
  <1>6. OwnersInv'
    BY <1>1, <1>3, <1>4, <1>5 DEF OwnersInv
  <1> QED
    BY <1>3, <1>6 DEF FileInv, FunctionsInv, PassedInv, Posted, Authorized, Checked, RouteOf

LEMMA SinkFile ==
  ASSUME FileInv, NEW r \in Requests, UNCHANGED <<pc, input>>,
         Sink!OpenFile(r) \/ Sink!OpenFails(r) \/ Sink!WritePiece(r) \/ Sink!WriteFails(r)
  PROVE  FileInv'
  <1>1. OwnersInv
    BY DEF FileInv
  <1>3. CASE Sink!OpenFile(r)
    <2>1. UNCHANGED <<queue, state, next, op, disk>>
      BY <1>3 DEF Sink!OpenFile
    <2> QED
      BY <2>1 DEF FileInv, FunctionsInv, PassedInv, OwnersInv, Called, Posted, Authorized,
                  Checked, RouteOf
  <1>4. ASSUME r \in Called, \/ UNCHANGED <<state, queue>>
                             \/ /\ \E how \in {"ok", "failed"} : state' = [state EXCEPT ![r] = how]
                                /\ queue # <<>> /\ queue' = Tail(queue),
               next' \in [Requests -> Nat], disk' = disk,
               op' \in [st : {"idle"}] \cup [st : {"busy", "done", "failed"}, by : Called, at : Nat]
        PROVE  FileInv'
    <2>1. state' \in [Requests -> Sink!States] /\ Called' = Called
      BY <1>1, <1>4 DEF OwnersInv, Called, Sink!States
    <2>2. queue' \in Seq(Called)
      BY <1>1, <1>4, SequenceFacts DEF OwnersInv
    <2>3. OwnersInv'
      BY <1>1, <1>4, <2>1, <2>2 DEF OwnersInv
    <2> QED
      BY <2>1, <2>3 DEF FileInv, FunctionsInv, PassedInv, Posted, Authorized, Checked, RouteOf
  <1>5. CASE Sink!OpenFails(r) \/ Sink!WritePiece(r) \/ Sink!WriteFails(r)
    <2>1. r \in Called /\ queue # <<>>
      BY <1>1, <1>5 DEF OwnersInv, Sink!OpenFails, Sink!WritePiece, Sink!WriteFails, Sink!Holds
    <2>2. CASE Sink!OpenFails(r)
      BY <1>1, <1>4, <2>1, <2>2 DEF OwnersInv, Sink!OpenFails, Sink!Return
    <2>3. CASE Sink!WriteFails(r)
      BY <1>1, <1>4, <2>1, <2>3 DEF OwnersInv, Sink!WriteFails, Sink!Return, Sink!Idle
    <2>4. CASE Sink!WritePiece(r)
      <3>1. next' \in [Requests -> Nat] /\ next[r] \in Nat
        BY <1>1, <2>4 DEF OwnersInv, Sink!WritePiece
      <3>2. op' \in [st : {"busy", "done", "failed"}, by : Called, at : Nat]
        BY <2>1, <2>4, <3>1 DEF Sink!WritePiece, Sink!InFlight
      <3> QED
        BY <1>1, <1>4, <2>1, <2>4, <3>1, <3>2 DEF OwnersInv, Sink!WritePiece, Sink!Return
    <2> QED
      BY <1>5, <2>2, <2>3, <2>4
  <1> QED
    BY <1>3, <1>5

LEMMA DisconnectFile ==
  ASSUME FileInv, NEW r \in Requests, Disconnect(r)
  PROVE  FileInv'
  <1>1. OwnersInv /\ pc' = [pc EXCEPT ![r] = "gone"] /\ input' = input
    BY DEF FileInv, Disconnect, Goto
  <1>2. CASE UNCHANGED sinkVars
    BY <1>1, <1>2, HandlerFile DEF Steps
  <1>3. CASE Sink!Leave(r)
    <2>1. r \in Called /\ state' = [state EXCEPT ![r] = "gone"] /\ UNCHANGED <<op, disk, next>>
      BY <1>3 DEF Sink!Leave, Called
    <2>2. state' \in [Requests -> Sink!States] /\ Called' = Called
      BY <1>1, <2>1 DEF OwnersInv, Called, Sink!States
    <2>3. queue' \in Seq(Called)
      BY <1>1, <1>3, SequenceFacts DEF OwnersInv, Sink!Leave
    <2>4. OwnersInv'
      BY <1>1, <2>1, <2>2, <2>3 DEF OwnersInv
    <2>5. FunctionsInv' /\ \A s \in Requests : pc'[s] = IF s = r THEN "gone" ELSE pc[s]
      BY <1>1 DEF FileInv, FunctionsInv, Steps
    <2>6. PassedInv'
      BY <1>1, <2>2, <2>5 DEF FileInv, PassedInv, Posted, Authorized, Checked, RouteOf
    <2> QED
      BY <2>4, <2>5, <2>6 DEF FileInv
  <1> QED
    BY <1>2, <1>3 DEF Disconnect

LEMMA NextFile == FileInv /\ [Next]_vars => FileInv'
  <1> SUFFICES ASSUME FileInv, [Next]_vars PROVE FileInv'
    OBVIOUS
  <1>1. ASSUME NEW r \in Requests, Connect(r) PROVE FileInv'
    BY <1>1, HandlerFile DEF Connect, Goto, Local, Steps
  <1>2. ASSUME NEW r \in Requests, NEW q \in Inputs, Arrive(r, q) PROVE FileInv'
    <2>1. /\ pc' = [pc EXCEPT ![r] = "received"] /\ pc[r] = "heading"
          /\ input' = [input EXCEPT ![r] = q] /\ UNCHANGED sinkVars
      BY <1>2 DEF Arrive, Goto
    <2>2. input'[r] = q
      BY <2>1 DEF FileInv, FunctionsInv
    <2>3. RouteOf(r)' \in Endpoints
      BY <1>2, <2>2 DEF Arrive, RouteOf
    <2> QED
      BY <2>1, <2>2, <2>3, HandlerFile DEF Steps
  <1>3. ASSUME NEW r \in Requests, NEW q \in Inputs, Elsewhere(r, q) PROVE FileInv'
    BY <1>3, HandlerFile DEF Elsewhere, Goto, Steps
  <1>4. ASSUME NEW r \in Requests, HandlerStep(r) PROVE FileInv'
    BY <1>4, StepsFile
  <1>5. ASSUME NEW r \in Requests, Disconnect(r) PROVE FileInv'
    BY <1>5, DisconnectFile
  <1>6. CASE SinkStep
    <2>1. UNCHANGED <<pc, input>>
      BY <1>6 DEF SinkStep, requestVars
    <2>2. CASE Sink!DiskWrites \/ Sink!DiskFails
      BY <2>1, <2>2, DiskFile
    <2>3. ASSUME NEW r \in Requests,
                 Sink!OpenFile(r) \/ Sink!OpenFails(r) \/ Sink!WritePiece(r) \/ Sink!WriteFails(r)
          PROVE  FileInv'
      BY <2>1, <2>3, SinkFile
    <2> QED
      BY <1>6, <2>2, <2>3 DEF SinkStep
  <1>7. CASE Signal \/ Exit \/ Quiet \/ UNCHANGED vars
    <2>1. UNCHANGED <<pc, input>> /\ UNCHANGED sinkVars
      BY <1>7 DEF Signal, Exit, Quiet, vars, requestVars
    <2>2. OwnersInv' /\ Called' = Called
      BY <2>1, OwnersKept DEF FileInv
    <2> QED
      BY <2>1, <2>2 DEF FileInv, FunctionsInv, PassedInv, Posted, Authorized, Checked, RouteOf
  <1> QED
    BY <1>1, <1>2, <1>3, <1>4, <1>5, <1>6, <1>7 DEF Next

(* Every piece in the file is of a request that called the sink.            *)
LEMMA PieceOwned ==
  ASSUME FileInv, NEW j \in DOMAIN disk
  PROVE  disk[j].by \in Called
  <1> DEFINE Pieces == [by : Called, at : Nat, whole : BOOLEAN]
  <1>1. disk \in Seq(Pieces)
    BY DEF FileInv, OwnersInv
  <1> HIDE DEF Pieces
  <1>2. disk[j] \in Pieces
    BY <1>1
  <1> QED
    BY <1>2 DEF Pieces

(* Nothing gets into the capture file that the router or a check would      *)
(* refuse, for any number of requests, whatever they look like, and any     *)
(* behaviour of clients and disk.                                          *)
THEOREM OnlyAuthorized == Spec => []FileIsAuthorized
  <1>1. FileInv => FileIsAuthorized
    <2> SUFFICES ASSUME FileInv, NEW j \in DOMAIN disk
                 PROVE  Checked(disk[j].by)
      BY DEF FileIsAuthorized, Checked, Posted, Authorized
    <2>1. disk[j].by \in Called
      BY PieceOwned
    <2> QED
      BY <2>1 DEF FileInv, PassedInv, Called
  <1> QED
    BY <1>1, InitFile, NextFile, PTL DEF Spec
-----------------------------------------------------------------------------
(* What is proved of the sink alone holds of the sink within the pipeline.  *)
SP == INSTANCE CaptureSink_proofs WITH Callers <- Requests, MaxLives <- 1, lives <- 1

LEMMA Assumed ==
  /\ SP!IsFiniteSet(Requests) /\ MaxEvents \in Nat \ {0} /\ Parts \in Nat \ {0}
  /\ WriteMayFail \in BOOLEAN /\ CallersMayLeave \in BOOLEAN /\ 1 \in Nat \ {0}
  BY ReceiverAssumption DEF SP!IsFiniteSet, IsFiniteSet

LEMMA SinkSame ==
  /\ Sink!Init => SP!Init
  /\ \A c \in Requests : \A n \in 1..MaxEvents : Sink!Submit(c, n) => SP!Submit(c, n)
  /\ \A c \in Requests : Sink!Leave(c) => SP!Leave(c)
  /\ \A c \in Requests : Sink!OpenFile(c) => SP!OpenFile(c)
  /\ \A c \in Requests : Sink!OpenFails(c) => SP!OpenFails(c)
  /\ \A c \in Requests : Sink!WritePiece(c) => SP!WritePiece(c)
  /\ \A c \in Requests : Sink!WriteFails(c) => SP!WriteFails(c)
  /\ Sink!DiskWrites => SP!DiskWrites
  /\ Sink!DiskFails => SP!DiskFails
  /\ UNCHANGED sinkVars => UNCHANGED SP!sinkVars
  /\ SP!TypeOK => Sink!TypeOK
  <1>1. Sink!Init => SP!Init
    BY DEF Sink!Init, SP!Init, Sink!Idle, SP!Idle
  <1>2. \A c \in Requests : \A n \in 1..MaxEvents : Sink!Submit(c, n) => SP!Submit(c, n)
    BY DEF Sink!Submit, SP!Submit
  <1>3. \A c \in Requests : Sink!Leave(c) => SP!Leave(c)
    BY DEF Sink!Leave, SP!Leave, Sink!RemoveAt, SP!RemoveAt
  <1>4. \A c \in Requests : Sink!OpenFile(c) => SP!OpenFile(c)
    BY DEF Sink!OpenFile, SP!OpenFile, Sink!Holds, SP!Holds
  <1>5. \A c \in Requests : Sink!OpenFails(c) => SP!OpenFails(c)
    BY DEF Sink!OpenFails, SP!OpenFails, Sink!Holds, SP!Holds, Sink!Return, SP!Return
  <1>6. \A c \in Requests : Sink!WritePiece(c) => SP!WritePiece(c)
    BY DEF Sink!WritePiece, SP!WritePiece, Sink!Holds, SP!Holds, Sink!Return, SP!Return,
           Sink!InFlight, SP!InFlight, Sink!Total, SP!Total, Sink!PerEvent, SP!PerEvent
  <1>7. \A c \in Requests : Sink!WriteFails(c) => SP!WriteFails(c)
    BY DEF Sink!WriteFails, SP!WriteFails, Sink!Holds, SP!Holds, Sink!Return, SP!Return,
           Sink!Idle, SP!Idle
  <1>8. Sink!DiskWrites => SP!DiskWrites
    BY DEF Sink!DiskWrites, SP!DiskWrites, Sink!Piece, SP!Piece
  <1>9. Sink!DiskFails => SP!DiskFails
    BY DEF Sink!DiskFails, SP!DiskFails, Sink!Piece, SP!Piece, Sink!IsNewline, SP!IsNewline,
           Sink!PerEvent, SP!PerEvent
  <1>10. UNCHANGED sinkVars => UNCHANGED SP!sinkVars
    BY DEF sinkVars, SP!sinkVars
  <1>11. SP!TypeOK => Sink!TypeOK
    BY DEF Sink!TypeOK, SP!TypeOK, Sink!States, SP!States, Sink!Total, SP!Total,
           Sink!PerEvent, SP!PerEvent
  <1> QED
    BY <1>1, <1>2, <1>3, <1>4, <1>5, <1>6, <1>7, <1>8, <1>9, <1>10, <1>11

(* Every step of the pipeline is a step of the sink or leaves it alone.     *)
LEMMA PipelineDrivesSink ==
  ASSUME AccountInv, [Next]_vars
  PROVE  \/ UNCHANGED sinkVars
         \/ \E r \in Requests : \E n \in 1..MaxEvents : Sink!Submit(r, n)
         \/ \E r \in Requests : Sink!Leave(r)
         \/ SinkStep
  <1>1. ASSUME NEW r \in Requests, HandlerStep(r)
        PROVE  UNCHANGED sinkVars \/ \E n \in 1..MaxEvents : Sink!Submit(r, n)
    <2>1. CASE Parse(r)
      <3>1. input[r].events \in 1..MaxEvents
        BY <2>1, ReceiverAssumption DEF Parse, AccountInv, StageOK, Inside, Steps, Input
      <3> QED
        BY <2>1, <3>1 DEF Parse
    <2>2. CASE ~Parse(r)
      BY <1>1, <2>2 DEF HandlerStep, Ack, Admit, Authorize, CheckHeaders, ReadBody, Decode,
                        RefuseEvents, RefuseRaw, SinkReturns, SinkErrs, Succeed, Fail, Local
    <2> QED
      BY <2>1, <2>2
  <1>2. ASSUME NEW r \in Requests, Disconnect(r) PROVE UNCHANGED sinkVars \/ Sink!Leave(r)
    BY <1>2 DEF Disconnect
  <1>3. ASSUME NEW r \in Requests, Connect(r) \/ \E q \in Inputs : Arrive(r, q) \/ Elsewhere(r, q)
        PROVE  UNCHANGED sinkVars
    BY <1>3 DEF Connect, Arrive, Elsewhere, Local
  <1>4. CASE Signal \/ Exit \/ Quiet \/ UNCHANGED vars
    BY <1>4 DEF Signal, Exit, Quiet, vars
  <1> QED
    BY <1>1, <1>2, <1>3, <1>4 DEF Next

LEMMA InitSink == Init => SP!IInv
  BY SP!InitInv, SinkSame, Assumed DEF Init

LEMMA NextSink == AccountInv /\ SP!IInv /\ [Next]_vars => SP!IInv'
  <1> SUFFICES ASSUME AccountInv, SP!IInv, [Next]_vars PROVE SP!IInv'
    OBVIOUS
  <1>1. CASE UNCHANGED sinkVars
    BY <1>1, SP!StutterInv, SinkSame, Assumed
  <1>2. ASSUME NEW r \in Requests, NEW n \in 1..MaxEvents, Sink!Submit(r, n) PROVE SP!IInv'
    BY <1>2, SP!SubmitInv, SinkSame, Assumed
  <1>3. ASSUME NEW r \in Requests, Sink!Leave(r) PROVE SP!IInv'
    BY <1>3, SP!LeaveInv, SinkSame, Assumed
  <1>4. ASSUME NEW r \in Requests,
               Sink!OpenFile(r) \/ Sink!OpenFails(r) \/ Sink!WritePiece(r) \/ Sink!WriteFails(r)
        PROVE  SP!IInv'
    <2>1. CASE Sink!OpenFile(r)
      BY <2>1, SP!OpenFileInv, SinkSame, Assumed
    <2>2. CASE Sink!OpenFails(r)
      BY <2>2, SP!OpenFailsInv, SinkSame, Assumed
    <2>3. CASE Sink!WritePiece(r)
      BY <2>3, SP!WritePieceInv, SinkSame, Assumed
    <2>4. CASE Sink!WriteFails(r)
      BY <2>4, SP!WriteFailsInv, SinkSame, Assumed
    <2> QED
      BY <1>4, <2>1, <2>2, <2>3, <2>4
  <1>5. CASE Sink!DiskWrites
    BY <1>5, SP!DiskWritesInv, SinkSame, Assumed
  <1>6. CASE Sink!DiskFails
    BY <1>6, SP!DiskFailsInv, SinkSame, Assumed
  <1> QED
    BY <1>1, <1>2, <1>3, <1>4, <1>5, <1>6, PipelineDrivesSink DEF SinkStep

(* What no other invariant says of the variables.                           *)
RestInv == exited \in BOOLEAN /\ input \in [Requests -> Inputs \cup {NoInput}]

LEMMA InitRest == Init => RestInv
  BY DEF Init, RestInv

LEMMA NextRest == RestInv /\ [Next]_vars => RestInv'
  <1> SUFFICES ASSUME RestInv, [Next]_vars PROVE RestInv'
    OBVIOUS
  <1>1. ASSUME NEW r \in Requests, NEW q \in Inputs, Arrive(r, q) \/ Elsewhere(r, q)
        PROVE  RestInv'
    BY <1>1 DEF RestInv, Arrive, Elsewhere, serverVars
  <1>2. ASSUME NEW r \in Requests, Connect(r) \/ HandlerStep(r) \/ Disconnect(r)
        PROVE  UNCHANGED <<exited, input>>
    BY <1>2 DEF Connect, HandlerStep, Ack, Admit, Authorize, CheckHeaders, ReadBody, Decode,
                Parse, RefuseEvents, RefuseRaw, SinkReturns, SinkErrs, Succeed, Fail,
                Disconnect, Local, serverVars
  <1>3. CASE Exit
    BY <1>3 DEF RestInv, Exit, requestVars
  <1>4. CASE SinkStep \/ Signal \/ Quiet \/ UNCHANGED vars
    BY <1>4 DEF SinkStep, Signal, Quiet, vars, serverVars, requestVars, RestInv
  <1> QED
    BY <1>1, <1>2, <1>3, <1>4 DEF Next, RestInv

(* Every variable of the pipeline and of its sink stays in its range, for   *)
(* any requests: every fact is reported with a reason that is one, and no   *)
(* counter falls below nought.                                              *)
THEOREM TypeCorrect == Spec => []TypeOK
  <1>1. AccountInv /\ LateInv /\ ReportInv /\ SP!IInv /\ RestInv => TypeOK
    <2> SUFFICES ASSUME AccountInv, LateInv, ReportInv, SP!IInv, RestInv PROVE TypeOK
      OBVIOUS
    <2>1. SP!TypeOK
      BY DEF SP!IInv
    <2>2. Sink!TypeOK
      BY <2>1, SinkSame
    <2> QED
      BY <2>2 DEF RestInv, LateInv, ToldInv, LateShape, ReportInv, TypedInv, CountersOK, TypeOK
  <1> QED
    BY <1>1, InitAccount, NextAccount, InitServed, NextServed, InitReports, NextReports,
       InitLate, NextLate, InitSink, NextSink, InitRest, NextRest, PTL
    DEF Spec
-----------------------------------------------------------------------------
(* What the pipeline knows of a call to the sink: nothing was submitted     *)
(* before Parse, nothing of a request that a check refused, and who is      *)
(* being answered 200 had the Ok of the sink for all of its events.         *)
CallInv(r) ==
  /\ pc[r] \in {"new", "heading", "elsewhere"} \cup Before => state[r] = "idle"
  /\ failure[r] # NoFailure /\ failure[r].reason # "SinkFailed" => state[r] = "idle"
  /\ Capture /\ pc[r] = "sink" => size[r] = input[r].events
  /\ Capture /\ (pc[r] = "succeeding" \/ r \in Accepted) =>
       state[r] = "ok" /\ size[r] = input[r].events

CallsInv == \A r \in Requests : CallInv(r)

(* The sink's own steps end calls that are pending.                         *)
LEMMA SinkStates ==
  ASSUME SP!IInv, SinkStep
  PROVE  /\ UNCHANGED <<size, pc, failure, input, counters>>
         /\ \A s \in Requests : state'[s] = state[s] \/ state[s] = "pending"
  <1>1. UNCHANGED <<size, pc, failure, input, counters>>
    BY DEF SinkStep, requestVars, Sink!OpenFile, Sink!OpenFails, Sink!WritePiece,
           Sink!WriteFails, Sink!DiskWrites, Sink!DiskFails
  <1>2. state \in [Requests -> SP!States] /\ SP!TypeOK /\ SP!QueueInv
    BY DEF SP!IInv, SP!TypeOK
  <1>3. ASSUME NEW r \in Requests, Sink!Holds(r) PROVE state[r] = "pending"
    <2>1. SP!Holds(r)
      BY <1>3 DEF Sink!Holds, SP!Holds
    <2> QED
      BY <1>2, <2>1, SP!HolderFacts, Assumed
  <1>4. ASSUME NEW r \in Requests,
               Sink!OpenFile(r) \/ Sink!OpenFails(r) \/ Sink!WritePiece(r) \/ Sink!WriteFails(r)
        PROVE  \A s \in Requests : state'[s] = state[s] \/ state[s] = "pending"
    <2>1. state' = state \/ (Sink!Holds(r) /\ \E how : state' = [state EXCEPT ![r] = how])
      BY <1>4 DEF Sink!OpenFile, Sink!OpenFails, Sink!WritePiece, Sink!WriteFails, Sink!Return
    <2> QED
      BY <1>2, <1>3, <2>1
  <1>5. CASE Sink!DiskWrites \/ Sink!DiskFails
    BY <1>1, <1>5 DEF Sink!DiskWrites, Sink!DiskFails
  <1>6. \/ \E r \in Requests :
             Sink!OpenFile(r) \/ Sink!OpenFails(r) \/ Sink!WritePiece(r) \/ Sink!WriteFails(r)
        \/ Sink!DiskWrites \/ Sink!DiskFails
    BY DEF SinkStep
  <1> QED
    BY <1>1, <1>4, <1>5, <1>6

LEMMA InitCalls == Init => CallsInv
  BY DEF Init, Sink!Init, CallsInv, CallInv, Before, Accepted, Having

(* A step of r that leaves the sink alone.                                  *)
LEMMA AwayCalls ==
  ASSUME AccountInv, CallsInv, UNCHANGED <<state, size>>, NEW r \in Requests, NEW step,
         pc' = [pc EXCEPT ![r] = step],
         failure' = failure \/ \E x : failure' = [failure EXCEPT ![r] = x],
         input' = input \/ \E q : input' = [input EXCEPT ![r] = q],
         CallInv(r)'
  PROVE  CallsInv'
  <1>1. \A s \in Requests \ {r} : pc'[s] = pc[s] /\ failure'[s] = failure[s] /\ input'[s] = input[s]
    BY DEF AccountInv, ShapeInv
  <1>2. \A s \in Requests \ {r} : CallInv(s)'
    BY <1>1 DEF CallsInv, CallInv, Accepted, Having
  <1> QED
    BY <1>2 DEF CallsInv

LEMMA HandlerCalls ==
  ASSUME AccountInv, ServedInv, CallsInv, SP!IInv, NEW r \in Requests, HandlerStep(r)
  PROVE  CallsInv'
  <1>1. CASE Refuses(r)
    <2>1. /\ pc[r] \in Before /\ pc' = [pc EXCEPT ![r] = "failing"] /\ input' = input
          /\ UNCHANGED <<state, size>> /\ \E x : failure' = [failure EXCEPT ![r] = x]
      BY <1>1 DEF Refuses, RefusesWith, Fails, Local, sinkVars
    <2>2. pc'[r] = "failing" /\ state'[r] = "idle"
      BY <2>1 DEF AccountInv, ShapeInv, CallsInv, CallInv
    <2>3. CallInv(r)'
      BY <2>2 DEF CallInv, Before, Accepted, Having
    <2> QED
      BY <2>1, <2>3, AwayCalls
  <1>2. CASE Passes(r)
    <2>1. /\ pc[r] \in Before /\ \E step \in Before : pc' = [pc EXCEPT ![r] = step]
          /\ input' = input /\ UNCHANGED <<state, size, failure>>
      BY <1>2 DEF Passes, Goto, Local, sinkVars
    <2>2. pc'[r] \in Before /\ state'[r] = "idle"
      BY <2>1 DEF AccountInv, ShapeInv, CallsInv, CallInv
    <2>3. CallInv(r)'
      BY <2>2 DEF CallInv, Before, Accepted, Having
    <2> QED
      BY <2>1, <2>3, AwayCalls
  <1>3. CASE SinkReturns(r)
    <2>1. /\ pc[r] = "sink" /\ pc' = [pc EXCEPT ![r] = "succeeding"] /\ input' = input
          /\ UNCHANGED <<state, size, failure>> /\ failure[r] = NoFailure
          /\ Capture => state[r] = "ok"
      BY <1>3 DEF SinkReturns, Goto, Local, sinkVars, AccountInv, StageOK
    <2>2. pc'[r] = "succeeding"
      BY <2>1 DEF AccountInv, ShapeInv
    <2>3. CallInv(r)'
      BY <2>1, <2>2 DEF CallsInv, CallInv, Before, Accepted, Having
    <2> QED
      BY <2>1, <2>3, AwayCalls
  <1>4. CASE SinkErrs(r)
    <2> DEFINE x == Failure("ServerBusy", "SinkFailed")
    <2>1. /\ pc' = [pc EXCEPT ![r] = "failing"] /\ input' = input
          /\ UNCHANGED <<state, size>> /\ failure' = [failure EXCEPT ![r] = x]
      BY <1>4 DEF SinkErrs, Fails, Local, sinkVars
    <2>2. x.reason = "SinkFailed"
      BY DEF Failure
    <2> HIDE DEF x
    <2>3. pc'[r] = "failing" /\ failure'[r].reason = "SinkFailed"
      BY <2>1, <2>2 DEF AccountInv, ShapeInv
    <2>4. CallInv(r)'
      BY <2>3 DEF CallInv, Before, Accepted, Having
    <2> QED
      BY <2>1, <2>4, AwayCalls
  <1>5. CASE Succeed(r) \/ Fail(r)
    <2>1. /\ pc' = [pc EXCEPT ![r] = "answered"] /\ input' = input
          /\ UNCHANGED <<state, size, failure>>
          /\ \/ pc[r] = "succeeding" /\ failure[r] = NoFailure
             \/ pc[r] = "failing" /\ failure[r] # NoFailure
      BY <1>5 DEF Succeed, Fail, Goto, Local, sinkVars, AccountInv, StageOK
    <2>2. pc'[r] = "answered"
      BY <2>1 DEF AccountInv, ShapeInv
    <2>3. CallInv(r)'
      BY <2>1, <2>2 DEF CallsInv, CallInv, Before, Accepted, Having
    <2> QED
      BY <2>1, <2>3, AwayCalls
  <1>6. CASE Parse(r)
    <2>1. /\ pc[r] = "decoded" /\ pc' = [pc EXCEPT ![r] = "sink"] /\ UNCHANGED <<failure, input>>
          /\ failure[r] = NoFailure
      BY <1>6 DEF Parse, Goto, AccountInv, StageOK
    <2>2. pc'[r] = "sink" /\ \A s \in Requests \ {r} : pc'[s] = pc[s]
      BY <2>1 DEF AccountInv, ShapeInv
    <2>3. /\ \A s \in Requests \ {r} : state'[s] = state[s] /\ size'[s] = size[s]
          /\ Capture => size'[r] = input[r].events
      <3>1. CASE Capture
        <4>1. /\ state' = [state EXCEPT ![r] = "pending"]
              /\ size' = [size EXCEPT ![r] = input[r].events]
          BY <1>6, <3>1 DEF Parse, Sink!Submit
        <4>2. state \in [Requests -> SP!States] /\ size \in [Requests -> 0..MaxEvents]
          BY DEF SP!IInv, SP!TypeOK
        <4> QED
          BY <4>1, <4>2
      <3>2. CASE ~Capture
        BY <1>6, <3>2 DEF Parse, sinkVars
      <3> QED
        BY <3>1, <3>2
    <2>4. \A s \in Requests : CallInv(s)'
      BY <2>1, <2>2, <2>3 DEF CallsInv, CallInv, Before, Accepted, Having
    <2> QED
      BY <2>4 DEF CallsInv
  <1> QED
    BY <1>1, <1>2, <1>3, <1>4, <1>5, <1>6, HandlerKinds

LEMMA NextCalls == AccountInv /\ ServedInv /\ CallsInv /\ SP!IInv /\ [Next]_vars => CallsInv'
  <1> SUFFICES ASSUME AccountInv, ServedInv, CallsInv, SP!IInv, [Next]_vars PROVE CallsInv'
    OBVIOUS
  <1>1. ASSUME NEW r \in Requests, Connect(r) \/ \E q \in Inputs : Arrive(r, q) \/ Elsewhere(r, q)
        PROVE  CallsInv'
    <2>1. /\ pc[r] \in {"new", "heading"} /\ UNCHANGED <<state, size, failure>>
          /\ \E step \in {"heading", "received", "elsewhere"} : pc' = [pc EXCEPT ![r] = step]
          /\ input' = input \/ \E q : input' = [input EXCEPT ![r] = q]
      BY <1>1 DEF Connect, Arrive, Elsewhere, Goto, Local, sinkVars
    <2>2. pc'[r] \in {"heading", "received", "elsewhere"} /\ state[r] = "idle"
      BY <2>1 DEF AccountInv, ShapeInv, CallsInv, CallInv
    <2>3. CallInv(r)'
      BY <2>1, <2>2 DEF CallInv, Accepted, Having
    <2> QED
      BY <2>1, <2>3, AwayCalls
  <1>2. ASSUME NEW r \in Requests, HandlerStep(r) PROVE CallsInv'
    BY <1>2, HandlerCalls
  <1>3. ASSUME NEW r \in Requests, Disconnect(r) PROVE CallsInv'
    <2>1. /\ pc' = [pc EXCEPT ![r] = "gone"] /\ UNCHANGED <<failure, input, size>>
          /\ failure[r] = NoFailure
          /\ state' = state \/ state' = [state EXCEPT ![r] = "gone"]
      BY <1>3 DEF Disconnect, Goto, Sink!Leave, sinkVars, AccountInv, StageOK
    <2>2. /\ pc'[r] = "gone"
          /\ \A s \in Requests \ {r} : pc'[s] = pc[s] /\ state'[s] = state[s]
      BY <2>1 DEF AccountInv, ShapeInv, SP!IInv, SP!TypeOK
    <2>3. \A s \in Requests : CallInv(s)'
      BY <2>1, <2>2 DEF CallsInv, CallInv, Before, Accepted, Having
    <2> QED
      BY <2>3 DEF CallsInv
  <1>4. CASE SinkStep
    BY <1>4, SinkStates DEF CallsInv, CallInv, Accepted, Having
  <1>5. CASE Signal \/ Exit \/ Quiet \/ UNCHANGED vars
    BY <1>5 DEF Signal, Exit, Quiet, vars, requestVars, sinkVars, CallsInv, CallInv, Accepted,
                Having
  <1> QED
    BY <1>1, <1>2, <1>3, <1>4, <1>5 DEF Next

(* Which pieces of a request hold the JSON text of its i-th event.          *)
LEMMA PieceOfEvent ==
  ASSUME NEW p \in Nat \ {0}, NEW n \in Nat, NEW i \in 1..n, NEW k \in 1..p
  PROVE  (i - 1) * (p + 1) + k \in 1..(n * (p + 1) - 1)
  <1> DEFINE m == p + 1
  <1>1. m \in Nat /\ m >= 2 /\ k \in Nat /\ k >= 1 /\ k <= m - 1 /\ i \in Nat /\ i >= 1
    OBVIOUS
  <1> HIDE DEF m
  <1>2. (i - 1) * m \in Nat /\ (n - i) * m \in Nat
    <2>1. \A a \in Nat : a * m \in Nat
      BY <1>1
    <2>2. i - 1 \in Nat /\ n - i \in Nat
      OBVIOUS
    <2> QED
      BY <2>1, <2>2
  <1>3. n * m = (n - i) * m + (i - 1) * m + m
    <2>1. \A a, b \in Int : (a + b + 1) * m = a * m + b * m + m
      BY <1>1
    <2>2. n - i \in Int /\ i - 1 \in Int /\ (n - i) + (i - 1) + 1 = n
      OBVIOUS
    <2> QED
      BY <2>1, <2>2
  <1>4. (i - 1) * m + k \in 1..(n * m - 1)
    BY <1>1, <1>2, <1>3
  <1> QED
    BY <1>4 DEF m

(* What the sink said Ok to is in the file, every event of it.              *)
LEMMA OkIsWhole ==
  ASSUME SP!IInv, NEW r \in Requests, state[r] = "ok", size[r] = input[r].events,
         NEW i \in 1..input[r].events
  PROVE  <<r, i>> \in WholeOnDisk
  <1>1. size[r] \in 0..MaxEvents
    BY DEF SP!IInv, SP!TypeOK
  <1>2. i \in 1..MaxEvents /\ size[r] \in Nat /\ i \in 1..size[r]
    BY <1>1, ReceiverAssumption
  <1>3. ASSUME NEW k \in 1..Parts
        PROVE  Sink!OnDisk(r, (i - 1) * Sink!PerEvent + k)
    <2> DEFINE q == (i - 1) * (Parts + 1) + k
    <2>1. q \in 1..(size[r] * (Parts + 1) - 1)
      BY <1>2, ReceiverAssumption, PieceOfEvent
    <2>2. q \in 1..(SP!Total(r) - 1)
      BY <2>1 DEF SP!Total, SP!PerEvent
    <2> HIDE DEF q
    <2>3. SP!OnDisk(r, q)
      BY <2>2 DEF SP!IInv, SP!AcceptedOnDisk
    <2>4. Sink!OnDisk(r, q)
      BY <2>3 DEF SP!OnDisk, Sink!OnDisk, SP!Piece, Sink!Piece
    <2> QED
      BY <2>4 DEF q, Sink!PerEvent
  <1> QED
    BY <1>2, <1>3 DEF WholeOnDisk

(* A client that was answered 200 finds every event it sent in the capture  *)
(* file, and one that was refused for anything but an error of the sink     *)
(* left nothing there, for any number of requests and any faults.           *)
THEOREM AnswersTrue == Spec => []AnswersMatchFile
  <1>1. CallsInv /\ FileInv /\ SP!IInv => AnswersMatchFile
    <2> SUFFICES ASSUME CallsInv, FileInv, SP!IInv, Capture PROVE AnswersMatchFile
      BY DEF AnswersMatchFile
    <2>1. ASSUME NEW r \in Accepted, NEW i \in 1..input[r].events
          PROVE  <<r, i>> \in WholeOnDisk
      <3>1. r \in Requests /\ state[r] = "ok" /\ size[r] = input[r].events
        BY DEF CallsInv, CallInv, Accepted, Having
      <3> QED
        BY <3>1, OkIsWhole
    <2>2. ASSUME NEW r \in Requests, failure[r] # NoFailure, failure[r].reason # "SinkFailed",
                 NEW j \in DOMAIN disk
          PROVE  disk[j].by # r
      <3>1. r \notin Called
        BY <2>2 DEF CallsInv, CallInv, Called
      <3>2. disk[j].by \in Called
        BY PieceOwned
      <3> QED
        BY <3>1, <3>2
    <2> QED
      BY <2>1, <2>2 DEF AnswersMatchFile
  <1> QED
    BY <1>1, InitAccount, NextAccount, InitServed, NextServed, InitSink, NextSink, InitFile,
       NextFile, InitCalls, NextCalls, PTL
    DEF Spec
-----------------------------------------------------------------------------
(* What has been counted as written are the events of the requests that had *)
(* the Ok of the sink.                                                      *)
Done == Having("succeeding") \cup Accepted

WrittenInv == counters["events_written"] = IF Capture THEN EventsOf(Done) ELSE 0

LEMMA InitWritten == Init => WrittenInv
  <1> SUFFICES ASSUME Init PROVE WrittenInv
    OBVIOUS
  <1>1. Done = {}
    BY DEF Init, Done, Accepted, Having
  <1>2. counters["events_written"] = 0
    BY CounterFacts DEF Init, EventName
  <1> HIDE DEF Done
  <1> QED
    BY <1>1, <1>2, LoadEmpty DEF WrittenInv

(* A step of r that does not make it done.                                  *)
LEMMA SameDone ==
  ASSUME AccountInv, WrittenInv, NEW r \in Requests, NEW step, pc' = [pc EXCEPT ![r] = step],
         counters'["events_written"] = counters["events_written"],
         failure' = failure \/ \E x : failure' = [failure EXCEPT ![r] = x],
         \/ input' = input
         \/ pc[r] = "heading" /\ \E q : input' = [input EXCEPT ![r] = q],
         \/ /\ pc[r] \notin {"succeeding", "answered"}
            /\ step \notin {"succeeding", "answered"}
         \/ /\ pc[r] \in {"succeeding", "failing"} /\ step = "answered" /\ failure' = failure
            /\ pc[r] = "succeeding" <=> failure[r] = NoFailure
  PROVE  WrittenInv'
  <1>1. /\ pc'[r] = step
        /\ \A s \in Requests \ {r} :
             pc'[s] = pc[s] /\ failure'[s] = failure[s] /\ input'[s] = input[s]
    BY DEF AccountInv, ShapeInv
  <1>2. Done' = Done
    BY <1>1 DEF Done, Accepted, Having
  <1>3. \A s \in Done : input'[s] = input[s]
    BY <1>1 DEF Done, Accepted, Having
  <1>4. EventsOf(Done)' = EventsOf(Done)
    BY <1>2, <1>3, LoadSame
  <1> QED
    BY <1>4 DEF WrittenInv

LEMMA ReturnsWritten ==
  ASSUME AccountInv, CountersOK, WrittenInv, NEW r \in Requests, SinkReturns(r)
  PROVE  WrittenInv'
  <1> DEFINE n == input[r].events
             fields == [events_dropped |-> IF Capture THEN 0 ELSE n,
                        events_written |-> IF Capture THEN n ELSE 0]
  <1>1. /\ pc[r] = "sink" /\ pc' = [pc EXCEPT ![r] = "succeeding"]
        /\ UNCHANGED <<failure, input>> /\ n \in 1..MaxEvents
    <2>1. pc[r] = "sink" /\ input[r] \in Input
      BY ReceiverAssumption DEF SinkReturns, AccountInv, StageOK, Inside, Steps
    <2> QED
      BY <2>1 DEF SinkReturns, Goto, Input, Local
  <1>2. SubmittedSum(r, "SINK_COMPLETED", fields) /\ n \in Nat
    BY <1>1, ReceiverAssumption DEF SinkReturns
  <1>3. \A c \in SumsOf["SINK_COMPLETED"] : fields[c] \in Nat
    BY <1>2, CounterFacts
  <1>4. fields["events_written"] = IF Capture THEN n ELSE 0
    OBVIOUS
  <1> HIDE DEF fields
  <1>5. counters'["events_written"] = counters["events_written"] + IF Capture THEN n ELSE 0
    BY <1>2, <1>3, <1>4, SummedTyped, CounterFacts DEF EventName
  <1>6. pc'[r] = "succeeding" /\ \A s \in Requests \ {r} : pc'[s] = pc[s]
    BY <1>1 DEF AccountInv, ShapeInv
  <1>7. Done' = Done \cup {r} /\ r \notin Done /\ Done \in SUBSET Requests
    BY <1>1, <1>6 DEF Done, Accepted, Having
  <1>8. EventsOf(Done)' = EventsOf(Done')
    BY <1>1 DEF EventsOf
  <1>9. EventsOf(Done \cup {r}) = EventsOf(Done) + n
    BY <1>1, <1>7, LoadAdd
  <1>10. EventsOf(Done)' = EventsOf(Done) + n
    BY <1>7, <1>8, <1>9, Zenon
  <1> HIDE DEF n
  <1> QED
    BY <1>5, <1>10 DEF WrittenInv

LEMMA NextWritten ==
  AccountInv /\ ServedInv /\ CountersOK /\ SP!IInv /\ WrittenInv /\ [Next]_vars => WrittenInv'
  <1> SUFFICES ASSUME AccountInv, ServedInv, CountersOK, SP!IInv, WrittenInv, [Next]_vars
               PROVE  WrittenInv'
    OBVIOUS
  <1>1. ASSUME NEW r \in Requests, Connect(r) \/ \E q \in Inputs : Arrive(r, q) \/ Elsewhere(r, q)
        PROVE  WrittenInv'
    <2>1. /\ pc[r] \in {"new", "heading"} /\ failure' = failure
          /\ \E step \in {"heading", "received", "elsewhere"} : pc' = [pc EXCEPT ![r] = step]
          /\ \/ input' = input
             \/ pc[r] = "heading" /\ \E q : input' = [input EXCEPT ![r] = q]
      BY <1>1 DEF Connect, Arrive, Elsewhere, Goto, Local
    <2>2. \A c \in EventName : counters'[c] = counters[c]
      BY <1>1, FS_Singleton, SubmittedTyped DEF Connect, Arrive, Elsewhere
    <2> QED
      BY <2>1, <2>2, SameDone DEF EventName
  <1>2. ASSUME NEW r \in Requests, Refuses(r) \/ Passes(r) \/ SinkErrs(r) PROVE WrittenInv'
    <2>1. /\ pc[r] \in Before \cup {"sink"} /\ input' = input
          /\ failure' = failure \/ \E x : failure' = [failure EXCEPT ![r] = x]
          /\ \E step \in Before \cup {"failing"} : pc' = [pc EXCEPT ![r] = step]
      BY <1>2 DEF Refuses, RefusesWith, Fails, Passes, SinkErrs, Goto, Local
    <2>2. \A c \in EventName : counters'[c] = counters[c]
      BY <1>2, CountsKept
    <2> QED
      BY <2>1, <2>2, SameDone DEF EventName, Before
  <1>3. ASSUME NEW r \in Requests, Succeed(r) \/ Fail(r) PROVE WrittenInv'
    <2>1. /\ pc[r] \in {"succeeding", "failing"} /\ UNCHANGED <<input, failure>>
          /\ pc[r] = "succeeding" <=> failure[r] = NoFailure
          /\ pc' = [pc EXCEPT ![r] = "answered"]
      BY <1>3 DEF Succeed, Fail, Goto, Local, AccountInv, StageOK
    <2>2. \A c \in EventName : counters'[c] = counters[c]
      BY <1>3, CountsKept
    <2> QED
      BY <2>1, <2>2, SameDone DEF EventName
  <1>4. ASSUME NEW r \in Requests, Parse(r) PROVE WrittenInv'
    <2> DEFINE fields == [events_observed |-> input[r].events]
    <2>1. /\ pc[r] = "decoded" /\ UNCHANGED <<input, failure>>
          /\ pc' = [pc EXCEPT ![r] = "sink"]
          /\ SubmittedSum(r, "EVENTS_PARSED", fields)
      BY <1>4 DEF Parse, Goto
    <2> HIDE DEF fields
    <2>2. counters'["events_written"] = counters["events_written"]
      BY <2>1, CounterFacts DEF SubmittedSum, EventName, CountersOK
    <2> QED
      BY <2>1, <2>2, SameDone
  <1>5. ASSUME NEW r \in Requests, Disconnect(r) PROVE WrittenInv'
    <2>1. /\ pc[r] \in {"heading", "reading", "sink"} /\ UNCHANGED <<input, failure, counters>>
          /\ pc' = [pc EXCEPT ![r] = "gone"]
      BY <1>5 DEF Disconnect, Goto
    <2> QED
      BY <2>1, SameDone
  <1>6. CASE SinkStep \/ Signal \/ Exit \/ Quiet \/ UNCHANGED vars
    <2>1. UNCHANGED <<pc, failure, input, counters>>
      BY <1>6 DEF SinkStep, Signal, Exit, Quiet, vars, requestVars
    <2>2. Done' = Done /\ EventsOf(Done)' = EventsOf(Done')
      BY <2>1 DEF Done, Accepted, Having, EventsOf
    <2> QED
      BY <2>1, <2>2 DEF WrittenInv
  <1> QED
    BY <1>1, <1>2, <1>3, <1>4, <1>5, <1>6, HandlerKinds, ReturnsWritten DEF Next

(* events_written claims no event whose JSON text is not whole in the file, *)
(* although the last write of a request is in flight when its events are    *)
(* counted, for any number of requests and any faults.                      *)
THEOREM WrittenNeverAhead == Spec => []WrittenIsOnDisk
  <1>1. WrittenInv /\ CallsInv /\ SP!IInv => WrittenIsOnDisk
    <2> SUFFICES ASSUME WrittenInv, CallsInv, SP!IInv PROVE WrittenIsOnDisk
      OBVIOUS
    <2>1. IsFiniteSet(WholeOnDisk) /\ Cardinality(WholeOnDisk) \in Nat
      <3>1. IsFiniteSet(1..MaxEvents)
        BY FS_Interval, ReceiverAssumption
      <3>2. IsFiniteSet(Requests \X (1..MaxEvents))
        BY <3>1, FS_Product, ReceiverAssumption
      <3>3. WholeOnDisk \subseteq Requests \X (1..MaxEvents)
        BY DEF WholeOnDisk
      <3> QED
        BY <3>2, <3>3, FS_Subset, FS_CardinalityType
    <2>2. CASE Capture
      <3>1. \A r \in Done : r \in Requests /\ state[r] = "ok" /\ size[r] = input[r].events
        BY <2>2 DEF Done, CallsInv, CallInv, Accepted, Having
      <3>2. \A r \in Done : size[r] \in 0..MaxEvents
        BY <3>1 DEF SP!IInv, SP!TypeOK
      <3>3. \A r \in Done : \A i \in 1..MaxEvents : i <= input[r].events => i \in 1..input[r].events
        BY <3>1, <3>2, ReceiverAssumption
      <3>4. \A r \in Done : \A i \in 1..MaxEvents :
              i <= input[r].events => <<r, i>> \in WholeOnDisk
        BY <3>1, <3>3, OkIsWhole
      <3>5. Load(Done) \subseteq WholeOnDisk
        BY <3>4 DEF Load
      <3>6. Cardinality(Load(Done)) <= Cardinality(WholeOnDisk)
        BY <2>1, <3>5, FS_Subset
      <3>7. EventsOf(Done) = Cardinality(Load(Done))
        BY DEF EventsOf, Load
      <3> QED
        BY <2>2, <3>6, <3>7 DEF WrittenInv, WrittenIsOnDisk
    <2>3. CASE ~Capture
      BY <2>1, <2>3 DEF WrittenInv, WrittenIsOnDisk
    <2> QED
      BY <2>2, <2>3
  <1>2. ReportInv => CountersOK
    BY DEF ReportInv, TypedInv
  <1> QED
    BY <1>1, <1>2, InitAccount, NextAccount, InitServed, NextServed, InitReports, NextReports,
       InitSink, NextSink, InitCalls, NextCalls, InitWritten, NextWritten, PTL
    DEF Spec
-----------------------------------------------------------------------------
(* The pipeline uses the sink only as the sink's own specification allows,  *)
(* in one process: what is proved of every behaviour of the sink holds of   *)
(* the sink of every server.                                                *)
THEOREM DrivesSink == Spec => Sink!Spec
  <1>1. Init => Sink!Init
    BY DEF Init
  <1>2. AccountInv /\ [Next]_vars => [Sink!Next]_(Sink!sinkVars)
    <2> SUFFICES ASSUME AccountInv, [Next]_vars PROVE Sink!Next \/ UNCHANGED Sink!sinkVars
      OBVIOUS
    <2>1. UNCHANGED sinkVars => UNCHANGED Sink!sinkVars
      BY DEF sinkVars, Sink!sinkVars
    <2>2. SinkStep => Sink!Next
      BY DEF SinkStep, Sink!Next
    <2>3. ASSUME NEW r \in Requests, NEW n \in 1..MaxEvents, Sink!Submit(r, n) PROVE Sink!Next
      BY <2>3 DEF Sink!Next
    <2>4. ASSUME NEW r \in Requests, Sink!Leave(r) PROVE Sink!Next
      BY <2>4 DEF Sink!Next
    <2> QED
      BY <2>1, <2>2, <2>3, <2>4, PipelineDrivesSink
  <1> QED
    BY <1>1, <1>2, InitAccount, NextAccount, PTL DEF Spec, Sink!Spec

LEMMA DrivesProvedSink == AccountInv /\ [Next]_vars => [SP!Next]_(SP!sinkVars)
  <1> SUFFICES ASSUME AccountInv, [Next]_vars PROVE SP!Next \/ UNCHANGED SP!sinkVars
    OBVIOUS
  <1>1. UNCHANGED sinkVars => UNCHANGED SP!sinkVars
    BY SinkSame
  <1>2. ASSUME NEW r \in Requests, NEW n \in 1..MaxEvents, Sink!Submit(r, n) PROVE SP!Next
    BY <1>2, SinkSame DEF SP!Next
  <1>3. ASSUME NEW r \in Requests, Sink!Leave(r) PROVE SP!Next
    BY <1>3, SinkSame DEF SP!Next
  <1>4. SinkStep => SP!Next
    BY SinkSame DEF SinkStep, SP!Next
  <1> QED
    BY <1>1, <1>2, <1>3, <1>4, PipelineDrivesSink

(* The capture file of a server is an append-only log of whole requests:    *)
(* whatever the pipeline's checks, clients and shutdown do, each request's  *)
(* events are appended in order with no other's between them, and the sink  *)
(* tells the pipeline Ok only when all of them are there.                   *)
THEOREM KeepsLog == Spec => SP!ImplementsLog
  <1>1. Init => SP!Init
    BY SinkSame DEF Init
  <1>2. Spec => SP!Spec
    BY <1>1, DrivesProvedSink, InitAccount, NextAccount, PTL DEF Spec, SP!Spec
  <1>3. SP!Spec => SP!ImplementsLog
    BY SP!Refines, Assumed
  <1> QED
    BY <1>2, <1>3
=============================================================================

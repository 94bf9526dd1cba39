----------------------- MODULE ReceiverReports_proofs ----------------------
(***************************************************************************)
(* What the pipeline reports, for any number of requests: the request      *)
(* counters of /hec/stats add up, and the reasons of one request agree.    *)
(***************************************************************************)
EXTENDS Receiver, FiniteSetTheorems, TLAPS

RequestFact == {"REQUEST_RECEIVED", "REQUEST_SUCCEEDED", "REQUEST_FAILED"}
RequestCounter == {"requests_total", "requests_ok", "requests_failed"}

(* A handler runs. *)
Inside == Steps \ {"new", "heading", "elsewhere", "gone"}
Arrived == {r \in Requests : RouteOf(r) \in Endpoints}

ShapeInv ==
  /\ pc \in [Requests -> Steps]
  /\ input = [r \in Requests |-> input[r]]
  /\ failure = [r \in Requests |-> failure[r]]

(* What the counters rest on: who has a handler was routed to an endpoint,  *)
(* and only who is failing or answered has failed.                          *)
StageOK(r) ==
  /\ pc[r] \in {"new", "heading"} => input[r] = NoInput
  /\ pc[r] = "elsewhere" => RouteOf(r) \notin Endpoints
  /\ pc[r] \in Inside => RouteOf(r) \in Endpoints /\ input[r] \in Inputs
  /\ pc[r] \notin {"failing", "answered"} => failure[r] = NoFailure
  /\ pc[r] = "failing" => failure[r] # NoFailure

TallyInv ==
  /\ counters["requests_total"] = Cardinality(Arrived)
  /\ counters["requests_ok"] = Cardinality(Accepted)
  /\ counters["requests_failed"] = Cardinality(Refused)

AccountInv == ShapeInv /\ (\A r \in Requests : StageOK(r)) /\ TallyInv
-----------------------------------------------------------------------------
(* Which facts the request counters count, and that no sum is among them.   *)
LEMMA FactsCounted ==
  /\ RequestCounter \subseteq Counter
  /\ \A f \in DOMAIN CounterOf :
       /\ CounterOf[f] = "requests_total" <=> f = "REQUEST_RECEIVED"
       /\ CounterOf[f] = "requests_ok" <=> f = "REQUEST_SUCCEEDED"
       /\ CounterOf[f] = "requests_failed" <=> f = "REQUEST_FAILED"
  /\ RequestFact \subseteq DOMAIN CounterOf
  /\ \A f \in DOMAIN SumsOf : SumsOf[f] \cap RequestCounter = {}
  <1>1. /\ CounterOf["REQUEST_RECEIVED"] = "requests_total"
        /\ CounterOf["REQUEST_SUCCEEDED"] = "requests_ok"
        /\ CounterOf["REQUEST_FAILED"] = "requests_failed"
        /\ RequestFact \subseteq DOMAIN CounterOf
    BY DEF CounterOf, RequestFact
  <1>2. RequestCounter \subseteq Counter
    BY <1>1 DEF Counter, RequestCounter, RequestFact
  <1>3. \A f \in DOMAIN CounterOf :
          /\ CounterOf[f] = "requests_total" => f = "REQUEST_RECEIVED"
          /\ CounterOf[f] = "requests_ok" => f = "REQUEST_SUCCEEDED"
          /\ CounterOf[f] = "requests_failed" => f = "REQUEST_FAILED"
    BY DEF CounterOf
  <1>4. \A f \in DOMAIN SumsOf : SumsOf[f] \cap RequestCounter = {}
    BY DEF SumsOf, RequestCounter
  <1> QED
    BY <1>1, <1>2, <1>3, <1>4

(* The causes of a failure are none of the facts of a request itself. *)
LEMMA CauseFacts ==
  /\ \A e : AuthFact(e) \notin RequestFact
  /\ \A e : BodyFact(e) \notin RequestFact
  /\ \A c, e : DecodeFact(c, e) \notin RequestFact
  /\ \A e : EventFact(e) \notin RequestFact
  /\ \A e : RawFact(e) \notin RequestFact
  <1>1. \A e : AuthFact(e) \notin RequestFact
    BY DEF AuthFact, NoFact, RequestFact
  <1>2. \A e : BodyFact(e) \notin RequestFact
    BY DEF BodyFact, NoFact, RequestFact
  <1>3. \A c, e : DecodeFact(c, e) \notin RequestFact
    BY DEF DecodeFact, NoFact, RequestFact
  <1>4. \A e : EventFact(e) \notin RequestFact
    BY DEF EventFact, NoFact, RequestFact
  <1>5. \A e : RawFact(e) \notin RequestFact
    BY DEF RawFact, NoFact, RequestFact
  <1> QED
    BY <1>1, <1>2, <1>3, <1>4, <1>5

(* What Submitted and SubmittedSum do to the request counters.              *)
LEMMA NotCounted ==
  ASSUME \A t \in RequestCounter : counters[t] \in Nat,
         NEW r, NEW facts, Submitted(r, facts), \A f \in facts : f[1] \notin RequestFact
  PROVE  \A t \in RequestCounter : counters'[t] = counters[t]
  <1> SUFFICES ASSUME NEW t \in RequestCounter PROVE counters'[t] = counters[t]
    OBVIOUS
  <1>1. {f \in facts : f[1] \in DOMAIN CounterOf /\ CounterOf[f[1]] = t} = {}
    BY FactsCounted DEF RequestCounter, RequestFact
  <1>2. counters'[t] = counters[t] + Cardinality({})
    BY <1>1, FactsCounted DEF Submitted
  <1> QED
    BY <1>2, FS_EmptySet

LEMMA NotSummed ==
  ASSUME \A t \in RequestCounter : counters[t] \in Nat,
         NEW r, NEW f \in DOMAIN SumsOf, NEW fields, SubmittedSum(r, f, fields)
  PROVE  \A t \in RequestCounter : counters'[t] = counters[t]
  <1> SUFFICES ASSUME NEW t \in RequestCounter PROVE counters'[t] = counters[t]
    OBVIOUS
  <1>1. t \in Counter /\ t \notin SumsOf[f]
    BY FactsCounted
  <1>2. counters'[t] = counters[t] + 0
    BY <1>1 DEF SubmittedSum
  <1> QED
    BY <1>2

LEMMA OneCounted ==
  ASSUME \A t \in RequestCounter : counters[t] \in Nat,
         NEW r, NEW f \in RequestFact, NEW why, Submitted(r, {<<f, why>>})
  PROVE  \A t \in RequestCounter :
           counters'[t] = counters[t] + IF CounterOf[f] = t THEN 1 ELSE 0
  <1> SUFFICES ASSUME NEW t \in RequestCounter
               PROVE  counters'[t] = counters[t] + IF CounterOf[f] = t THEN 1 ELSE 0
    OBVIOUS
  <1> DEFINE counted == {g \in {<<f, why>>} : g[1] \in DOMAIN CounterOf /\ CounterOf[g[1]] = t}
  <1>1. counters'[t] = counters[t] + Cardinality(counted)
    BY FactsCounted DEF Submitted
  <1>2. CASE CounterOf[f] = t
    <2>1. counted = {<<f, why>>}
      BY <1>2, FactsCounted
    <2>2. Cardinality(counted) = 1
      BY <2>1, FS_Singleton
    <2> HIDE DEF counted
    <2> QED
      BY <1>1, <1>2, <2>2
  <1>3. CASE CounterOf[f] # t
    <2>1. counted = {}
      BY <1>3
    <2>2. Cardinality(counted) = 0
      BY <2>1, FS_EmptySet
    <2> HIDE DEF counted
    <2> QED
      BY <1>1, <1>3, <2>2
  <1> QED
    BY <1>2, <1>3
-----------------------------------------------------------------------------
LEMMA CountersTyped ==
  ASSUME TallyInv
  PROVE  \A t \in RequestCounter : counters[t] \in Nat
  <1>1. IsFiniteSet(Arrived) /\ IsFiniteSet(Accepted) /\ IsFiniteSet(Refused)
    BY ReceiverAssumption, FS_Subset DEF Arrived, Accepted, Refused, Having
  <1> QED
    BY <1>1, FS_CardinalityType DEF TallyInv, RequestCounter

(* Before its head is complete a request is routed to no endpoint.          *)
LEMMA NowhereYet == Route("none", "none") = "not_found" /\ "not_found" \notin Endpoints
  <1>1. Endpoints = {"event", "raw", "ack"}
    BY DEF Endpoints, HecPaths
  <1>2. /\ "none" \notin HealthPaths /\ "none" \notin StatsPaths
        /\ ~\E e \in Endpoints : "none" \in HecPaths[e]
    BY <1>1 DEF HealthPaths, StatsPaths, HecPaths
  <1>3. Route("none", "none") = "not_found"
    BY <1>2 DEF Route
  <1> QED
    BY <1>1, <1>3

LEMMA InitAccount == Init => AccountInv
  <1> SUFFICES ASSUME Init PROVE AccountInv
    OBVIOUS
  <1>1. ShapeInv
    BY DEF Init, ShapeInv, Steps
  <1>2. \A r \in Requests : StageOK(r)
    BY <1>1 DEF Init, StageOK, Inside
  <1>3. Arrived = {} /\ Accepted = {} /\ Refused = {}
    <2>1. \A r \in Requests : RouteOf(r) = "not_found" /\ pc[r] = "new"
      BY NowhereYet DEF Init, RouteOf, NoInput
    <2> QED
      BY NowhereYet, <2>1 DEF Arrived, Accepted, Refused, Having
  <1>4. TallyInv
    BY <1>3, FactsCounted, FS_EmptySet DEF Init, TallyInv, RequestCounter
  <1> QED
    BY <1>1, <1>2, <1>4 DEF AccountInv

(* A step of a request that does not arrive and is not answered by it.      *)
LEMMA InnerKeeps ==
  ASSUME AccountInv, NEW r \in Requests, pc[r] \in Steps \ {"answered", "elsewhere"},
         NEW step \in Steps \ {"answered", "new", "elsewhere"},
         pc' = [pc EXCEPT ![r] = step], input' = input,
         step = "heading" => pc[r] = "new",
         step \in Inside => pc[r] \in Inside,
         \/ step # "failing" /\ pc[r] # "failing" /\ failure' = failure
         \/ /\ step = "failing"
            /\ \E f : f # NoFailure /\ failure' = [failure EXCEPT ![r] = f],
         \A t \in RequestCounter : counters'[t] = counters[t]
  PROVE  AccountInv'
  <1>1. /\ pc'[r] = step /\ ShapeInv'
        /\ \A s \in Requests \ {r} : pc'[s] = pc[s] /\ failure'[s] = failure[s]
    <2>1. /\ pc'[r] = step /\ pc' \in [Requests -> Steps]
          /\ \A s \in Requests \ {r} : pc'[s] = pc[s]
      BY DEF AccountInv, ShapeInv
    <2>2. /\ failure' = [s \in Requests |-> failure'[s]]
          /\ \A s \in Requests \ {r} : failure'[s] = failure[s]
      BY DEF AccountInv, ShapeInv
    <2> QED
      BY <2>1, <2>2 DEF AccountInv, ShapeInv
  <1>2. \A s \in Requests : StageOK(s)'
    <2> SUFFICES ASSUME NEW s \in Requests PROVE StageOK(s)'
      OBVIOUS
    <2>1. CASE s # r
      BY <1>1, <2>1 DEF AccountInv, StageOK, RouteOf
    <2>2. CASE s = r /\ step = "failing"
      <3>1. failure'[r] # NoFailure
        BY <2>2 DEF AccountInv, ShapeInv
      <3> QED
        BY <1>1, <2>2, <3>1 DEF AccountInv, StageOK, RouteOf, Inside, Steps
    <2>3. CASE s = r /\ step # "failing"
      BY <1>1, <2>3 DEF AccountInv, StageOK, RouteOf, Inside
    <2> QED
      BY <2>1, <2>2, <2>3
  <1>3. Arrived' = Arrived
    BY DEF Arrived, RouteOf
  <1>4. Accepted' = Accepted /\ Refused' = Refused
    BY <1>1 DEF Accepted, Refused, Having
  <1>5. TallyInv'
    BY <1>3, <1>4 DEF AccountInv, TallyInv, RequestCounter
  <1> QED
    BY <1>1, <1>2, <1>5 DEF AccountInv

(* The head of a request is complete and it is routed somewhere.            *)
LEMMA RoutedKeeps ==
  ASSUME AccountInv, NEW r \in Requests, NEW q \in Inputs, Arrive(r, q) \/ Elsewhere(r, q)
  PROVE  AccountInv'
  <1> DEFINE step == IF Route(q.method, q.path) \in Endpoints THEN "received" ELSE "elsewhere"
  <1>1. /\ pc[r] = "heading" /\ pc' = [pc EXCEPT ![r] = step]
        /\ input' = [input EXCEPT ![r] = q] /\ failure' = failure
    BY DEF Arrive, Elsewhere, Goto
  <1>2. /\ pc'[r] = step /\ input'[r] = q /\ RouteOf(r)' = Route(q.method, q.path)
        /\ ShapeInv'
        /\ \A s \in Requests \ {r} :
             pc'[s] = pc[s] /\ failure'[s] = failure[s] /\ RouteOf(s)' = RouteOf(s)
                            /\ input'[s] = input[s]
    BY <1>1 DEF AccountInv, ShapeInv, Steps, RouteOf
  <1>3. \A s \in Requests : StageOK(s)'
    BY <1>1, <1>2 DEF AccountInv, StageOK, Inside, Steps
  <1>4. Accepted' = Accepted /\ Refused' = Refused
    BY <1>1, <1>2 DEF Accepted, Refused, Having
  <1>5. r \notin Arrived
    BY <1>1, NowhereYet DEF AccountInv, StageOK, Arrived, RouteOf, NoInput
  <1>6. TallyInv'
    <2>0. IsFiniteSet(Arrived) /\ TallyInv /\ \A t \in RequestCounter : counters[t] \in Nat
      BY ReceiverAssumption, FS_Subset, CountersTyped DEF Arrived, AccountInv
    <2>1. CASE Arrive(r, q)
      <3>1. Arrived' = Arrived \cup {r}
        BY <1>2, <2>1 DEF Arrived, Arrive
      <3>2. Cardinality(Arrived \cup {r}) = Cardinality(Arrived) + 1
        BY <1>5, <2>0, FS_AddElement
      <3>3. \A t \in RequestCounter :
              counters'[t] = counters[t] + IF CounterOf["REQUEST_RECEIVED"] = t THEN 1 ELSE 0
        BY <2>0, <2>1, OneCounted DEF Arrive, RequestFact
      <3>4. /\ counters'["requests_total"] = counters["requests_total"] + 1
            /\ counters'["requests_ok"] = counters["requests_ok"]
            /\ counters'["requests_failed"] = counters["requests_failed"]
        BY <2>0, <3>3, FactsCounted DEF RequestCounter, RequestFact
      <3> QED
        BY <1>4, <2>0, <3>1, <3>2, <3>4 DEF TallyInv
    <2>2. CASE Elsewhere(r, q)
      <3>1. Arrived' = Arrived /\ counters' = counters
        BY <1>2, <1>5, <2>2 DEF Arrived, Elsewhere
      <3> QED
        BY <1>4, <2>0, <3>1 DEF TallyInv
    <2> QED
      BY <2>1, <2>2
  <1> QED
    BY <1>2, <1>3, <1>6 DEF AccountInv

(* The answer leaves.                                                       *)
LEMMA AnsweredKeeps ==
  ASSUME AccountInv, NEW r \in Requests, Succeed(r) \/ Fail(r)
  PROVE  AccountInv'
  <1>1. /\ pc[r] \in {"succeeding", "failing"} /\ pc' = [pc EXCEPT ![r] = "answered"]
        /\ UNCHANGED <<input, failure>>
    BY DEF Succeed, Fail, Goto, Local
  <1>2. /\ pc'[r] = "answered" /\ ShapeInv'
        /\ \A s \in Requests \ {r} : pc'[s] = pc[s]
    BY <1>1 DEF AccountInv, ShapeInv, Steps
  <1>3. \A s \in Requests : StageOK(s)'
    BY <1>1, <1>2 DEF AccountInv, StageOK, RouteOf, Inside, Steps
  <1>4. Arrived' = Arrived
    BY <1>1 DEF Arrived, RouteOf
  <1>5. /\ IsFiniteSet(Accepted) /\ IsFiniteSet(Refused)
        /\ r \notin Accepted /\ r \notin Refused
        /\ TallyInv /\ \A t \in RequestCounter : counters[t] \in Nat
    BY <1>1, ReceiverAssumption, FS_Subset, CountersTyped
    DEF Accepted, Refused, Having, AccountInv
  <1>6. CASE Succeed(r)
    <2>1. Accepted' = Accepted \cup {r} /\ Refused' = Refused
      BY <1>1, <1>2, <1>6 DEF Succeed, AccountInv, StageOK, Accepted, Refused, Having
    <2>2. Cardinality(Accepted \cup {r}) = Cardinality(Accepted) + 1
      BY <1>5, FS_AddElement
    <2>3. \A t \in RequestCounter :
            counters'[t] = counters[t] + IF CounterOf["REQUEST_SUCCEEDED"] = t THEN 1 ELSE 0
      BY <1>5, <1>6, OneCounted DEF Succeed, RequestFact
    <2>4. /\ counters'["requests_total"] = counters["requests_total"]
          /\ counters'["requests_ok"] = counters["requests_ok"] + 1
          /\ counters'["requests_failed"] = counters["requests_failed"]
      BY <1>5, <2>3, FactsCounted DEF RequestCounter, RequestFact
    <2>5. TallyInv'
      BY <1>4, <1>5, <2>1, <2>2, <2>4 DEF TallyInv
    <2> QED
      BY <1>2, <1>3, <2>5 DEF AccountInv
  <1>7. CASE Fail(r)
    <2>1. Refused' = Refused \cup {r} /\ Accepted' = Accepted
      BY <1>1, <1>2, <1>7 DEF Fail, AccountInv, StageOK, Accepted, Refused, Having
    <2>2. Cardinality(Refused \cup {r}) = Cardinality(Refused) + 1
      BY <1>5, FS_AddElement
    <2>3. \A t \in RequestCounter :
            counters'[t] = counters[t] + IF CounterOf["REQUEST_FAILED"] = t THEN 1 ELSE 0
      BY <1>5, <1>7, OneCounted DEF Fail, RequestFact
    <2>4. /\ counters'["requests_total"] = counters["requests_total"]
          /\ counters'["requests_ok"] = counters["requests_ok"]
          /\ counters'["requests_failed"] = counters["requests_failed"] + 1
      BY <1>5, <2>3, FactsCounted DEF RequestCounter, RequestFact
    <2>5. TallyInv'
      BY <1>4, <1>5, <2>1, <2>2, <2>4 DEF TallyInv
    <2> QED
      BY <1>2, <1>3, <2>5 DEF AccountInv
  <1> QED
    BY <1>6, <1>7

(* No check fails with what says that none has failed, and what it reports  *)
(* are not facts of the request itself.                                     *)
LEMMA FailsKeeps ==
  ASSUME AccountInv, NEW r \in Requests, pc[r] \in Inside \ {"answered"},
         NEW e, e # "none", NEW why, NEW fact, fact \notin RequestFact, NEW others,
         \A f \in others : f[1] \notin RequestFact,
         Fails(r, e, why, fact, others), input' = input
  PROVE  AccountInv'
  <1>1. Failure(e, why) # NoFailure
    BY DEF Failure, NoFailure
  <1>2. \A f \in others \cup {f \in {<<fact, why>>} : fact # NoFact} : f[1] \notin RequestFact
    OBVIOUS
  <1>3. \A t \in RequestCounter : counters'[t] = counters[t]
    BY <1>2, CountersTyped, NotCounted DEF Fails, AccountInv
  <1>4. /\ pc' = [pc EXCEPT ![r] = "failing"]
        /\ \E f : f # NoFailure /\ failure' = [failure EXCEPT ![r] = f]
    BY <1>1 DEF Fails
  <1> QED
    BY <1>3, <1>4, InnerKeeps DEF Inside, Steps

(* A check passes, or the sink returns.                                     *)
LEMMA PassesKeeps ==
  ASSUME AccountInv, NEW r \in Requests, pc[r] \in Inside \ {"answered", "failing"},
         NEW step \in Inside \ {"answered", "failing"}, Goto(r, step), input' = input,
         \/ counters' = counters
         \/ \E facts : Submitted(r, facts) /\ \A f \in facts : f[1] \notin RequestFact
         \/ \E f \in DOMAIN SumsOf : \E fields : SubmittedSum(r, f, fields)
  PROVE  AccountInv'
  <1>1. \A t \in RequestCounter : counters'[t] = counters[t]
    BY CountersTyped, NotCounted, NotSummed DEF AccountInv
  <1> QED
    BY <1>1, InnerKeeps DEF Goto, Inside, Steps

LEMMA HandlerAccount ==
  ASSUME AccountInv, NEW r \in Requests, HandlerStep(r)
  PROVE  AccountInv'
  <1> USE CauseFacts
  <1>0. /\ {"received", "admitted", "authorized", "reading", "read", "decoded", "sink",
             "succeeding"} \subseteq Inside \ {"answered", "failing"}
        /\ NoFact \notin RequestFact
        /\ pc[r] \in Inside => input[r] \in Input
        /\ DOMAIN SumsOf = {"HTTP_BODY_READ", "BODY_DECODED", "EVENTS_PARSED", "SINK_COMPLETED"}
    BY ReceiverAssumption DEF Inside, Steps, NoFact, RequestFact, AccountInv, StageOK, SumsOf
  <1>1. CASE Ack(r)
    <2>1. pc[r] = "received" /\ input' = input
      BY <1>1 DEF Ack, Local
    <2>2. ASSUME NEW e, e # "none", NEW why, NEW fact, fact \notin RequestFact,
                 Fails(r, e, why, fact, {})
          PROVE  AccountInv'
      BY <1>0, <2>1, <2>2, FailsKeeps
    <2>3. input[r].auth # "none"
      BY <1>0, <2>1 DEF Input
    <2> QED
      BY <1>0, <1>1, <2>2, <2>3 DEF Ack
  <1>2. CASE Admit(r)
    <2>1. pc[r] = "received" /\ input' = input
      BY <1>2 DEF Admit, Local
    <2>2. CASE phase = "Serving"
      BY <1>0, <1>2, <2>1, <2>2, PassesKeeps DEF Admit
    <2>3. CASE phase # "Serving"
      BY <1>0, <1>2, <2>1, <2>3, FailsKeeps DEF Admit
    <2> QED
      BY <2>2, <2>3
  <1>3. CASE Authorize(r)
    <2> DEFINE e == IF input[r].query = "token" THEN "QueryStringAuthorizationDisabled"
                    ELSE input[r].auth
    <2>1. pc[r] = "admitted" /\ input' = input
      BY <1>3 DEF Authorize, Local
    <2>2. e # "none"
      BY <1>0, <2>1 DEF Input
    <2>3. CASE e = "fine"
      BY <1>0, <1>3, <2>1, <2>3, PassesKeeps DEF Authorize
    <2>4. CASE e # "fine"
      <3>1. Fails(r, e, ReasonOf(e), AuthFact(e), {})
        BY <1>3, <2>4 DEF Authorize
      <3> HIDE DEF e
      <3> QED
        BY <1>0, <2>1, <2>2, <3>1, FailsKeeps
    <2> QED
      BY <2>3, <2>4
  <1>4. CASE CheckHeaders(r)
    <2> DEFINE gzip == {f \in {<<"GZIP_REQUEST", "none">>} : input[r].encoding = "gzip"}
               e == input[r].length
    <2>1. pc[r] = "authorized" /\ input' = input
      BY <1>4 DEF CheckHeaders, Local
    <2>2. e # "none" /\ "BODY_UNSUPPORTED_ENCODING" \notin RequestFact
          /\ \A f \in gzip : f[1] \notin RequestFact
      BY <1>0, <2>1 DEF Input, RequestFact
    <2>3. CASE input[r].encoding = "UnsupportedEncoding"
      BY <1>0, <1>4, <2>1, <2>2, <2>3, FailsKeeps DEF CheckHeaders
    <2>4. CASE input[r].encoding # "UnsupportedEncoding" /\ e = "fine"
      <3>1. Goto(r, "reading") /\ Submitted(r, gzip)
        BY <1>4, <2>4 DEF CheckHeaders
      <3> HIDE DEF gzip
      <3> QED
        BY <1>0, <2>1, <2>2, <3>1, PassesKeeps
    <2>5. CASE input[r].encoding # "UnsupportedEncoding" /\ e # "fine"
      <3>1. Fails(r, e, ReasonOf(e), BodyFact(e), gzip)
        BY <1>4, <2>5 DEF CheckHeaders
      <3> HIDE DEF gzip, e
      <3> QED
        BY <1>0, <2>1, <2>2, <3>1, FailsKeeps
    <2> QED
      BY <2>3, <2>4, <2>5
  <1>5. CASE ReadBody(r)
    <2>1. pc[r] = "reading" /\ input' = input
      BY <1>5 DEF ReadBody, Local
    <2>2. input[r].body # "none"
      BY <1>0, <2>1 DEF Input
    <2>3. CASE input[r].body = "fine"
      BY <1>0, <1>5, <2>1, <2>3, PassesKeeps DEF ReadBody
    <2>4. CASE input[r].body # "fine"
      BY <1>0, <1>5, <2>1, <2>2, <2>4, FailsKeeps DEF ReadBody
    <2> QED
      BY <2>3, <2>4
  <1>6. CASE Decode(r)
    <2>1. pc[r] = "read" /\ input' = input
      BY <1>6 DEF Decode, Local
    <2>2. input[r].decode # "none"
      BY <1>0, <2>1 DEF Input
    <2>3. CASE input[r].decode = "fine"
      BY <1>0, <1>6, <2>1, <2>3, PassesKeeps DEF Decode
    <2>4. CASE input[r].decode # "fine"
      BY <1>0, <1>6, <2>1, <2>2, <2>4, FailsKeeps DEF Decode
    <2> QED
      BY <2>3, <2>4
  <1>7. CASE Parse(r)
    BY <1>0, <1>7, PassesKeeps DEF Parse
  <1>8. CASE RefuseEvents(r) \/ RefuseRaw(r)
    <2>1. pc[r] = "decoded" /\ input' = input
      BY <1>8 DEF RefuseEvents, RefuseRaw, Local
    <2>2. input[r].parse # "none"
      BY <1>0, <2>1 DEF Input, EventError
    <2> QED
      BY <1>0, <1>8, <2>1, <2>2, FailsKeeps DEF RefuseEvents, RefuseRaw
  <1>9. CASE SinkReturns(r)
    BY <1>0, <1>9, PassesKeeps DEF SinkReturns, Local
  <1>10. CASE SinkErrs(r)
    <2>1. "SINK_FAILED" \notin RequestFact
      BY DEF RequestFact
    <2> QED
      BY <1>0, <1>10, <2>1, FailsKeeps DEF SinkErrs, Local
  <1>11. CASE Succeed(r) \/ Fail(r)
    BY <1>11, AnsweredKeeps
  <1> QED
    BY <1>1, <1>2, <1>3, <1>4, <1>5, <1>6, <1>7, <1>8, <1>9, <1>10, <1>11 DEF HandlerStep

LEMMA NextAccount == AccountInv /\ [Next]_vars => AccountInv'
  <1> SUFFICES ASSUME AccountInv, [Next]_vars PROVE AccountInv'
    OBVIOUS
  <1>1. ASSUME NEW r \in Requests, Connect(r) PROVE AccountInv'
    BY <1>1, InnerKeeps DEF Connect, Goto, Local, Inside, Steps
  <1>2. ASSUME NEW r \in Requests, NEW q \in Inputs, Arrive(r, q) \/ Elsewhere(r, q)
        PROVE  AccountInv'
    BY <1>2, RoutedKeeps
  <1>3. ASSUME NEW r \in Requests, HandlerStep(r) PROVE AccountInv'
    BY <1>3, HandlerAccount
  <1>4. ASSUME NEW r \in Requests, Disconnect(r) PROVE AccountInv'
    BY <1>4, InnerKeeps DEF Disconnect, Goto, Inside, Steps
  <1>5. CASE SinkStep \/ Signal \/ Exit \/ Quiet \/ UNCHANGED vars
    <2>1. UNCHANGED requestVars
      BY <1>5 DEF SinkStep, Signal, Exit, Quiet, vars
    <2> QED
      BY <2>1 DEF requestVars, AccountInv, ShapeInv, StageOK, TallyInv, Arrived, Accepted,
                  Refused, Having, RouteOf
  <1> QED
    BY <1>1, <1>2, <1>3, <1>4, <1>5 DEF Next

(* requests_total, requests_ok and requests_failed of /hec/stats add up to  *)
(* the requests that were routed to an endpoint, those under way and those  *)
(* whose client left included, for any number of requests at once.          *)
THEOREM CountersAddUp == Spec => []RequestsAccounted
  <1>1. AccountInv => RequestsAccounted
    <2> SUFFICES ASSUME AccountInv PROVE RequestsAccounted
      OBVIOUS
    <2> DEFINE Open == {r \in Requests : RouteOf(r) \in Endpoints /\ pc[r] # "answered"}
    <2>1. /\ IsFiniteSet(Accepted) /\ IsFiniteSet(Refused) /\ IsFiniteSet(Open)
      BY ReceiverAssumption, FS_Subset DEF Accepted, Refused, Having
    <2>2. /\ Arrived = (Accepted \cup Refused) \cup Open
          /\ Accepted \cap Refused = {} /\ (Accepted \cup Refused) \cap Open = {}
      BY DEF Arrived, Accepted, Refused, Having, AccountInv, StageOK, Inside, Steps
    <2>3. /\ IsFiniteSet(Accepted \cup Refused)
          /\ Cardinality(Accepted \cup Refused) = Cardinality(Accepted) + Cardinality(Refused) - 0
      BY <2>1, <2>2, FS_Union, FS_EmptySet
    <2> HIDE DEF Open
    <2>4. Cardinality(Arrived) = Cardinality(Accepted \cup Refused) + Cardinality(Open) - 0
      BY <2>1, <2>2, <2>3, FS_Union, FS_EmptySet
    <2>5. Cardinality(Accepted) \in Nat /\ Cardinality(Refused) \in Nat /\ Cardinality(Open) \in Nat
      BY <2>1, FS_CardinalityType
    <2> QED
      BY <2>3, <2>4, <2>5 DEF AccountInv, TallyInv, RequestsAccounted, Open
  <1> QED
    BY <1>1, InitAccount, NextAccount, PTL DEF Spec
-----------------------------------------------------------------------------
(* The codes of the event errors are configured to be different.            *)
DistinctCodes == \A e, f \in EventError : CodeOf(e) = CodeOf(f) => e = f

(* A pipeline error has the reason of its error: the reason of an event     *)
(* error can be found again from its code if the codes of these errors are  *)
(* configured to be different.                                              *)
THEOREM ReasonRecovered ==
  ASSUME DistinctCodes, NEW e \in EventError
  PROVE  ReasonFromCode(CodeOf(e)) = ReasonOf(e)
  <1>1. DOMAIN KnownByCode = 1..6
    BY DEF KnownByCode
  <1>2. \A i \in 1..6 : KnownByCode[i] \in EventError
    BY DEF KnownByCode, EventError
  <1>3. \A i, j \in 1..6 : KnownByCode[i] = KnownByCode[j] => i = j
    BY DEF KnownByCode
  <1>4. CASE e = "InvalidDataFormat"
    <2>1. \A i \in 1..6 : KnownByCode[i] # e
      BY <1>4 DEF KnownByCode
    <2>2. Hits(CodeOf(e)) = {}
      BY <1>1, <1>2, <2>1 DEF Hits, DistinctCodes
    <2> QED
      BY <1>4, <2>2 DEF ReasonFromCode, ReasonOf
  <1>5. CASE e # "InvalidDataFormat"
    <2>1. PICK i \in 1..6 : KnownByCode[i] = e
      <3>1. \/ e = KnownByCode[1] \/ e = KnownByCode[2] \/ e = KnownByCode[3]
            \/ e = KnownByCode[4] \/ e = KnownByCode[5] \/ e = KnownByCode[6]
        BY <1>5 DEF EventError, KnownByCode
      <3> QED
        BY <3>1
    <2>2. Hits(CodeOf(e)) = {i}
      BY <1>1, <1>2, <1>3, <2>1 DEF Hits, DistinctCodes
    <2>3. Min({i}) = i
      BY DEF Min
    <2> QED
      BY <2>1, <2>2, <2>3 DEF ReasonFromCode
  <1> QED
    BY <1>4, <1>5

(* A failure has the reason of its error, but for that of the sink.         *)
Fits(x) ==
  \/ x = NoFailure
  \/ x.reason = ReasonOf(x.error)
  \/ x.reason = "SinkFailed" /\ x.error = "ServerBusy"

(* Nothing reported before the failure gives a reason.                      *)
ReasonOK(r) ==
  /\ Fits(failure[r])
  /\ \A f \in trace[r] :
       f[2] # "none" => f[2] = failure[r].reason /\ pc[r] \in {"failing", "answered"}

ReasonInv ==
  /\ trace = [r \in Requests |-> trace[r]]
  /\ \A r \in Requests : ReasonOK(r)

(* A step of r that reports facts, and fails or leaves its failure alone.   *)
LEMMA ReasonKept ==
  ASSUME AccountInv, ReasonInv, NEW r \in Requests, NEW step, NEW facts, NEW x,
         pc' = [pc EXCEPT ![r] = step],
         trace' = [trace EXCEPT ![r] = @ \cup facts],
         pc[r] \notin {"failing", "answered"},
         \/ failure' = failure /\ x = failure[r]
         \/ failure' = [failure EXCEPT ![r] = x] /\ Fits(x) /\ step = "failing",
         \A f \in facts : f[2] # "none" => f[2] = x.reason /\ step = "failing"
  PROVE  ReasonInv'
  <1>1. /\ pc'[r] = step
        /\ \A s \in Requests \ {r} : pc'[s] = pc[s]
    BY DEF AccountInv, ShapeInv
  <1>2. /\ trace' = [s \in Requests |-> trace'[s]]
        /\ trace'[r] = trace[r] \cup facts
        /\ \A s \in Requests \ {r} : trace'[s] = trace[s]
    BY DEF ReasonInv
  <1>3. failure'[r] = x /\ \A s \in Requests \ {r} : failure'[s] = failure[s]
    BY DEF AccountInv, ShapeInv
  <1>4. ReasonOK(r)'
    <2>1. Fits(x)
      BY DEF ReasonInv, ReasonOK
    <2>2. \A f \in trace[r] :
            f[2] # "none" => f[2] = x.reason /\ step = "failing"
      BY DEF ReasonInv, ReasonOK
    <2> QED
      BY <1>1, <1>2, <1>3, <2>1, <2>2 DEF ReasonOK, Fits
  <1>5. \A s \in Requests \ {r} : ReasonOK(s)'
    BY <1>1, <1>2, <1>3 DEF ReasonInv, ReasonOK, Fits
  <1> QED
    BY <1>2, <1>4, <1>5 DEF ReasonInv

LEMMA FailsReason ==
  ASSUME AccountInv, ReasonInv, NEW r \in Requests, pc[r] \notin {"failing", "answered"},
         NEW e, NEW why, why = ReasonOf(e) \/ (why = "SinkFailed" /\ e = "ServerBusy"),
         NEW fact, NEW others, \A f \in others : f[2] = "none",
         Fails(r, e, why, fact, others)
  PROVE  ReasonInv'
  <1> DEFINE facts == others \cup {f \in {<<fact, why>>} : fact # NoFact}
             x == Failure(e, why)
  <1>1. Fits(x) /\ \A f \in facts : f[2] # "none" => f[2] = x.reason
    BY DEF Fits, Failure
  <1>2. /\ pc' = [pc EXCEPT ![r] = "failing"]
        /\ trace' = [trace EXCEPT ![r] = @ \cup facts]
        /\ failure' = [failure EXCEPT ![r] = x]
    BY DEF Fails, Submitted
  <1> HIDE DEF facts, x
  <1> QED
    BY <1>1, <1>2, ReasonKept

LEMMA PassesReason ==
  ASSUME AccountInv, ReasonInv, NEW r \in Requests, pc[r] \notin {"failing", "answered"},
         NEW step, Goto(r, step),
         \/ trace' = trace
         \/ \E facts : Submitted(r, facts) /\ \A f \in facts : f[2] = "none"
         \/ \E f, fields : SubmittedSum(r, f, fields)
  PROVE  ReasonInv'
  <1> DEFINE Adds(facts) == /\ trace' = [trace EXCEPT ![r] = @ \cup facts]
                            /\ \A f \in facts : f[2] = "none"
  <1>1. PICK facts : Adds(facts)
    <2>1. CASE trace' = trace
      <3>1. Adds({})
        BY <2>1 DEF ReasonInv
      <3> HIDE DEF Adds
      <3> QED
        BY <3>1
    <2>2. ASSUME NEW facts, Submitted(r, facts), \A f \in facts : f[2] = "none"
          PROVE  \E g : Adds(g)
      <3>1. Adds(facts)
        BY <2>2 DEF Submitted
      <3> HIDE DEF Adds
      <3> QED
        BY <3>1
    <2>3. ASSUME NEW f, NEW fields, SubmittedSum(r, f, fields)
          PROVE  \E g : Adds(g)
      <3>1. Adds({<<f, "none">>})
        BY <2>3 DEF SubmittedSum
      <3> HIDE DEF Adds
      <3> QED
        BY <3>1
    <2> QED
      BY <2>1, <2>2, <2>3
  <1>2. pc' = [pc EXCEPT ![r] = step] /\ failure' = failure
    BY DEF Goto
  <1>3. \A f \in facts : f[2] # "none" => f[2] = failure[r].reason /\ step = "failing"
    BY <1>1
  <1> QED
    BY <1>1, <1>2, <1>3, ReasonKept

LEMMA AnsweredReason ==
  ASSUME AccountInv, ReasonInv, NEW r \in Requests, Fail(r)
  PROVE  ReasonInv'
  <1>1. /\ pc[r] = "failing" /\ pc' = [pc EXCEPT ![r] = "answered"] /\ failure' = failure
        /\ trace' = [trace EXCEPT ![r] = @ \cup {<<"REQUEST_FAILED", failure[r].reason>>}]
    BY DEF Fail, Goto, Submitted
  <1>2. \A s \in Requests : pc'[s] = IF s = r THEN "answered" ELSE pc[s]
    BY <1>1 DEF AccountInv, ShapeInv
  <1>3. /\ trace' = [s \in Requests |-> trace'[s]]
        /\ trace'[r] = trace[r] \cup {<<"REQUEST_FAILED", failure[r].reason>>}
        /\ \A s \in Requests \ {r} : trace'[s] = trace[s]
    BY <1>1 DEF ReasonInv
  <1>4. \A s \in Requests : ReasonOK(s)'
    BY <1>1, <1>2, <1>3 DEF ReasonInv, ReasonOK, Fits
  <1> QED
    BY <1>3, <1>4 DEF ReasonInv

LEMMA HandlerReason ==
  ASSUME DistinctCodes, AccountInv, ReasonInv, NEW r \in Requests, HandlerStep(r)
  PROVE  ReasonInv'
  <1>1. CASE Ack(r)
    BY <1>1, FailsReason DEF Ack
  <1>2. CASE Admit(r)
    <2>1. CASE phase = "Serving"
      BY <1>2, <2>1, PassesReason DEF Admit
    <2>2. CASE phase # "Serving"
      BY <1>2, <2>2, FailsReason DEF Admit
    <2> QED
      BY <2>1, <2>2
  <1>3. CASE Authorize(r)
    <2> DEFINE e == IF input[r].query = "token" THEN "QueryStringAuthorizationDisabled"
                    ELSE input[r].auth
    <2>1. CASE e = "fine"
      BY <1>3, <2>1, PassesReason DEF Authorize
    <2>2. CASE e # "fine"
      <3>1. pc[r] = "admitted" /\ Fails(r, e, ReasonOf(e), AuthFact(e), {})
        BY <1>3, <2>2 DEF Authorize
      <3> HIDE DEF e
      <3> QED
        BY <3>1, FailsReason
    <2> QED
      BY <2>1, <2>2
  <1>4. CASE CheckHeaders(r)
    <2> DEFINE gzip == {f \in {<<"GZIP_REQUEST", "none">>} : input[r].encoding = "gzip"}
               e == input[r].length
    <2>1. pc[r] = "authorized" /\ \A f \in gzip : f[2] = "none"
      BY <1>4 DEF CheckHeaders
    <2>2. CASE input[r].encoding = "UnsupportedEncoding"
      BY <1>4, <2>1, <2>2, FailsReason DEF CheckHeaders
    <2>3. CASE input[r].encoding # "UnsupportedEncoding" /\ e = "fine"
      <3>1. Goto(r, "reading") /\ Submitted(r, gzip)
        BY <1>4, <2>3 DEF CheckHeaders
      <3> HIDE DEF gzip
      <3> QED
        BY <2>1, <3>1, PassesReason
    <2>4. CASE input[r].encoding # "UnsupportedEncoding" /\ e # "fine"
      <3>1. Fails(r, e, ReasonOf(e), BodyFact(e), gzip)
        BY <1>4, <2>4 DEF CheckHeaders
      <3> HIDE DEF gzip, e
      <3> QED
        BY <2>1, <3>1, FailsReason
    <2> QED
      BY <2>2, <2>3, <2>4
  <1>5. CASE ReadBody(r)
    <2>1. CASE input[r].body = "fine"
      BY <1>5, <2>1, PassesReason DEF ReadBody
    <2>2. CASE input[r].body # "fine"
      BY <1>5, <2>2, FailsReason DEF ReadBody
    <2> QED
      BY <2>1, <2>2
  <1>6. CASE Decode(r)
    <2>1. CASE input[r].decode = "fine"
      BY <1>6, <2>1, PassesReason DEF Decode
    <2>2. CASE input[r].decode # "fine"
      BY <1>6, <2>2, FailsReason DEF Decode
    <2> QED
      BY <2>1, <2>2
  <1>7. CASE Parse(r)
    BY <1>7, PassesReason DEF Parse
  <1>8. CASE RefuseEvents(r)
    <2>1. pc[r] = "decoded" /\ input[r].parse \in EventError
      BY <1>8, ReceiverAssumption DEF RefuseEvents, AccountInv, StageOK, Inside, Steps, Input
    <2>2. ReasonFromCode(CodeOf(input[r].parse)) = ReasonOf(input[r].parse)
      BY <2>1, ReasonRecovered DEF DistinctCodes
    <2> QED
      BY <1>8, <2>1, <2>2, FailsReason DEF RefuseEvents
  <1>9. CASE RefuseRaw(r)
    BY <1>9, FailsReason DEF RefuseRaw
  <1>10. CASE SinkReturns(r)
    BY <1>10, PassesReason DEF SinkReturns
  <1>11. CASE SinkErrs(r)
    BY <1>11, FailsReason DEF SinkErrs
  <1>12. CASE Succeed(r)
    BY <1>12, PassesReason DEF Succeed
  <1>13. CASE Fail(r)
    BY <1>13, AnsweredReason
  <1> QED
    BY <1>1, <1>2, <1>3, <1>4, <1>5, <1>6, <1>7, <1>8, <1>9, <1>10, <1>11, <1>12, <1>13
    DEF HandlerStep

LEMMA NextReason ==
  ASSUME DistinctCodes, AccountInv, ReasonInv, [Next]_vars
  PROVE  ReasonInv'
  <1>1. ASSUME NEW r \in Requests, Connect(r) PROVE ReasonInv'
    BY <1>1, PassesReason DEF Connect
  <1>2. ASSUME NEW r \in Requests, NEW q \in Inputs, Arrive(r, q) \/ Elsewhere(r, q)
        PROVE  ReasonInv'
    BY <1>2, PassesReason DEF Arrive, Elsewhere
  <1>3. ASSUME NEW r \in Requests, HandlerStep(r) PROVE ReasonInv'
    BY <1>3, HandlerReason
  <1>4. ASSUME NEW r \in Requests, Disconnect(r) PROVE ReasonInv'
    BY <1>4, PassesReason DEF Disconnect
  <1>5. CASE SinkStep \/ Signal \/ Exit \/ Quiet \/ UNCHANGED vars
    <2>1. UNCHANGED requestVars
      BY <1>5 DEF SinkStep, Signal, Exit, Quiet, vars
    <2> QED
      BY <2>1 DEF requestVars, ReasonInv, ReasonOK, Fits
  <1> QED
    BY <1>1, <1>2, <1>3, <1>4, <1>5 DEF Next

(* Every reason reported under the id of a request is that of the error it  *)
(* is answered with, if the codes of the event errors are configured to be  *)
(* different: the pipeline has only the code to find the reason by.         *)
THEOREM OneReason ==
  ASSUME DistinctCodes
  PROVE  Spec => []ReasonsAgree
  <1>1. Init => ReasonInv
    BY DEF Init, ReasonInv, ReasonOK, Fits
  <1>2. AccountInv /\ ReasonInv /\ [Next]_vars => ReasonInv'
    BY NextReason
  <1>3. AccountInv /\ ReasonInv => ReasonsAgree
    BY DEF ReasonInv, ReasonOK, Fits, ReasonsAgree, NoFailure
  <1> QED
    BY <1>1, <1>2, <1>3, InitAccount, NextAccount, PTL DEF Spec
-----------------------------------------------------------------------------
(* What becomes of a request in its handler: it is refused, it passes, it   *)
(* calls the sink and comes back from it, or its answer leaves.             *)
CauseFact ==
  {"AUTH_TOKEN_REQUIRED", "AUTH_INVALID_AUTHORIZATION", "AUTH_TOKEN_INVALID",
   "AUTH_TOKEN_DISABLED", "GZIP_FAILED", "BODY_TOO_LARGE", "BODY_TIMEOUT",
   "BODY_READ_FAILED", "BODY_UNSUPPORTED_ENCODING", "PARSE_FAILED",
   "EVENT_INDEX_INVALID", "SINK_FAILED"}

Gzip == {<<"GZIP_REQUEST", "none">>}
Before == {"received", "admitted", "authorized", "reading", "read", "decoded"}

(* Uncaused, of a failure that r is about to have.                          *)
NoCause(r, e, why) ==
  \/ e \in {"ServerShuttingDown", "AckDisabled"}
  \/ RouteOf(r) = "ack" /\ e = "QueryStringAuthorizationDisabled"
  \/ RouteOf(r) = "raw" /\ why = "ServerBusy"

RefusesWith(r, e, why, fact, others) ==
  /\ Fails(r, e, why, fact, others)
  /\ fact = NoFact <=> NoCause(r, e, why)

Refuses(r) ==
  /\ pc[r] \in Before
  /\ \E e \in HecError, why \in Reason \ {"SinkFailed"} :
       \E fact \in CauseFact \cup {NoFact}, others \in SUBSET Gzip :
         RefusesWith(r, e, why, fact, others)
  /\ Local

Passes(r) ==
  /\ pc[r] \in Before
  /\ \E step \in Before \ {"received"} : Goto(r, step)
  /\ \/ UNCHANGED <<trace, counters>>
     \/ \E facts \in SUBSET Gzip : Submitted(r, facts)
     \/ SubmittedSum(r, "HTTP_BODY_READ", [http_body_bytes |-> 1])
     \/ SubmittedSum(r, "BODY_DECODED", [decoded_bytes |-> 1])
  /\ Local

(* The ack endpoint serves nothing.                                         *)
Served == (Before \ {"received"}) \cup {"sink", "succeeding"}
ServedInv == \A r \in Requests : pc[r] \in Served => RouteOf(r) # "ack"

LEMMA Errors ==
  /\ HecError =
       {"TokenRequired", "InvalidAuthorization", "InvalidToken", "TokenDisabled", "NoData",
        "InvalidDataFormat", "MalformedGzip", "ServerBusy", "IncorrectIndex",
        "EventFieldRequired", "EventFieldBlank", "AckDisabled", "HandlingIndexedFields",
        "QueryStringAuthorizationDisabled", "UnsupportedEncoding", "BodyTooLarge",
        "Timeout", "ServerShuttingDown"}
  /\ EventError \subseteq HecError
  /\ \A e \in HecError : ReasonOf(e) \in Reason \ {"SinkFailed"}
  <1>1. HecError =
         {"TokenRequired", "InvalidAuthorization", "InvalidToken", "TokenDisabled", "NoData",
          "InvalidDataFormat", "MalformedGzip", "ServerBusy", "IncorrectIndex",
          "EventFieldRequired", "EventFieldBlank", "AckDisabled", "HandlingIndexedFields",
          "QueryStringAuthorizationDisabled", "UnsupportedEncoding", "BodyTooLarge",
          "Timeout", "ServerShuttingDown"}
    BY DEF HecError, Outcome
  <1>2. EventError \subseteq HecError
    BY <1>1 DEF EventError
  <1>3. \A e \in HecError : ReasonOf(e) # "SinkFailed"
    BY <1>1 DEF ReasonOf
  <1> QED
    BY <1>1, <1>2, <1>3 DEF Reason

(* Whatever its code, the reason found for a response is one of an error.   *)
LEMMA ReasonFound ==
  ASSUME NEW code
  PROVE  ReasonFromCode(code) \in Reason \ {"SinkFailed"}
  <1>1. /\ DOMAIN KnownByCode = 1..6
        /\ \A i \in 1..6 : KnownByCode[i] \in EventError
    BY DEF KnownByCode, EventError
  <1>2. CASE Hits(code) = {}
    <2>1. ReasonOf("InvalidDataFormat") \in Reason \ {"SinkFailed"}
      BY Errors
    <2> QED
      BY <1>2, <2>1 DEF ReasonFromCode, ReasonOf
  <1>3. CASE Hits(code) # {}
    <2> DEFINE H == Hits(code)
    <2>1. H \subseteq 1..6 /\ H # {}
      BY <1>1, <1>3 DEF Hits
    <2> HIDE DEF H
    <2>2. \E x \in H : \A y \in H : x <= y
      <3>1. CASE 1 \in H
        BY <2>1, <3>1
      <3>2. CASE 1 \notin H /\ 2 \in H
        BY <2>1, <3>2
      <3>3. CASE 1 \notin H /\ 2 \notin H /\ 3 \in H
        BY <2>1, <3>3
      <3>4. CASE 1 \notin H /\ 2 \notin H /\ 3 \notin H
        <4>1. H \subseteq 4..6
          BY <2>1, <3>4
        <4>2. CASE 4 \in H
          BY <4>1, <4>2
        <4>3. CASE 4 \notin H /\ 5 \in H
          BY <4>1, <4>3
        <4>4. CASE 4 \notin H /\ 5 \notin H
          <5>1. H \subseteq {6}
            BY <4>1, <4>4
          <5>2. 6 \in H /\ \A y \in H : y = 6
            BY <2>1, <5>1
          <5> QED
            BY <5>2
        <4> QED
          BY <4>2, <4>3, <4>4
      <3> QED
        BY <3>1, <3>2, <3>3, <3>4
    <2>3. Min(H) \in H
      BY <2>2 DEF Min
    <2>4. KnownByCode[Min(H)] \in HecError
      BY <1>1, <2>1, <2>3, Errors
    <2> QED
      BY <1>3, <2>4, Errors DEF ReasonFromCode, H
  <1> QED
    BY <1>2, <1>3

(* A refusal has its reason from its error, or finds it.                    *)
LEMMA RefusesIf ==
  ASSUME NEW r, pc[r] \in Before, NEW e \in HecError, NEW why \in Reason \ {"SinkFailed"},
         NEW fact \in CauseFact \cup {NoFact}, NEW others \in SUBSET Gzip,
         Fails(r, e, why, fact, others), fact = NoFact <=> NoCause(r, e, why), Local
  PROVE  Refuses(r)
  BY DEF Refuses, RefusesWith

LEMMA AckKind ==
  ASSUME AccountInv, NEW r \in Requests, Ack(r)
  PROVE  Refuses(r)
  <1>1. /\ pc[r] = "received" /\ pc[r] \in Before /\ RouteOf(r) = "ack" /\ Local
        /\ input[r] \in Input
    BY ReceiverAssumption DEF Ack, Before, AccountInv, StageOK, Inside, Steps
  <1>2. {} \in SUBSET Gzip /\ NoFact = "none" /\ NoFact \notin CauseFact
    BY DEF NoFact, CauseFact
  <1>3. CASE input[r].query = "token"
    <2> DEFINE e == "QueryStringAuthorizationDisabled"
    <2>1. Fails(r, e, ReasonOf(e), NoFact, {}) /\ NoCause(r, e, ReasonOf(e))
      BY <1>1, <1>3 DEF Ack, NoCause
    <2>2. e \in HecError /\ ReasonOf(e) \in Reason \ {"SinkFailed"}
      BY Errors
    <2> HIDE DEF e
    <2> QED
      BY <1>1, <1>2, <2>1, <2>2, RefusesIf
  <1>4. CASE input[r].query = "plain" /\ input[r].auth # "fine"
    <2> DEFINE e == input[r].auth
    <2>1. Fails(r, e, ReasonOf(e), AuthFact(e), {})
      BY <1>4 DEF Ack
    <2>2. e \in {"TokenRequired", "InvalidAuthorization", "InvalidToken", "TokenDisabled"}
      BY <1>1, <1>4 DEF Input
    <2>3. e \in HecError /\ ReasonOf(e) \in Reason \ {"SinkFailed"}
      BY <2>2, Errors
    <2>4. AuthFact(e) \in CauseFact /\ ~NoCause(r, e, ReasonOf(e))
      BY <1>1, <2>2 DEF AuthFact, CauseFact, NoCause
    <2> HIDE DEF e
    <2> QED
      BY <1>1, <1>2, <2>1, <2>3, <2>4, RefusesIf
  <1>5. CASE input[r].query = "plain" /\ input[r].auth = "fine"
    <2> DEFINE e == "AckDisabled"
    <2>1. Fails(r, e, ReasonOf(e), NoFact, {}) /\ NoCause(r, e, ReasonOf(e))
      BY <1>1, <1>5 DEF Ack, NoCause
    <2>2. e \in HecError /\ ReasonOf(e) \in Reason \ {"SinkFailed"}
      BY Errors
    <2> HIDE DEF e
    <2> QED
      BY <1>1, <1>2, <2>1, <2>2, RefusesIf
  <1> QED
    BY <1>1, <1>3, <1>4, <1>5 DEF Ack

LEMMA AdmitKind ==
  ASSUME AccountInv, NEW r \in Requests, Admit(r)
  PROVE  Refuses(r) \/ Passes(r)
  <1>1. pc[r] \in Before /\ Local
    BY DEF Admit, Before
  <1>2. CASE phase = "Serving"
    BY <1>1, <1>2 DEF Admit, Passes, Before
  <1>3. CASE phase # "Serving"
    <2> DEFINE e == "ServerShuttingDown"
    <2>1. Fails(r, e, ReasonOf(e), NoFact, {}) /\ NoCause(r, e, ReasonOf(e))
      BY <1>3 DEF Admit, NoCause
    <2>2. e \in HecError /\ ReasonOf(e) \in Reason \ {"SinkFailed"} /\ {} \in SUBSET Gzip
      BY Errors
    <2> HIDE DEF e
    <2> QED
      BY <1>1, <2>1, <2>2, RefusesIf
  <1> QED
    BY <1>2, <1>3

LEMMA AuthorizeKind ==
  ASSUME AccountInv, ServedInv, NEW r \in Requests, Authorize(r)
  PROVE  Refuses(r) \/ Passes(r)
  <1> DEFINE e == IF input[r].query = "token" THEN "QueryStringAuthorizationDisabled"
                  ELSE input[r].auth
  <1>1. /\ pc[r] \in Before /\ Local /\ RouteOf(r) # "ack" /\ input[r] \in Input
    BY ReceiverAssumption
    DEF Authorize, Before, ServedInv, Served, AccountInv, StageOK, Inside, Steps
  <1>2. CASE e = "fine"
    BY <1>1, <1>2 DEF Authorize, Passes, Before
  <1>3. CASE e # "fine"
    <2>1. Fails(r, e, ReasonOf(e), AuthFact(e), {})
      BY <1>3 DEF Authorize
    <2>2. e \in {"TokenRequired", "InvalidAuthorization", "InvalidToken", "TokenDisabled",
                 "QueryStringAuthorizationDisabled"}
      BY <1>1, <1>3 DEF Input
    <2> HIDE DEF e
    <2>3. e \in HecError /\ ReasonOf(e) \in Reason \ {"SinkFailed"}
      BY <2>2, Errors
    <2>4. /\ AuthFact(e) \in CauseFact /\ ~NoCause(r, e, ReasonOf(e))
          /\ NoFact \notin CauseFact /\ {} \in SUBSET Gzip
      BY <1>1, <2>2 DEF AuthFact, CauseFact, NoCause, ReasonOf, NoFact
    <2> QED
      BY <1>1, <2>1, <2>3, <2>4, RefusesIf
  <1> QED
    BY <1>2, <1>3

LEMMA HeadersKind ==
  ASSUME AccountInv, ServedInv, NEW r \in Requests, CheckHeaders(r)
  PROVE  Refuses(r) \/ Passes(r)
  <1> DEFINE gzip == {f \in {<<"GZIP_REQUEST", "none">>} : input[r].encoding = "gzip"}
             e == input[r].length
  <1>1. /\ pc[r] \in Before /\ Local /\ RouteOf(r) # "ack" /\ input[r] \in Input
        /\ gzip \in SUBSET Gzip
    BY ReceiverAssumption
    DEF CheckHeaders, Before, Gzip, ServedInv, Served, AccountInv, StageOK, Inside, Steps
  <1>2. CASE input[r].encoding = "UnsupportedEncoding"
    <2> DEFINE x == "UnsupportedEncoding"
    <2>1. Fails(r, x, ReasonOf(x), "BODY_UNSUPPORTED_ENCODING", {})
      BY <1>2 DEF CheckHeaders
    <2>2. x \in HecError /\ ReasonOf(x) \in Reason \ {"SinkFailed"}
      BY Errors
    <2>3. /\ "BODY_UNSUPPORTED_ENCODING" \in CauseFact /\ ~NoCause(r, x, ReasonOf(x))
          /\ NoFact \notin CauseFact /\ {} \in SUBSET Gzip
      BY <1>1 DEF CauseFact, NoCause, ReasonOf, NoFact
    <2> HIDE DEF x
    <2> QED
      BY <1>1, <2>1, <2>2, <2>3, RefusesIf
  <1>3. CASE input[r].encoding # "UnsupportedEncoding" /\ e = "fine"
    <2>1. Goto(r, "reading") /\ Submitted(r, gzip)
      BY <1>3 DEF CheckHeaders
    <2> HIDE DEF gzip
    <2> QED
      BY <1>1, <2>1 DEF Passes, Before
  <1>4. CASE input[r].encoding # "UnsupportedEncoding" /\ e # "fine"
    <2>1. Fails(r, e, ReasonOf(e), BodyFact(e), gzip)
      BY <1>4 DEF CheckHeaders
    <2>2. e \in {"BodyTooLarge", "InvalidDataFormat"}
      BY <1>1, <1>4 DEF Input
    <2> HIDE DEF e, gzip
    <2>3. e \in HecError /\ ReasonOf(e) \in Reason \ {"SinkFailed"}
      BY <2>2, Errors
    <2>4. /\ BodyFact(e) \in CauseFact /\ ~NoCause(r, e, ReasonOf(e)) /\ NoFact \notin CauseFact
      BY <1>1, <2>2 DEF BodyFact, CauseFact, NoCause, ReasonOf, NoFact
    <2> QED
      BY <1>1, <2>1, <2>3, <2>4, RefusesIf
  <1> QED
    BY <1>2, <1>3, <1>4

LEMMA BodyKind ==
  ASSUME AccountInv, ServedInv, NEW r \in Requests, ReadBody(r)
  PROVE  Refuses(r) \/ Passes(r)
  <1> DEFINE e == input[r].body
  <1>1. /\ pc[r] \in Before /\ Local /\ RouteOf(r) # "ack" /\ input[r] \in Input
    BY ReceiverAssumption
    DEF ReadBody, Before, ServedInv, Served, AccountInv, StageOK, Inside, Steps
  <1>2. CASE e = "fine"
    BY <1>1, <1>2 DEF ReadBody, Passes, Before
  <1>3. CASE e # "fine"
    <2>1. Fails(r, e, ReasonOf(e), BodyFact(e), {})
      BY <1>3 DEF ReadBody
    <2>2. e \in {"BodyTooLarge", "Timeout", "InvalidDataFormat"}
      BY <1>1, <1>3 DEF Input
    <2> HIDE DEF e
    <2>3. e \in HecError /\ ReasonOf(e) \in Reason \ {"SinkFailed"}
      BY <2>2, Errors
    <2>4. /\ BodyFact(e) \in CauseFact /\ ~NoCause(r, e, ReasonOf(e))
          /\ NoFact \notin CauseFact /\ {} \in SUBSET Gzip
      BY <1>1, <2>2 DEF BodyFact, CauseFact, NoCause, ReasonOf, NoFact
    <2> QED
      BY <1>1, <2>1, <2>3, <2>4, RefusesIf
  <1> QED
    BY <1>2, <1>3

LEMMA DecodeKind ==
  ASSUME AccountInv, ServedInv, NEW r \in Requests, Decode(r)
  PROVE  Refuses(r) \/ Passes(r)
  <1> DEFINE e == input[r].decode
  <1>1. /\ pc[r] \in Before /\ Local /\ RouteOf(r) # "ack" /\ input[r] \in Input
        /\ PossibleInput(input[r])
    BY ReceiverAssumption
    DEF Decode, Before, ServedInv, Served, AccountInv, StageOK, Inside, Steps
  <1>2. CASE e = "fine"
    BY <1>1, <1>2 DEF Decode, Passes, Before
  <1>3. CASE e # "fine"
    <2>1. Fails(r, e, ReasonOf(e), DecodeFact(input[r].encoding, e), {})
      BY <1>3 DEF Decode
    <2>2. input[r].encoding = "gzip" /\ e \in {"MalformedGzip", "BodyTooLarge"}
      BY <1>1, <1>3 DEF Input, PossibleInput
    <2> HIDE DEF e
    <2>3. e \in HecError /\ ReasonOf(e) \in Reason \ {"SinkFailed"}
      BY <2>2, Errors
    <2>4. /\ DecodeFact(input[r].encoding, e) \in CauseFact /\ ~NoCause(r, e, ReasonOf(e))
          /\ NoFact \notin CauseFact /\ {} \in SUBSET Gzip
      BY <1>1, <2>2 DEF DecodeFact, CauseFact, NoCause, ReasonOf, NoFact
    <2> QED
      BY <1>1, <2>1, <2>3, <2>4, RefusesIf
  <1> QED
    BY <1>2, <1>3

LEMMA RefuseEventsKind ==
  ASSUME AccountInv, NEW r \in Requests, RefuseEvents(r)
  PROVE  Refuses(r)
  <1> DEFINE e == input[r].parse
             why == ReasonFromCode(CodeOf(e))
  <1>1. /\ pc[r] \in Before /\ Local /\ RouteOf(r) = "event" /\ input[r] \in Input
        /\ e # "fine"
    BY ReceiverAssumption DEF RefuseEvents, Before, AccountInv, StageOK, Inside, Steps
  <1>2. Fails(r, e, why, EventFact(e), {})
    BY DEF RefuseEvents
  <1>3. e \in EventError
    BY <1>1 DEF Input
  <1>4. why \in Reason \ {"SinkFailed"}
    BY ReasonFound
  <1> HIDE DEF e, why
  <1>5. e \in HecError
    BY <1>3, Errors
  <1>6. /\ EventFact(e) \in CauseFact /\ ~NoCause(r, e, why)
        /\ NoFact \notin CauseFact /\ {} \in SUBSET Gzip
    BY <1>1, <1>3 DEF EventFact, CauseFact, NoCause, NoFact, EventError
  <1> QED
    BY <1>1, <1>2, <1>4, <1>5, <1>6, RefusesIf

LEMMA RefuseRawKind ==
  ASSUME AccountInv, NEW r \in Requests, RefuseRaw(r)
  PROVE  Refuses(r)
  <1> DEFINE e == input[r].parse
  <1>1. /\ pc[r] \in Before /\ Local /\ RouteOf(r) = "raw" /\ input[r] \in Input
        /\ PossibleInput(input[r]) /\ e # "fine"
    BY ReceiverAssumption DEF RefuseRaw, Before, AccountInv, StageOK, Inside, Steps
  <1>2. Fails(r, e, ReasonOf(e), RawFact(e), {})
    BY DEF RefuseRaw
  <1>3. e \in {"NoData", "ServerBusy"}
    BY <1>1 DEF PossibleInput, RouteOf
  <1> HIDE DEF e
  <1>4. e \in HecError /\ ReasonOf(e) \in Reason \ {"SinkFailed"}
    BY <1>3, Errors
  <1>5. /\ RawFact(e) \in CauseFact \cup {NoFact} /\ {} \in SUBSET Gzip
        /\ RawFact(e) = NoFact <=> NoCause(r, e, ReasonOf(e))
    BY <1>1, <1>3 DEF RawFact, CauseFact, NoCause, ReasonOf, NoFact
  <1> QED
    BY <1>1, <1>2, <1>4, <1>5, RefusesIf

LEMMA HandlerKinds ==
  ASSUME AccountInv, ServedInv, NEW r \in Requests, HandlerStep(r)
  PROVE  \/ Refuses(r) \/ Passes(r) \/ Parse(r) \/ SinkReturns(r) \/ SinkErrs(r)
         \/ Succeed(r) \/ Fail(r)
  BY AckKind, AdmitKind, AuthorizeKind, HeadersKind, BodyKind, DecodeKind, RefuseEventsKind,
     RefuseRawKind
  DEF HandlerStep

LEMMA InitServed == Init => ServedInv
  BY DEF Init, ServedInv, Served, Before

LEMMA NextServed == AccountInv /\ ServedInv /\ [Next]_vars => ServedInv'
  <1> SUFFICES ASSUME AccountInv, ServedInv, [Next]_vars PROVE ServedInv'
    OBVIOUS
  <1>1. ASSUME NEW r \in Requests, NEW step, pc' = [pc EXCEPT ![r] = step], input' = input,
               step \in Served => RouteOf(r) # "ack"
        PROVE  ServedInv'
    BY <1>1 DEF AccountInv, ShapeInv, ServedInv, RouteOf
  <1>2. ASSUME NEW r \in Requests, Connect(r) \/ Disconnect(r) PROVE ServedInv'
    <2>1. \E step \in {"heading", "gone"} : pc' = [pc EXCEPT ![r] = step]
      BY <1>2 DEF Connect, Disconnect, Goto
    <2> QED
      BY <1>1, <1>2, <2>1 DEF Connect, Disconnect, Local, Served, Before
  <1>3. ASSUME NEW r \in Requests, NEW q \in Inputs, Arrive(r, q) \/ Elsewhere(r, q)
        PROVE  ServedInv'
    <2>1. /\ \E step \in {"received", "elsewhere"} : pc' = [pc EXCEPT ![r] = step]
          /\ input' = [input EXCEPT ![r] = q]
      BY <1>3 DEF Arrive, Elsewhere, Goto
    <2>2. /\ pc'[r] \in {"received", "elsewhere"}
          /\ \A s \in Requests \ {r} : pc'[s] = pc[s] /\ input'[s] = input[s]
      BY <2>1 DEF AccountInv, ShapeInv
    <2> QED
      BY <2>2 DEF ServedInv, Served, Before, RouteOf
  <1>4. ASSUME NEW r \in Requests, HandlerStep(r) PROVE ServedInv'
    <2>1. input' = input
      BY <1>4 DEF HandlerStep, Ack, Admit, Authorize, CheckHeaders, ReadBody, Decode, Parse,
                  RefuseEvents, RefuseRaw, SinkReturns, SinkErrs, Succeed, Fail, Local
    <2>2. CASE Ack(r) \/ RefuseEvents(r) \/ RefuseRaw(r) \/ SinkErrs(r) \/ Succeed(r) \/ Fail(r)
      <3>1. \E step \in {"failing", "answered"} : pc' = [pc EXCEPT ![r] = step]
        BY <2>2 DEF Ack, RefuseEvents, RefuseRaw, SinkErrs, Succeed, Fail, Fails, Goto
      <3> QED
        BY <1>1, <2>1, <3>1 DEF Served, Before
    <2>3. CASE Admit(r)
      <3>1. \E step \in {"failing", "admitted"} : pc' = [pc EXCEPT ![r] = step]
        BY <2>3 DEF Admit, Fails, Goto
      <3>2. RouteOf(r) # "ack"
        BY <2>3 DEF Admit
      <3> QED
        BY <1>1, <2>1, <3>1, <3>2
    <2>4. CASE \/ Authorize(r) \/ CheckHeaders(r) \/ ReadBody(r) \/ Decode(r) \/ Parse(r)
               \/ SinkReturns(r)
      <3>1. pc[r] \in Served /\ \E step : pc' = [pc EXCEPT ![r] = step]
        BY <2>4 DEF Authorize, CheckHeaders, ReadBody, Decode, Parse, SinkReturns, Fails, Goto,
                    Served, Before
      <3> QED
        BY <1>1, <2>1, <3>1 DEF ServedInv
    <2> QED
      BY <1>4, <2>2, <2>3, <2>4 DEF HandlerStep
  <1>5. CASE SinkStep \/ Signal \/ Exit \/ Quiet \/ UNCHANGED vars
    BY <1>5 DEF SinkStep, Signal, Exit, Quiet, vars, requestVars, ServedInv, RouteOf
  <1> QED
    BY <1>2, <1>3, <1>4, <1>5 DEF Next
-----------------------------------------------------------------------------
(* What the counters that are no request counters make of a report.         *)
CauseName ==
  {"auth_failures", "gzip_failures", "body_too_large", "timeouts", "body_read_errors",
   "unsupported_encoding", "parse_failures", "sink_failures"}
EventName == {"events_observed", "events_dropped", "events_written"}

CountersOK == counters \in [Counter -> Nat]

LEMMA CounterFacts ==
  /\ CauseFact \subseteq DOMAIN CounterOf
  /\ \A f \in CauseFact : CounterOf[f] \in CauseName
  /\ \A f \in DOMAIN CounterOf : CounterOf[f] \notin EventName
  /\ \A f \in RequestFact \cup {"GZIP_REQUEST"} :
       f \in DOMAIN CounterOf /\ CounterOf[f] \notin CauseName
  /\ CauseName \subseteq Counter /\ EventName \subseteq Counter
  /\ \A f \in DOMAIN SumsOf : SumsOf[f] \cap CauseName = {}
  /\ SumsOf["HTTP_BODY_READ"] = {"http_body_bytes"}
  /\ SumsOf["BODY_DECODED"] = {"decoded_bytes"}
  /\ SumsOf["EVENTS_PARSED"] = {"events_observed"}
  /\ SumsOf["SINK_COMPLETED"] = {"events_dropped", "events_written"}
  /\ DOMAIN SumsOf = {"HTTP_BODY_READ", "BODY_DECODED", "EVENTS_PARSED", "SINK_COMPLETED"}
  <1>1. /\ CauseFact \subseteq DOMAIN CounterOf
        /\ \A f \in CauseFact : CounterOf[f] \in CauseName
    BY DEF CauseFact, CounterOf, CauseName
  <1>2. \A f \in DOMAIN CounterOf : CounterOf[f] \notin EventName
    BY DEF CounterOf, EventName
  <1>3. \A f \in RequestFact \cup {"GZIP_REQUEST"} :
          f \in DOMAIN CounterOf /\ CounterOf[f] \notin CauseName
    BY DEF RequestFact, CounterOf, CauseName
  <1>4. CauseName \subseteq Counter
    <2>1. /\ CounterOf["AUTH_TOKEN_REQUIRED"] = "auth_failures"
          /\ CounterOf["GZIP_FAILED"] = "gzip_failures"
          /\ CounterOf["BODY_TOO_LARGE"] = "body_too_large"
          /\ CounterOf["BODY_TIMEOUT"] = "timeouts"
          /\ CounterOf["BODY_READ_FAILED"] = "body_read_errors"
          /\ CounterOf["BODY_UNSUPPORTED_ENCODING"] = "unsupported_encoding"
          /\ CounterOf["PARSE_FAILED"] = "parse_failures"
          /\ CounterOf["SINK_FAILED"] = "sink_failures"
          /\ {"AUTH_TOKEN_REQUIRED", "GZIP_FAILED", "BODY_TOO_LARGE", "BODY_TIMEOUT",
              "BODY_READ_FAILED", "BODY_UNSUPPORTED_ENCODING", "PARSE_FAILED", "SINK_FAILED"}
               \subseteq DOMAIN CounterOf
      BY DEF CounterOf
    <2> QED
      BY <2>1 DEF CauseName, Counter
  <1>5. /\ SumsOf["HTTP_BODY_READ"] = {"http_body_bytes"}
        /\ SumsOf["BODY_DECODED"] = {"decoded_bytes"}
        /\ SumsOf["EVENTS_PARSED"] = {"events_observed"}
        /\ SumsOf["SINK_COMPLETED"] = {"events_dropped", "events_written"}
        /\ DOMAIN SumsOf = {"HTTP_BODY_READ", "BODY_DECODED", "EVENTS_PARSED", "SINK_COMPLETED"}
    BY DEF SumsOf
  <1>6. EventName \subseteq Counter
    BY <1>5 DEF EventName, Counter
  <1>7. \A f \in DOMAIN SumsOf : SumsOf[f] \cap CauseName = {}
    BY <1>5 DEF CauseName
  <1> QED
    BY <1>1, <1>2, <1>3, <1>4, <1>5, <1>6, <1>7

LEMMA SubmittedTyped ==
  ASSUME CountersOK, NEW r, NEW facts, IsFiniteSet(facts), Submitted(r, facts)
  PROVE  /\ CountersOK'
         /\ \A c \in EventName : counters'[c] = counters[c]
  <1> DEFINE Hit(c) == {f \in facts : f[1] \in DOMAIN CounterOf /\ CounterOf[f[1]] = c}
  <1>1. \A c : Cardinality(Hit(c)) \in Nat
    BY FS_Subset, FS_CardinalityType
  <1>2. counters' = [c \in Counter |-> counters[c] + Cardinality(Hit(c))]
    BY DEF Submitted
  <1>3. \A c \in EventName : Hit(c) = {}
    BY CounterFacts
  <1> HIDE DEF Hit
  <1>4. CountersOK'
    BY <1>1, <1>2 DEF CountersOK
  <1>5. \A c \in EventName : Cardinality(Hit(c)) = 0
    BY <1>3, FS_EmptySet
  <1>6. \A c \in EventName : counters'[c] = counters[c]
    BY <1>2, <1>5, CounterFacts DEF CountersOK
  <1> QED
    BY <1>4, <1>6

LEMMA SummedTyped ==
  ASSUME CountersOK, NEW r, NEW f \in DOMAIN SumsOf, NEW fields,
         \A c \in SumsOf[f] : fields[c] \in Nat, SubmittedSum(r, f, fields)
  PROVE  /\ CountersOK'
         /\ CausesCounted(counters') = CausesCounted(counters)
         /\ \A c \in EventName :
              counters'[c] = counters[c] + IF c \in SumsOf[f] THEN fields[c] ELSE 0
  <1>1. counters' = [c \in Counter |-> counters[c] + IF c \in SumsOf[f] THEN fields[c] ELSE 0]
    BY DEF SubmittedSum
  <1>2. CountersOK'
    BY <1>1 DEF CountersOK
  <1>3. \A c \in CauseName : counters'[c] = counters[c]
    BY <1>1, CounterFacts DEF CountersOK
  <1>4. CausesCounted(counters') = CausesCounted(counters)
    BY <1>3 DEF CausesCounted, CauseName
  <1>5. \A c \in EventName :
          counters'[c] = counters[c] + IF c \in SumsOf[f] THEN fields[c] ELSE 0
    BY <1>1, CounterFacts
  <1> QED
    BY <1>2, <1>4, <1>5

(* A report without a cause counts no cause, one with a cause counts one.   *)
LEMMA CauseNotCounted ==
  ASSUME CountersOK, NEW r, NEW facts, Submitted(r, facts),
         \A f \in facts : f[1] \in RequestFact \cup {"GZIP_REQUEST"}
  PROVE  CausesCounted(counters') = CausesCounted(counters)
  <1> DEFINE Hit(c) == {f \in facts : f[1] \in DOMAIN CounterOf /\ CounterOf[f[1]] = c}
  <1>1. counters' = [c \in Counter |-> counters[c] + Cardinality(Hit(c))]
    BY DEF Submitted
  <1>2. \A c \in CauseName : Hit(c) = {}
    BY CounterFacts
  <1> HIDE DEF Hit
  <1>3. \A c \in CauseName : counters'[c] = counters[c]
    BY <1>1, <1>2, CounterFacts, FS_EmptySet DEF CountersOK
  <1> QED
    BY <1>3 DEF CausesCounted, CauseName

LEMMA CauseCountedOnce ==
  ASSUME CountersOK, NEW r, NEW fact \in CauseFact, NEW why, NEW others \in SUBSET Gzip,
         Submitted(r, others \cup {<<fact, why>>})
  PROVE  CausesCounted(counters') = CausesCounted(counters) + 1
  <1> DEFINE facts == others \cup {<<fact, why>>}
             Hit(c) == {f \in facts : f[1] \in DOMAIN CounterOf /\ CounterOf[f[1]] = c}
             mine == CounterOf[fact]
  <1>1. counters' = [c \in Counter |-> counters[c] + Cardinality(Hit(c))]
    BY DEF Submitted
  <1>2. mine \in CauseName
    BY CounterFacts
  <1>3. \A f \in others : CounterOf[f[1]] \notin CauseName
    BY CounterFacts DEF Gzip
  <1>4. \A c \in CauseName \ {mine} : Hit(c) = {}
    BY <1>3
  <1>5. Hit(mine) = {<<fact, why>>}
    BY <1>2, <1>3, CounterFacts
  <1> HIDE DEF Hit, facts, mine
  <1>6. \A c \in CauseName : Cardinality(Hit(c)) = IF c = mine THEN 1 ELSE 0
    BY <1>4, <1>5, FS_EmptySet, FS_Singleton
  <1>7. \A c \in CauseName : counters'[c] = counters[c] + IF c = mine THEN 1 ELSE 0
    BY <1>1, <1>6, CounterFacts
  <1>8. \A c \in CauseName : counters[c] \in Nat
    BY CounterFacts DEF CountersOK
  <1> QED
    BY <1>2, <1>7, <1>8 DEF CausesCounted, CauseName
-----------------------------------------------------------------------------
(* The failures that some cause counts.                                     *)
Caused == {r \in Requests : failure[r] # NoFailure /\ ~Uncaused(r)}

TypedInv ==
  /\ failure \in [Requests -> [error : HecError, reason : Reason] \cup {NoFailure}]
  /\ trace \in [Requests -> SUBSET (Fact \X (Reason \cup {"none"}))]
  /\ CountersOK

ReportInv == TypedInv /\ CausesCounted(counters) = Cardinality(Caused)

LEMMA CausedFinite == IsFiniteSet(Caused) /\ Cardinality(Caused) \in Nat
  BY ReceiverAssumption, FS_Subset, FS_CardinalityType DEF Caused

LEMMA GzipFinite ==
  ASSUME NEW others \in SUBSET Gzip
  PROVE  IsFiniteSet(others) /\ \A f \in others : f = <<"GZIP_REQUEST", "none">>
  BY FS_Singleton, FS_Subset DEF Gzip

LEMMA InitReports == Init => ReportInv
  <1> SUFFICES ASSUME Init PROVE ReportInv
    OBVIOUS
  <1>1. TypedInv
    BY DEF Init, TypedInv, CountersOK
  <1>2. Caused = {}
    BY DEF Init, Caused
  <1>3. CausesCounted(counters) = 0
    BY CounterFacts DEF Init, CausesCounted, CauseName
  <1> QED
    BY <1>1, <1>2, <1>3, FS_EmptySet DEF ReportInv

(* A refusal is counted by its cause or stands among the uncaused.          *)
LEMMA RefusalReports ==
  ASSUME ReportInv, NEW r \in Requests, failure[r] = NoFailure, input' = input,
         NEW e \in HecError, NEW why \in Reason, NEW fact \in CauseFact \cup {NoFact},
         NEW others \in SUBSET Gzip, RefusesWith(r, e, why, fact, others)
  PROVE  ReportInv'
  <1> DEFINE facts == others \cup {f \in {<<fact, why>>} : fact # NoFact}
             x == Failure(e, why)
  <1>1. /\ Submitted(r, facts) /\ failure' = [failure EXCEPT ![r] = x]
        /\ fact = NoFact <=> NoCause(r, e, why)
    BY DEF RefusesWith, Fails
  <1>2. IsFiniteSet(facts) /\ facts \in SUBSET (Fact \X (Reason \cup {"none"}))
    <2>1. IsFiniteSet({f \in {<<fact, why>>} : fact # NoFact})
      BY FS_Singleton, FS_Subset
    <2>2. IsFiniteSet(facts)
      BY <2>1, GzipFinite, FS_Union
    <2>3. \A f \in others : f \in Fact \X (Reason \cup {"none"})
      <3>1. "GZIP_REQUEST" \in Fact
        BY CounterFacts DEF Fact
      <3>2. \A f \in others : f = <<"GZIP_REQUEST", "none">>
        BY GzipFinite
      <3> QED
        BY <3>1, <3>2
    <2>4. fact # NoFact => <<fact, why>> \in Fact \X (Reason \cup {"none"})
      BY CounterFacts DEF Fact
    <2> QED
      BY <2>2, <2>3, <2>4
  <1>3. x \in [error : HecError, reason : Reason] /\ x.error = e /\ x.reason = why /\ x # NoFailure
    <2>1. e # "none"
      BY Errors
    <2> QED
      BY <2>1 DEF Failure, NoFailure
  <1>4. TypedInv'
    <2>1. CountersOK'
      BY <1>1, <1>2, SubmittedTyped DEF ReportInv, TypedInv
    <2>2. trace' = [trace EXCEPT ![r] = @ \cup facts]
      BY <1>1 DEF Submitted
    <2> HIDE DEF facts, x
    <2> QED
      BY <1>1, <1>2, <1>3, <2>1, <2>2 DEF ReportInv, TypedInv
  <1>5. /\ failure'[r] = x
        /\ \A s \in Requests \ {r} : failure'[s] = failure[s]
    <2> HIDE DEF x
    <2> QED
      BY <1>1 DEF ReportInv, TypedInv
  <1>6. Uncaused(r)' <=> NoCause(r, e, why)
    BY <1>3, <1>5 DEF Uncaused, NoCause, RouteOf
  <1>7. r \notin Caused /\ \A s \in Requests \ {r} : s \in Caused' <=> s \in Caused
    BY <1>5 DEF Caused, Uncaused, RouteOf
  <1>8. CASE fact = NoFact
    <2>1. Caused' = Caused
      BY <1>1, <1>6, <1>7, <1>8 DEF Caused
    <2>2. CausesCounted(counters') = CausesCounted(counters)
      <3>1. \A f \in facts : f[1] \in RequestFact \cup {"GZIP_REQUEST"}
        BY <1>8, GzipFinite
      <3> QED
        BY <1>1, <3>1, CauseNotCounted DEF ReportInv, TypedInv
    <2> QED
      BY <1>4, <2>1, <2>2 DEF ReportInv
  <1>9. CASE fact # NoFact
    <2>1. Caused' = Caused \cup {r}
      BY <1>1, <1>3, <1>5, <1>6, <1>7, <1>9 DEF Caused
    <2>2. CausesCounted(counters') = CausesCounted(counters) + 1
      <3>1. facts = others \cup {<<fact, why>>}
        BY <1>9
      <3> QED
        BY <1>1, <1>9, <3>1, CauseCountedOnce DEF ReportInv, TypedInv
    <2>3. Cardinality(Caused \cup {r}) = Cardinality(Caused) + 1
      BY <1>7, CausedFinite, FS_AddElement
    <2> QED
      BY <1>4, <2>1, <2>2, <2>3 DEF ReportInv
  <1> QED
    BY <1>8, <1>9

(* What is reported of a request that does not fail now.                    *)
Plain(r) ==
  \/ UNCHANGED <<trace, counters>>
  \/ \E f \in RequestFact \cup {"GZIP_REQUEST"}, why \in Reason \cup {"none"} :
       Submitted(r, {<<f, why>>})
  \/ Submitted(r, {})
  \/ \E f \in DOMAIN SumsOf : \E fields :
       SubmittedSum(r, f, fields) /\ \A c \in SumsOf[f] : fields[c] \in Nat

LEMMA PlainReports ==
  ASSUME ReportInv, NEW r \in Requests, failure' = failure, Plain(r),
         \A s \in Requests : failure[s] # NoFailure => RouteOf(s)' = RouteOf(s)
  PROVE  ReportInv'
  <1>1. Caused' = Caused
    BY DEF Caused, Uncaused
  <1>2. CASE UNCHANGED <<trace, counters>>
    BY <1>1, <1>2 DEF ReportInv, TypedInv, CountersOK
  <1>3. ASSUME NEW facts, IsFiniteSet(facts), Submitted(r, facts),
               \A g \in facts : /\ g[1] \in RequestFact \cup {"GZIP_REQUEST"}
                                /\ g \in Fact \X (Reason \cup {"none"})
        PROVE  ReportInv'
    <2>1. CountersOK' /\ CausesCounted(counters') = CausesCounted(counters)
      BY <1>3, SubmittedTyped, CauseNotCounted DEF ReportInv, TypedInv
    <2>2. trace' = [trace EXCEPT ![r] = @ \cup facts]
      BY <1>3 DEF Submitted
    <2>3. TypedInv'
      BY <1>3, <2>1, <2>2 DEF ReportInv, TypedInv
    <2> QED
      BY <1>1, <2>1, <2>3 DEF ReportInv
  <1>4. ASSUME NEW f \in RequestFact \cup {"GZIP_REQUEST"}, NEW why \in Reason \cup {"none"},
               Submitted(r, {<<f, why>>})
        PROVE  ReportInv'
    <2>1. <<f, why>> \in Fact \X (Reason \cup {"none"})
      BY CounterFacts DEF Fact
    <2> QED
      BY <1>3, <1>4, <2>1, FS_Singleton
  <1>5. CASE Submitted(r, {})
    BY <1>3, <1>5, FS_EmptySet
  <1>6. ASSUME NEW f \in DOMAIN SumsOf, NEW fields, SubmittedSum(r, f, fields),
               \A c \in SumsOf[f] : fields[c] \in Nat
        PROVE  ReportInv'
    <2>1. CountersOK' /\ CausesCounted(counters') = CausesCounted(counters)
      BY <1>6, SummedTyped DEF ReportInv, TypedInv
    <2>2. trace' = [trace EXCEPT ![r] = @ \cup {<<f, "none">>}]
      BY <1>6 DEF SubmittedSum
    <2>3. <<f, "none">> \in Fact \X (Reason \cup {"none"})
      BY DEF Fact
    <2>4. TypedInv'
      BY <2>1, <2>2, <2>3 DEF ReportInv, TypedInv
    <2> QED
      BY <1>1, <2>1, <2>4 DEF ReportInv
  <1> QED
    BY <1>2, <1>4, <1>5, <1>6 DEF Plain

LEMMA HandlerReports ==
  ASSUME AccountInv, ServedInv, ReportInv, NEW r \in Requests, HandlerStep(r)
  PROVE  ReportInv'
  <1>1. CASE Refuses(r)
    <2>1. PICK e \in HecError, why \in Reason \ {"SinkFailed"} :
            \E fact \in CauseFact \cup {NoFact}, others \in SUBSET Gzip :
              RefusesWith(r, e, why, fact, others)
      BY <1>1 DEF Refuses
    <2>2. failure[r] = NoFailure /\ input' = input
      BY <1>1 DEF Refuses, Before, Local, AccountInv, StageOK
    <2> QED
      BY <2>1, <2>2, RefusalReports
  <1>2. CASE Passes(r)
    <2>1. Plain(r)
      <3>1. ASSUME NEW facts \in SUBSET Gzip, Submitted(r, facts) PROVE Plain(r)
        <4>1. facts = {} \/ facts = {<<"GZIP_REQUEST", "none">>}
          BY <3>1 DEF Gzip
        <4> QED
          BY <3>1, <4>1 DEF Plain
      <3>2. CASE SubmittedSum(r, "HTTP_BODY_READ", [http_body_bytes |-> 1])
        BY <3>2, CounterFacts DEF Plain
      <3>3. CASE SubmittedSum(r, "BODY_DECODED", [decoded_bytes |-> 1])
        BY <3>3, CounterFacts DEF Plain
      <3>4. CASE UNCHANGED <<trace, counters>>
        BY <3>4 DEF Plain
      <3> QED
        BY <1>2, <3>1, <3>2, <3>3, <3>4 DEF Passes
    <2>2. failure' = failure /\ input' = input
      BY <1>2 DEF Passes, Goto, Local
    <2> QED
      BY <2>1, <2>2, PlainReports DEF RouteOf
  <1>3. CASE Parse(r) \/ SinkReturns(r)
    <2>1. failure' = failure /\ input' = input /\ input[r].events \in Nat
      <3>1. input[r] \in Input
        BY <1>3, ReceiverAssumption
        DEF Parse, SinkReturns, AccountInv, StageOK, Inside, Steps
      <3>2. input[r].events \in 1..MaxEvents
        BY <3>1 DEF Input
      <3> QED
        BY <1>3, <3>2 DEF Parse, SinkReturns, Goto, Local
    <2>2. Plain(r)
      <3>1. CASE Parse(r)
        <4>1. SubmittedSum(r, "EVENTS_PARSED", [events_observed |-> input[r].events])
          BY <3>1 DEF Parse
        <4> QED
          BY <2>1, <4>1, CounterFacts DEF Plain
      <3>2. CASE SinkReturns(r)
        <4> DEFINE fields == [events_dropped |-> IF Capture THEN 0 ELSE input[r].events,
                              events_written |-> IF Capture THEN input[r].events ELSE 0]
        <4>1. SubmittedSum(r, "SINK_COMPLETED", fields)
          BY <3>2 DEF SinkReturns
        <4>2. \A c \in SumsOf["SINK_COMPLETED"] : fields[c] \in Nat
          BY <2>1, CounterFacts
        <4> HIDE DEF fields
        <4> QED
          BY <4>1, <4>2, CounterFacts DEF Plain
      <3> QED
        BY <1>3, <3>1, <3>2
    <2> QED
      BY <2>1, <2>2, PlainReports DEF RouteOf
  <1>4. CASE SinkErrs(r)
    <2>1. /\ pc[r] = "sink" /\ Fails(r, "ServerBusy", "SinkFailed", "SINK_FAILED", {})
          /\ input' = input /\ RouteOf(r) # "ack" /\ failure[r] = NoFailure
      BY <1>4 DEF SinkErrs, Local, ServedInv, Served, AccountInv, StageOK
    <2>2. /\ "ServerBusy" \in HecError /\ "SinkFailed" \in Reason /\ "SINK_FAILED" \in CauseFact
          /\ NoFact # "SINK_FAILED" /\ {} \in SUBSET Gzip
      BY Errors DEF Reason, CauseFact, NoFact
    <2>3. ~NoCause(r, "ServerBusy", "SinkFailed")
      BY <2>1 DEF NoCause
    <2>4. RefusesWith(r, "ServerBusy", "SinkFailed", "SINK_FAILED", {})
      BY <2>1, <2>2, <2>3 DEF RefusesWith
    <2> QED
      BY <2>1, <2>2, <2>4, RefusalReports
  <1>5. CASE Succeed(r) \/ Fail(r)
    <2>1. failure' = failure /\ input' = input
      BY <1>5 DEF Succeed, Fail, Goto, Local
    <2>2. failure[r].reason \in Reason \cup {"none"}
      BY DEF ReportInv, TypedInv, NoFailure
    <2>3. Plain(r)
      BY <1>5, <2>2 DEF Succeed, Fail, Plain, RequestFact
    <2> QED
      BY <2>1, <2>3, PlainReports DEF RouteOf
  <1> QED
    BY <1>1, <1>2, <1>3, <1>4, <1>5, HandlerKinds

LEMMA NextReports == AccountInv /\ ServedInv /\ ReportInv /\ [Next]_vars => ReportInv'
  <1> SUFFICES ASSUME AccountInv, ServedInv, ReportInv, [Next]_vars PROVE ReportInv'
    OBVIOUS
  <1>1. ASSUME NEW r \in Requests, Connect(r) \/ Disconnect(r) PROVE ReportInv'
    <2>1. failure' = failure /\ input' = input /\ UNCHANGED <<trace, counters>>
      BY <1>1 DEF Connect, Disconnect, Goto, Local
    <2> QED
      BY <2>1, PlainReports DEF Plain, RouteOf
  <1>2. ASSUME NEW r \in Requests, NEW q \in Inputs, Arrive(r, q) \/ Elsewhere(r, q)
        PROVE  ReportInv'
    <2>1. failure' = failure /\ input' = [input EXCEPT ![r] = q] /\ failure[r] = NoFailure
      BY <1>2 DEF Arrive, Elsewhere, Goto, AccountInv, StageOK
    <2>2. \A s \in Requests : failure[s] # NoFailure => RouteOf(s)' = RouteOf(s)
      BY <2>1 DEF AccountInv, ShapeInv, RouteOf
    <2>3. Plain(r)
      BY <1>2 DEF Arrive, Elsewhere, Plain, RequestFact
    <2> QED
      BY <2>1, <2>2, <2>3, PlainReports
  <1>3. ASSUME NEW r \in Requests, HandlerStep(r) PROVE ReportInv'
    BY <1>3, HandlerReports
  <1>4. CASE SinkStep \/ Signal \/ Exit \/ Quiet \/ UNCHANGED vars
    <2>1. UNCHANGED requestVars
      BY <1>4 DEF SinkStep, Signal, Exit, Quiet, vars
    <2> QED
      BY <2>1 DEF requestVars, ReportInv, TypedInv, CountersOK, Caused, Uncaused, RouteOf
  <1> QED
    BY <1>1, <1>2, <1>3, <1>4 DEF Next

(* Every failure that has a cause is counted by exactly one cause, whatever *)
(* the requests look like, the codes are, and the sink does: the cause      *)
(* counters of /hec/stats add up.                                           *)
THEOREM CausesAddUp == Spec => []FailuresByCause
  <1>1. ReportInv => FailuresByCause
    BY DEF ReportInv, FailuresByCause, Caused
  <1> QED
    BY <1>1, InitAccount, NextAccount, InitServed, NextServed, InitReports, NextReports, PTL
    DEF Spec
-----------------------------------------------------------------------------
(* How many events a set of requests carries.                               *)
Load(S) == {e \in S \X (1..MaxEvents) : e[2] <= input[e[1]].events}

LEMMA LoadFinite ==
  ASSUME NEW S \in SUBSET Requests
  PROVE  IsFiniteSet(S) /\ IsFiniteSet(Load(S)) /\ EventsOf(S) \in Nat
         /\ EventsOf(S) = Cardinality(Load(S))
  <1>1. IsFiniteSet(S) /\ IsFiniteSet(1..MaxEvents)
    BY ReceiverAssumption, FS_Subset, FS_Interval
  <1>2. IsFiniteSet(S \X (1..MaxEvents))
    BY <1>1, FS_Product
  <1>3. IsFiniteSet(Load(S))
    BY <1>2, FS_Subset DEF Load
  <1>4. EventsOf(S) = Cardinality(Load(S))
    BY DEF EventsOf, Load
  <1> QED
    BY <1>1, <1>3, <1>4, FS_CardinalityType

LEMMA LoadEmpty == EventsOf({}) = 0
  <1>1. Load({}) = {}
    BY DEF Load
  <1> QED
    BY <1>1, LoadFinite, FS_EmptySet

(* One more request carries its events more.                                *)
LEMMA LoadAdd ==
  ASSUME NEW S \in SUBSET Requests, NEW r \in Requests \ S, input[r].events \in 1..MaxEvents
  PROVE  EventsOf(S \cup {r}) = EventsOf(S) + input[r].events
  <1> DEFINE n == input[r].events
             Mine == {r} \X (1..n)
  <1>1. 1..n \subseteq 1..MaxEvents
    BY ReceiverAssumption
  <1>2. Load(S \cup {r}) = Load(S) \cup Mine /\ Load(S) \cap Mine = {}
    BY <1>1 DEF Load
  <1>3. IsFiniteSet(Mine) /\ Cardinality(Mine) = n
    <2>1. IsFiniteSet({r}) /\ Cardinality({r}) = 1
      BY FS_Singleton
    <2>2. IsFiniteSet(1..n) /\ Cardinality(1..n) = n
      <3>1. n \in Nat /\ n >= 1
        BY ReceiverAssumption
      <3> HIDE DEF n
      <3>2. 1 \in Int /\ n \in Int /\ ~(1 > n) /\ n - 1 + 1 = n
        BY <3>1
      <3> QED
        BY <3>2, FS_Interval
    <2>3. IsFiniteSet(Mine) /\ Cardinality(Mine) = Cardinality({r}) * Cardinality(1..n)
      BY <2>1, <2>2, FS_Product
    <2> QED
      BY <2>1, <2>2, <2>3
  <1> HIDE DEF Mine
  <1>4. Cardinality(Load(S) \cup Mine) = Cardinality(Load(S)) + Cardinality(Mine) - 0
    BY <1>2, <1>3, LoadFinite, FS_Union, FS_EmptySet
  <1>5. EventsOf(S \cup {r}) = Cardinality(Load(S \cup {r}))
    BY DEF EventsOf, Load
  <1>6. EventsOf(S) = Cardinality(Load(S)) /\ EventsOf(S) \in Nat /\ n \in Nat
    BY LoadFinite, ReceiverAssumption
  <1>7. EventsOf(S \cup {r}) = Cardinality(Load(S)) + Cardinality(Mine) - 0
    BY <1>2, <1>4, <1>5, Zenon
  <1>8. Cardinality(Load(S)) + Cardinality(Mine) - 0 = EventsOf(S) + n
    BY <1>3, <1>6
  <1> QED
    BY <1>7, <1>8, Zenon

LEMMA LoadSame ==
  ASSUME NEW S, \A r \in S : input'[r] = input[r]
  PROVE  EventsOf(S)' = EventsOf(S)
  <1>1. \A e \in S \X (1..MaxEvents) : input'[e[1]] = input[e[1]]
    OBVIOUS
  <1>2. {e \in S \X (1..MaxEvents) : e[2] <= input'[e[1]].events} =
        {e \in S \X (1..MaxEvents) : e[2] <= input[e[1]].events}
    BY <1>1
  <1> QED
    BY <1>2 DEF EventsOf

(* The requests whose events are neither dropped nor written.               *)
Pending ==
  {r \in Requests :
     \/ pc[r] = "sink"
     \/ pc[r] = "gone" /\ size[r] > 0
     \/ failure[r].reason = "SinkFailed"}

(* A request has a size once it is submitted, and without a capture file    *)
(* nothing is.                                                              *)
SizeOK(r) ==
  /\ size[r] > 0 => pc[r] \in {"sink", "succeeding", "failing", "answered", "gone"}
  /\ pc[r] = "sink" /\ Capture => size[r] > 0

SizeInv ==
  /\ size \in [Requests -> Nat]
  /\ \A r \in Requests : SizeOK(r)
  /\ ~Capture => queue = <<>> /\ op = Sink!Idle /\ \A r \in Requests : state[r] = "idle"

Tally ==
  counters["events_observed"] =
    counters["events_dropped"] + counters["events_written"] + EventsOf(Pending)

EventsInv == SizeInv /\ Tally

LEMMA InitEvents == Init => EventsInv
  <1> SUFFICES ASSUME Init PROVE EventsInv
    OBVIOUS
  <1>1. SizeInv
    BY DEF Init, Sink!Init, Sink!Idle, SizeInv, SizeOK
  <1>2. Pending = {}
    BY DEF Init, Pending, NoFailure
  <1>3. \A c \in EventName : counters[c] = 0
    BY CounterFacts DEF Init
  <1>4. Tally
    <2> HIDE DEF Pending
    <2> QED
      BY <1>2, <1>3, LoadEmpty DEF Tally, EventName
  <1> QED
    BY <1>1, <1>4 DEF EventsInv

(* A step that leaves the sink alone, of a request that is not with it nor  *)
(* will be.                                                                 *)
LEMMA AwayEvents ==
  ASSUME AccountInv, EventsInv, UNCHANGED sinkVars, NEW r \in Requests,
         pc[r] \notin {"sink"}, NEW step \in Steps \ {"sink"},
         pc' = [pc EXCEPT ![r] = step],
         pc[r] \in {"succeeding", "failing"} => step = "answered",
         pc[r] \notin {"answered", "gone"},
         \/ failure' = failure
         \/ /\ pc[r] # "failing"
            /\ \E e, why : why # "SinkFailed"
                 /\ failure' = [failure EXCEPT ![r] = Failure(e, why)],
         \/ input' = input
         \/ pc[r] = "heading" /\ \E q : input' = [input EXCEPT ![r] = q],
         \A c \in EventName : counters'[c] = counters[c]
  PROVE  EventsInv'
  <1>1. pc'[r] = step /\ \A s \in Requests \ {r} : pc'[s] = pc[s]
    BY DEF AccountInv, ShapeInv
  <1>2. /\ \A s \in Requests \ {r} : failure'[s] = failure[s]
        /\ failure'[r].reason = "SinkFailed" <=> failure[r].reason = "SinkFailed"
    <2>1. CASE failure' = failure
      BY <2>1
    <2>2. ASSUME NEW e, NEW why, why # "SinkFailed", pc[r] # "failing",
                 failure' = [failure EXCEPT ![r] = Failure(e, why)]
          PROVE  /\ \A s \in Requests \ {r} : failure'[s] = failure[s]
                 /\ failure'[r].reason = "SinkFailed" <=> failure[r].reason = "SinkFailed"
      <3>1. failure[r] = NoFailure
        BY <2>2 DEF AccountInv, StageOK
      <3>2. failure'[r] = Failure(e, why) /\ \A s \in Requests \ {r} : failure'[s] = failure[s]
        BY <2>2 DEF AccountInv, ShapeInv
      <3> QED
        BY <2>2, <3>1, <3>2 DEF NoFailure, Failure
    <2> QED
      BY <2>1, <2>2
  <1>3. SizeInv'
    <2>1. UNCHANGED <<size, queue, op, state>>
      BY DEF sinkVars
    <2>2. SizeOK(r)'
      BY <1>1, <2>1 DEF EventsInv, SizeInv, SizeOK
    <2>3. \A s \in Requests \ {r} : SizeOK(s)'
      BY <1>1, <2>1 DEF EventsInv, SizeInv, SizeOK
    <2> QED
      BY <2>1, <2>2, <2>3 DEF EventsInv, SizeInv
  <1>4. Pending' = Pending
    <2>1. size' = size
      BY DEF sinkVars
    <2>2. pc'[r] = "gone" => ~(size[r] > 0)
      BY <1>1 DEF EventsInv, SizeInv, SizeOK
    <2> QED
      BY <1>1, <1>2, <2>1, <2>2 DEF Pending
  <1>5. EventsOf(Pending)' = EventsOf(Pending)
    <2>1. \A s \in Pending : input'[s] = input[s]
      <3>1. pc[r] = "heading" => r \notin Pending
        BY DEF EventsInv, SizeInv, Pending, AccountInv, StageOK, NoFailure
      <3>2. \A s \in Requests \ {r} : input'[s] = input[s]
        BY DEF AccountInv, ShapeInv
      <3>3. pc[r] # "heading" => input' = input
        OBVIOUS
      <3> QED
        BY <3>1, <3>2, <3>3 DEF Pending
    <2> QED
      BY <1>4, <2>1, LoadSame
  <1> QED
    BY <1>3, <1>5 DEF EventsInv, Tally, EventName

(* How the events of a submitted request are moved between the counts.      *)
LEMMA MovedEvents ==
  ASSUME AccountInv, EventsInv, NEW r \in Requests, input' = input, CountersOK, CountersOK',
         NEW n \in 1..MaxEvents, n = input[r].events, SizeInv', NEW o \in Nat, NEW d \in Nat,
         counters'["events_observed"] = counters["events_observed"] + o,
         counters'["events_dropped"] + counters'["events_written"]
           = counters["events_dropped"] + counters["events_written"] + d,
         \/ o = 0 /\ d = 0 /\ Pending' = Pending
         \/ o = n /\ d = 0 /\ r \notin Pending /\ Pending' = Pending \cup {r}
         \/ o = 0 /\ d = n /\ r \in Pending /\ Pending' = Pending \ {r}
  PROVE  EventsInv'
  <1>1. \A c \in EventName : counters[c] \in Nat /\ counters'[c] \in Nat
    BY CounterFacts DEF CountersOK
  <1>2. EventsOf(Pending)' = EventsOf(Pending')
    BY DEF EventsOf
  <1>3. Pending \in SUBSET Requests /\ Pending' \in SUBSET Requests
    BY DEF Pending
  <1> DEFINE E == EventsOf(Pending)
             F == EventsOf(Pending')
  <1>4. \/ o = 0 /\ d = 0 /\ F = E
        \/ o = n /\ d = 0 /\ F = E + n
        \/ o = 0 /\ d = n /\ E = F + n
    <2>1. CASE o = 0 /\ d = 0 /\ Pending' = Pending
      BY <2>1, Zenon
    <2>2. CASE o = n /\ d = 0 /\ r \notin Pending /\ Pending' = Pending \cup {r}
      <3>1. EventsOf(Pending \cup {r}) = EventsOf(Pending) + n
        BY <1>3, <2>2, LoadAdd
      <3> QED
        BY <2>2, <3>1, Zenon
    <2>3. CASE o = 0 /\ d = n /\ r \in Pending /\ Pending' = Pending \ {r}
      <3>1. EventsOf((Pending \ {r}) \cup {r}) = EventsOf(Pending \ {r}) + n
        BY <1>3, <2>3, LoadAdd
      <3>2. (Pending \ {r}) \cup {r} = Pending
        BY <2>3
      <3> QED
        BY <2>3, <3>1, <3>2, Zenon
    <2> QED
      BY <2>1, <2>2, <2>3, Zenon
  <1>5. E \in Nat /\ F \in Nat
    BY <1>3, LoadFinite
  <1>6. Tally => counters["events_observed"] =
                   counters["events_dropped"] + counters["events_written"] + E
    BY DEF Tally
  <1> HIDE DEF E, F
  <1>7. counters'["events_observed"] =
          counters'["events_dropped"] + counters'["events_written"] + F
    BY <1>1, <1>4, <1>5, <1>6 DEF EventsInv, EventName
  <1>8. Tally'
    BY <1>2, <1>7 DEF Tally, F
  <1> QED
    BY <1>8 DEF EventsInv

(* Nothing but Parse and SinkReturns counts events.                         *)
LEMMA CountsKept ==
  ASSUME CountersOK, NEW r \in Requests,
         Refuses(r) \/ Passes(r) \/ SinkErrs(r) \/ Succeed(r) \/ Fail(r)
  PROVE  \A c \in EventName : counters'[c] = counters[c]
  <1>1. ASSUME NEW e, NEW why, NEW fact, NEW others \in SUBSET Gzip,
               Fails(r, e, why, fact, others)
        PROVE  \A c \in EventName : counters'[c] = counters[c]
    <2>1. Submitted(r, others \cup {f \in {<<fact, why>>} : fact # NoFact})
      BY <1>1 DEF Fails
    <2>2. IsFiniteSet(others \cup {f \in {<<fact, why>>} : fact # NoFact})
      <3>1. IsFiniteSet({f \in {<<fact, why>>} : fact # NoFact})
        BY FS_Singleton, FS_Subset
      <3> QED
        BY <3>1, GzipFinite, FS_Union
    <2> QED
      BY <2>1, <2>2, SubmittedTyped
  <1>2. CASE Refuses(r)
    BY <1>1, <1>2 DEF Refuses, RefusesWith
  <1>3. CASE Passes(r)
    <2>0. \A c \in EventName : counters[c] \in Nat
      BY CounterFacts DEF CountersOK
    <2>1. ASSUME NEW facts \in SUBSET Gzip, Submitted(r, facts)
          PROVE  \A c \in EventName : counters'[c] = counters[c]
      BY <2>1, GzipFinite, SubmittedTyped
    <2>2. CASE SubmittedSum(r, "HTTP_BODY_READ", [http_body_bytes |-> 1])
      BY <2>0, <2>2, CounterFacts DEF SubmittedSum, EventName
    <2>3. CASE SubmittedSum(r, "BODY_DECODED", [decoded_bytes |-> 1])
      BY <2>0, <2>3, CounterFacts DEF SubmittedSum, EventName
    <2>4. CASE UNCHANGED <<trace, counters>>
      BY <2>4
    <2> QED
      BY <1>3, <2>1, <2>2, <2>3, <2>4 DEF Passes
  <1>4. CASE SinkErrs(r)
    <2>1. {} \in SUBSET Gzip
      OBVIOUS
    <2> QED
      BY <1>1, <1>4, <2>1 DEF SinkErrs
  <1>5. CASE Succeed(r) \/ Fail(r)
    BY <1>5, FS_Singleton, SubmittedTyped DEF Succeed, Fail
  <1> QED
    BY <1>2, <1>3, <1>4, <1>5

LEMMA ParseEvents ==
  ASSUME AccountInv, CountersOK, EventsInv, NEW r \in Requests, Parse(r)
  PROVE  EventsInv'
  <1> DEFINE n == input[r].events
  <1>1. /\ pc[r] = "decoded" /\ pc' = [pc EXCEPT ![r] = "sink"]
        /\ UNCHANGED <<failure, input>> /\ failure[r] = NoFailure /\ n \in 1..MaxEvents
    <2>1. pc[r] = "decoded" /\ input[r] \in Input /\ failure[r] = NoFailure
      BY ReceiverAssumption DEF Parse, AccountInv, StageOK, Inside, Steps
    <2> QED
      BY <2>1 DEF Parse, Goto, Input
  <1>2. n \in Nat /\ n > 0
    BY <1>1, ReceiverAssumption
  <1> HIDE DEF n
  <1>3. /\ CountersOK' /\ counters'["events_observed"] = counters["events_observed"] + n
        /\ counters'["events_dropped"] = counters["events_dropped"] + 0
        /\ counters'["events_written"] = counters["events_written"] + 0
    <2> DEFINE fields == [events_observed |-> n]
    <2>1. SubmittedSum(r, "EVENTS_PARSED", fields)
      BY DEF Parse, n
    <2>2. \A c \in SumsOf["EVENTS_PARSED"] : fields[c] \in Nat
      BY <1>2, CounterFacts
    <2>3. fields["events_observed"] = n
      OBVIOUS
    <2> HIDE DEF fields
    <2> QED
      BY <2>1, <2>2, <2>3, SummedTyped, CounterFacts DEF EventName
  <1>4. pc'[r] = "sink" /\ \A s \in Requests \ {r} : pc'[s] = pc[s]
    BY <1>1 DEF AccountInv, ShapeInv
  <1>5. /\ size' \in [Requests -> Nat] /\ \A s \in Requests \ {r} : size'[s] = size[s]
        /\ Capture => size'[r] > 0
        /\ ~Capture => UNCHANGED sinkVars
    <2>1. CASE Capture
      <3>1. size' = [size EXCEPT ![r] = n]
        BY <2>1 DEF Parse, Sink!Submit, n
      <3> QED
        BY <1>2, <2>1, <3>1 DEF EventsInv, SizeInv
    <2>2. CASE ~Capture
      BY <2>2 DEF Parse, sinkVars, EventsInv, SizeInv
    <2> QED
      BY <2>1, <2>2
  <1>6. SizeInv'
    <2>1. \A s \in Requests : SizeOK(s)'
      BY <1>4, <1>5 DEF EventsInv, SizeInv, SizeOK
    <2> QED
      BY <1>5, <2>1 DEF EventsInv, SizeInv, sinkVars
  <1>7. r \notin Pending /\ Pending' = Pending \cup {r}
    BY <1>1, <1>4, <1>5 DEF Pending, NoFailure
  <1>8. counters["events_dropped"] \in Nat /\ counters["events_written"] \in Nat
    BY CounterFacts DEF CountersOK, EventName
  <1>9. counters'["events_dropped"] + counters'["events_written"]
          = counters["events_dropped"] + counters["events_written"] + 0
    BY <1>3, <1>8
  <1> QED
    BY <1>1, <1>2, <1>3, <1>6, <1>7, <1>9, MovedEvents DEF n

LEMMA SinkReturnsEvents ==
  ASSUME AccountInv, CountersOK, EventsInv, NEW r \in Requests, SinkReturns(r)
  PROVE  EventsInv'
  <1> DEFINE n == input[r].events
             dropped == IF Capture THEN 0 ELSE n
             written == IF Capture THEN n ELSE 0
  <1>1. /\ pc[r] = "sink" /\ pc' = [pc EXCEPT ![r] = "succeeding"] /\ UNCHANGED sinkVars
        /\ UNCHANGED <<failure, input>> /\ failure[r] = NoFailure /\ n \in 1..MaxEvents
    <2>1. pc[r] = "sink" /\ input[r] \in Input /\ failure[r] = NoFailure
      BY ReceiverAssumption DEF SinkReturns, AccountInv, StageOK, Inside, Steps
    <2> QED
      BY <2>1 DEF SinkReturns, Goto, Input, Local
  <1>2. n \in Nat /\ n > 0
    BY <1>1, ReceiverAssumption
  <1>3. dropped \in Nat /\ written \in Nat /\ dropped + written = n
    BY <1>2
  <1>4. SubmittedSum(r, "SINK_COMPLETED",
                     [events_dropped |-> dropped, events_written |-> written])
    BY DEF SinkReturns
  <1> HIDE DEF n, dropped, written
  <1>5. /\ CountersOK' /\ counters'["events_observed"] = counters["events_observed"] + 0
        /\ counters'["events_dropped"] = counters["events_dropped"] + dropped
        /\ counters'["events_written"] = counters["events_written"] + written
    <2> DEFINE fields == [events_dropped |-> dropped, events_written |-> written]
    <2>1. SubmittedSum(r, "SINK_COMPLETED", fields)
      BY <1>4
    <2>2. fields["events_dropped"] = dropped /\ fields["events_written"] = written
      OBVIOUS
    <2> HIDE DEF fields
    <2>3. \A c \in SumsOf["SINK_COMPLETED"] : fields[c] \in Nat
      BY <1>3, <2>2, CounterFacts
    <2> QED
      BY <2>1, <2>2, <2>3, SummedTyped, CounterFacts DEF EventName
  <1>6. pc'[r] = "succeeding" /\ \A s \in Requests \ {r} : pc'[s] = pc[s]
    BY <1>1 DEF AccountInv, ShapeInv
  <1>7. UNCHANGED <<size, queue, op, state>>
    BY <1>1 DEF sinkVars
  <1>8. SizeInv'
    <2>1. \A s \in Requests : SizeOK(s)'
      BY <1>6, <1>7 DEF EventsInv, SizeInv, SizeOK
    <2> QED
      BY <1>7, <2>1 DEF EventsInv, SizeInv
  <1>9. r \in Pending /\ Pending' = Pending \ {r}
    BY <1>1, <1>6, <1>7 DEF Pending, NoFailure
  <1>10. counters["events_dropped"] \in Nat /\ counters["events_written"] \in Nat
    BY CounterFacts DEF CountersOK, EventName
  <1>11. counters'["events_dropped"] + counters'["events_written"]
           = counters["events_dropped"] + counters["events_written"] + n
    BY <1>2, <1>3, <1>5, <1>10
  <1> QED
    BY <1>1, <1>2, <1>5, <1>8, <1>9, <1>11, MovedEvents DEF n

(* A request whose events stay where they are: the sink refused them, or    *)
(* its client left them there.                                              *)
LEMMA LeftEvents ==
  ASSUME AccountInv, CountersOK, EventsInv, NEW r \in Requests,
         SinkErrs(r) \/ (Disconnect(r) /\ pc[r] = "sink")
  PROVE  EventsInv'
  <1> DEFINE n == input[r].events
  <1>1. /\ pc[r] = "sink" /\ input' = input /\ size' = size /\ n \in 1..MaxEvents
        /\ failure[r] = NoFailure
    <2>1. pc[r] = "sink" /\ input[r] \in Input /\ failure[r] = NoFailure
      BY ReceiverAssumption DEF SinkErrs, AccountInv, StageOK, Inside, Steps
    <2> QED
      BY <2>1 DEF SinkErrs, Disconnect, Goto, Input, Local, Sink!Leave, sinkVars
  <1> HIDE DEF n
  <1>2. Capture
    BY DEF SinkErrs, Disconnect, Sink!Leave, EventsInv, SizeInv
  <1>3. /\ CountersOK' /\ \A c \in EventName : counters'[c] = counters[c]
    <2>1. CASE SinkErrs(r)
      <3>1. Submitted(r, {} \cup {f \in {<<"SINK_FAILED", "SinkFailed">>} : "SINK_FAILED" # NoFact})
        BY <2>1 DEF SinkErrs, Fails
      <3>2. IsFiniteSet({} \cup {f \in {<<"SINK_FAILED", "SinkFailed">>} : "SINK_FAILED" # NoFact})
        BY FS_Singleton, FS_Subset
      <3> QED
        BY <3>1, <3>2, SubmittedTyped
    <2>2. CASE Disconnect(r)
      BY <2>2 DEF Disconnect, CountersOK
    <2> QED
      BY <2>1, <2>2
  <1>4. /\ pc'[r] \in {"failing", "gone"} /\ \A s \in Requests \ {r} : pc'[s] = pc[s]
        /\ \A s \in Requests \ {r} : failure'[s] = failure[s]
        /\ pc'[r] = "failing" => failure'[r].reason = "SinkFailed"
    <2>1. CASE SinkErrs(r)
      <3> DEFINE x == Failure("ServerBusy", "SinkFailed")
      <3>1. pc' = [pc EXCEPT ![r] = "failing"] /\ failure' = [failure EXCEPT ![r] = x]
        BY <2>1 DEF SinkErrs, Fails
      <3>2. x.reason = "SinkFailed"
        BY DEF Failure
      <3> HIDE DEF x
      <3> QED
        BY <3>1, <3>2 DEF AccountInv, ShapeInv
    <2>2. CASE Disconnect(r)
      BY <2>2 DEF Disconnect, Goto, AccountInv, ShapeInv
    <2> QED
      BY <2>1, <2>2
  <1>5. SizeInv'
    BY <1>1, <1>2, <1>4 DEF EventsInv, SizeInv, SizeOK
  <1>6. Pending' = Pending
    <2>1. r \in Pending /\ r \in Pending'
      BY <1>1, <1>2, <1>4 DEF Pending, EventsInv, SizeInv, SizeOK
    <2>2. \A s \in Requests \ {r} : s \in Pending' <=> s \in Pending
      BY <1>1, <1>4 DEF Pending
    <2> QED
      BY <2>1, <2>2 DEF Pending
  <1>7. \A c \in EventName : counters[c] \in Nat
    BY CounterFacts DEF CountersOK
  <1>8. /\ counters'["events_observed"] = counters["events_observed"] + 0
        /\ counters'["events_dropped"] + counters'["events_written"]
             = counters["events_dropped"] + counters["events_written"] + 0
    BY <1>3, <1>7 DEF EventName
  <1> QED
    BY <1>1, <1>3, <1>5, <1>6, <1>8, MovedEvents DEF n

LEMMA HandlerEvents ==
  ASSUME AccountInv, ServedInv, CountersOK, EventsInv, NEW r \in Requests, HandlerStep(r)
  PROVE  EventsInv'
  <1>1. CASE Refuses(r)
    <2>1. PICK e \in HecError, why \in Reason \ {"SinkFailed"} :
            \E fact \in CauseFact \cup {NoFact}, others \in SUBSET Gzip :
              RefusesWith(r, e, why, fact, others)
      BY <1>1 DEF Refuses
    <2>2. PICK fact \in CauseFact \cup {NoFact}, others \in SUBSET Gzip :
            RefusesWith(r, e, why, fact, others)
      BY <2>1
    <2>3. /\ pc' = [pc EXCEPT ![r] = "failing"] /\ pc[r] \in Before
          /\ failure' = [failure EXCEPT ![r] = Failure(e, why)]
          /\ input' = input /\ UNCHANGED sinkVars
      BY <1>1, <2>2 DEF Refuses, RefusesWith, Fails, Local
    <2>4. \A c \in EventName : counters'[c] = counters[c]
      BY <1>1, CountsKept
    <2> QED
      BY <2>3, <2>4, AwayEvents DEF Before, Steps
  <1>2. CASE Passes(r)
    <2>1. PICK step \in Before \ {"received"} : Goto(r, step)
      BY <1>2 DEF Passes
    <2>2. /\ pc' = [pc EXCEPT ![r] = step] /\ pc[r] \in Before /\ failure' = failure
          /\ input' = input /\ UNCHANGED sinkVars
      BY <1>2, <2>1 DEF Passes, Goto, Local
    <2>3. \A c \in EventName : counters'[c] = counters[c]
      BY <1>2, CountsKept
    <2> QED
      BY <2>2, <2>3, AwayEvents DEF Before, Steps
  <1>3. CASE Succeed(r) \/ Fail(r)
    <2>1. /\ pc' = [pc EXCEPT ![r] = "answered"] /\ pc[r] \in {"succeeding", "failing"}
          /\ failure' = failure /\ input' = input /\ UNCHANGED sinkVars
      BY <1>3 DEF Succeed, Fail, Goto, Local
    <2>2. \A c \in EventName : counters'[c] = counters[c]
      BY <1>3, CountsKept
    <2> QED
      BY <2>1, <2>2, AwayEvents DEF Steps
  <1> QED
    BY <1>1, <1>2, <1>3, HandlerKinds, ParseEvents, SinkReturnsEvents, LeftEvents

LEMMA NextEvents == AccountInv /\ ServedInv /\ CountersOK /\ EventsInv /\ [Next]_vars => EventsInv'
  <1> SUFFICES ASSUME AccountInv, ServedInv, CountersOK, EventsInv, [Next]_vars
               PROVE  EventsInv'
    OBVIOUS
  <1>1. ASSUME NEW r \in Requests, Connect(r) PROVE EventsInv'
    BY <1>1, AwayEvents DEF Connect, Goto, Local, Steps
  <1>2. ASSUME NEW r \in Requests, NEW q \in Inputs, Arrive(r, q) \/ Elsewhere(r, q)
        PROVE  EventsInv'
    <2>1. \A c \in EventName : counters'[c] = counters[c]
      BY <1>2, FS_Singleton, SubmittedTyped DEF Arrive, Elsewhere
    <2>2. /\ pc[r] = "heading" /\ \E step \in {"received", "elsewhere"} : Goto(r, step)
          /\ input' = [input EXCEPT ![r] = q] /\ UNCHANGED sinkVars
      BY <1>2 DEF Arrive, Elsewhere
    <2> QED
      BY <2>1, <2>2, AwayEvents DEF Goto, Steps
  <1>3. ASSUME NEW r \in Requests, HandlerStep(r) PROVE EventsInv'
    BY <1>3, HandlerEvents
  <1>4. ASSUME NEW r \in Requests, Disconnect(r) PROVE EventsInv'
    <2>1. CASE pc[r] = "sink"
      BY <1>4, <2>1, LeftEvents
    <2>2. CASE pc[r] # "sink"
      <3>1. /\ pc[r] \in {"heading", "reading"} /\ UNCHANGED sinkVars /\ Goto(r, "gone")
            /\ input' = input /\ counters' = counters
        BY <1>4, <2>2 DEF Disconnect
      <3> QED
        BY <3>1, AwayEvents DEF Goto, Steps
    <2> QED
      BY <2>1, <2>2
  <1>5. CASE SinkStep \/ Signal \/ Exit \/ Quiet \/ UNCHANGED vars
    <2>1. UNCHANGED requestVars
      BY <1>5 DEF SinkStep, Signal, Exit, Quiet, vars
    <2>2. size' = size
      BY <1>5 DEF SinkStep, Signal, Exit, Quiet, vars, sinkVars, Sink!OpenFile, Sink!OpenFails,
                  Sink!WritePiece, Sink!WriteFails, Sink!DiskWrites, Sink!DiskFails
    <2>3. SizeInv'
      <3>1. \A s \in Requests : SizeOK(s)'
        BY <2>1, <2>2 DEF EventsInv, SizeInv, SizeOK, requestVars
      <3>2. CASE Capture
        BY <2>2, <3>1, <3>2 DEF EventsInv, SizeInv
      <3>3. CASE ~Capture
        <4>1. ~SinkStep
          <5>1. queue = <<>> /\ op.st # "busy"
            BY <3>3 DEF EventsInv, SizeInv, Sink!Idle
          <5>2. \A r \in Requests : ~Sink!Holds(r)
            BY <5>1 DEF Sink!Holds
          <5>3. \A r \in Requests : ~Sink!OpenFile(r) /\ ~Sink!OpenFails(r)
                                    /\ ~Sink!WritePiece(r) /\ ~Sink!WriteFails(r)
            BY <5>2 DEF Sink!OpenFile, Sink!OpenFails, Sink!WritePiece, Sink!WriteFails
          <5>4. ~Sink!DiskWrites /\ ~Sink!DiskFails
            BY <5>1 DEF Sink!DiskWrites, Sink!DiskFails
          <5> QED
            BY <5>3, <5>4 DEF SinkStep
        <4>2. UNCHANGED sinkVars
          BY <1>5, <4>1 DEF Signal, Exit, Quiet, vars
        <4> QED
          BY <3>1, <4>2 DEF EventsInv, SizeInv, sinkVars
      <3> QED
        BY <3>2, <3>3
    <2>4. Pending' = Pending /\ UNCHANGED <<input, counters>>
      BY <2>1, <2>2 DEF Pending, requestVars
    <2>5. Tally'
      <3>1. EventsOf(Pending)' = EventsOf(Pending)
        BY <2>4, LoadSame
      <3> QED
        BY <2>4, <3>1 DEF EventsInv, Tally
    <2> QED
      BY <2>3, <2>5 DEF EventsInv
  <1> QED
    BY <1>1, <1>2, <1>3, <1>4, <1>5 DEF Next

(* Every event that was parsed is accounted for: dropped, written, refused  *)
(* with the failure of the sink, left by its client, or still with the      *)
(* sink, for any number of requests of any number of events.                *)
THEOREM EventsAddUp == Spec => []EventsAccounted
  <1>1. EventsInv => EventsAccounted
    BY DEF EventsInv, Tally, EventsAccounted, Pending
  <1>2. ReportInv => CountersOK
    BY DEF ReportInv, TypedInv
  <1> QED
    BY <1>1, <1>2, InitAccount, NextAccount, InitServed, NextServed, InitReports, NextReports,
       InitEvents, NextEvents, PTL
    DEF Spec
=============================================================================

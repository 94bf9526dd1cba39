----------------------------- MODULE MCReceiver -----------------------------
(* Receiver with the default protocol codes and, of all the requests there  *)
(* may be, those that fail each check alone and some that fail two.         *)
EXTENDS Receiver, TLC

CONSTANTS r1, r2, r3

TwoRequests == {r1, r2}
ThreeRequests == {r1, r2, r3}
RequestSymmetry == Permutations(Requests)

DefaultCodes ==
  [success |-> 0, token_disabled |-> 1, token_required |-> 2,
   invalid_authorization |-> 3, invalid_token |-> 4, no_data |-> 5,
   invalid_data_format |-> 6, incorrect_index |-> 7, server_busy |-> 9,
   event_field_required |-> 12, event_field_blank |-> 13, ack_disabled |-> 14,
   handling_indexed_fields |-> 15, query_string_authorization_disabled |-> 16,
   health_ok |-> 17, health_unhealthy |-> 18, server_shutting_down |-> 23]

Post(path, n) ==
  [method |-> "POST", path |-> path, query |-> "plain", auth |-> "fine",
   encoding |-> "identity", length |-> "fine", body |-> "fine", decode |-> "fine",
   parse |-> "fine", events |-> n]

Event == Post("/services/collector", 1)
Raw == Post("/services/collector/raw/1.0", 1)
AckPoll == Post("/services/collector/ack", 1)

(* Requests the router keeps from the pipeline.                             *)
Get(path) == [Post(path, 1) EXCEPT !.method = "GET"]
Unrouted ==
  {Get("/services/collector/health"), Post("/", 1),
   [Event EXCEPT !.method = "PUT"], [Raw EXCEPT !.method = "OPTIONS"]}

(* Each check of the pipeline failing, and the good requests.               *)
EveryFailure ==
  {Event, [Raw EXCEPT !.events = 2], AckPoll,
   [Event EXCEPT !.query = "token"],
   [Event EXCEPT !.query = "token", !.auth = "TokenRequired"],
   [AckPoll EXCEPT !.query = "token"], [AckPoll EXCEPT !.auth = "TokenDisabled"],
   [Event EXCEPT !.encoding = "UnsupportedEncoding", !.length = "BodyTooLarge"],
   [Event EXCEPT !.encoding = "gzip", !.decode = "MalformedGzip"],
   [Event EXCEPT !.encoding = "gzip", !.decode = "BodyTooLarge"],
   [Raw EXCEPT !.encoding = "gzip", !.length = "BodyTooLarge"],
   [Raw EXCEPT !.length = "InvalidDataFormat"]}
  \cup {[Event EXCEPT !.auth = e] :
          e \in {"TokenRequired", "InvalidAuthorization", "InvalidToken", "TokenDisabled"}}
  \cup {[Raw EXCEPT !.body = e] : e \in {"BodyTooLarge", "Timeout", "InvalidDataFormat"}}
  \cup {[Event EXCEPT !.parse = e] : e \in EventError}
  \cup {[Raw EXCEPT !.parse = e] : e \in {"NoData", "ServerBusy"}}
  \cup Unrouted

(* What reaches the sink, and what must not.                                *)
SinkInputs ==
  {Event, [Raw EXCEPT !.events = 2], [Event EXCEPT !.query = "token"],
   [Event EXCEPT !.auth = "InvalidToken"],
   [Raw EXCEPT !.encoding = "gzip"], [Event EXCEPT !.parse = "IncorrectIndex"],
   [Raw EXCEPT !.body = "Timeout"], AckPoll, [Event EXCEPT !.method = "PUT"]}
==============================================================================

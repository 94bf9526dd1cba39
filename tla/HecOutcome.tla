----------------------------- MODULE HecOutcome -----------------------------
(***************************************************************************)
(* The tables every handler answers and reports with: the status and code  *)
(* of each HecError, its reason, the report fact that names its cause, and *)
(* the counter a fact increments (outcome.rs, report.rs, hec_request.rs).  *)
(* Texts, HTML bodies and log severities are left out.                     *)
(***************************************************************************)
EXTENDS Naturals, FiniteSetsExt

CONSTANT Protocol  (* the configured code of each field of struct Protocol *)

ProtocolFields ==
  {"success", "token_disabled", "token_required", "invalid_authorization",
   "invalid_token", "no_data", "invalid_data_format", "incorrect_index",
   "server_busy", "event_field_required", "event_field_blank", "ack_disabled",
   "handling_indexed_fields", "query_string_authorization_disabled",
   "health_ok", "health_unhealthy", "server_shutting_down"}

ASSUME ProtocolAssumption == Protocol \in [ProtocolFields -> Nat]

(* Per error: the HTTP status, and the field of Protocol that is its code.  *)
Outcome ==
  [TokenRequired         |-> <<401, "token_required">>,
   InvalidAuthorization  |-> <<401, "invalid_authorization">>,
   InvalidToken          |-> <<403, "invalid_token">>,
   TokenDisabled         |-> <<403, "token_disabled">>,
   NoData                |-> <<400, "no_data">>,
   InvalidDataFormat     |-> <<400, "invalid_data_format">>,
   MalformedGzip         |-> <<400, "invalid_data_format">>,
   ServerBusy            |-> <<503, "server_busy">>,
   IncorrectIndex        |-> <<400, "incorrect_index">>,
   EventFieldRequired    |-> <<400, "event_field_required">>,
   EventFieldBlank       |-> <<400, "event_field_blank">>,
   AckDisabled           |-> <<400, "ack_disabled">>,
   HandlingIndexedFields |-> <<400, "handling_indexed_fields">>,
   QueryStringAuthorizationDisabled
                         |-> <<400, "query_string_authorization_disabled">>,
   UnsupportedEncoding   |-> <<415, "invalid_data_format">>,
   BodyTooLarge          |-> <<413, "invalid_data_format">>,
   Timeout               |-> <<408, "server_busy">>,
   ServerShuttingDown    |-> <<503, "server_shutting_down">>]

HecError == DOMAIN Outcome
StatusOf(e) == Outcome[e][1]
CodeOf(e) == Protocol[Outcome[e][2]]

(* HecError::reason: the reasons bear the names of the errors, but for one. *)
ReasonOf(e) == IF e = "HandlingIndexedFields" THEN "IndexedFields" ELSE e

Reason == {ReasonOf(e) : e \in HecError} \cup {"SinkFailed"}

(* What parse_event_body may answer.  The pipeline has only that response   *)
(* to work with and finds the reason again by comparing codes, in this      *)
(* order; a code it does not find stands for InvalidDataFormat.             *)
EventError ==
  {"NoData", "InvalidDataFormat", "EventFieldRequired", "EventFieldBlank",
   "IncorrectIndex", "HandlingIndexedFields", "ServerBusy"}

KnownByCodeShort ==  \* variant: the indexed-fields branch is missing
  <<"IncorrectIndex", "EventFieldRequired", "EventFieldBlank", "NoData", "ServerBusy">>

KnownByCode ==
  <<"IncorrectIndex", "EventFieldRequired", "EventFieldBlank",
    "HandlingIndexedFields", "NoData", "ServerBusy">>

Hits(code) == {i \in DOMAIN KnownByCode : CodeOf(KnownByCode[i]) = code}

ReasonFromCodeAsError(code) ==  \* variant: the error's name for its reason
  IF Hits(code) = {} THEN "InvalidDataFormat" ELSE KnownByCode[Min(Hits(code))]

ReasonFromCode(code) ==
  IF Hits(code) = {} THEN "InvalidDataFormat"
  ELSE ReasonOf(KnownByCode[Min(Hits(code))])
------------------------------------------------------------------------------
(* The facts that name the cause of a failure.  report_auth_error,          *)
(* report_body_error and report_decode_error report nothing for an error    *)
(* that is not listed.                                                      *)
NoFact == "none"

AuthFact(e) ==
  CASE e = "TokenRequired" -> "AUTH_TOKEN_REQUIRED"
    [] e \in {"InvalidAuthorization", "QueryStringAuthorizationDisabled"}
         -> "AUTH_INVALID_AUTHORIZATION"
    [] e = "InvalidToken" -> "AUTH_TOKEN_INVALID"
    [] e = "TokenDisabled" -> "AUTH_TOKEN_DISABLED"
    [] OTHER -> NoFact

BodyFact(e) ==
  CASE e = "BodyTooLarge" -> "BODY_TOO_LARGE"
    [] e = "Timeout" -> "BODY_TIMEOUT"
    [] e = "InvalidDataFormat" -> "BODY_READ_FAILED"
    [] OTHER -> NoFact

DecodeFact(encoding, e) ==
  CASE encoding = "gzip" /\ e \in {"InvalidDataFormat", "MalformedGzip"} -> "GZIP_FAILED"
    [] e = "BodyTooLarge" -> "BODY_TOO_LARGE"
    [] OTHER -> NoFact

EventFact(e) ==
  IF CodeOf(e) = Protocol["incorrect_index"] THEN "EVENT_INDEX_INVALID" ELSE "PARSE_FAILED"

RawFactAlways(e) == "PARSE_FAILED"  \* variant: every error of /raw is reported

(* Of the errors of /raw only two are reported as parse failures.           *)
RawFact(e) == IF e \in {"InvalidDataFormat", "NoData"} THEN "PARSE_FAILED" ELSE NoFact

(* The counter a fact increments; the latency sums are not here.            *)
CounterOf ==
  [REQUEST_RECEIVED           |-> "requests_total",
   REQUEST_SUCCEEDED          |-> "requests_ok",
   REQUEST_FAILED             |-> "requests_failed",
   AUTH_TOKEN_REQUIRED        |-> "auth_failures",
   AUTH_INVALID_AUTHORIZATION |-> "auth_failures",
   AUTH_TOKEN_INVALID         |-> "auth_failures",
   AUTH_TOKEN_DISABLED        |-> "auth_failures",
   GZIP_REQUEST               |-> "gzip_requests",
   GZIP_FAILED                |-> "gzip_failures",
   BODY_TOO_LARGE             |-> "body_too_large",
   BODY_TIMEOUT               |-> "timeouts",
   BODY_READ_FAILED           |-> "body_read_errors",
   BODY_UNSUPPORTED_ENCODING  |-> "unsupported_encoding",
   PARSE_FAILED               |-> "parse_failures",
   EVENT_INDEX_INVALID        |-> "parse_failures",
   SINK_FAILED                |-> "sink_failures"]

(* Facts that only add a field's value to the sums they are bound to.       *)
SumsOf ==
  [HTTP_BODY_READ |-> {"http_body_bytes"},
   BODY_DECODED   |-> {"decoded_bytes"},
   EVENTS_PARSED  |-> {"events_observed"},
   SINK_COMPLETED |-> {"events_dropped", "events_written"}]

Fact == DOMAIN CounterOf \cup DOMAIN SumsOf
Counter == {CounterOf[f] : f \in DOMAIN CounterOf} \cup UNION {SumsOf[f] : f \in DOMAIN SumsOf}

(* A refused request increments one of these counters, by its cause.        *)
CausesCounted(c) ==
  c.auth_failures + c.gzip_failures + c.body_too_large + c.timeouts
  + c.body_read_errors + c.unsupported_encoding + c.parse_failures + c.sink_failures
==============================================================================

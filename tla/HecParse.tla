------------------------------ MODULE HecParse ------------------------------
(***************************************************************************)
(* The parsers of src/hec_receiver/parse_event.rs and parse_raw.rs, and    *)
(* the scanner of raw_events.rs that is to take the place of the latter: a *)
(* decoded body is read item by item, and either all of it becomes events  *)
(* or it is refused with one error, which for /event carries the number of *)
(* the event at fault.                                                     *)
(***************************************************************************)
EXTENDS Integers, FiniteSetsExt, Sequences

CONSTANTS
  Envelopes,  (* what a JSON value of an /event body may look like         *)
  Tokens,     (* per token: its default index and its allow-list           *)
  ValidNames, (* index names that is_valid_index_name accepts              *)
  NoIndex,    (* None                                                      *)
  MaxEvents,  (* limits.max_events_per_request                             *)
  MaxItems,   (* items of the longest body: the bound of the model         *)
  MaxScanned  (* the same for a body that is scanned byte by byte          *)

(* The configuration refuses a token whose default index is not valid or   *)
(* is missing from its allow-list; an empty allow-list is none.            *)
ASSUME ParseAssumption ==
  /\ MaxItems \in Nat /\ MaxScanned \in Nat
  /\ MaxEvents \in Nat \ {0}
  /\ NoIndex \notin ValidNames
  /\ \A t \in Tokens :
       /\ t.allowed \subseteq ValidNames
       /\ t.default # NoIndex =>
            t.default \in ValidNames /\ (t.allowed # {} => t.default \in t.allowed)

(* A JSON value as push_envelope sees it: whether serde can make a         *)
(* HecEnvelope of it, its event, its index and its fields.                 *)
ASSUME EnvelopeAssumption ==
  \A v \in Envelopes :
    /\ v.shape \in {"envelope", "other"}
    /\ v.event \in {"missing", "null", "blank", "text", "json"}
    /\ v.fields \in {"none", "flat", "nested", "notObject"}

(***************************************************************************)
(* A body.  Of /event: the JSON values of the stream, those of an array    *)
(* one by one, up to the first value that is not JSON; such a value is     *)
(* seen as a whole, an array with a syntax error has no values.  Of /raw:  *)
(* the pieces between its line feeds, each with text or blank.  For the    *)
(* scanner: its bytes.                                                     *)
(***************************************************************************)
ItemsOf(S) == UNION {[1..n -> S] : n \in 0..MaxItems}
EventBodies ==
  [kind : {"event"}, items : ItemsOf(Envelopes), broken : BOOLEAN, token : Tokens]
RawBodies ==
  [kind : {"split_lines", "preserve_body"}, items : ItemsOf({"text", "blank"}),
   broken : {FALSE}, token : Tokens]
ScanBodies ==
  [kind : {"scan"},
   items : UNION {[1..n -> {"text", "blank", "cr", "lf"}] : n \in 0..MaxScanned},
   broken : {FALSE}, token : Tokens]

VARIABLES
  body,    (* what is parsed                                               *)
  at,      (* the item the loop is at                                      *)
  events,  (* the Vec<Event>: the item and the index of each; of a scan,   *)
           (* the first byte and the one after the last                    *)
  answer   (* NoAnswer while the loop runs                                 *)

vars == <<body, at, events, answer>>

NoAnswer == [error |-> "running", number |-> -1]
Ok == [error |-> "none", number |-> -1]
Error(e) == [error |-> e, number |-> -1]
EventError(e, n) == [error |-> e, number |-> n]

IsText(line) == line = "text"
------------------------------------------------------------------------------
(* The index of an event: its own, else the token's.                       *)
IndexOf(v) == IF v.index = NoIndex THEN body.token.default ELSE v.index

ValidIndexAny(i) == i = NoIndex \/ i \in ValidNames  \* variant: no allow-list

(* validate_index: an event without an index has a valid one.              *)
ValidIndex(i) ==
  i = NoIndex \/ (i \in ValidNames /\ (body.token.allowed = {} \/ i \in body.token.allowed))

(* The checks of push_envelope, in their order.                            *)
Fault(v) ==
  IF v.shape # "envelope" THEN "InvalidDataFormat"
  ELSE IF v.event \in {"missing", "null"} THEN "EventFieldRequired"
  ELSE IF v.event = "blank" THEN "EventFieldBlank"
  ELSE IF ~ValidIndex(IndexOf(v)) THEN "IncorrectIndex"
  ELSE IF v.fields = "notObject" THEN "InvalidDataFormat"
  ELSE IF v.fields = "nested" THEN "HandlingIndexedFields"
  ELSE "none"

(* Events are numbered from 0, but for the error of an index, from 1.      *)
NumberOf(e, n) == IF e = "IncorrectIndex" THEN n + 1 ELSE n

Answers(a) == answer' = a /\ UNCHANGED <<body, at, events>>

Init ==
  /\ body \in EventBodies \cup RawBodies \cup ScanBodies
  /\ at = 1
  /\ events = <<>>
  /\ answer = NoAnswer

PushEnvelopeLate ==  \* variant: the limit is checked after the push
  /\ body.kind = "event" /\ answer = NoAnswer /\ at \in DOMAIN body.items
  /\ LET v == body.items[at]
     IN  IF Len(events) > MaxEvents THEN Answers(Error("ServerBusy"))
         ELSE IF Fault(v) # "none"
           THEN Answers(EventError(Fault(v), NumberOf(Fault(v), Len(events))))
           ELSE /\ events' = Append(events, [item |-> at, index |-> IndexOf(v)])
                /\ at' = at + 1
                /\ UNCHANGED <<body, answer>>

(* push_envelope of the next JSON value.                                   *)
PushEnvelope ==
  /\ body.kind = "event" /\ answer = NoAnswer /\ at \in DOMAIN body.items
  /\ LET v == body.items[at]
     IN  IF Len(events) >= MaxEvents THEN Answers(Error("ServerBusy"))
         ELSE IF Fault(v) # "none"
           THEN Answers(EventError(Fault(v), NumberOf(Fault(v), Len(events))))
           ELSE /\ events' = Append(events, [item |-> at, index |-> IndexOf(v)])
                /\ at' = at + 1
                /\ UNCHANGED <<body, answer>>

EventsEndLenient ==  \* variant: a syntax error ends the stream
  /\ body.kind = "event" /\ answer = NoAnswer /\ at \notin DOMAIN body.items
  /\ Answers(IF events = <<>> THEN Error("NoData") ELSE Ok)

(* The stream of values comes to a syntax error, or to its end.            *)
EventsEnd ==
  /\ body.kind = "event" /\ answer = NoAnswer /\ at \notin DOMAIN body.items
  /\ Answers(IF body.broken THEN EventError("InvalidDataFormat", Len(events))
             ELSE IF events = <<>> THEN Error("NoData") ELSE Ok)

SplitLineBlankToo ==  \* variant: a blank line is an event
  /\ body.kind = "split_lines" /\ answer = NoAnswer /\ at \in DOMAIN body.items
  /\ IF Len(events) >= MaxEvents THEN Answers(Error("ServerBusy"))
     ELSE /\ events' = Append(events, [item |-> at, index |-> body.token.default])
          /\ at' = at + 1
          /\ UNCHANGED <<body, answer>>

(* split_lines takes the next piece; the limit is checked before the piece *)
(* is looked at.                                                           *)
SplitLine ==
  /\ body.kind = "split_lines" /\ answer = NoAnswer /\ at \in DOMAIN body.items
  /\ IF Len(events) >= MaxEvents THEN Answers(Error("ServerBusy"))
     ELSE /\ events' = IF IsText(body.items[at])
                         THEN Append(events, [item |-> at, index |-> body.token.default])
                         ELSE events
          /\ at' = at + 1
          /\ UNCHANGED <<body, answer>>

LinesEnd ==
  /\ body.kind = "split_lines" /\ answer = NoAnswer /\ at \notin DOMAIN body.items
  /\ Answers(IF events = <<>> THEN Error("NoData") ELSE Ok)

(* preserve_body: one event, of the whole body.                            *)
PreserveBody ==
  /\ body.kind = "preserve_body" /\ answer = NoAnswer
  /\ IF \E i \in DOMAIN body.items : IsText(body.items[i])
       THEN /\ events' = <<[item |-> 1, index |-> body.token.default]>>
            /\ answer' = Ok
            /\ UNCHANGED <<body, at>>
       ELSE Answers(Error("NoData"))

(* Where the line that begins at i ends, and the event cut from it: one     *)
(* carriage return is taken off.                                           *)
LineEnd(i) ==
  Min({j \in i..Len(body.items) : body.items[j] = "lf"} \cup {Len(body.items) + 1})
EventEnd(i) ==
  IF LineEnd(i) > i /\ body.items[LineEnd(i) - 1] = "cr" THEN LineEnd(i) - 1 ELSE LineEnd(i)
HasText(i, end) == \E j \in i..(end - 1) : IsText(body.items[j])

(* scan_raw_events up to the next line feed or the end: the limit is        *)
(* checked for a line that has text.                                       *)
ScanLine ==
  /\ body.kind = "scan" /\ answer = NoAnswer /\ at <= Len(body.items) + 1
  /\ IF HasText(at, EventEnd(at)) /\ Len(events) >= MaxEvents
       THEN Answers(Error("ServerBusy"))
       ELSE /\ events' = IF HasText(at, EventEnd(at))
                           THEN Append(events, [item |-> at, end |-> EventEnd(at),
                                                index |-> body.token.default])
                           ELSE events
            /\ at' = LineEnd(at) + 1
            /\ UNCHANGED <<body, answer>>

ScanEnd ==
  /\ body.kind = "scan" /\ answer = NoAnswer /\ at > Len(body.items) + 1
  /\ Answers(IF events = <<>> THEN Error("NoData") ELSE Ok)

Quiet == answer # NoAnswer /\ UNCHANGED vars

Next == PushEnvelope \/ EventsEnd \/ SplitLine \/ LinesEnd \/ PreserveBody
        \/ ScanLine \/ ScanEnd \/ Quiet

Spec == Init /\ [][Next]_vars
------------------------------------------------------------------------------
Answered == answer # NoAnswer

(* The events are items of the body, never more than the limit.            *)
TypeOK ==
  /\ body \in EventBodies \cup RawBodies \cup ScanBodies
  /\ at \in 1..(Len(body.items) + 2)
  /\ \A i \in DOMAIN events :
       /\ events[i].item \in 1..Len(body.items) \cup {1}
       /\ events[i].index \in ValidNames \cup {NoIndex}
  /\ Len(events) <= MaxEvents
  /\ answer \in [error : {"running", "none", "NoData", "ServerBusy", "InvalidDataFormat",
                          "EventFieldRequired", "EventFieldBlank", "IncorrectIndex",
                          "HandlingIndexedFields"},
                 number : Int]

(* The values of a body that may not become events.                        *)
Offending ==
  {i \in DOMAIN body.items : i > MaxEvents \/ Fault(body.items[i]) # "none"}

Expected ==
  IF Offending # {}
    THEN LET i == Min(Offending)
             e == Fault(body.items[i])
         IN  IF i > MaxEvents THEN Error("ServerBusy") ELSE EventError(e, NumberOf(e, i - 1))
    ELSE IF body.broken THEN EventError("InvalidDataFormat", Len(body.items))
    ELSE IF body.items = <<>> THEN Error("NoData")
    ELSE Ok

(* An /event body is answered for its first value at fault, in the order   *)
(* of the stream however its values are grouped into arrays, with the      *)
(* number of that value: the limit, a value's fault and a syntax error     *)
(* behind it are told apart by what comes first.                           *)
FirstFaultAnswers ==
  body.kind = "event" /\ Answered => answer = Expected

(* All or nothing: an accepted /event body became one event per value, in  *)
(* order, and no event is for an index its token may not write to.         *)
AcceptedWhole ==
  body.kind = "event" /\ answer = Ok =>
    /\ ~body.broken
    /\ Len(events) = Len(body.items)
    /\ \A i \in DOMAIN events :
         /\ events[i].item = i
         /\ events[i].index = NoIndex => body.token.default = NoIndex
         /\ events[i].index # NoIndex /\ body.token.allowed # {} =>
              events[i].index \in body.token.allowed

TextItems == {i \in DOMAIN body.items : IsText(body.items[i])}

(* The lines with text of the bytes of a body, each from its first byte to *)
(* the one after its last.                                                 *)
TextLines ==
  {line \in (1..Len(body.items)) \X (2..(Len(body.items) + 1)) :
     /\ line[1] = 1 \/ body.items[line[1] - 1] = "lf"
     /\ line[2] = Len(body.items) + 1 \/ body.items[line[2]] = "lf"
     /\ \A j \in line[1]..(line[2] - 1) : body.items[j] # "lf"
     /\ HasText(line[1], line[2])}

Trimmed(line) ==
  <<line[1], IF body.items[line[2] - 1] = "cr" THEN line[2] - 1 ELSE line[2]>>

InOrder == \A i, j \in DOMAIN events : i < j => events[i].item < events[j].item

(* Split into lines, an accepted /raw body became one event for each of    *)
(* its lines with text, in order.  The scanner refers to the same lines,   *)
(* byte for byte, and refuses a body only for what its lines with text are:*)
(* none, or more than the limit.                                           *)
LinesWhole ==
  /\ body.kind = "split_lines" /\ answer = Ok =>
       {events[i].item : i \in DOMAIN events} = TextItems /\ InOrder
  /\ body.kind = "scan" /\ Answered =>
       /\ answer = IF TextLines = {} THEN Error("NoData")
                   ELSE IF Cardinality(TextLines) > MaxEvents THEN Error("ServerBusy")
                   ELSE Ok
       /\ answer = Ok =>
            /\ {<<events[i].item, events[i].end>> : i \in DOMAIN events} =
                 {Trimmed(line) : line \in TextLines}
            /\ InOrder

(* A /raw body is refused for too many lines only if it has more lines     *)
(* with text than the limit: the limit is checked immediately before an    *)
(* event is pushed (HECpoc.md:1231).                                       *)
BusyOnlyOverLimit ==
  body.kind = "split_lines" /\ answer = Error("ServerBusy") =>
    Cardinality(TextItems) > MaxEvents
==============================================================================

-------------------------- MODULE HecParse_proofs --------------------------
(***************************************************************************)
(* What the parser of /event bodies answers, for every body, every token   *)
(* and every limit.                                                        *)
(***************************************************************************)
EXTENDS HecParse, FiniteSetTheorems, WellFoundedInduction, TLAPS

(* The items of a body are a sequence. *)
LEMMA ItemsAreSeq ==
  ASSUME NEW S, NEW s \in ItemsOf(S)
  PROVE  s \in Seq(S) /\ DOMAIN s = 1..Len(s) /\ Len(s) \in Nat
  <1>1. PICK n \in 0..MaxItems : s \in [1..n -> S]
    BY DEF ItemsOf
  <1>2. n \in Nat
    BY <1>1, ParseAssumption
  <1>3. s \in Seq(S)
    BY <1>1, <1>2
  <1> QED
    BY <1>3

Bodies == EventBodies \cup RawBodies \cup ScanBodies
EventsRead == body.kind = "event"

(* Every value before the one the loop is at has become an event, and none  *)
(* of them is at fault or over the limit; an answer is the expected one.    *)
ReadInv ==
  /\ at \in Nat \ {0}
  /\ at <= Len(body.items) + 1
  /\ at <= MaxEvents + 1
  /\ events \in Seq([item : Nat, index : ValidNames \cup {NoIndex}])
  /\ Len(events) = at - 1
  /\ \A i \in 1..(at - 1) :
       /\ Fault(body.items[i]) = "none"
       /\ events[i] = [item |-> i, index |-> IndexOf(body.items[i])]

AnswerInv ==
  /\ Answered => answer = Expected
  /\ answer = Ok => at = Len(body.items) + 1 /\ ~body.broken

ParseInv ==
  /\ body \in Bodies
  /\ EventsRead => ReadInv /\ AnswerInv

(* The items of an /event body. *)
LEMMA EventItems ==
  ASSUME body \in Bodies, EventsRead
  PROVE  /\ DOMAIN body.items = 1..Len(body.items)
         /\ Len(body.items) \in Nat
         /\ body.broken \in BOOLEAN
         /\ \A i \in DOMAIN body.items : body.items[i] \in Envelopes
         /\ body.token \in Tokens
  <1>1. body \in EventBodies
    BY DEF Bodies, EventsRead, EventBodies, RawBodies, ScanBodies
  <1>2. body.items \in ItemsOf(Envelopes) /\ body.broken \in BOOLEAN /\ body.token \in Tokens
    BY <1>1 DEF EventBodies
  <1>3. body.items \in Seq(Envelopes) /\ DOMAIN body.items = 1..Len(body.items)
        /\ Len(body.items) \in Nat
    BY <1>2, ItemsAreSeq
  <1> QED
    BY <1>2, <1>3

(* The least of a set of numbers. *)
LEMMA LeastIsMin ==
  ASSUME NEW S \in SUBSET Nat, NEW m \in S, \A y \in S : m <= y
  PROVE  Min(S) = m
  <1> DEFINE c == CHOOSE x \in S : \A y \in S : x <= y
  <1>1. c \in S /\ \A y \in S : c <= y
    BY Zenon
  <1>2. c = m
    <2> HIDE DEF c
    <2>1. c <= m /\ m <= c /\ c \in Nat /\ m \in Nat
      BY <1>1
    <2> QED
      BY <2>1
  <1> QED
    BY <1>2 DEF Min

(* A value of an /event body without a fault has an index that its token    *)
(* may write to.                                                            *)
LEMMA FaultlessIndex ==
  ASSUME NEW v, Fault(v) = "none"
  PROVE  ValidIndex(IndexOf(v))
  BY DEF Fault
-----------------------------------------------------------------------------
LEMMA InitParse == Init => ParseInv
  <1> SUFFICES ASSUME Init PROVE ParseInv
    OBVIOUS
  <1>1. body \in Bodies
    BY DEF Init, Bodies
  <1>2. ASSUME EventsRead PROVE ReadInv /\ AnswerInv
    <2>1. Len(body.items) \in Nat
      BY <1>1, <1>2, EventItems
    <2> QED
      BY <2>1, ParseAssumption DEF Init, ReadInv, AnswerInv, Answered, NoAnswer, Ok
  <1> QED
    BY <1>1, <1>2 DEF ParseInv

(* The loop stops at a value over the limit or at fault: the first one.     *)
LEMMA StopsAtFirst ==
  ASSUME body \in Bodies, EventsRead, ReadInv, at \in Offending
  PROVE  Expected = IF at > MaxEvents THEN Error("ServerBusy")
                    ELSE EventError(Fault(body.items[at]),
                                    NumberOf(Fault(body.items[at]), at - 1))
  <1>1. Offending \subseteq Nat
    BY EventItems DEF Offending
  <1>2. \A i \in Offending : at <= i
    <2> SUFFICES ASSUME NEW i \in Offending, i < at PROVE FALSE
      BY <1>1 DEF ReadInv
    <2>1. i \in 1..(at - 1)
      BY <1>1, EventItems DEF Offending, ReadInv
    <2>2. MaxEvents \in Nat
      BY ParseAssumption
    <2>3. i \in Nat /\ ~(i > MaxEvents)
      <3>1. at \in Nat /\ at <= MaxEvents + 1
        BY DEF ReadInv
      <3> QED
        BY <2>1, <2>2, <3>1
    <2>4. Fault(body.items[i]) = "none"
      BY <2>1 DEF ReadInv
    <2> QED
      BY <2>3, <2>4 DEF Offending
  <1>3. Min(Offending) = at
    BY <1>1, <1>2, LeastIsMin
  <1> QED
    BY <1>3 DEF Expected

(* What the loop has read and what is expected depend on the body, on where *)
(* the loop is and on the events.                                           *)
LEMMA SameInputs ==
  ASSUME UNCHANGED <<body, at, events>>
  PROVE  Expected' = Expected /\ (ReadInv => ReadInv')
  <1>1. body' = body /\ at' = at /\ events' = events
    OBVIOUS
  <1>2. \A v : Fault(v)' = Fault(v) /\ IndexOf(v)' = IndexOf(v)
    BY <1>1 DEF Fault, IndexOf, ValidIndex
  <1>3. Offending' = Offending
    BY <1>1 DEF Offending, Fault, IndexOf, ValidIndex
  <1>4. Expected' = Expected
    BY <1>1, <1>3 DEF Expected, Fault, IndexOf, ValidIndex
  <1>5. ReadInv => ReadInv'
    BY <1>1, <1>2 DEF ReadInv
  <1> QED
    BY <1>4, <1>5

LEMMA PushParse ==
  ASSUME ParseInv, PushEnvelope
  PROVE  ParseInv'
  <1> DEFINE v == body.items[at]
  <1> USE DEF EventsRead
  <1>1. EventsRead /\ answer = NoAnswer /\ at \in DOMAIN body.items /\ ReadInv /\ body \in Bodies
    BY DEF PushEnvelope, ParseInv
  <1>2. /\ DOMAIN body.items = 1..Len(body.items) /\ Len(body.items) \in Nat
        /\ v \in Envelopes
    BY <1>1, EventItems
  <1>3. ASSUME at \in Offending,
               answer' = IF at > MaxEvents THEN Error("ServerBusy")
                         ELSE EventError(Fault(v), NumberOf(Fault(v), at - 1)),
               UNCHANGED <<body, at, events>>
        PROVE  ParseInv'
    <2>1. answer' = Expected
      BY <1>1, <1>3, StopsAtFirst
    <2>2. answer' # Ok
      <3>1. CASE at > MaxEvents
        BY <1>3, <3>1 DEF Error, Ok
      <3>2. CASE ~(at > MaxEvents)
        <4>1. Fault(v) # "none"
          BY <1>3, <3>2 DEF Offending
        <4> QED
          BY <1>3, <3>2, <4>1 DEF EventError, Ok
      <3> QED
        BY <3>1, <3>2
    <2>3. ReadInv' /\ Expected' = Expected
      BY <1>1, <1>3, SameInputs
    <2> QED
      BY <1>1, <1>3, <2>1, <2>2, <2>3 DEF ParseInv, AnswerInv, Bodies
  <1>4. CASE Len(events) >= MaxEvents
    <2>1. at > MaxEvents
      BY <1>1, <1>4, ParseAssumption DEF ReadInv
    <2>2. Answers(Error("ServerBusy"))
      BY <1>4 DEF PushEnvelope
    <2> QED
      BY <1>1, <1>3, <2>1, <2>2 DEF Offending, Answers
  <1>5. CASE ~(Len(events) >= MaxEvents) /\ Fault(v) # "none"
    <2>1. ~(at > MaxEvents) /\ Len(events) = at - 1
      BY <1>1, <1>5, ParseAssumption DEF ReadInv
    <2>2. Answers(EventError(Fault(v), NumberOf(Fault(v), Len(events))))
      BY <1>5 DEF PushEnvelope
    <2> QED
      BY <1>1, <1>3, <1>5, <2>1, <2>2 DEF Offending, Answers
  <1>6. CASE ~(Len(events) >= MaxEvents) /\ Fault(v) = "none"
    <2> DEFINE e == [item |-> at, index |-> IndexOf(v)]
    <2>1. events' = Append(events, e) /\ at' = at + 1 /\ UNCHANGED <<body, answer>>
      BY <1>6 DEF PushEnvelope
    <2>2. IndexOf(v) \in ValidNames \cup {NoIndex}
      BY <1>6, FaultlessIndex DEF ValidIndex
    <2>3. e \in [item : Nat, index : ValidNames \cup {NoIndex}]
      BY <1>1, <2>2 DEF ReadInv
    <2>4. at \in Nat \ {0} /\ Len(events) = at - 1
          /\ events \in Seq([item : Nat, index : ValidNames \cup {NoIndex}])
      BY <1>1 DEF ReadInv
    <2>5. /\ events' \in Seq([item : Nat, index : ValidNames \cup {NoIndex}])
          /\ Len(events') = at
          /\ events'[at] = e
          /\ \A i \in 1..(at - 1) : events'[i] = events[i]
      <3> HIDE DEF e
      <3> QED
        BY <2>1, <2>3, <2>4
    <2>6. at' <= Len(body.items) + 1 /\ at' <= MaxEvents + 1
      BY <1>1, <1>2, <1>6, <2>1, <2>4, ParseAssumption
    <2>7. \A i \in 1..at : Fault(body.items[i]) = "none"
                           /\ events'[i] = [item |-> i, index |-> IndexOf(body.items[i])]
      BY <1>1, <1>6, <2>4, <2>5 DEF ReadInv
    <2>8. ReadInv'
      <3>1. \A u : Fault(u)' = Fault(u) /\ IndexOf(u)' = IndexOf(u)
        BY <2>1 DEF Fault, IndexOf, ValidIndex
      <3> QED
        BY <2>1, <2>4, <2>5, <2>6, <2>7, <3>1 DEF ReadInv
    <2> QED
      BY <1>1, <2>1, <2>8 DEF ParseInv, AnswerInv, Answered, NoAnswer, Ok, Bodies
  <1> QED
    BY <1>4, <1>5, <1>6

LEMMA EndParse ==
  ASSUME ParseInv, EventsEnd
  PROVE  ParseInv'
  <1> USE DEF EventsRead
  <1>1. EventsRead /\ at \notin DOMAIN body.items /\ ReadInv /\ body \in Bodies
    BY DEF EventsEnd, ParseInv
  <1>2. /\ DOMAIN body.items = 1..Len(body.items) /\ Len(body.items) \in Nat
        /\ body.broken \in BOOLEAN
    BY <1>1, EventItems
  <1>3. at = Len(body.items) + 1
    BY <1>1, <1>2 DEF ReadInv
  <1>4. Offending = {}
    <2> SUFFICES ASSUME NEW i \in DOMAIN body.items
                 PROVE  ~(i > MaxEvents) /\ Fault(body.items[i]) = "none"
      BY DEF Offending
    <2>1. i \in Nat /\ i \in 1..(at - 1) /\ at <= MaxEvents + 1 /\ at \in Nat
      BY <1>1, <1>2, <1>3 DEF ReadInv
    <2>2. ~(i > MaxEvents)
      BY <2>1, ParseAssumption
    <2>3. Fault(body.items[i]) = "none"
      BY <1>1, <2>1, Zenon DEF ReadInv
    <2> QED
      BY <2>2, <2>3
  <1>5. Len(events) = Len(body.items)
    BY <1>1, <1>2, <1>3 DEF ReadInv
  <1>6. events = <<>> <=> body.items = <<>>
    <2>1. events = <<>> <=> Len(events) = 0
      BY <1>1 DEF ReadInv
    <2>2. body.items \in Seq(Envelopes)
      BY <1>1, ItemsAreSeq DEF Bodies, EventBodies, RawBodies, ScanBodies
    <2> QED
      BY <1>5, <2>1, <2>2
  <1>7. answer' = Expected /\ UNCHANGED <<body, at, events>>
    BY <1>4, <1>5, <1>6 DEF EventsEnd, Answers, Expected
  <1>8. answer' = Ok => ~body.broken
    BY <1>4, <1>7 DEF Expected, EventError, Ok
  <1>9. ReadInv' /\ Expected' = Expected
    BY <1>1, <1>7, SameInputs
  <1> QED
    BY <1>1, <1>3, <1>7, <1>8, <1>9 DEF ParseInv, AnswerInv, Bodies

LEMMA NextParse == ParseInv /\ [Next]_vars => ParseInv'
  <1> SUFFICES ASSUME ParseInv, [Next]_vars PROVE ParseInv'
    OBVIOUS
  <1>1. CASE PushEnvelope
    BY <1>1, PushParse
  <1>2. CASE EventsEnd
    BY <1>2, EndParse
  <1>3. CASE SplitLine \/ LinesEnd \/ PreserveBody \/ ScanLine \/ ScanEnd
    BY <1>3 DEF SplitLine, LinesEnd, PreserveBody, ScanLine, ScanEnd, Answers, ParseInv,
                EventsRead, Bodies
  <1>4. CASE Quiet \/ UNCHANGED vars
    <2>1. UNCHANGED <<body, at, events>> /\ answer' = answer
      BY <1>4 DEF Quiet, vars
    <2>2. Expected' = Expected /\ (ReadInv => ReadInv')
      BY <2>1, SameInputs
    <2> QED
      BY <2>1, <2>2 DEF ParseInv, EventsRead, Bodies, AnswerInv, Answered
  <1> QED
    BY <1>1, <1>2, <1>3, <1>4 DEF Next

(* Every /event body is answered for its first value at fault, whatever     *)
(* the body, the token and the limit.                                       *)
THEOREM FirstFault == Spec => []FirstFaultAnswers
  <1>1. ParseInv => FirstFaultAnswers
    BY DEF ParseInv, AnswerInv, FirstFaultAnswers, EventsRead
  <1> QED
    BY <1>1, InitParse, NextParse, PTL DEF Spec

(* Every accepted /event body has become one event per value, each for an   *)
(* index its token may write to.                                            *)
THEOREM AllOrNothing == Spec => []AcceptedWhole
  <1>1. ParseInv => AcceptedWhole
    <2> SUFFICES ASSUME ParseInv, EventsRead, answer = Ok
                 PROVE  /\ ~body.broken
                        /\ Len(events) = Len(body.items)
                        /\ \A i \in DOMAIN events :
                             /\ events[i].item = i
                             /\ events[i].index = NoIndex => body.token.default = NoIndex
                             /\ events[i].index # NoIndex /\ body.token.allowed # {} =>
                                  events[i].index \in body.token.allowed
      BY DEF AcceptedWhole, EventsRead
    <2>1. ReadInv /\ at = Len(body.items) + 1 /\ ~body.broken
      BY DEF ParseInv, AnswerInv
    <2>2. Len(body.items) \in Nat
      BY EventItems DEF ParseInv
    <2>3. Len(events) = Len(body.items)
      BY <2>1, <2>2 DEF ReadInv
    <2>4. ASSUME NEW i \in DOMAIN events
          PROVE  /\ events[i].item = i
                 /\ events[i].index = NoIndex => body.token.default = NoIndex
                 /\ events[i].index # NoIndex /\ body.token.allowed # {} =>
                      events[i].index \in body.token.allowed
      <3> DEFINE v == body.items[i]
      <3>1. i \in 1..(at - 1)
        BY <2>1, <2>4 DEF ReadInv
      <3>2. Fault(v) = "none" /\ events[i] = [item |-> i, index |-> IndexOf(v)]
        BY <2>1, <3>1, Zenon DEF ReadInv
      <3>3. ValidIndex(IndexOf(v))
        BY <3>2, FaultlessIndex
      <3> QED
        BY <3>2, <3>3 DEF ValidIndex, IndexOf
    <2> QED
      BY <2>1, <2>3, <2>4
  <1> QED
    BY <1>1, InitParse, NextParse, PTL DEF Spec
-----------------------------------------------------------------------------
(* A set of numbers has a least one.                                        *)
LEMMA LeastExists ==
  ASSUME NEW T \in SUBSET Nat, T # {}
  PROVE  \E m \in T : \A k \in T : m <= k
  <1> DEFINE R == {ss \in Nat \X Nat : ss[1] < ss[2]}
  <1>1. IsWellFoundedOn(R, Nat)
    BY NatLessThanWellFounded DEF OpToRel
  <1>2. \A i, j \in Nat : i < j => <<i, j>> \in R
    OBVIOUS
  <1> HIDE DEF R
  <1>3. PICK m \in T : \A k \in T : ~(<<k, m>> \in R)
    BY <1>1, WFMin
  <1>4. ASSUME NEW k \in T PROVE m <= k
    <2>1. k \in Nat /\ m \in Nat
      OBVIOUS
    <2>2. ~(k < m)
      BY <1>2, <1>3, <2>1, Zenon
    <2> QED
      BY <2>1, <2>2
  <1> QED
    BY <1>4

(* The items and the token of a body of any kind. *)
LEMMA BodyItems ==
  ASSUME body \in Bodies
  PROVE  /\ DOMAIN body.items = 1..Len(body.items) /\ Len(body.items) \in Nat
         /\ body.token \in Tokens
         /\ body.token.default \in ValidNames \cup {NoIndex}
  <1>1. \E S : body.items \in Seq(S)
    <2>1. CASE body \in EventBodies
      BY <2>1, ItemsAreSeq DEF EventBodies
    <2>2. CASE body \in RawBodies
      BY <2>2, ItemsAreSeq DEF RawBodies
    <2>3. CASE body \in ScanBodies
      <3>1. PICK n \in 0..MaxScanned : body.items \in [1..n -> {"text", "blank", "cr", "lf"}]
        BY <2>3 DEF ScanBodies
      <3>2. n \in Nat
        BY <3>1, ParseAssumption
      <3>3. body.items \in Seq({"text", "blank", "cr", "lf"})
        BY <3>1, <3>2
      <3> QED
        BY <3>3
    <2> QED
      BY <2>1, <2>2, <2>3 DEF Bodies
  <1>2. body.token \in Tokens
    BY DEF Bodies, EventBodies, RawBodies, ScanBodies
  <1>3. body.token.default \in ValidNames \cup {NoIndex}
    BY <1>2, ParseAssumption
  <1> QED
    BY <1>1, <1>2, <1>3

(* A line ends at its first line feed, or with the body. *)
LEMMA LineEndFacts ==
  ASSUME body \in Bodies, NEW i \in 1..(Len(body.items) + 1)
  PROVE  /\ LineEnd(i) \in i..(Len(body.items) + 1)
         /\ LineEnd(i) = Len(body.items) + 1 \/ body.items[LineEnd(i)] = "lf"
         /\ \A j \in i..(LineEnd(i) - 1) : body.items[j] # "lf"
  <1> DEFINE n == Len(body.items)
             ends == {j \in i..n : body.items[j] = "lf"} \cup {n + 1}
  <1>1. n \in Nat
    BY BodyItems
  <1>2. ends \in SUBSET Nat /\ ends # {} /\ \A j \in ends : j \in i..(n + 1)
    BY <1>1
  <1>3. PICK m \in ends : \A k \in ends : m <= k
    <2> HIDE DEF ends
    <2> QED
      BY <1>2, LeastExists
  <1>4. LineEnd(i) = m
    <2>1. Min(ends) = m
      BY <1>2, <1>3, LeastIsMin
    <2> QED
      BY <2>1 DEF LineEnd
  <1>5. ASSUME NEW j \in i..(m - 1) PROVE body.items[j] # "lf"
    <2>1. m \in Nat /\ m <= n + 1 /\ j \in i..n /\ j < m
      BY <1>1, <1>2, <1>3
    <2>2. j \notin ends
      BY <1>3, <2>1
    <2> QED
      BY <2>1, <2>2
  <1> QED
    BY <1>2, <1>3, <1>4, <1>5
-----------------------------------------------------------------------------
IsSeq(s) == \E S : s \in Seq(S)
Ranges(s) == {<<s[i].item, s[i].end>> : i \in DOMAIN s}
ItemsIn(s) == {s[i].item : i \in DOMAIN s}
Ordered(s, a) ==
  /\ \A i \in DOMAIN s : s[i].item \in Nat /\ s[i].item < a
  /\ \A i, j \in DOMAIN s : i < j => s[i].item < s[j].item

LEMMA AppendFacts ==
  ASSUME NEW s, IsSeq(s), NEW e
  PROVE  /\ IsSeq(Append(s, e)) /\ Len(s) \in Nat /\ DOMAIN s = 1..Len(s)
         /\ Len(Append(s, e)) = Len(s) + 1
         /\ DOMAIN Append(s, e) = DOMAIN s \cup {Len(s) + 1}
         /\ Append(s, e)[Len(s) + 1] = e
         /\ \A i \in DOMAIN s : i <= Len(s) /\ Append(s, e)[i] = s[i]
  <1>1. PICK S : s \in Seq(S)
    BY DEF IsSeq
  <1>2. s \in Seq(S \cup {e}) /\ Len(s) \in Nat /\ DOMAIN s = 1..Len(s)
    BY <1>1
  <1>3. Append(s, e) \in Seq(S \cup {e}) /\ Len(Append(s, e)) = Len(s) + 1
    BY <1>2
  <1>4. Append(s, e)[Len(s) + 1] = e /\ \A i \in DOMAIN s : i <= Len(s) /\ Append(s, e)[i] = s[i]
    BY <1>2
  <1>5. DOMAIN Append(s, e) = 1..(Len(s) + 1)
    BY <1>3
  <1>6. 1..(Len(s) + 1) = (1..Len(s)) \cup {Len(s) + 1}
    BY <1>2
  <1> QED
    BY <1>2, <1>3, <1>4, <1>5, <1>6 DEF IsSeq

(* An event from behind the others goes to the end and keeps their order.   *)
LEMMA AppendEvent ==
  ASSUME NEW s, IsSeq(s), NEW a \in Nat, NEW b \in Nat, a < b, Ordered(s, a),
         NEW e, e.item = a
  PROVE  /\ Ordered(Append(s, e), b)
         /\ ItemsIn(Append(s, e)) = ItemsIn(s) \cup {a}
         /\ Ranges(Append(s, e)) = Ranges(s) \cup {<<a, e.end>>}
  <1> DEFINE t == Append(s, e)
             n == Len(s) + 1
  <1>1. /\ n \in Nat /\ DOMAIN t = DOMAIN s \cup {n} /\ t[n] = e
        /\ \A i \in DOMAIN s : i \in Nat /\ i < n /\ t[i] = s[i]
    BY AppendFacts
  <1> HIDE DEF t, n
  <1>2. \A i \in DOMAIN t : t[i].item \in Nat /\ t[i].item < b
    BY <1>1 DEF Ordered
  <1>3. ASSUME NEW i \in DOMAIN t, NEW j \in DOMAIN t, i < j PROVE t[i].item < t[j].item
    <2>1. i \in DOMAIN s
      BY <1>1, <1>3
    <2>2. CASE j \in DOMAIN s
      BY <1>1, <1>3, <2>1, <2>2 DEF Ordered
    <2>3. CASE j = n
      BY <1>1, <2>1, <2>3 DEF Ordered
    <2> QED
      BY <1>1, <2>2, <2>3
  <1>4. ItemsIn(t) = ItemsIn(s) \cup {a}
    BY <1>1 DEF ItemsIn
  <1>5. Ranges(t) = Ranges(s) \cup {<<a, e.end>>}
    BY <1>1 DEF Ranges
  <1> QED
    BY <1>2, <1>3, <1>4, <1>5 DEF Ordered, t

LEMMA LaterBound ==
  ASSUME NEW s, NEW a \in Nat, NEW b \in Nat, a <= b, Ordered(s, a)
  PROVE  Ordered(s, b)
  BY DEF Ordered
-----------------------------------------------------------------------------
(* TypeOK, and that the events are a sequence.                              *)
TypeInv == TypeOK /\ IsSeq(events)

Errors == {"running", "none", "NoData", "ServerBusy", "InvalidDataFormat",
           "EventFieldRequired", "EventFieldBlank", "IncorrectIndex", "HandlingIndexedFields"}

LEMMA AnswerTypes ==
  ASSUME NEW n \in Nat, NEW v
  PROVE  /\ Error("ServerBusy") \in [error : Errors, number : Int]
         /\ Error("NoData") \in [error : Errors, number : Int]
         /\ Ok \in [error : Errors, number : Int]
         /\ NoAnswer \in [error : Errors, number : Int]
         /\ EventError("InvalidDataFormat", n) \in [error : Errors, number : Int]
         /\ EventError(Fault(v), NumberOf(Fault(v), n)) \in [error : Errors, number : Int]
  <1>1. Fault(v) \in Errors
    BY DEF Fault, Errors
  <1>2. NumberOf(Fault(v), n) \in Int
    BY DEF NumberOf
  <1> QED
    BY <1>1, <1>2 DEF Error, EventError, Ok, NoAnswer, Errors

(* One more event, or none, keeps the type. *)
LEMMA TypeAppend ==
  ASSUME TypeInv, NEW e, e.item \in 1..Len(body.items) \cup {1},
         e.index \in ValidNames \cup {NoIndex}, Len(events) < MaxEvents,
         events' = Append(events, e), body' = body, answer' = answer,
         at' \in 1..(Len(body.items) + 2)
  PROVE  TypeInv'
  <1>1. /\ IsSeq(events') /\ Len(events) \in Nat /\ Len(events') = Len(events) + 1
        /\ DOMAIN events' = DOMAIN events \cup {Len(events) + 1}
        /\ events'[Len(events) + 1] = e
        /\ \A i \in DOMAIN events : events'[i] = events[i]
    BY AppendFacts DEF TypeInv
  <1>2. Len(events') <= MaxEvents
    BY <1>1, ParseAssumption
  <1>3. \A i \in DOMAIN events' :
          /\ events'[i].item \in 1..Len(body.items) \cup {1}
          /\ events'[i].index \in ValidNames \cup {NoIndex}
    BY <1>1 DEF TypeInv, TypeOK
  <1> QED
    BY <1>1, <1>2, <1>3 DEF TypeInv, TypeOK

LEMMA TypeSame ==
  ASSUME TypeInv, events' = events, body' = body,
         at' \in 1..(Len(body.items) + 2), answer' \in [error : Errors, number : Int]
  PROVE  TypeInv'
  BY DEF TypeInv, TypeOK, Errors

(* Whatever the body, its events are items of it, for indexes of its token, *)
(* and never more than the limit.                                           *)
LEMMA TypeInvariant == Spec => []TypeInv
  <1>1. Init => TypeInv
    <2> SUFFICES ASSUME Init PROVE TypeInv
      OBVIOUS
    <2>1. body \in Bodies /\ Len(body.items) \in Nat
      BY BodyItems DEF Init, Bodies
    <2>2. events \in Seq({}) /\ Len(events) = 0 /\ DOMAIN events = {}
      BY DEF Init
    <2>3. at \in 1..(Len(body.items) + 2) /\ Len(events) <= MaxEvents
      BY <2>1, <2>2, ParseAssumption DEF Init
    <2>4. answer \in [error : Errors, number : Int]
      BY AnswerTypes DEF Init
    <2> QED
      BY <2>2, <2>3, <2>4 DEF Init, TypeInv, TypeOK, IsSeq, Errors
  <1>2. TypeInv /\ [Next]_vars => TypeInv'
    <2> SUFFICES ASSUME TypeInv, [Next]_vars PROVE TypeInv'
      OBVIOUS
    <2>1. body \in Bodies /\ Len(body.items) \in Nat /\ DOMAIN body.items = 1..Len(body.items)
          /\ body.token.default \in ValidNames \cup {NoIndex}
      BY BodyItems DEF TypeInv, TypeOK, Bodies
    <2>2. /\ Len(events) \in Nat /\ MaxEvents \in Nat \ {0}
          /\ at \in 1..(Len(body.items) + 2) /\ answer \in [error : Errors, number : Int]
      BY AppendFacts, ParseAssumption DEF TypeInv, TypeOK, Errors
    <2>3. ASSUME NEW a \in [error : Errors, number : Int], Answers(a) PROVE TypeInv'
      BY <2>2, <2>3, TypeSame DEF Answers
    <2>4. CASE PushEnvelope
      <3> DEFINE v == body.items[at]
                 e == [item |-> at, index |-> IndexOf(v)]
      <3>1. CASE Len(events) >= MaxEvents
        BY <2>2, <2>3, <2>4, <3>1, AnswerTypes DEF PushEnvelope
      <3>2. CASE ~(Len(events) >= MaxEvents) /\ Fault(v) # "none"
        <4>1. Answers(EventError(Fault(v), NumberOf(Fault(v), Len(events))))
          BY <2>4, <3>2 DEF PushEnvelope
        <4> QED
          BY <2>2, <2>3, <4>1, AnswerTypes
      <3>3. CASE ~(Len(events) >= MaxEvents) /\ Fault(v) = "none"
        <4>1. /\ events' = Append(events, e) /\ body' = body /\ answer' = answer
              /\ at' = at + 1 /\ at \in 1..Len(body.items)
          BY <2>1, <2>4, <3>3 DEF PushEnvelope
        <4>2. IndexOf(v) \in ValidNames \cup {NoIndex}
          BY <3>3, FaultlessIndex DEF ValidIndex
        <4>3. e.item = at /\ e.index = IndexOf(v)
          OBVIOUS
        <4>4. at' \in 1..(Len(body.items) + 2) /\ Len(events) < MaxEvents
          BY <2>1, <2>2, <3>3, <4>1
        <4> HIDE DEF e, v
        <4> QED
          BY <4>1, <4>2, <4>3, <4>4, TypeAppend
      <3> QED
        BY <3>1, <3>2, <3>3
    <2>5. CASE EventsEnd
      <3>1. \E a \in {EventError("InvalidDataFormat", Len(events)), Error("NoData"), Ok} : Answers(a)
        BY <2>5 DEF EventsEnd
      <3> QED
        BY <2>2, <2>3, <3>1, AnswerTypes
    <2>6. CASE LinesEnd \/ ScanEnd
      <3>1. \E a \in {Error("NoData"), Ok} : Answers(a)
        BY <2>6 DEF LinesEnd, ScanEnd
      <3> QED
        BY <2>2, <2>3, <3>1, AnswerTypes
    <2>7. CASE SplitLine
      <3> DEFINE e == [item |-> at, index |-> body.token.default]
      <3>1. CASE Len(events) >= MaxEvents
        BY <2>2, <2>3, <2>7, <3>1, AnswerTypes DEF SplitLine
      <3>2. CASE ~(Len(events) >= MaxEvents)
        <4>1. /\ events' = Append(events, e) \/ events' = events
              /\ body' = body /\ answer' = answer
              /\ at' = at + 1 /\ at \in 1..Len(body.items)
          BY <2>1, <2>7, <3>2 DEF SplitLine
        <4>2. e.item = at /\ e.index = body.token.default
          OBVIOUS
        <4>3. at' \in 1..(Len(body.items) + 2) /\ Len(events) < MaxEvents
          BY <2>1, <2>2, <3>2, <4>1
        <4> HIDE DEF e
        <4> QED
          BY <2>1, <2>2, <4>1, <4>2, <4>3, TypeAppend, TypeSame
      <3> QED
        BY <3>1, <3>2
    <2>8. CASE PreserveBody
      <3> DEFINE e == [item |-> 1, index |-> body.token.default]
      <3>1. CASE Answers(Error("NoData"))
        BY <2>2, <2>3, <3>1, AnswerTypes
      <3>2. CASE events' = <<e>> /\ answer' = Ok /\ UNCHANGED <<body, at>>
        <4>1. e.item = 1 /\ e.index = body.token.default
          OBVIOUS
        <4> HIDE DEF e
        <4>2. <<e>> \in Seq({e}) /\ Len(<<e>>) = 1 /\ DOMAIN <<e>> = {1} /\ <<e>>[1] = e
          OBVIOUS
        <4>3. /\ IsSeq(events') /\ Len(events') <= MaxEvents
              /\ \A i \in DOMAIN events' : events'[i] = e
          <5>1. IsSeq(<<e>>)
            BY <4>2 DEF IsSeq
          <5>2. Len(<<e>>) <= MaxEvents
            BY <2>2, <4>2
          <5> QED
            BY <3>2, <4>2, <5>1, <5>2
        <4>4. answer' \in [error : Errors, number : Int]
          BY <2>2, <3>2, AnswerTypes
        <4> QED
          BY <2>1, <2>2, <3>2, <4>1, <4>3, <4>4 DEF TypeInv, TypeOK, Errors
      <3> QED
        BY <2>8, <3>1, <3>2 DEF PreserveBody
    <2>9. CASE ScanLine
      <3> DEFINE e == [item |-> at, end |-> EventEnd(at), index |-> body.token.default]
      <3>1. CASE HasText(at, EventEnd(at)) /\ Len(events) >= MaxEvents
        BY <2>2, <2>3, <2>9, <3>1, AnswerTypes DEF ScanLine
      <3>2. CASE ~(HasText(at, EventEnd(at)) /\ Len(events) >= MaxEvents)
        <4>1. /\ at \in 1..(Len(body.items) + 1) /\ at' = LineEnd(at) + 1
              /\ body' = body /\ answer' = answer
              /\ \/ events' = events
                 \/ events' = Append(events, e) /\ HasText(at, EventEnd(at))
          BY <2>1, <2>2, <2>9, <3>2 DEF ScanLine
        <4>2. LineEnd(at) \in at..(Len(body.items) + 1)
          BY <2>1, <4>1, LineEndFacts
        <4>3. at' \in 1..(Len(body.items) + 2)
          BY <2>1, <4>1, <4>2
        <4>4. ASSUME HasText(at, EventEnd(at)) PROVE at \in 1..Len(body.items) /\ Len(events) < MaxEvents
          <5>1. PICK j \in at..(EventEnd(at) - 1) : TRUE
            BY <4>4 DEF HasText
          <5>2. EventEnd(at) \in Int /\ EventEnd(at) <= LineEnd(at)
            BY <2>1, <4>2 DEF EventEnd
          <5>3. Len(body.items) \in Nat /\ at \in Nat /\ LineEnd(at) \in Nat
            BY <2>1, <4>1, <4>2
          <5>4. at <= j /\ j <= LineEnd(at) - 1 /\ j \in Int
            BY <5>1, <5>2, <5>3
          <5>5. at <= Len(body.items)
            BY <4>2, <5>3, <5>4
          <5>6. ~(Len(events) >= MaxEvents) /\ Len(events) \in Nat /\ MaxEvents \in Nat
            BY <2>1, <2>2, <3>2, <4>4
          <5> QED
            BY <4>1, <5>3, <5>5, <5>6
        <4>5. e.item = at /\ e.index = body.token.default
          OBVIOUS
        <4> HIDE DEF e
        <4> QED
          BY <2>1, <2>2, <4>1, <4>3, <4>4, <4>5, TypeAppend, TypeSame
      <3> QED
        BY <3>1, <3>2
    <2>10. CASE Quiet \/ UNCHANGED vars
      BY <2>2, <2>10, TypeSame DEF Quiet, vars
    <2> QED
      BY <2>4, <2>5, <2>6, <2>7, <2>8, <2>9, <2>10 DEF Next
  <1> QED
    BY <1>1, <1>2, PTL DEF Spec

(* An accepted event names an item of its body and an index that is valid.  *)
THEOREM TypeCorrect == Spec => []TypeOK
  <1>1. TypeInv => TypeOK
    BY DEF TypeInv
  <1> QED
    BY <1>1, TypeInvariant, PTL
-----------------------------------------------------------------------------
(* The lines and the items with text that begin before a. *)
LinesBefore(a) == {line \in TextLines : line[1] < a}
ItemsBefore(a) == {i \in TextItems : i < a}
TrimmedOf(lines) == {Trimmed(line) : line \in lines}
IsStart(a) == a = 1 \/ body.items[a - 1] = "lf" \/ a = Len(body.items) + 2

(* The events are the lines, or the items, with text before the one the     *)
(* loop is at, and the scan is always at the begin of a line.               *)
SplitInv ==
  /\ at <= Len(body.items) + 1
  /\ Ordered(events, at)
  /\ ItemsIn(events) = ItemsBefore(at)
  /\ answer = Ok => at = Len(body.items) + 1

ScanInv ==
  /\ IsStart(at)
  /\ Ordered(events, at)
  /\ Ranges(events) = TrimmedOf(LinesBefore(at))
  /\ Len(events) = Cardinality(LinesBefore(at))
  /\ \/ answer = NoAnswer
     \/ answer = Ok /\ at = Len(body.items) + 2 /\ events # <<>>
     \/ answer = Error("NoData") /\ at = Len(body.items) + 2 /\ events = <<>>
     \/ answer = Error("ServerBusy") /\ Cardinality(TextLines) > MaxEvents

LinesInv ==
  /\ body.kind = "split_lines" => SplitInv
  /\ body.kind = "scan" => ScanInv

(* There are finitely many lines. *)
LEMMA LinesFinite ==
  ASSUME body \in Bodies, NEW S, S \subseteq TextLines
  PROVE  /\ IsFiniteSet(S) /\ Cardinality(S) \in Nat
         /\ Cardinality(S) <= Cardinality(TextLines) /\ Cardinality(TextLines) \in Nat
         /\ \A x : x \notin S => Cardinality(S \cup {x}) = Cardinality(S) + 1
  <1> DEFINE all == (1..Len(body.items)) \X (2..(Len(body.items) + 1))
  <1>1. Len(body.items) \in Nat
    BY BodyItems
  <1>2. IsFiniteSet(1..Len(body.items)) /\ IsFiniteSet(2..(Len(body.items) + 1))
    BY <1>1, FS_Interval
  <1>3. IsFiniteSet(all)
    BY <1>2, FS_Product
  <1>4. TextLines \subseteq all
    BY DEF TextLines
  <1> HIDE DEF all
  <1>5. IsFiniteSet(TextLines)
    BY <1>3, <1>4, FS_Subset
  <1> QED
    BY <1>5, FS_Subset, FS_CardinalityType, FS_AddElement

(* The line that begins where the scan is: it has text just when what is    *)
(* cut from it has, and it is the only one up to the line feed behind it.   *)
LEMMA NextLine ==
  ASSUME body \in Bodies, NEW a \in 1..(Len(body.items) + 1), IsStart(a)
  PROVE  /\ IsStart(LineEnd(a) + 1)
         /\ <<a, LineEnd(a)>> \notin LinesBefore(a)
         /\ ~HasText(a, EventEnd(a)) => LinesBefore(LineEnd(a) + 1) = LinesBefore(a)
         /\ HasText(a, EventEnd(a)) =>
              /\ LinesBefore(LineEnd(a) + 1) = LinesBefore(a) \cup {<<a, LineEnd(a)>>}
              /\ <<a, LineEnd(a)>> \in TextLines
              /\ Trimmed(<<a, LineEnd(a)>>) = <<a, EventEnd(a)>>
  <1> DEFINE n == Len(body.items)
             e == LineEnd(a)
  <1>1. n \in Nat /\ a \in Nat /\ 1 <= a /\ a <= n + 1
    BY BodyItems
  <1>2. /\ e \in a..(n + 1)
        /\ e = n + 1 \/ body.items[e] = "lf"
        /\ \A j \in a..(e - 1) : body.items[j] # "lf"
    BY LineEndFacts
  <1> HIDE DEF e
  <1>3. e \in Nat /\ a <= e /\ e <= n + 1
    BY <1>1, <1>2
  <1>4. /\ EventEnd(a) = IF e > a /\ body.items[e - 1] = "cr" THEN e - 1 ELSE e
        /\ HasText(a, EventEnd(a)) <=> HasText(a, e)
    <2>1. EventEnd(a) = IF e > a /\ body.items[e - 1] = "cr" THEN e - 1 ELSE e
      BY DEF EventEnd, e
    <2>2. CASE e > a /\ body.items[e - 1] = "cr"
      <3>1. EventEnd(a) = e - 1
        BY <2>1, <2>2
      <3>2. \A j \in a..(e - 1) : IsText(body.items[j]) => j \in a..((e - 1) - 1)
        BY <1>1, <1>3, <2>2 DEF IsText
      <3>3. a..((e - 1) - 1) \subseteq a..(e - 1)
        BY <1>1, <1>3
      <3> QED
        BY <2>1, <3>1, <3>2, <3>3 DEF HasText
    <2>3. CASE ~(e > a /\ body.items[e - 1] = "cr")
      BY <2>1, <2>3
    <2> QED
      BY <2>2, <2>3
  <1>5. ASSUME NEW line \in TextLines, a <= line[1], line[1] <= e
        PROVE  line = <<a, e>> /\ HasText(a, e)
    <2>1. /\ line[1] \in 1..n /\ line[2] \in 2..(n + 1) /\ line = <<line[1], line[2]>>
          /\ line[1] = 1 \/ body.items[line[1] - 1] = "lf"
          /\ line[2] = n + 1 \/ body.items[line[2]] = "lf"
          /\ \A j \in line[1]..(line[2] - 1) : body.items[j] # "lf"
          /\ HasText(line[1], line[2])
      BY DEF TextLines
    <2>2. line[1] = a
      <3> SUFFICES ASSUME line[1] # a PROVE FALSE
        OBVIOUS
      <3>1. line[1] - 1 \in a..(e - 1) /\ line[1] # 1
        BY <1>1, <1>3, <1>5, <2>1
      <3> QED
        BY <1>2, <2>1, <3>1
    <2>3. line[2] > a
      BY <1>1, <2>1, <2>2 DEF HasText
    <2>4. ~(line[2] < e)
      <3> SUFFICES ASSUME line[2] < e PROVE FALSE
        OBVIOUS
      <3>1. line[2] \in a..(e - 1) /\ line[2] # n + 1
        BY <1>1, <1>3, <2>1, <2>3
      <3> QED
        BY <1>2, <2>1, <3>1
    <2>5. ~(line[2] > e)
      <3> SUFFICES ASSUME line[2] > e PROVE FALSE
        OBVIOUS
      <3>1. e \in line[1]..(line[2] - 1) /\ e # n + 1
        BY <1>1, <1>3, <2>1, <2>2
      <3> QED
        BY <1>2, <2>1, <3>1
    <2>6. line[2] = e
      BY <1>3, <2>1, <2>4, <2>5
    <2> QED
      BY <2>1, <2>2, <2>6
  <1>6. ASSUME HasText(a, e) PROVE <<a, e>> \in TextLines /\ e > a
    <2>1. e > a
      BY <1>1, <1>3, <1>6 DEF HasText
    <2>2. a \in 1..n /\ e \in 2..(n + 1)
      BY <1>1, <1>3, <2>1
    <2>3. a = 1 \/ body.items[a - 1] = "lf"
      BY <1>1, <2>2 DEF IsStart
    <2> QED
      BY <1>2, <1>6, <2>1, <2>2, <2>3 DEF TextLines
  <1>7. \A line \in TextLines : line[1] \in Nat
    BY <1>1 DEF TextLines
  <1>8. ASSUME ~HasText(a, e) PROVE LinesBefore(e + 1) = LinesBefore(a)
    <2>1. ASSUME NEW line \in TextLines PROVE line[1] < e + 1 <=> line[1] < a
      BY <1>1, <1>3, <1>5, <1>7, <1>8
    <2> QED
      BY <2>1 DEF LinesBefore
  <1>9. ASSUME HasText(a, e) PROVE LinesBefore(e + 1) = LinesBefore(a) \cup {<<a, e>>}
    <2>1. ASSUME NEW line \in TextLines PROVE line[1] < e + 1 <=> (line[1] < a \/ line = <<a, e>>)
      <3>1. CASE line[1] < a
        BY <1>1, <1>3, <1>7, <3>1
      <3>2. CASE ~(line[1] < a) /\ line[1] < e + 1
        BY <1>1, <1>3, <1>5, <1>7, <3>2
      <3>3. CASE line = <<a, e>>
        BY <1>1, <1>3, <3>3
      <3> QED
        BY <3>1, <3>2, <3>3
    <2> QED
      BY <1>6, <1>9, <2>1 DEF LinesBefore
  <1>10. ASSUME HasText(a, e) PROVE Trimmed(<<a, e>>) = <<a, EventEnd(a)>>
    BY <1>4, <1>6, <1>10 DEF Trimmed
  <1>11. <<a, e>> \notin LinesBefore(a)
    BY <1>1 DEF LinesBefore
  <1>12. IsStart(e + 1)
    BY <1>1, <1>2, <1>3 DEF IsStart
  <1> QED
    BY <1>4, <1>6, <1>8, <1>9, <1>10, <1>11, <1>12 DEF e

LEMMA SplitNext ==
  ASSUME TypeInv, SplitInv, body.kind = "split_lines", SplitLine \/ LinesEnd
  PROVE  SplitInv'
  <1>1. /\ DOMAIN body.items = 1..Len(body.items) /\ Len(body.items) \in Nat
        /\ at \in 1..(Len(body.items) + 2)
    BY BodyItems DEF TypeInv, TypeOK, Bodies
  <1>2. ASSUME body' = body PROVE TextItems' = TextItems
    BY <1>2 DEF TextItems
  <1>3. CASE events' = events /\ body' = body /\ at' = at
             /\ (answer' = Ok => at = Len(body.items) + 1)
    <2>1. ItemsBefore(at)' = ItemsBefore(at)
      BY <1>2, <1>3 DEF ItemsBefore
    <2> QED
      BY <1>3, <2>1 DEF SplitInv
  <1>4. CASE SplitLine /\ ~(Len(events) >= MaxEvents)
    <2>1. /\ at \in 1..Len(body.items) /\ at' = at + 1 /\ body' = body
          /\ answer' = NoAnswer
          /\ events' = IF IsText(body.items[at])
                         THEN Append(events, [item |-> at, index |-> body.token.default])
                         ELSE events
      BY <1>1, <1>4 DEF SplitLine
    <2>2. ItemsBefore(at)' = ItemsBefore(at + 1)
      BY <1>2, <2>1 DEF ItemsBefore
    <2>3. \A i \in TextItems : i < at + 1 <=> i < at \/ i = at
      BY <1>1, <2>1 DEF TextItems
    <2>4. CASE IsText(body.items[at])
      <3>1. ItemsBefore(at + 1) = ItemsBefore(at) \cup {at}
        BY <1>1, <2>1, <2>3, <2>4 DEF ItemsBefore, TextItems
      <3> DEFINE e == [item |-> at, index |-> body.token.default]
      <3>2. e.item = at /\ events' = Append(events, e)
        BY <2>1, <2>4
      <3> HIDE DEF e
      <3>3. Ordered(events', at + 1) /\ ItemsIn(events') = ItemsIn(events) \cup {at}
        BY <2>1, <3>2, AppendEvent DEF TypeInv, SplitInv
      <3>4. ItemsIn(events') = ItemsBefore(at)'
        BY <2>2, <3>1, <3>3 DEF SplitInv
      <3>5. at' <= Len(body'.items) + 1 /\ answer' # Ok
        BY <1>1, <2>1 DEF NoAnswer, Ok
      <3>6. Ordered(events', at')
        BY <2>1, <3>3
      <3> QED
        BY <3>4, <3>5, <3>6 DEF SplitInv
    <2>5. CASE ~IsText(body.items[at])
      <3>1. ItemsBefore(at + 1) = ItemsBefore(at)
        BY <2>3, <2>5 DEF ItemsBefore, TextItems
      <3>2. Ordered(events', at + 1)
        BY <2>1, <2>5, LaterBound DEF SplitInv
      <3> QED
        BY <1>1, <2>1, <2>2, <2>5, <3>1, <3>2 DEF SplitInv, NoAnswer, Ok
    <2> QED
      BY <2>4, <2>5
  <1>5. CASE SplitLine /\ Len(events) >= MaxEvents
    BY <1>3, <1>5 DEF SplitLine, Answers, Error, Ok
  <1>6. CASE LinesEnd
    <2>1. at = Len(body.items) + 1
      BY <1>1, <1>6 DEF LinesEnd, SplitInv
    <2> QED
      BY <1>3, <1>6, <2>1 DEF LinesEnd, Answers
  <1> QED
    BY <1>4, <1>5, <1>6

LEMMA ScanNext ==
  ASSUME TypeInv, ScanInv, body.kind = "scan", ScanLine \/ ScanEnd
  PROVE  ScanInv'
  <1>1. /\ body \in Bodies /\ Len(body.items) \in Nat /\ at \in 1..(Len(body.items) + 2)
        /\ Len(events) \in Nat /\ MaxEvents \in Nat /\ IsSeq(events)
    BY BodyItems, AppendFacts, ParseAssumption DEF TypeInv, TypeOK, Bodies
  <1>2. ASSUME body' = body
        PROVE  /\ TextLines' = TextLines
               /\ \A a : LinesBefore(a)' = LinesBefore(a) /\ (IsStart(a)' <=> IsStart(a))
               /\ \A lines : TrimmedOf(lines)' = TrimmedOf(lines)
    BY <1>2 DEF TextLines, HasText, LinesBefore, IsStart, TrimmedOf, Trimmed
  <1>3. CASE ScanLine /\ HasText(at, EventEnd(at)) /\ Len(events) >= MaxEvents
    <2>1. /\ at \in 1..(Len(body.items) + 1)
          /\ answer' = Error("ServerBusy") /\ UNCHANGED <<body, at, events>>
      BY <1>1, <1>3 DEF ScanLine, Answers
    <2> DEFINE line == <<at, LineEnd(at)>>
    <2>2. line \notin LinesBefore(at) /\ line \in TextLines
      BY <1>1, <1>3, <2>1, NextLine DEF ScanInv
    <2> HIDE DEF line
    <2>3. LinesBefore(at) \cup {line} \subseteq TextLines /\ LinesBefore(at) \subseteq TextLines
      BY <2>2 DEF LinesBefore
    <2>4. Cardinality(LinesBefore(at) \cup {line}) = Len(events) + 1
      BY <1>1, <2>2, <2>3, LinesFinite DEF ScanInv
    <2>5. /\ Cardinality(LinesBefore(at) \cup {line}) <= Cardinality(TextLines)
          /\ Cardinality(TextLines) \in Nat
      BY <1>1, <2>3, LinesFinite
    <2>6. Cardinality(TextLines) > MaxEvents
      BY <1>1, <1>3, <2>4, <2>5
    <2>7. (Cardinality(TextLines) > MaxEvents)'
      BY <1>2, <2>1, <2>6
    <2>8. (Ranges(events) = TrimmedOf(LinesBefore(at)))'
      BY <1>1, <1>2, <2>1 DEF ScanInv, LinesBefore
    <2>9. (Len(events) = Cardinality(LinesBefore(at)))'
      BY <1>1, <1>2, <2>1 DEF ScanInv, LinesBefore
    <2>10. IsStart(at)' /\ Ordered(events, at)'
      BY <1>1, <1>2, <2>1 DEF ScanInv
    <2> QED
      BY <2>1, <2>7, <2>8, <2>9, <2>10 DEF ScanInv
  <1>4. CASE ScanLine /\ ~(HasText(at, EventEnd(at)) /\ Len(events) >= MaxEvents)
    <2> DEFINE e == [item |-> at, end |-> EventEnd(at), index |-> body.token.default]
               line == <<at, LineEnd(at)>>
    <2>1. /\ at \in 1..(Len(body.items) + 1) /\ at' = LineEnd(at) + 1 /\ body' = body
          /\ answer' = NoAnswer
          /\ events' = IF HasText(at, EventEnd(at)) THEN Append(events, e) ELSE events
      BY <1>1, <1>4 DEF ScanLine
    <2>2. LineEnd(at) \in Nat /\ at \in Nat /\ at < at' /\ at' \in Nat
      BY <1>1, <2>1, LineEndFacts
    <2>3. /\ IsStart(at') /\ line \notin LinesBefore(at)
          /\ ~HasText(at, EventEnd(at)) => LinesBefore(LineEnd(at) + 1) = LinesBefore(at)
          /\ HasText(at, EventEnd(at)) =>
               /\ LinesBefore(LineEnd(at) + 1) = LinesBefore(at) \cup {line}
               /\ line \in TextLines /\ Trimmed(line) = <<at, EventEnd(at)>>
      BY <1>1, <2>1, NextLine DEF ScanInv
    <2>4. LinesBefore(at)' = LinesBefore(LineEnd(at) + 1)
      BY <1>2, <2>1 DEF LinesBefore
    <2>5. IsStart(at)'
      BY <2>1, <2>3 DEF IsStart
    <2>6. CASE ~HasText(at, EventEnd(at))
      <3>1. events' = events /\ LinesBefore(at)' = LinesBefore(at)
        BY <2>1, <2>3, <2>4, <2>6
      <3>2. Ordered(events', at')
        BY <2>2, <3>1, LaterBound DEF ScanInv
      <3>3. TrimmedOf(LinesBefore(at))' = TrimmedOf(LinesBefore(at))
        BY <1>2, <2>1, <3>1 DEF TrimmedOf, Trimmed
      <3> QED
        BY <2>1, <2>5, <3>1, <3>2, <3>3 DEF ScanInv
    <2>7. CASE HasText(at, EventEnd(at))
      <3>1. e.item = at /\ e.end = EventEnd(at) /\ events' = Append(events, e)
        BY <2>1, <2>7
      <3>2. LinesBefore(at)' = LinesBefore(at) \cup {line}
        BY <2>3, <2>4, <2>7
      <3>3. TrimmedOf(LinesBefore(at))' = TrimmedOf(LinesBefore(at)) \cup {<<at, EventEnd(at)>>}
        <4>1. TrimmedOf(LinesBefore(at))' = TrimmedOf(LinesBefore(at) \cup {line})
          BY <1>2, <2>1, <3>2 DEF TrimmedOf, Trimmed
        <4>2. TrimmedOf(LinesBefore(at) \cup {line}) = TrimmedOf(LinesBefore(at)) \cup {Trimmed(line)}
          <5> HIDE DEF line
          <5> QED
            BY DEF TrimmedOf
        <4> QED
          BY <2>3, <2>7, <4>1, <4>2
      <3> HIDE DEF e, line
      <3>4. /\ Ordered(events', at')
            /\ Ranges(events') = Ranges(events) \cup {<<at, EventEnd(at)>>}
        BY <1>1, <2>2, <3>1, AppendEvent DEF ScanInv
      <3>5. Len(events') = Len(events) + 1
        BY <1>1, <3>1, AppendFacts
      <3>6. Cardinality(LinesBefore(at)') = Cardinality(LinesBefore(at)) + 1
        <4>1. LinesBefore(at) \subseteq TextLines
          BY DEF LinesBefore
        <4> QED
          BY <1>1, <2>3, <3>2, <4>1, LinesFinite
      <3> QED
        BY <2>1, <2>5, <3>3, <3>4, <3>5, <3>6 DEF ScanInv
    <2> QED
      BY <2>6, <2>7
  <1>5. CASE ScanEnd
    <2>1. /\ at = Len(body.items) + 2 /\ UNCHANGED <<body, at, events>>
          /\ answer' = IF events = <<>> THEN Error("NoData") ELSE Ok
      BY <1>1, <1>5 DEF ScanEnd, Answers
    <2>2. LinesBefore(at)' = LinesBefore(at) /\ (IsStart(at)' <=> IsStart(at))
          /\ TrimmedOf(LinesBefore(at))' = TrimmedOf(LinesBefore(at))
      BY <1>2, <2>1 DEF LinesBefore, IsStart, TrimmedOf, Trimmed
    <2> QED
      BY <2>1, <2>2 DEF ScanInv
  <1> QED
    BY <1>3, <1>4, <1>5

LEMMA InitLines == Init => LinesInv
  <1> SUFFICES ASSUME Init PROVE LinesInv
    OBVIOUS
  <1>1. body \in Bodies /\ at = 1 /\ events = <<>> /\ answer = NoAnswer
    BY DEF Init, Bodies
  <1>2. Len(body.items) \in Nat /\ DOMAIN body.items = 1..Len(body.items)
    BY <1>1, BodyItems
  <1>3. DOMAIN events = {}
    BY <1>1
  <1>4. Ordered(events, at) /\ ItemsIn(events) = {} /\ Ranges(events) = {}
    BY <1>3 DEF Ordered, ItemsIn, Ranges
  <1>5. ItemsBefore(at) = {}
    BY <1>1, <1>2 DEF ItemsBefore, TextItems
  <1>6. LinesBefore(at) = {}
    BY <1>1, <1>2 DEF LinesBefore, TextLines
  <1>7. TrimmedOf(LinesBefore(at)) = {}
    BY <1>6 DEF TrimmedOf
  <1>8. Len(events) = Cardinality(LinesBefore(at))
    BY <1>1, <1>6, FS_EmptySet
  <1>9. at <= Len(body.items) + 1 /\ answer # Ok
    BY <1>1, <1>2 DEF NoAnswer, Ok
  <1>10. IsStart(at)
    BY <1>1 DEF IsStart
  <1> QED
    BY <1>1, <1>4, <1>5, <1>7, <1>8, <1>9, <1>10 DEF LinesInv, SplitInv, ScanInv

LEMMA NextLines == TypeInv /\ LinesInv /\ [Next]_vars => LinesInv'
  <1> SUFFICES ASSUME TypeInv, LinesInv, [Next]_vars PROVE LinesInv'
    OBVIOUS
  <1>1. CASE SplitLine \/ LinesEnd
    <2>1. body.kind = "split_lines" /\ body' = body
      BY <1>1 DEF SplitLine, LinesEnd, Answers
    <2>2. SplitInv'
      BY <1>1, <2>1, SplitNext DEF LinesInv
    <2> QED
      BY <2>1, <2>2 DEF LinesInv
  <1>2. CASE ScanLine \/ ScanEnd
    <2>1. body.kind = "scan" /\ body' = body
      BY <1>2 DEF ScanLine, ScanEnd, Answers
    <2>2. ScanInv'
      BY <1>2, <2>1, ScanNext DEF LinesInv
    <2> QED
      BY <2>1, <2>2 DEF LinesInv
  <1>3. CASE PushEnvelope \/ EventsEnd \/ PreserveBody
    <2>1. body.kind \in {"event", "preserve_body"} /\ body' = body
      BY <1>3 DEF PushEnvelope, EventsEnd, PreserveBody, Answers
    <2> QED
      BY <2>1 DEF LinesInv
  <1>4. CASE Quiet \/ UNCHANGED vars
    <2>1. body' = body /\ at' = at /\ events' = events /\ answer' = answer
      BY <1>4 DEF Quiet, vars
    <2>2. SplitInv => SplitInv'
      BY <2>1 DEF SplitInv, ItemsBefore, TextItems
    <2>3. TextLines' = TextLines
      BY <2>1 DEF TextLines, HasText
    <2>4. /\ LinesBefore(at)' = LinesBefore(at)
          /\ TrimmedOf(LinesBefore(at))' = TrimmedOf(LinesBefore(at))
          /\ IsStart(at)' <=> IsStart(at)
      BY <2>1, <2>3 DEF LinesBefore, TrimmedOf, Trimmed, IsStart
    <2>5. ScanInv => ScanInv'
      BY <2>1, <2>3, <2>4 DEF ScanInv
    <2> QED
      BY <2>1, <2>2, <2>5 DEF LinesInv
  <1> QED
    BY <1>1, <1>2, <1>3, <1>4 DEF Next

(* Once all the lines are behind the scan, those before it are all of them. *)
LEMMA AllLines ==
  ASSUME body \in Bodies, at = Len(body.items) + 2
  PROVE  LinesBefore(at) = TextLines
  <1>1. Len(body.items) \in Nat
    BY BodyItems
  <1>2. \A line \in TextLines : line[1] < at
    BY <1>1 DEF TextLines
  <1> QED
    BY <1>2 DEF LinesBefore

LEMMA ScanAnswers ==
  ASSUME TypeInv, ScanInv, Answered
  PROVE  /\ answer = IF TextLines = {} THEN Error("NoData")
                     ELSE IF Cardinality(TextLines) > MaxEvents THEN Error("ServerBusy")
                     ELSE Ok
         /\ answer = Ok => Ranges(events) = TrimmedOf(TextLines) /\ Ordered(events, at)
  <1>1. /\ body \in Bodies /\ Len(events) <= MaxEvents /\ Len(events) \in Nat
        /\ events = <<>> <=> Len(events) = 0
    <2>1. PICK S : events \in Seq(S)
      BY DEF TypeInv, IsSeq
    <2> QED
      BY <2>1 DEF TypeInv, TypeOK, Bodies
  <1>2. Cardinality(TextLines) \in Nat /\ (TextLines = {} <=> Cardinality(TextLines) = 0)
    <2>1. /\ Cardinality(TextLines) \in Nat
          /\ \A x : x \notin {} => Cardinality({} \cup {x}) = Cardinality({}) + 1
          /\ IsFiniteSet(TextLines)
      BY <1>1, LinesFinite
    <2> QED
      BY <2>1, FS_EmptySet
  <1>3. answer = Ok \/ answer = Error("NoData") \/ answer = Error("ServerBusy")
    BY DEF ScanInv, Answered
  <1>4. Ok # Error("NoData") /\ Ok # Error("ServerBusy") /\ Error("NoData") # Error("ServerBusy")
        /\ NoAnswer # Ok /\ NoAnswer # Error("NoData") /\ NoAnswer # Error("ServerBusy")
    BY DEF Ok, Error, NoAnswer
  <1>5. CASE answer = Error("ServerBusy")
    <2>1. Cardinality(TextLines) > MaxEvents
      BY <1>4, <1>5 DEF ScanInv
    <2> QED
      BY <1>2, <1>4, <1>5, <2>1, ParseAssumption
  <1>6. CASE answer = Ok \/ answer = Error("NoData")
    <2>1. at = Len(body.items) + 2 /\ (answer = Ok <=> events # <<>>)
      BY <1>4, <1>6 DEF ScanInv
    <2>2. LinesBefore(at) = TextLines
      BY <1>1, <2>1, AllLines
    <2>3. Len(events) = Cardinality(TextLines) /\ Ranges(events) = TrimmedOf(TextLines)
          /\ Ordered(events, at)
      BY <2>2 DEF ScanInv
    <2> QED
      BY <1>1, <1>2, <1>6, <2>1, <2>3, ParseAssumption
  <1> QED
    BY <1>3, <1>5, <1>6

(* Every body that is split into lines or scanned becomes one event for     *)
(* each line with text, in order, and the scanner refuses it for nothing    *)
(* else than having no such line or more of them than the limit.            *)
THEOREM LinesCorrect == Spec => []LinesWhole
  <1>1. TypeInv /\ LinesInv => LinesWhole
    <2> SUFFICES ASSUME TypeInv, LinesInv PROVE LinesWhole
      OBVIOUS
    <2>1. body \in Bodies /\ DOMAIN body.items = 1..Len(body.items) /\ Len(body.items) \in Nat
      BY BodyItems DEF TypeInv, TypeOK, Bodies
    <2>2. ASSUME body.kind = "split_lines", answer = Ok
          PROVE  {events[i].item : i \in DOMAIN events} = TextItems /\ InOrder
      <3>1. SplitInv /\ at = Len(body.items) + 1
        BY <2>2 DEF LinesInv, SplitInv
      <3>2. ItemsBefore(at) = TextItems
        BY <2>1, <3>1 DEF ItemsBefore, TextItems
      <3> QED
        BY <3>1, <3>2 DEF SplitInv, ItemsIn, Ordered, InOrder
    <2>3. ASSUME body.kind = "scan", Answered
          PROVE  /\ answer = IF TextLines = {} THEN Error("NoData")
                             ELSE IF Cardinality(TextLines) > MaxEvents THEN Error("ServerBusy")
                             ELSE Ok
                 /\ answer = Ok =>
                      /\ {<<events[i].item, events[i].end>> : i \in DOMAIN events} =
                           {Trimmed(line) : line \in TextLines}
                      /\ InOrder
      BY <2>3, ScanAnswers DEF LinesInv, Ranges, TrimmedOf, Ordered, InOrder
    <2> QED
      BY <2>2, <2>3 DEF LinesWhole
  <1>2. Spec => []LinesInv
    BY InitLines, NextLines, TypeInvariant, PTL DEF Spec
  <1> QED
    BY <1>1, <1>2, TypeInvariant, PTL
=============================================================================

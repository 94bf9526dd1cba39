-------------------------- MODULE RawSocket_proofs --------------------------
(***************************************************************************)
(* The counters recorded with a case are those of its own request, and a   *)
(* case without an error of its socket shows its own status and counters   *)
(* and gets the verdict they call for, for any choice and order of cases,  *)
(* any delay of the slow one and any two timeouts of which the verifier's  *)
(* is the longer.                                                          *)
(***************************************************************************)
EXTENDS RawSocket, FiniteSetTheorems, TLAPS

Brought == {"request", "partial", "head", "part", "rest", "malformed"}
States == {"none", "head", "body", "closed"}
Replies == {0, 200, 400, 401, 408}
Connections ==
  [state : States, since : Nat, got : SUBSET Brought, gone : BOOLEAN, reply : Replies,
   hurt : BOOLEAN]

ConnOK == conn \in [Cases -> Connections]

Talking == step \in {"write", "sleep", "preread", "shutdown", "read"}

SegmentsOK ==
  /\ Talking => written <= Len(script.segments)
  /\ step = "sleep" => written > 0

(* A connection that no handler works on or will start for. *)
Reached(c) == conn[c].state = "head" /\ HasHead(c)
Silent(c) == conn[c].state # "body" /\ ~Reached(c)

(* Only the connection of the present case moves counters, and only while   *)
(* the verifier is at it.                                                   *)
OthersSilent == \A c \in Cases : (c = case /\ Talking) \/ Silent(c)

(* A handler's idle time began no later than the verifier's present wait,   *)
(* and no tick passes between the head and its handler.                     *)
Outwaited ==
  /\ Current.state = "body" => wait <= Current.since /\ Current.since <= Idle
  /\ Reached(case) => wait = 0

HurtIsClosed == \A c \in Cases : conn[c].hurt => conn[c].state = "closed"

(* A case that is not connected yet has moved nothing. *)
Unconnected == step \in {"file", "before", "connect"}

FreshOK ==
  \A i \in DOMAIN Selected :
    i > turn \/ (i = turn /\ Unconnected) => caused[Selected[i]] = {}

Movers(k) == {c \in Cases : k \in caused[c]}
OtherMovers(k) == {c \in Cases \ {case} : k \in caused[c]}

(* The snapshots count the other cases, and this one too in the second.     *)
Between == step \in {"connect", "after", "record"} \/ Talking

SnapshotsOK ==
  /\ Between =>
       (before # NoSnapshot =>
          before = [k \in Counters |-> Cardinality(OtherMovers(k))])
  /\ step = "record" =>
       (after # NoSnapshot => after = [k \in Counters |-> Cardinality(Movers(k))])

TypeInv == TypeOK /\ ConnOK /\ SegmentsOK
SilentInv == OthersSilent /\ Outwaited /\ HurtIsClosed
CountInv == FreshOK /\ SnapshotsOK /\ DeltaIsOwn
IInv == TypeInv /\ SilentInv /\ CountInv
-----------------------------------------------------------------------------
(* What every script is made of. *)
LEMMA ScriptShape ==
  ASSUME NEW c \in Cases, NEW n \in Nat
  PROVE  LET s == ScriptOf(c, n)
         IN  /\ Len(s.segments) \in 1..3
             /\ \A i \in 1..Len(s.segments) : /\ s.segments[i].brings \in Brought
                                              /\ s.segments[i].sleep \in {0, 2, n}
             /\ s.shut \in BOOLEAN
             /\ s.pre \in {0, 1}
<1> DEFINE Shaped(s) ==
      /\ Len(s.segments) \in 1..3
      /\ \A i \in 1..Len(s.segments) : /\ s.segments[i].brings \in Brought
                                       /\ s.segments[i].sleep \in {0, 2, n}
      /\ s.shut \in BOOLEAN
      /\ s.pre \in {0, 1}
<1>1. ASSUME NEW b \in Brought, NEW w \in {0, 2, n}, NEW shut \in BOOLEAN, NEW pre \in {0, 1}
      PROVE  Shaped(Script(<<Segment(b, w)>>, shut, pre))
  BY DEF Script, Segment
<1>2. CASE c = 7
  <2>1. ScriptOf(c, n) = Script(<<Segment("head", 0), Segment("part", n), Segment("rest", 0)>>,
                                FALSE, 0)
    BY <1>2 DEF ScriptOf
  <2> QED
    BY <2>1 DEF Script, Segment, Brought
<1>3. CASE c # 7
  <2>1. CASE c = 1
    <3>1. ScriptOf(c, n) = Script(<<Segment("request", 0)>>, FALSE, 0)
      BY <2>1 DEF ScriptOf
    <3>2. "request" \in Brought
      BY DEF Brought
    <3> QED
      BY <1>1, <3>1, <3>2
  <2>2. CASE c = 2
    <3>1. ScriptOf(c, n) = Script(<<Segment("partial", 2)>>, FALSE, 0)
      BY <2>2 DEF ScriptOf
    <3>2. "partial" \in Brought
      BY DEF Brought
    <3> QED
      BY <1>1, <3>1, <3>2
  <2>3. CASE c = 3
    <3>1. ScriptOf(c, n) = Script(<<Segment("head", 2)>>, FALSE, 0)
      BY <2>3 DEF ScriptOf
    <3>2. "head" \in Brought
      BY DEF Brought
    <3> QED
      BY <1>1, <3>1, <3>2
  <2>4. CASE c = 4
    <3>1. ScriptOf(c, n) = Script(<<Segment("head", 0)>>, TRUE, 1)
      BY <2>4 DEF ScriptOf
    <3>2. "head" \in Brought
      BY DEF Brought
    <3> QED
      BY <1>1, <3>1, <3>2
  <2>5. CASE c \in {5, 6}
    <3>1. ScriptOf(c, n) = Script(<<Segment("head", 0)>>, TRUE, 0)
      <4>1. CASE c = 5
        BY <4>1 DEF ScriptOf
      <4>2. CASE c = 6
        BY <4>2 DEF ScriptOf
      <4> QED
        BY <2>5, <4>1, <4>2
    <3>2. "head" \in Brought
      BY DEF Brought
    <3> QED
      BY <1>1, <3>1, <3>2
  <2>6. CASE c = 8
    <3>1. ScriptOf(c, n) = Script(<<Segment("malformed", 0)>>, TRUE, 0)
      BY <2>6 DEF ScriptOf
    <3>2. "malformed" \in Brought
      BY DEF Brought
    <3> QED
      BY <1>1, <3>1, <3>2
  <2> QED
    BY <1>3, <2>1, <2>2, <2>3, <2>4, <2>5, <2>6 DEF Cases
<1> QED
  BY <1>2, <1>3

(* The present case is one of the selected ones. *)
LEMMA CaseIsCase ==
  ASSUME turn \in DOMAIN Selected
  PROVE  case \in Cases
  BY RawSocketAssumption DEF case, Cases

(* A counter is moved by the present case, or by the others alone. *)
LEMMA MoversSplit ==
  ASSUME case \in Cases, NEW k
  PROVE  /\ Cardinality(OtherMovers(k)) \in Nat
         /\ Cardinality(Movers(k))
              = Cardinality(OtherMovers(k)) + (IF k \in caused[case] THEN 1 ELSE 0)
<1>1. IsFiniteSet(Cases)
  BY FS_Interval, 1 \in Int, 8 \in Int DEF Cases
<1>2. OtherMovers(k) \in SUBSET Cases
  BY DEF OtherMovers
<1>3. IsFiniteSet(OtherMovers(k))
  BY <1>1, <1>2, FS_Subset
<1>4. Cardinality(OtherMovers(k)) \in Nat
  BY <1>3, FS_CardinalityType
<1>5. CASE k \in caused[case]
  <2>1. Movers(k) = OtherMovers(k) \cup {case}
    BY <1>5 DEF Movers, OtherMovers
  <2>2. case \notin OtherMovers(k)
    BY DEF OtherMovers
  <2>3. Cardinality(OtherMovers(k) \cup {case}) = Cardinality(OtherMovers(k)) + 1
    BY <1>3, <2>2, FS_AddElement
  <2> QED
    BY <1>4, <1>5, <2>1, <2>3
<1>6. CASE k \notin caused[case]
  <2>1. Movers(k) = OtherMovers(k)
    BY <1>6 DEF Movers, OtherMovers
  <2> QED
    BY <1>4, <1>6, <2>1
<1> QED
  BY <1>4, <1>5, <1>6
-----------------------------------------------------------------------------
(* What the verifier runs at present. *)
LEMMA Present ==
  ASSUME TypeOK
  PROVE  /\ case \in Cases
         /\ Len(script.segments) \in 1..3
         /\ \A i \in 1..Len(script.segments) : /\ script.segments[i].brings \in Brought
                                               /\ script.segments[i].sleep \in {0, 2, slow}
         /\ script.shut \in BOOLEAN
         /\ script.pre \in {0, 1}
<1>1. case \in Cases
  BY CaseIsCase DEF TypeOK
<1>2. slow \in Nat
  BY RawSocketAssumption DEF TypeOK
<1> QED
  BY <1>1, <1>2, ScriptShape DEF script

(* One connection changes, and is one still. *)
LEMMA ConnUpdated ==
  ASSUME ConnOK, NEW c \in Cases, NEW r \in Connections, conn' = [conn EXCEPT ![c] = r]
  PROVE  ConnOK'
  BY DEF ConnOK

(* What the steps do to a connection leaves it one. *)
LEMMA ConnectionFields ==
  ASSUME NEW r \in Connections
  PROVE  /\ \A s \in States, n \in Nat : [r EXCEPT !.state = s, !.since = n] \in Connections
         /\ \A s \in States, a \in Replies : [r EXCEPT !.state = s, !.reply = a] \in Connections
         /\ \A b \in BOOLEAN : [r EXCEPT !.gone = b] \in Connections
         /\ \A n \in Nat : [r EXCEPT !.since = n] \in Connections
         /\ \A x \in Brought, b \in BOOLEAN :
              [r EXCEPT !.got = @ \cup {x}, !.since = 0, !.hurt = b] \in Connections
  BY DEF Connections

LEMMA ConnStep ==
  ASSUME TypeOK, ConnOK, SegmentsOK, [Next]_vars
  PROVE  ConnOK'
<1>1. case \in Cases
  BY Present
<1>2. \A c \in Cases : conn[c] \in Connections
  BY DEF ConnOK
<1>3. CASE UNCHANGED conn
  BY <1>3 DEF ConnOK
<1>4. CASE Connect
  <2>1. [NoConnection EXCEPT !.state = "head"] \in Connections
    BY DEF NoConnection, Connections, States, Replies
  <2> QED
    BY <1>1, <1>4, <2>1, ConnUpdated DEF Connect
<1>5. ASSUME NEW b \in BOOLEAN, conn' = [conn EXCEPT ![case] = [@ EXCEPT !.gone = b]]
      PROVE  ConnOK'
  <2>1. [conn[case] EXCEPT !.gone = b] \in Connections
    BY <1>1, <1>2, ConnectionFields
  <2>2. conn' = [conn EXCEPT ![case] = [conn[case] EXCEPT !.gone = b]]
    BY <1>1, <1>5
  <2> QED
    BY <1>1, <2>1, <2>2, ConnUpdated
<1>6. CASE WriteSegment
  <2> DEFINE x == script.segments[written + 1].brings
             b == Current.hurt \/ Current.state = "closed"
             r == [conn[case] EXCEPT !.got = @ \cup {x}, !.since = 0, !.hurt = b]
  <2>1. x \in Brought
    BY <1>6, Present DEF WriteSegment, TypeOK
  <2>2. b \in BOOLEAN
    OBVIOUS
  <2>3. r \in Connections
    <3> HIDE DEF x, b
    <3> QED
      BY <1>1, <1>2, <2>1, <2>2, ConnectionFields
  <2>4. conn' = [conn EXCEPT ![case] = r]
    BY <1>1, <1>6 DEF WriteSegment, Current
  <2> QED
    BY <1>1, <2>3, <2>4, ConnUpdated
<1>7. CASE Errs
  BY <1>5, <1>7 DEF Errs
<1>8. CASE ShutDown
  BY <1>5, <1>8, Present DEF ShutDown
<1>9. ASSUME NEW t \in BOOLEAN, ReadReturns(t)
      PROVE  ConnOK'
  <2> DEFINE b == conn[case].gone \/ step = "read"
  <2>1. conn' = [conn EXCEPT ![case] = [@ EXCEPT !.gone = b]]
    BY <1>1, <1>9 DEF ReadReturns
  <2>2. b \in BOOLEAN
    OBVIOUS
  <2> HIDE DEF b
  <2> QED
    BY <1>5, <2>1, <2>2
<1>10. ASSUME NEW c \in Cases, HandlerStarts(c)
       PROVE  ConnOK'
  <2>1. [conn[c] EXCEPT !.state = "body", !.since = 0] \in Connections
    BY <1>2, ConnectionFields DEF States
  <2>2. conn' = [conn EXCEPT ![c] = [conn[c] EXCEPT !.state = "body", !.since = 0]]
    BY <1>10 DEF HandlerStarts
  <2> QED
    BY <2>1, <2>2, ConnUpdated
<1>11. ASSUME NEW c \in Cases, NEW status \in Replies,
              conn' = [conn EXCEPT ![c] = [@ EXCEPT !.state = "closed", !.reply = status]]
       PROVE  ConnOK'
  <2>1. [conn[c] EXCEPT !.state = "closed", !.reply = status] \in Connections
    BY <1>2, ConnectionFields DEF States
  <2>2. conn' = [conn EXCEPT ![c] = [conn[c] EXCEPT !.state = "closed", !.reply = status]]
    BY <1>11
  <2> QED
    BY <2>1, <2>2, ConnUpdated
<1>12. CASE Tick
  <2>1. \A c \in Cases : conn[c].since + 1 \in Nat
    BY <1>2 DEF Connections
  <2>2. \A c \in Cases : [conn[c] EXCEPT !.since = @ + 1] \in Connections
    BY <1>2, <2>1, ConnectionFields
  <2> QED
    BY <1>2, <1>12, <2>2 DEF Tick, ConnOK
<1>13. CASE VerifierStep
  BY <1>3, <1>4, <1>6, <1>7, <1>8, <1>9, <1>13
     DEF VerifierStep, WriteRequestFile, FileFails, Snapshot, Keeps, Refused, WriteFails, Slept,
         AllWritten, ReadBytes, ReadEnd, ReadTimesOut, ReadFails, WriteResult, serverVars
<1>14. ASSUME NEW c \in Cases, HandlerStarts(c) \/ Rejected(c) \/ HandlerAnswers(c)
       PROVE  ConnOK'
  <2>1. CASE Rejected(c) \/ HandlerAnswers(c)
    <3>1. PICK status \in Replies :
            conn' = [conn EXCEPT ![c] = [@ EXCEPT !.state = "closed", !.reply = status]]
      BY <2>1 DEF Rejected, HandlerAnswers, Answers, Replies
    <3> QED
      BY <1>11, <3>1
  <2> QED
    BY <1>10, <1>14, <2>1
<1> QED
  BY <1>3, <1>12, <1>13, <1>14 DEF Next, Quiet, vars, serverVars

LEMMA SegmentsStep ==
  ASSUME TypeOK, SegmentsOK, [Next]_vars
  PROVE  SegmentsOK'
<1>1. written \in Nat /\ Len(script.segments) \in 1..3
  <2>1. Len(script.segments) \in 1..3
    BY Present
  <2> QED
    BY <2>1 DEF TypeOK
<1>2. CASE WriteSegment
  <2>1. script' = script
    BY <1>2 DEF WriteSegment, script, case
  <2> QED
    BY <1>1, <1>2, <2>1 DEF WriteSegment, SegmentsOK
<1>3. CASE Connect
  <2>1. script' = script
    BY <1>3 DEF Connect, script, case
  <2> QED
    BY <1>1, <1>3, <2>1 DEF Connect, Goto, SegmentsOK
<1>4. CASE WriteResult
  BY <1>4 DEF WriteResult, Goto, SegmentsOK, Talking
<1>5. CASE UNCHANGED <<slow, turn, written>> /\ (Talking' => Talking) /\ (step' = "sleep" => step = "sleep")
  <2>1. script' = script
    BY <1>5 DEF script, case
  <2> QED
    BY <1>5, <2>1 DEF SegmentsOK
<1>6. CASE VerifierStep
  BY <1>2, <1>3, <1>4, <1>5, <1>6
     DEF VerifierStep, WriteRequestFile, FileFails, Snapshot, Keeps, Refused, Errs, WriteFails,
         Slept, AllWritten, ShutDown, ReadBytes, ReadEnd, ReadTimesOut, ReadFails, ReadReturns,
         Reading, Talking, Goto
<1>7. ASSUME NEW c \in Cases, HandlerStarts(c) \/ Rejected(c) \/ HandlerAnswers(c)
      PROVE  SegmentsOK'
  BY <1>5, <1>7 DEF HandlerStarts, Rejected, HandlerAnswers, Answers, verifierVars, Talking
<1> QED
  BY <1>5, <1>6, <1>7 DEF Next, Tick, Quiet, vars, verifierVars, Talking

(* Every step keeps the variables in their ranges. *)
LEMMA TypeOKStep ==
  ASSUME TypeOK, ConnOK, SegmentsOK, [Next]_vars
  PROVE  TypeOK'
<1>1. slow \in Nat \ {0} /\ MaxFaults \in Nat /\ ReadTimeout \in Nat
  BY RawSocketAssumption DEF TypeOK
<1>2. case \in Cases /\ Len(script.segments) \in 1..3
  BY Present
<1>3a. ASSUME UNCHANGED <<slow, turn, written, response, results, caused>>, step # "end",
             step' \in {"connect", "record", "shutdown", "after"}, wait' = 0, faults' \in 0..MaxFaults
      PROVE  TypeOK'
  BY <1>1, <1>3a DEF TypeOK
<1>3b. ASSUME NEW t \in BOOLEAN, ReadReturns(t), Reading
      PROVE  TypeOK'
  <2>1. UNCHANGED <<slow, turn, written, response, results, caused, faults>>
    BY <1>3b DEF ReadReturns
  <2>2. step # "end" /\ step' \in {"shutdown", "after"} /\ wait' = 0
    BY <1>3b DEF ReadReturns, Reading, Goto
  <2>3. faults' \in 0..MaxFaults
    BY <2>1 DEF TypeOK
  <2> QED
    BY <1>3a, <2>1, <2>2, <2>3
<1> USE <1>1, <1>2 DEF TypeOK, Goto, serverVars
<1>3. CASE WriteRequestFile
  BY <1>3 DEF WriteRequestFile
<1>4. CASE FileFails
  BY <1>4 DEF FileFails
<1>5. CASE Snapshot
  <2>1. PICK s : Keeps(s) /\ faults' \in 0..MaxFaults
    BY <1>5 DEF Snapshot
  <2> QED
    BY <2>1 DEF Keeps
<1>6. CASE Connect
  BY <1>6 DEF Connect
<1>7. CASE Refused
  BY <1>7 DEF Refused, Errs
<1>8. CASE WriteSegment
  BY <1>8 DEF WriteSegment
<1>9. CASE WriteFails
  BY <1>9 DEF WriteFails, Errs
<1>10. CASE Slept
  BY <1>10 DEF Slept
<1>11. CASE AllWritten
  BY <1>11 DEF AllWritten
<1>12. CASE ShutDown
  BY <1>12 DEF ShutDown
<1>13. CASE ReadBytes
  <2>1. conn[case].reply \in Replies
    BY DEF ConnOK, Connections
  <2> QED
    BY <1>13, <2>1 DEF ReadBytes, Current, Replies
<1>14. CASE ReadEnd
  BY <1>3b, <1>14 DEF ReadEnd
<1>15. CASE ReadTimesOut
  BY <1>3b, <1>15 DEF ReadTimesOut
<1>16. CASE ReadFails
  BY <1>16 DEF ReadFails, Errs, Reading
<1>17. CASE WriteResult
  <2>0. UNCHANGED <<slow, written, response, faults, caused>> /\ wait' = 0
    BY <1>17 DEF WriteResult
  <2>1. DOMAIN results' = DOMAIN results \cup {Selected[turn]} /\ slow' = slow /\ caused' = caused
    BY <1>17 DEF WriteResult, case
  <2>2. DOMAIN results = {Selected[i] : i \in 1..(turn - 1)}
    BY <1>17 DEF WriteResult
  <2>3. turn \in 1..Len(Selected) /\ Len(Selected) \in Nat
    BY RawSocketAssumption
  <2>4. DOMAIN results' = {Selected[i] : i \in 1..turn}
    BY <2>1, <2>2, <2>3
  <2>5. CASE turn < Len(Selected)
    <3>1. turn' = turn + 1 /\ step' = "file"
      BY <1>17, <2>5 DEF WriteResult
    <3>2. turn' \in DOMAIN Selected /\ turn' - 1 = turn
      BY <2>3, <2>5, <3>1, RawSocketAssumption
    <3>3. DOMAIN results' = {Selected[i] : i \in 1..(turn' - 1)}
      BY <2>4, <3>2
    <3> QED
      BY <2>0, <3>1, <3>2, <3>3
  <2>6. CASE ~(turn < Len(Selected))
    <3>1. turn' = turn /\ step' = "end"
      BY <1>17, <2>6 DEF WriteResult
    <3>2. DOMAIN results' = {Selected[i] : i \in 1..turn'}
      BY <2>4, <3>1
    <3> QED
      BY <2>0, <3>1, <3>2
  <2> QED
    BY <2>5, <2>6
<1>18. CASE Tick
  <2>1. step = "sleep" \/ Reading
    BY <1>18 DEF Tick, VerifierWaits
  <2>2. wait + 1 \in 0..ReadTimeout \cup 0..slow
    <3>1. CASE step = "sleep" /\ wait < script.segments[written].sleep
      <4>1. written \in 1..Len(script.segments)
        BY <3>1 DEF SegmentsOK, Talking
      <4>2. script.segments[written].sleep \in {0, 2, slow}
        BY <4>1, Present
      <4> QED
        BY <3>1, <4>2, RawSocketAssumption
    <3>2. CASE Reading /\ wait < ReadLimit
      <4>1. script.pre \in {0, 1}
        BY Present
      <4>2. ReadLimit \in {0, 1, ReadTimeout}
        BY <4>1 DEF ReadLimit
      <4> QED
        BY <3>2, <4>2, RawSocketAssumption
    <3> QED
      BY <1>18, <3>1, <3>2 DEF Tick, VerifierWaits
  <2> QED
    BY <1>18, <2>1, <2>2 DEF Tick, Reading
<1>19. ASSUME NEW c \in Cases, HandlerStarts(c)
      PROVE  TypeOK'
  BY <1>19 DEF HandlerStarts, Counters, verifierVars
<1>20. ASSUME NEW c \in Cases, Rejected(c)
      PROVE  TypeOK'
  BY <1>20 DEF Rejected, verifierVars
<1>21. ASSUME NEW c \in Cases, HandlerAnswers(c)
      PROVE  TypeOK'
  <2>1. PICK k \in SUBSET Counters : caused' = [caused EXCEPT ![c] = @ \cup k]
    BY <1>21 DEF HandlerAnswers, Answers, Counters
  <2>2. UNCHANGED verifierVars
    BY <1>21 DEF HandlerAnswers, Answers
  <2> QED
    BY <2>1, <2>2 DEF verifierVars
<1>22. CASE UNCHANGED vars
  BY <1>22 DEF vars, verifierVars
<1> QED
  BY <1>3, <1>4, <1>5, <1>6, <1>7, <1>8, <1>9, <1>10, <1>11, <1>12, <1>13, <1>14, <1>15,
     <1>16, <1>17, <1>18, <1>19, <1>20, <1>21, <1>22
     DEF Next, VerifierStep, Quiet

(* A connection is left with no handler on it: the verifier waits longer    *)
(* than the receiver.                                                      *)
LEMMA SilentStep ==
  ASSUME TypeInv, SilentInv, [Next]_vars
  PROVE  SilentInv'
<1>1. /\ case \in Cases
      /\ \A c \in Cases : conn[c] \in Connections
      /\ wait \in Nat /\ slow \in Nat /\ Idle \in Nat \ {0} /\ ReadTimeout \in Nat
      /\ ReadTimeout > Idle
  <2>1. case \in Cases
    BY Present DEF TypeInv
  <2>2. wait \in Nat
    BY RawSocketAssumption DEF TypeInv, TypeOK
  <2>3. \A c \in Cases : conn[c] \in Connections
    BY DEF TypeInv, ConnOK
  <2> QED
    BY <2>1, <2>2, <2>3, RawSocketAssumption DEF TypeInv, TypeOK
<1>2. ASSUME UNCHANGED <<turn, conn>>, wait' \in {0, wait}, Talking => Talking'
      PROVE  SilentInv'
  <2>1. case' = case
    BY <1>2 DEF case
  <2>2. OthersSilent'
    BY <1>2, <2>1 DEF SilentInv, OthersSilent, Silent, Reached, HasHead, NoToken
  <2>3. Outwaited'
    BY <1>1, <1>2, <2>1 DEF SilentInv, Outwaited, Reached, HasHead, NoToken, Current, Connections
  <2>4. HurtIsClosed'
    BY <1>2 DEF SilentInv, HurtIsClosed
  <2> QED
    BY <2>2, <2>3, <2>4 DEF SilentInv
<1>3. ASSUME NEW b, UNCHANGED turn, conn' = [conn EXCEPT ![case].gone = b], wait' \in {0, wait},
             (Talking => Talking') \/ Silent(case)
      PROVE  SilentInv'
  <2>1. \A c \in Cases : /\ conn'[c].state = conn[c].state
                         /\ conn'[c].since = conn[c].since
                         /\ conn'[c].got = conn[c].got
                         /\ conn'[c].hurt = conn[c].hurt
    BY <1>1, <1>3 DEF ConnOK, Connections, TypeInv
  <2>2. case' = case
    BY <1>3 DEF case
  <2>3. \A c \in Cases : Silent(c)' = Silent(c) /\ Reached(c)' = Reached(c)
    BY <2>1 DEF Silent, Reached, HasHead, NoToken
  <2>4. OthersSilent'
    BY <1>3, <2>2, <2>3 DEF SilentInv, OthersSilent
  <2>5. Outwaited'
    BY <1>1, <1>3, <2>1, <2>2 DEF SilentInv, Outwaited, Reached,
                                  HasHead, NoToken, Current, Connections
  <2>6. HurtIsClosed'
    BY <2>1 DEF SilentInv, HurtIsClosed
  <2> QED
    BY <2>4, <2>5, <2>6 DEF SilentInv
<1>4. CASE Errs /\ Silent(case)
  BY <1>3, <1>4 DEF Errs, Goto
<1>5. CASE Connect
  <2>1. conn' = [conn EXCEPT ![case] = [NoConnection EXCEPT !.state = "head"]] /\ turn' = turn
    BY <1>5 DEF Connect
  <2>2. case' = case
    BY <2>1 DEF case
  <2> QED
    BY <1>1, <1>5, <2>1, <2>2
       DEF TypeInv, ConnOK, SilentInv, OthersSilent, Outwaited, HurtIsClosed, Silent, Reached,
           HasHead, NoToken,
           Current, Talking, NoConnection, Connect
<1>6. CASE WriteSegment
  <2>1. case' = case /\ wait' = 0 /\ Talking'
    BY <1>6 DEF WriteSegment, case, Goto, Talking
  <2>2. \A c \in Cases : c # case => conn'[c] = conn[c]
    BY <1>6 DEF WriteSegment
  <2>3. /\ conn'[case].state = conn[case].state
        /\ conn'[case].since = 0
        /\ conn'[case].hurt => conn[case].hurt \/ conn[case].state = "closed"
    BY <1>1, <1>6 DEF WriteSegment, Current, TypeInv, ConnOK, Connections
  <2>4. OthersSilent'
    BY <2>1, <2>2 DEF SilentInv, OthersSilent, Silent, Reached, HasHead, NoToken
  <2>5. Outwaited'
    BY <1>1, <2>1, <2>3 DEF Outwaited, Current
  <2>6. HurtIsClosed'
    <3> SUFFICES ASSUME NEW c \in Cases, conn'[c].hurt
                 PROVE  conn'[c].state = "closed"
      BY DEF HurtIsClosed
    <3>1. CASE c = case
      BY <2>3, <3>1 DEF SilentInv, HurtIsClosed
    <3>2. CASE c # case
      BY <2>2, <3>2 DEF SilentInv, HurtIsClosed
    <3> QED
      BY <3>1, <3>2
  <2> QED
    BY <2>4, <2>5, <2>6 DEF SilentInv
<1>7. CASE ReadTimesOut
  <2>1. CASE step = "preread"
    BY <1>3, <1>7, <2>1 DEF ReadTimesOut, ReadReturns, Goto, Talking
  <2>2. CASE step = "read"
    <3>1. wait > Idle /\ Current.state # "closed"
      BY <1>1, <1>7, <2>2 DEF ReadTimesOut, ReadLimit
    <3>2. Silent(case)
      BY <1>1, <3>1 DEF SilentInv, Outwaited, Silent, Current, Connections
    <3> QED
      BY <1>3, <1>7, <3>2 DEF ReadTimesOut, ReadReturns, Goto
  <2> QED
    BY <1>7, <2>1, <2>2 DEF ReadTimesOut, Reading
<1>8. CASE ReadEnd
  <2>1. Silent(case)
    BY <1>8 DEF ReadEnd, Silent, Reached, HasHead, NoToken, Current
  <2> QED
    BY <1>3, <1>8, <2>1 DEF ReadEnd, ReadReturns, Goto
<1>9. CASE Refused \/ WriteFails \/ ReadFails
  <2>1. Silent(case)
    BY <1>1, <1>9 DEF Refused, WriteFails, ReadFails, SilentInv, OthersSilent, HurtIsClosed,
                      Talking, Silent, Reached, HasHead, NoToken, Current
  <2> QED
    BY <1>4, <1>9, <2>1 DEF Refused, WriteFails, ReadFails
<1>10. CASE ShutDown
  BY <1>3, <1>10 DEF ShutDown, Goto, Talking
<1>11. CASE WriteResult
  <2>1. ~Talking /\ ~Talking' /\ conn' = conn /\ case' \in Cases
    <3>1. (TypeOK /\ ConnOK /\ SegmentsOK)'
      BY TypeOKStep, ConnStep, SegmentsStep DEF TypeInv
    <3>2. turn' \in DOMAIN Selected
      BY <3>1 DEF TypeOK
    <3> QED
      BY <1>11, <3>2, RawSocketAssumption DEF WriteResult, Talking, Goto, serverVars, case, Cases
  <2> QED
    BY <2>1 DEF SilentInv, OthersSilent, Outwaited, HurtIsClosed, Silent, Reached,
                HasHead, NoToken, Current
<1>12. CASE VerifierStep
  BY <1>2, <1>5, <1>6, <1>7, <1>8, <1>9, <1>10, <1>11, <1>12
     DEF VerifierStep, WriteRequestFile, FileFails, Snapshot, Keeps, Slept, AllWritten, ReadBytes,
         Goto, Talking, serverVars
<1>13. ASSUME NEW c \in Cases, HandlerStarts(c)
       PROVE  SilentInv'
  <2>1. c = case /\ Talking /\ Reached(c)
    BY <1>13 DEF HandlerStarts, SilentInv, OthersSilent, Silent, Reached, HasHead, NoToken
  <2>2. conn'[c].state = "body" /\ conn'[c].since = 0 /\ conn'[c].hurt = conn[c].hurt
    BY <1>1, <1>13 DEF HandlerStarts, TypeInv, ConnOK, Connections
  <2>3. \A d \in Cases : d # c => conn'[d] = conn[d]
    BY <1>13 DEF HandlerStarts
  <2>4. case' = case /\ wait' = wait /\ Talking'
    BY <1>13, <2>1 DEF HandlerStarts, verifierVars, case, Talking
  <2>5. wait = 0 /\ ~conn[c].hurt
    BY <1>1, <2>1 DEF SilentInv, Outwaited, HurtIsClosed, Reached, HasHead, NoToken
  <2> QED
    BY <1>1, <2>1, <2>2, <2>3, <2>4, <2>5
       DEF SilentInv, OthersSilent, Outwaited, HurtIsClosed, Silent, Reached,
           HasHead, NoToken, Current
<1>14. ASSUME NEW c \in Cases, Rejected(c) \/ HandlerAnswers(c)
       PROVE  SilentInv'
  <2>0. PICK status \in Replies :
          conn' = [conn EXCEPT ![c] = [@ EXCEPT !.state = "closed", !.reply = status]]
    BY <1>14 DEF Rejected, HandlerAnswers, Answers, Replies
  <2>1. conn'[c].state = "closed"
    BY <1>1, <2>0 DEF TypeInv, ConnOK, Connections
  <2>2. \A d \in Cases : d # c => conn'[d] = conn[d]
    BY <2>0
  <2>3. case' = case /\ wait' = wait /\ Talking' = Talking
    BY <1>14 DEF Rejected, HandlerAnswers, Answers, verifierVars, case, Talking
  <2> QED
    BY <1>1, <2>1, <2>2, <2>3
       DEF SilentInv, OthersSilent, Outwaited, HurtIsClosed, Silent, Reached,
           HasHead, NoToken, Current
<1>15. CASE Tick
  <2>1. case' = case /\ wait' = wait + 1 /\ Talking' = Talking
    BY <1>15 DEF Tick, case, Talking
  <2>2. \A c \in Cases :
          /\ conn'[c].state = conn[c].state
          /\ conn'[c].got = conn[c].got
          /\ conn'[c].hurt = conn[c].hurt
          /\ conn[c].state = "body" => conn'[c].since = conn[c].since + 1
    BY <1>1, <1>15 DEF Tick, Connections
  <2>3. /\ ~Reached(case)
        /\ Current.state = "body" => Current.since < Idle
    BY <1>1, <1>15 DEF Tick, ReceiverWaits, Reached, HasHead, NoToken, Current
  <2>4. \A c \in Cases : conn[c].since \in Nat
    BY <1>1 DEF Connections
  <2> QED
    BY <1>1, <2>1, <2>2, <2>3, <2>4
       DEF SilentInv, OthersSilent, Outwaited, HurtIsClosed, Silent, Reached,
           HasHead, NoToken, Current
<1>16. CASE UNCHANGED vars
  BY <1>2, <1>16 DEF vars, verifierVars, serverVars, Talking
<1> QED
  BY <1>12, <1>13, <1>14, <1>15, <1>16 DEF Next, Quiet

(* With both snapshots there, they differ by what the present case did.     *)
LEMMA DeltaOfCase ==
  ASSUME TypeInv, SnapshotsOK, step = "record", Delta # NoSnapshot, NEW k \in Counters
  PROVE  Delta[k] = IF k \in caused[case] THEN 1 ELSE 0
<1>1. before # NoSnapshot /\ after # NoSnapshot
  BY DEF Delta
<1>2. before[k] = Cardinality(OtherMovers(k)) /\ after[k] = Cardinality(Movers(k))
  BY <1>1 DEF SnapshotsOK, Between
<1>3. Delta[k] = after[k] - before[k]
  BY <1>1 DEF Delta
<1>4. case \in Cases
  BY Present DEF TypeInv
<1> QED
  BY <1>2, <1>3, <1>4, MoversSplit

(* Each snapshot and each record is of this case's own making. *)
LEMMA CountStep ==
  ASSUME TypeInv, SilentInv, CountInv, [Next]_vars
  PROVE  CountInv'
<1>1. case \in Cases /\ turn \in DOMAIN Selected
  BY Present DEF TypeInv, TypeOK
<1>2. ASSUME UNCHANGED <<turn, caused, before, after, results>>, Unconnected' => Unconnected,
             Between' => Between, step' = "record" => step = "record"
      PROVE  CountInv'
  <2>1. \A k : OtherMovers(k)' = OtherMovers(k) /\ Movers(k)' = Movers(k)
    BY <1>2 DEF OtherMovers, Movers, case
  <2>2. FreshOK'
    BY <1>2 DEF CountInv, FreshOK
  <2>3. SnapshotsOK'
    BY <1>2, <2>1 DEF CountInv, SnapshotsOK
  <2>4. DeltaIsOwn'
    BY <1>2 DEF CountInv, DeltaIsOwn
  <2> QED
    BY <2>2, <2>3, <2>4 DEF CountInv
<1>3. CASE Snapshot
  <2>1. PICK s \in {Shown, NoSnapshot} : Keeps(s)
    BY <1>3 DEF Snapshot
  <2>2. UNCHANGED <<turn, caused, results>>
    BY <2>1 DEF Keeps, serverVars
  <2>3. \A k : OtherMovers(k)' = OtherMovers(k) /\ Movers(k)' = Movers(k)
    BY <2>2 DEF OtherMovers, Movers, case
  <2>4. FreshOK' /\ DeltaIsOwn'
    BY <2>1, <2>2 DEF Keeps, Goto, CountInv, FreshOK, Unconnected, DeltaIsOwn
  <2>5. s # NoSnapshot => s = [k \in Counters |-> Cardinality(Movers(k))]
    BY DEF Shown, Movers
  <2>6. CASE step = "before"
    <3>1. caused[case] = {}
      BY <1>1, <2>6 DEF CountInv, FreshOK, Unconnected, case
    <3>2. \A k : Movers(k) = OtherMovers(k)
      BY <3>1 DEF Movers, OtherMovers
    <3>3. before' = s /\ step' = "connect"
      BY <2>1, <2>6 DEF Keeps, Goto
    <3> QED
      BY <2>3, <2>4, <2>5, <3>2, <3>3 DEF CountInv, SnapshotsOK
  <2>7. CASE step = "after"
    <3>1. after' = s /\ before' = before /\ step' = "record"
      BY <2>1, <2>7 DEF Keeps, Goto
    <3> QED
      BY <2>3, <2>4, <2>5, <2>7, <3>1 DEF CountInv, SnapshotsOK, Between
  <2> QED
    BY <2>1, <2>6, <2>7 DEF Keeps
<1>4. CASE WriteResult
  <2>1. UNCHANGED <<caused, before, after>> /\ ~Between' /\ step' # "record"
    BY <1>4 DEF WriteResult, Goto, Between, Talking, serverVars
  <2>2. FreshOK'
    BY <1>1, <1>4, <2>1, RawSocketAssumption
       DEF WriteResult, Goto, CountInv, FreshOK, Unconnected
  <2>3. SnapshotsOK'
    BY <1>4, <2>1 DEF WriteResult, Goto, SnapshotsOK, Between, Talking
  <2>4. ASSUME NEW k \in Counters, Delta # NoSnapshot
        PROVE  Delta[k] = IF k \in caused[case] THEN 1 ELSE 0
    BY <1>4, <2>4, DeltaOfCase DEF WriteResult, CountInv
  <2>5. Result.delta = Delta
    BY DEF Result
  <2>6. DeltaIsOwn'
    BY <1>4, <2>1, <2>4, <2>5 DEF WriteResult, CountInv, DeltaIsOwn
  <2> QED
    BY <2>2, <2>3, <2>6 DEF CountInv
<1>5. ASSUME NEW c \in Cases, HandlerStarts(c) \/ HandlerAnswers(c)
      PROVE  CountInv'
  <2>1. c = case /\ Talking
    BY <1>5 DEF HandlerStarts, HandlerAnswers, SilentInv, OthersSilent, Silent, Reached
  <2>2. UNCHANGED <<turn, step, before, after, results>>
    BY <1>5 DEF HandlerStarts, HandlerAnswers, Answers, verifierVars
  <2>3. \A d \in Cases : d # case => caused'[d] = caused[d]
    <3>1. \E k : caused' = [caused EXCEPT ![c] = k]
      <4>1. CASE HandlerStarts(c)
        BY <4>1 DEF HandlerStarts
      <4>2. CASE HandlerAnswers(c)
        BY <4>2 DEF HandlerAnswers, Answers
      <4> QED
        BY <1>5, <4>1, <4>2
    <3> QED
      BY <1>1, <2>1, <3>1 DEF TypeInv, TypeOK
  <2>4. \A i \in DOMAIN Selected : i # turn => Selected[i] \in Cases /\ Selected[i] # case
    BY <1>1, RawSocketAssumption DEF case, Cases
  <2>5. FreshOK'
    BY <2>1, <2>2, <2>3, <2>4, RawSocketAssumption
       DEF CountInv, FreshOK, Unconnected, Talking
  <2>6. \A k : OtherMovers(k)' = OtherMovers(k)
    BY <2>2, <2>3 DEF OtherMovers, case
  <2>7. SnapshotsOK'
    BY <2>1, <2>2, <2>6 DEF CountInv, SnapshotsOK, Between, Talking
  <2>8. \A d \in DOMAIN results : d \in Cases /\ d # case
    <3>1. DOMAIN results = {Selected[i] : i \in 1..(turn - 1)}
      BY <2>1 DEF TypeInv, TypeOK, Talking
    <3>2. turn \in 1..Len(Selected) /\ Len(Selected) \in Nat
      BY <1>1, RawSocketAssumption
    <3>3. \A i \in 1..(turn - 1) : i \in DOMAIN Selected /\ i # turn
      BY <3>2, RawSocketAssumption
    <3> QED
      BY <2>4, <3>1, <3>3
  <2>9. DeltaIsOwn'
    BY <2>2, <2>3, <2>8 DEF CountInv, DeltaIsOwn
  <2> QED
    BY <2>5, <2>7, <2>9 DEF CountInv
<1>6. CASE VerifierStep
  BY <1>2, <1>3, <1>4, <1>6
     DEF VerifierStep, WriteRequestFile, FileFails, Connect, Refused, Errs, WriteSegment,
         WriteFails, Slept, AllWritten, ShutDown, ReadBytes, ReadEnd, ReadTimesOut, ReadFails,
         ReadReturns, Reading, Goto, Unconnected, Between, Talking, serverVars
<1>7. ASSUME NEW c \in Cases, Rejected(c)
      PROVE  CountInv'
  BY <1>2, <1>7 DEF Rejected, verifierVars, Unconnected, Between, Talking
<1>8. CASE Tick \/ UNCHANGED vars
  BY <1>2, <1>8 DEF Tick, vars, verifierVars, serverVars, Unconnected, Between, Talking
<1> QED
  BY <1>5, <1>6, <1>7, <1>8 DEF Next, Quiet
-----------------------------------------------------------------------------
LEMMA Initially ==
  ASSUME Init
  PROVE  IInv
<1>1. turn \in DOMAIN Selected
  BY RawSocketAssumption DEF Init
<1>2. case \in Cases
  BY <1>1, CaseIsCase
<1>3. TypeInv
  <2>1. NoConnection \in Connections
    BY DEF NoConnection, Connections, States, Replies
  <2>2. ConnOK
    BY <2>1 DEF Init, ConnOK
  <2>3. DOMAIN results = {Selected[i] : i \in 1..(IF step = "end" THEN turn ELSE turn - 1)}
    BY DEF Init
  <2>4. TypeOK
    BY <1>1, <2>3, RawSocketAssumption DEF Init, TypeOK
  <2>5. SegmentsOK
    BY DEF Init, SegmentsOK, Talking
  <2> QED
    BY <2>2, <2>4, <2>5 DEF TypeInv
<1>4. SilentInv
  BY <1>2 DEF Init, NoConnection, SilentInv, OthersSilent, Outwaited, HurtIsClosed, Silent,
              Reached, Current
<1>5. CountInv
  <2>1. FreshOK
    BY RawSocketAssumption DEF Init, FreshOK, Cases
  <2>2. SnapshotsOK /\ DeltaIsOwn
    BY DEF Init, SnapshotsOK, Between, Talking, DeltaIsOwn
  <2> QED
    BY <2>1, <2>2 DEF CountInv
<1> QED
  BY <1>3, <1>4, <1>5 DEF IInv

LEMMA Inductive == Spec => []IInv
<1>1. Init => IInv
  BY Initially
<1>2. IInv /\ [Next]_vars => IInv'
  <2> SUFFICES ASSUME IInv, [Next]_vars
               PROVE  IInv'
    OBVIOUS
  <2>1. TypeInv'
    BY TypeOKStep, ConnStep, SegmentsStep DEF IInv, TypeInv
  <2> QED
    BY <2>1, SilentStep, CountStep DEF IInv
<1> QED
  BY <1>1, <1>2, PTL DEF Spec

(* Type correctness, for any cases in any order: every case that is done    *)
(* has its record.                                                         *)
THEOREM TypeCorrect == Spec => []TypeOK
<1>1. IInv => TypeOK
  BY DEF IInv, TypeInv
<1> QED
  BY <1>1, Inductive, PTL

(* Whatever cases are run, the counters recorded with one are those of its  *)
(* own request, errors of its socket included.                             *)
THEOREM RecordsOwnDelta == Spec => []DeltaIsOwn
<1>1. IInv => DeltaIsOwn
  BY DEF IInv, CountInv
<1> QED
  BY <1>1, Inductive, PTL
-----------------------------------------------------------------------------
(* What the receiver has got of the present case is what the verifier has   *)
(* written of it, and it is gone when it has shut its side down.            *)
GotInv ==
  /\ Current.got = {script.segments[i].brings : i \in 1..written}
  /\ Current.gone <=> step = "read" /\ script.shut
  /\ step \in {"preread", "shutdown", "read"} => written = Len(script.segments)
  /\ step = "preread" => case = 4
  /\ step = "sleep" => case \in {2, 3} \/ (case = 7 /\ written = 2)

(* The counters follow the handler, whose answer is in the table.           *)
RowInv ==
  /\ Current.state = "head" => caused[case] = {}
  /\ Current.state = "body" =>
       caused[case] = {"requests_total"} /\ written > 0 /\ case # 2
  /\ Current.state = "closed" => <<Current.reply, caused[case]>> \in Observed(case) /\ case # 2
  /\ Current.state # "none"

(* How long a handler has been idle: it outlives no pause of the verifier   *)
(* that is longer than the idle timeout, and none that is shorter ends it.  *)
IdleInv ==
  /\ Current.state = "body" =>
       /\ step \in {"sleep", "preread"} => Current.since <= wait
       /\ case = 4 /\ ~Current.gone => Current.since <= 1
       /\ case = 4 /\ step = "write" => Current.since = 0
       /\ case \in {5, 6} /\ ~Current.gone => Current.since = 0
       /\ case = 7 /\ written < 3 => Current.since <= slow
  /\ case = 7 /\ Current.state # "closed" /\ (written = 3 \/ (written = 2 /\ step = "write"))
       => slow <= Idle
  /\ case = 4 /\ Current.state = "closed" /\ ~Current.gone => Idle <= 1

ReadInv ==
  /\ ~outcome.error /\ ~outcome.timed_out
  /\ outcome.pre => case = 4
  /\ case = 4 /\ Idle > 1 /\ step \in {"shutdown", "read"} => outcome.pre
  /\ Current.state # "closed" => response = 0

Progress == GotInv /\ RowInv /\ IdleInv /\ ReadInv

(* What a case that ended well has shown. *)
Shows(c, status, timed_out, pre) ==
  /\ <<status, caused[c]>> \in Observed(c)
  /\ timed_out <=> c = 2
  /\ pre => c = 4
  /\ c = 4 /\ Idle > 1 => pre

OutcomeOK == outcome \in [error : BOOLEAN, timed_out : BOOLEAN, pre : BOOLEAN]

TableInv ==
  /\ OutcomeOK
  /\ Talking => Progress
  /\ step \in {"after", "record"} /\ ~outcome.error =>
       Shows(case, response, outcome.timed_out, outcome.pre)
  /\ CasesDistinguished

(* The scripts, case by case. *)
LEMMA Scripts ==
  ASSUME TypeOK
  PROVE  /\ Len(script.segments) = IF case = 7 THEN 3 ELSE 1
         /\ script.segments[1].brings = CASE case = 1 -> "request" [] case = 2 -> "partial"
                                          [] case = 8 -> "malformed" [] OTHER -> "head"
         /\ script.segments[1].sleep = IF case \in {2, 3} THEN 2 ELSE 0
         /\ case = 7 => /\ script.segments[2].brings = "part" /\ script.segments[2].sleep = slow
                        /\ script.segments[3].brings = "rest" /\ script.segments[3].sleep = 0
         /\ script.shut <=> case \in {4, 5, 6, 8}
         /\ script.pre = IF case = 4 THEN 1 ELSE 0
<1>1. case \in {1, 2, 3, 4, 5, 6, 7, 8}
  BY Present DEF Cases
<1>2. CASE case = 7
  <2>1. script = Script(<<Segment("head", 0), Segment("part", slow), Segment("rest", 0)>>, FALSE, 0)
    BY <1>2 DEF script, ScriptOf
  <2> QED
    BY <1>2, <2>1 DEF Script, Segment
<1>3. CASE case = 1
  <2>1. script = Script(<<Segment("request", 0)>>, FALSE, 0)
    BY <1>3 DEF script, ScriptOf
  <2> QED
    BY <1>3, <2>1 DEF Script, Segment
<1>4. CASE case = 2
  <2>1. script = Script(<<Segment("partial", 2)>>, FALSE, 0)
    BY <1>4 DEF script, ScriptOf
  <2> QED
    BY <1>4, <2>1 DEF Script, Segment
<1>5. CASE case = 3
  <2>1. script = Script(<<Segment("head", 2)>>, FALSE, 0)
    BY <1>5 DEF script, ScriptOf
  <2> QED
    BY <1>5, <2>1 DEF Script, Segment
<1>6. CASE case = 4
  <2>1. script = Script(<<Segment("head", 0)>>, TRUE, 1)
    BY <1>6 DEF script, ScriptOf
  <2> QED
    BY <1>6, <2>1 DEF Script, Segment
<1>7. CASE case = 5 \/ case = 6
  <2>1. script = Script(<<Segment("head", 0)>>, TRUE, 0)
    <3>1. CASE case = 5
      BY <3>1 DEF script, ScriptOf
    <3>2. CASE case = 6
      BY <3>2 DEF script, ScriptOf
    <3> QED
      BY <1>7, <3>1, <3>2
  <2>2. /\ script.segments = <<Segment("head", 0)>> /\ script.shut /\ script.pre = 0
        /\ Segment("head", 0).brings = "head" /\ Segment("head", 0).sleep = 0
    BY <2>1 DEF Script, Segment
  <2>3. CASE case = 5
    BY <2>2, <2>3
  <2>4. CASE case = 6
    BY <2>2, <2>4
  <2> QED
    BY <1>7, <2>3, <2>4
<1>8. CASE case = 8
  <2>1. script = Script(<<Segment("malformed", 0)>>, TRUE, 0)
    BY <1>8 DEF script, ScriptOf
  <2> QED
    BY <1>8, <2>1 DEF Script, Segment
<1> QED
  BY <1>1, <1>2, <1>3, <1>4, <1>5, <1>6, <1>7, <1>8

(* What the receiver can tell of the present case. *)
LEMMA GotFacts ==
  ASSUME TypeOK, SegmentsOK, Talking, GotInv
  PROVE  /\ Complete(case) <=> (case = 1 /\ written = 1) \/ (case = 7 /\ written = 3)
         /\ HasHead(case) <=> written > 0 /\ case # 2
         /\ NoToken(case) <=> written > 0 /\ case = 8
         /\ Current.got = {"partial"} <=> case = 2 /\ written > 0
         /\ written \in 0..(IF case = 7 THEN 3 ELSE 1)
<1>1. case \in {1, 2, 3, 4, 5, 6, 7, 8}
  BY Present DEF Cases
<1>2. written \in 0..(IF case = 7 THEN 3 ELSE 1)
  BY Scripts DEF TypeOK, SegmentsOK
<1>3. CASE written = 0
  <2>1. Current.got = {}
    BY <1>3 DEF GotInv
  <2> QED
    BY <1>3, <2>1 DEF Complete, HasHead, NoToken, Current
<1>4. CASE written = 1
  <2>1. Current.got = {script.segments[1].brings}
    BY <1>4 DEF GotInv
  <2>2. PICK b : b = script.segments[1].brings
    OBVIOUS
  <2>3. Current.got = {b} /\ b = CASE case = 1 -> "request" [] case = 2 -> "partial"
                                   [] case = 8 -> "malformed" [] OTHER -> "head"
    BY <2>1, <2>2, Scripts
  <2>4. CASE case = 1
    <3>1. Current.got = {"request"}
      BY <2>3, <2>4
    <3>2. Complete(case) <=> TRUE
      BY <3>1 DEF Complete, Current
    <3>3. (HasHead(case) <=> TRUE) /\ (NoToken(case) <=> FALSE)
      BY <3>1 DEF HasHead, NoToken, Current
    <3> QED
      BY <1>4, <2>4, <3>1, <3>2, <3>3
  <2>5. CASE case = 2
    <3>1. Current.got = {"partial"}
      BY <2>3, <2>5
    <3>2. Complete(case) <=> FALSE
      BY <3>1 DEF Complete, Current
    <3>3. (HasHead(case) <=> FALSE) /\ (NoToken(case) <=> FALSE)
      BY <3>1 DEF HasHead, NoToken, Current
    <3> QED
      BY <1>4, <2>5, <3>1, <3>2, <3>3
  <2>6. CASE case = 8
    <3>1. Current.got = {"malformed"}
      BY <2>3, <2>6
    <3>2. Complete(case) <=> FALSE
      BY <3>1 DEF Complete, Current
    <3>3. (HasHead(case) <=> TRUE) /\ (NoToken(case) <=> TRUE)
      BY <3>1 DEF HasHead, NoToken, Current
    <3> QED
      BY <1>4, <2>6, <3>1, <3>2, <3>3
  <2>7. CASE case \in {3, 4, 5, 6, 7}
    <3>1. Current.got = {"head"}
      <4>1. b = "head"
        BY <2>3, <2>7
      <4> QED
        BY <2>3, <4>1
    <3>2. ~Complete(case)
      BY <3>1 DEF Complete, Current
    <3>3. HasHead(case) /\ ~NoToken(case)
      BY <3>1 DEF HasHead, NoToken, Current
    <3>4. Current.got # {"partial"}
      BY <3>1
    <3>5. case \notin {1, 2, 8}
      BY <2>7
    <3> QED
      BY <1>2, <1>4, <3>2, <3>3, <3>4, <3>5
  <2> QED
    BY <1>1, <2>4, <2>5, <2>6, <2>7
<1>5. CASE written \in {2, 3}
  <2>1. case = 7
    BY <1>2, <1>5
  <2>2. Current.got = IF written = 2 THEN {"head", "part"} ELSE {"head", "part", "rest"}
    <3>1. CASE written = 2
      <4>1. Current.got = {script.segments[1].brings, script.segments[2].brings}
        BY <3>1 DEF GotInv
      <4> QED
        BY <2>1, <3>1, <4>1, Scripts
    <3>2. CASE written = 3
      <4>1. Current.got = {script.segments[1].brings, script.segments[2].brings,
                           script.segments[3].brings}
        BY <3>2 DEF GotInv
      <4> QED
        BY <2>1, <3>2, <4>1, Scripts
    <3> QED
      BY <1>5, <3>1, <3>2
  <2> QED
    BY <1>2, <1>5, <2>1, <2>2 DEF Complete, HasHead, NoToken, Current
<1> QED
  BY <1>2, <1>3, <1>4, <1>5
-----------------------------------------------------------------------------
(* The present case stays the same. *)
LEMMA SameCase ==
  ASSUME UNCHANGED <<slow, turn>>
  PROVE  case' = case /\ script' = script /\ \A c : Observed(c)' = Observed(c)
<1>1. case' = case
  BY DEF case
<1> QED
  BY <1>1 DEF script, Observed

LEMMA SameProgress ==
  ASSUME Progress, UNCHANGED <<slow, turn, step, written, wait, response, outcome>>,
         Current' = Current, caused'[case] = caused[case]
  PROVE  Progress'
<1>1. case' = case /\ script' = script /\ \A c : Observed(c)' = Observed(c)
  BY SameCase
<1>2. GotInv'
  BY <1>1 DEF Progress, GotInv
<1>3. RowInv'
  BY <1>1 DEF Progress, RowInv
<1>4. IdleInv'
  BY <1>1 DEF Progress, IdleInv
<1>5. ReadInv'
  BY <1>1 DEF Progress, ReadInv
<1> QED
  BY <1>2, <1>3, <1>4, <1>5 DEF Progress

(* The types of what the steps below compare. *)
LEMMA Types ==
  ASSUME TypeInv
  PROVE  /\ case \in {1, 2, 3, 4, 5, 6, 7, 8} /\ case \in Cases
         /\ conn \in [Cases -> Connections] /\ conn[case] \in Connections
         /\ Current.since \in Nat /\ Current.gone \in BOOLEAN /\ Current.state \in States
         /\ wait \in Nat /\ slow \in Nat \ {0} /\ Idle \in Nat \ {0}
         /\ ReadTimeout \in Nat /\ ReadTimeout > Idle
         /\ caused \in [Cases -> SUBSET Counters] /\ written \in Nat
<1>1. case \in Cases
  BY Present DEF TypeInv
<1>2. conn[case] \in Connections
  BY <1>1 DEF TypeInv, ConnOK
<1>3. slow \in Nat \ {0}
  BY RawSocketAssumption DEF TypeInv, TypeOK
<1>4. wait \in Nat
  BY <1>3, RawSocketAssumption DEF TypeInv, TypeOK
<1>5. Current.since \in Nat /\ Current.gone \in BOOLEAN /\ Current.state \in States
  BY <1>2 DEF Connections, Current
<1>6. Idle \in Nat \ {0} /\ ReadTimeout \in Nat /\ ReadTimeout > Idle
  BY RawSocketAssumption
<1>7. case \in {1, 2, 3, 4, 5, 6, 7, 8}
  BY <1>1 DEF Cases
<1> QED
  BY <1>1, <1>2, <1>3, <1>4, <1>5, <1>6, <1>7 DEF TypeInv, TypeOK, ConnOK

(* A connection of the present case that is closed with an answer that the  *)
(* table has.                                                               *)
LEMMA Closes ==
  ASSUME TypeInv, Talking, Progress, Current.state \in {"head", "body"},
         NEW status \in Replies, Current' = [Current EXCEPT !.state = "closed", !.reply = status],
         UNCHANGED <<slow, turn, step, written, wait, response, outcome>>,
         NEW counters, caused'[case] = counters,
         <<status, counters>> \in Observed(case), case # 2,
         case = 4 /\ ~Current.gone => Idle <= 1
  PROVE  Progress'
<1>1. case' = case /\ script' = script /\ \A d : Observed(d)' = Observed(d)
  BY SameCase
<1>2. GotInv /\ RowInv /\ IdleInv /\ ReadInv /\ Current \in Connections
  BY Types DEF Progress, Current
<1>3. /\ Current'.state = "closed" /\ Current'.reply = status /\ Current'.got = Current.got
      /\ Current'.gone = Current.gone
  BY <1>2 DEF Connections
<1>4. GotInv'
  BY <1>1, <1>2, <1>3 DEF GotInv
<1>5. RowInv'
  BY <1>1, <1>3 DEF RowInv
<1>6. IdleInv'
  BY <1>1, <1>3 DEF IdleInv
<1>7. ReadInv'
  BY <1>1, <1>2, <1>3 DEF ReadInv
<1> QED
  BY <1>4, <1>5, <1>6, <1>7 DEF Progress

LEMMA ServerProgress ==
  ASSUME TypeInv, SilentInv, Talking, Progress, NEW c \in Cases,
         HandlerStarts(c) \/ Rejected(c) \/ HandlerAnswers(c)
  PROVE  Progress'
<1> USE Types
<1>1. UNCHANGED <<slow, turn, step, written, wait, response, outcome>>
  BY DEF HandlerStarts, Rejected, HandlerAnswers, Answers, verifierVars
<1>2. case' = case /\ script' = script /\ \A d : Observed(d)' = Observed(d)
  BY <1>1, SameCase
<1>3. GotInv /\ RowInv /\ IdleInv /\ ReadInv
  BY DEF Progress
<1>4. /\ Complete(case) <=> (case = 1 /\ written = 1) \/ (case = 7 /\ written = 3)
      /\ HasHead(case) <=> written > 0 /\ case # 2
      /\ NoToken(case) <=> written > 0 /\ case = 8
      /\ written \in 0..(IF case = 7 THEN 3 ELSE 1)
  BY <1>3, GotFacts DEF TypeInv
<1>5. CASE c # case
  <2>1. Current' = Current /\ caused'[case] = caused[case]
    BY <1>2, <1>5 DEF HandlerStarts, Rejected, HandlerAnswers, Answers, Current
  <2> QED
    BY <1>1, <2>1, SameProgress
<1>6. CASE HandlerStarts(case)
  <2>1. /\ Current.state = "head" /\ HasHead(case)
        /\ Current' = [Current EXCEPT !.state = "body", !.since = 0]
        /\ caused'[case] = {"requests_total"}
    BY <1>2, <1>6 DEF HandlerStarts, Current
  <2>2. /\ Current'.state = "body" /\ Current'.since = 0 /\ Current'.got = Current.got
        /\ Current'.gone = Current.gone
    BY <2>1 DEF Current, Connections
  <2>3. GotInv'
    BY <1>1, <1>2, <1>3, <2>2 DEF GotInv
  <2>4. RowInv'
    BY <1>1, <1>2, <1>4, <2>1, <2>2 DEF RowInv
  <2>5. IdleInv'
    BY <1>1, <1>2, <1>3, <2>1, <2>2 DEF IdleInv
  <2>6. ReadInv'
    BY <1>1, <1>2, <1>3, <2>1, <2>2 DEF ReadInv
  <2> QED
    BY <2>3, <2>4, <2>5, <2>6 DEF Progress
<1>8. CASE Rejected(case)
  <2>1. PICK status \in {0, 400} : conn' = [conn EXCEPT ![case] = [@ EXCEPT !.state = "closed",
                                                                          !.reply = status]]
    BY <1>8 DEF Rejected
  <2>2. /\ Current.state = "head" /\ caused'[case] = {}
        /\ Current' = [Current EXCEPT !.state = "closed", !.reply = status]
    BY <1>2, <1>3, <1>8, <2>1 DEF Rejected, RowInv, Current
  <2>3. case = 8
    <3>1. CASE NoToken(case)
      BY <1>4, <3>1
    <3>2. CASE Current.gone /\ ~HasHead(case)
      <4>1. step = "read" /\ script.shut /\ written = Len(script.segments)
        BY <1>3, <3>2 DEF GotInv
      <4>2. written > 0 /\ case \in {4, 5, 6, 8}
        BY <4>1, Scripts DEF TypeInv
      <4> QED
        BY <1>4, <3>2, <4>2
    <3> QED
      BY <1>8, <3>1, <3>2 DEF Rejected, Current
  <2>4. <<status, {}>> \in Observed(case)
    BY <2>3 DEF Observed, Unconcerned
  <2>5. status \in Replies /\ case # 2 /\ case # 4 /\ Current.state \in {"head", "body"}
    BY <2>2, <2>3 DEF Replies
  <2> QED
    BY <1>1, <2>2, <2>4, <2>5, Closes
<1>9. CASE HandlerAnswers(case)
  <2>1. /\ Current.state = "body" /\ caused[case] = {"requests_total"}
        /\ written > 0 /\ case # 2
    BY <1>3, <1>9 DEF HandlerAnswers, RowInv, Current
  <2>2. ASSUME NEW status \in Replies, NEW counters, Answers(case, status, counters)
        PROVE  /\ Current' = [Current EXCEPT !.state = "closed", !.reply = status]
               /\ caused'[case] = {"requests_total"} \cup counters
    BY <1>2, <2>1, <2>2 DEF Answers, Current
  <2>6. CASE NoToken(case) /\ Answers(case, 401, {"requests_failed", "auth_failures"})
    <3>1. case = 8
      BY <1>4, <2>6
    <3>2. Unauthorized \in Observed(case)
      BY <3>1 DEF Observed
    <3>3. {"requests_total"} \cup {"requests_failed", "auth_failures"}
            = {"requests_total", "requests_failed", "auth_failures"}
      OBVIOUS
    <3>4. /\ Current' = [Current EXCEPT !.state = "closed", !.reply = 401]
          /\ caused'[case] = Unauthorized[2]
          /\ 401 \in Replies /\ Current.state \in {"head", "body"}
      BY <2>1, <2>2, <2>6, <3>3 DEF Replies, Unauthorized
    <3>5. case # 2 /\ (case = 4 /\ ~Current.gone => Idle <= 1)
      BY <3>1
    <3>6. <<401, Unauthorized[2]>> \in Observed(case)
      BY <3>2 DEF Unauthorized
    <3> QED
      BY <1>1, <3>4, <3>5, <3>6, Closes
  <2>3. CASE Complete(case) /\ Answers(case, 200, {})
    <3>1. case = 1 \/ (case = 7 /\ slow <= Idle)
      BY <1>3, <1>4, <2>1, <2>3 DEF IdleInv
    <3>2. Served \in Observed(case)
      BY <3>1 DEF Observed
    <3>3. /\ Current' = [Current EXCEPT !.state = "closed", !.reply = 200]
          /\ caused'[case] = {"requests_total"}
          /\ 200 \in Replies /\ Current.state \in {"head", "body"} /\ case # 4
      BY <2>1, <2>2, <2>3, <3>1 DEF Replies
    <3> QED
      BY <1>1, <2>1, <2>3, <3>1, <3>2, <3>3, Closes DEF Served
  <2>4. CASE ~NoToken(case) /\ ~Complete(case) /\ Current.gone
             /\ Answers(case, 400, {"requests_failed", "body_read_errors"})
    <3>1. case \in {4, 5, 6}
      BY <1>3, <1>4, <2>1, <2>4, Scripts DEF GotInv, TypeInv
    <3>2. CutOff \in Observed(case)
      BY <3>1 DEF Observed
    <3>3. {"requests_total"} \cup {"requests_failed", "body_read_errors"}
            = {"requests_total", "requests_failed", "body_read_errors"}
      OBVIOUS
    <3>4. /\ Current' = [Current EXCEPT !.state = "closed", !.reply = 400]
          /\ caused'[case] = CutOff[2]
          /\ 400 \in Replies /\ Current.state \in {"head", "body"}
      BY <2>1, <2>2, <2>4, <3>3 DEF Replies, CutOff
    <3>5. case # 2 /\ (case = 4 /\ ~Current.gone => Idle <= 1)
      BY <2>1, <2>4, <3>1
    <3>6. <<400, CutOff[2]>> \in Observed(case)
      BY <3>2 DEF CutOff
    <3> QED
      BY <1>1, <3>4, <3>5, <3>6, Closes
  <2>5. CASE ~NoToken(case) /\ ~Complete(case) /\ ~Current.gone /\ Current.since >= Idle
             /\ Answers(case, 408, {"requests_failed", "timeouts"})
    <3>1. case = 3 \/ (case = 4 /\ Idle <= 1) \/ (case = 7 /\ slow >= Idle)
      BY <1>3, <1>4, <2>1, <2>5 DEF IdleInv
    <3>2. TooLate \in Observed(case)
      BY <3>1 DEF Observed
    <3>3. {"requests_total"} \cup {"requests_failed", "timeouts"}
            = {"requests_total", "requests_failed", "timeouts"}
      OBVIOUS
    <3>4. /\ Current' = [Current EXCEPT !.state = "closed", !.reply = 408]
          /\ caused'[case] = TooLate[2]
          /\ 408 \in Replies /\ Current.state \in {"head", "body"}
      BY <2>1, <2>2, <2>5, <3>3 DEF Replies, TooLate
    <3>5. case # 2 /\ (case = 4 /\ ~Current.gone => Idle <= 1)
      BY <2>1, <2>5, <3>1
    <3>6. <<408, TooLate[2]>> \in Observed(case)
      BY <3>2 DEF TooLate
    <3> QED
      BY <1>1, <3>4, <3>5, <3>6, Closes
  <2> QED
    BY <1>9, <2>3, <2>4, <2>5, <2>6 DEF HandlerAnswers, Current
<1> QED
  BY <1>5, <1>6, <1>8, <1>9

LEMMA TickProgress ==
  ASSUME TypeInv, SilentInv, Talking, Progress, Tick
  PROVE  Progress'
<1> DEFINE n == Current.since
<1>1. UNCHANGED <<slow, turn, step, written, response, outcome, caused>> /\ wait' = wait + 1
  BY DEF Tick
<1>2. case' = case /\ script' = script /\ \A d : Observed(d)' = Observed(d)
  BY <1>1, SameCase
<1>3. GotInv /\ RowInv /\ IdleInv /\ ReadInv
  BY DEF Progress
<1>4. /\ Complete(case) <=> (case = 1 /\ written = 1) \/ (case = 7 /\ written = 3)
      /\ written \in 0..(IF case = 7 THEN 3 ELSE 1)
  BY <1>3, GotFacts DEF TypeInv
<1>5. /\ Current'.state = Current.state /\ Current'.got = Current.got
      /\ Current'.gone = Current.gone /\ Current'.reply = Current.reply
      /\ Current'.since = IF Current.state = "body" THEN n + 1 ELSE n
  <2>1. Current' = IF Current.state = "body" THEN [Current EXCEPT !.since = @ + 1] ELSE Current
    BY <1>2, Types DEF Tick, Current
  <2>2. Current \in Connections
    BY Types DEF Current
  <2> QED
    BY <2>1, <2>2 DEF Connections
<1>6. Current.state = "body" => ~Complete(case) /\ ~Current.gone
  BY Types DEF Tick, ReceiverWaits, Current
<1>8. \/ step = "sleep" /\ wait < script.segments[written].sleep
      \/ step = "preread" /\ wait < 1
      \/ step = "read"
  <2>1. VerifierWaits
    BY DEF Tick
  <2>2. CASE step = "sleep" /\ wait < script.segments[written].sleep
    BY <2>2
  <2>3. CASE Reading /\ wait < ReadLimit
    <3>1. step = "preread" => script.pre = 1
      BY <1>3, Scripts DEF GotInv, TypeInv
    <3> QED
      BY <2>3, <3>1 DEF Reading, ReadLimit
  <2> QED
    BY <2>1, <2>2, <2>3 DEF VerifierWaits
<1>9. GotInv'
  BY <1>1, <1>2, <1>3, <1>5 DEF GotInv
<1>10. RowInv'
  BY <1>1, <1>2, <1>3, <1>5 DEF RowInv
<1>11. ReadInv'
  BY <1>1, <1>2, <1>3, <1>5 DEF ReadInv
<1>12. ASSUME Current.state = "body"
       PROVE  /\ step \in {"sleep", "preread"} => n + 1 <= wait + 1
              /\ case = 4 => n + 1 <= 1
              /\ step # "write"
              /\ case \notin {5, 6}
              /\ case = 7 /\ written < 3 => n + 1 <= slow
  <2>1. n \in Nat /\ wait \in Nat /\ slow \in Nat
    BY Types
  <2>2. ~Current.gone /\ ~Complete(case)
    BY <1>6, <1>12
  <2>3. step = "read" => ~script.shut
    BY <1>3, <2>2 DEF GotInv
  <2>4. step = "read" => case \notin {4, 5, 6} /\ ~(case = 7 /\ written < 3)
    BY <1>3, <2>3, Scripts DEF GotInv, TypeInv
  <2>5. step = "preread" => case = 4
    BY <1>3 DEF GotInv
  <2>6. step = "sleep" => case \in {2, 3} \/ (case = 7 /\ written = 2 /\ wait < slow)
    BY <1>3, <1>8, Scripts DEF GotInv, TypeInv
  <2>7. step \in {"sleep", "preread"} => n <= wait
    BY <1>3, <1>12 DEF IdleInv
  <2> QED
    BY <1>8, <2>1, <2>4, <2>5, <2>6, <2>7
<1>13. IdleInv'
  <2> HIDE DEF n
  <2>1. /\ case = 7 /\ Current.state # "closed" /\ (written = 3 \/ (written = 2 /\ step = "write"))
             => slow <= Idle
        /\ case = 4 /\ Current.state = "closed" /\ ~Current.gone => Idle <= 1
    BY <1>3 DEF IdleInv
  <2> QED
    BY <1>1, <1>2, <1>5, <1>12, <2>1 DEF IdleInv
<1> QED
  BY <1>9, <1>10, <1>11, <1>13 DEF Progress

LEMMA ConnectProgress ==
  ASSUME TypeInv, CountInv, Connect
  PROVE  Progress'
<1>1. /\ UNCHANGED <<slow, turn, caused>> /\ written' = 0 /\ response' = 0 /\ outcome' = Pending
      /\ step' = "write" /\ wait' = 0
  BY DEF Connect, Goto
<1>2. case' = case /\ script' = script /\ \A d : Observed(d)' = Observed(d)
  BY <1>1, SameCase
<1>3. /\ Current'.state = "head" /\ Current'.got = {} /\ Current'.gone = FALSE
  BY <1>2, Types DEF Connect, NoConnection, Current
<1>4. caused[case] = {}
  BY DEF CountInv, FreshOK, Unconnected, Connect, TypeInv, TypeOK, case
<1>5. GotInv'
  BY <1>1, <1>3 DEF GotInv
<1>6. RowInv'
  BY <1>1, <1>2, <1>3, <1>4 DEF RowInv
<1>7. IdleInv'
  BY <1>1, <1>3 DEF IdleInv
<1>8. ReadInv'
  BY <1>1, <1>3 DEF ReadInv, Pending
<1> QED
  BY <1>5, <1>6, <1>7, <1>8 DEF Progress

LEMMA WriteProgress ==
  ASSUME TypeInv, Talking, Progress, WriteSegment
  PROVE  Progress'
<1> DEFINE s == script.segments[written + 1]
<1>1. /\ UNCHANGED <<slow, turn, caused, response, outcome>> /\ written' = written + 1
      /\ step = "write" /\ step' = (IF s.sleep > 0 THEN "sleep" ELSE "write") /\ wait' = 0
      /\ written < Len(script.segments)
  BY DEF WriteSegment, Goto
<1>2. case' = case /\ script' = script /\ \A d : Observed(d)' = Observed(d)
  BY <1>1, SameCase
<1>3. GotInv /\ RowInv /\ IdleInv /\ ReadInv /\ written \in Nat
  BY Types DEF Progress
<1>4. /\ Current'.state = Current.state /\ Current'.got = Current.got \cup {s.brings}
      /\ Current'.gone = Current.gone /\ Current'.reply = Current.reply /\ Current'.since = 0
  <2>1. Current' = [Current EXCEPT !.got = @ \cup {s.brings}, !.since = 0,
                                   !.hurt = (@ \/ Current.state = "closed")]
    BY <1>2, Types DEF WriteSegment, Current
  <2>2. Current \in Connections
    BY Types DEF Current
  <2> QED
    BY <2>1, <2>2 DEF Connections
<1>5. GotInv'
  <2>1. 1..(written + 1) = (1..written) \cup {written + 1}
    BY <1>3
  <2>2. Current'.got = {script.segments[i].brings : i \in 1..(written + 1)}
    BY <1>3, <1>4, <2>1 DEF GotInv
  <2>3. step' = "sleep" => case \in {2, 3} \/ (case = 7 /\ written = 1)
    <3>1. written \in 0..2
      BY <1>1, <1>3, Scripts DEF TypeInv
    <3>2. CASE case = 7
      BY <1>1, <3>1, <3>2, Scripts DEF TypeInv
    <3>3. CASE case # 7
      <4>1. written = 0
        BY <1>1, <1>3, <3>3, Scripts DEF TypeInv
      <4> QED
        BY <1>1, <3>3, <4>1, Scripts DEF TypeInv
    <3> QED
      BY <3>2, <3>3
  <2>4. ~Current.gone
    BY <1>1, <1>3 DEF GotInv
  <2> QED
    BY <1>1, <1>2, <1>3, <1>4, <2>2, <2>3, <2>4 DEF GotInv
<1>6. RowInv'
  BY <1>1, <1>2, <1>3, <1>4 DEF RowInv
<1>7. IdleInv'
  <2>1. slow \in Nat \ {0} /\ Idle \in Nat \ {0}
    BY Types
  <2>2. case = 7 /\ written = 1 => step' = "sleep"
    BY <1>1, <2>1, Scripts DEF TypeInv
  <2>3. case = 7 /\ Current.state # "closed" /\ written = 2 => slow <= Idle
    BY <1>1, <1>3 DEF IdleInv
  <2> QED
    BY <1>1, <1>2, <1>3, <1>4, <2>1, <2>2, <2>3 DEF IdleInv
<1>8. ReadInv'
  BY <1>1, <1>2, <1>3, <1>4 DEF ReadInv
<1> QED
  BY <1>5, <1>6, <1>7, <1>8 DEF Progress

LEMMA TurnProgress ==
  ASSUME TypeInv, SilentInv, Talking, Progress, Slept \/ AllWritten \/ ShutDown \/ ReadBytes
  PROVE  Progress'
<1>1. UNCHANGED <<slow, turn, caused, written, outcome>>
  BY DEF Slept, AllWritten, ShutDown, ReadBytes, serverVars
<1>2. case' = case /\ script' = script /\ \A d : Observed(d)' = Observed(d)
  BY <1>1, SameCase
<1>3. GotInv /\ RowInv /\ IdleInv /\ ReadInv
  BY DEF Progress
<1>4. CASE Slept
  <2>1. /\ Current' = Current /\ UNCHANGED response
        /\ step = "sleep" /\ step' = "write" /\ wait' = 0
    BY <1>2, <1>4 DEF Slept, Goto, Current, serverVars
  <2>2. case \in {2, 3} \/ (case = 7 /\ written = 2)
    BY <1>3, <2>1 DEF GotInv
  <2>3. case = 7 /\ Current.state # "closed" => slow <= Idle
    <3> SUFFICES ASSUME case = 7, Current.state # "closed" PROVE slow <= Idle
      OBVIOUS
    <3>1. written = 2 /\ wait >= slow /\ slow \in Nat \ {0} /\ wait \in Nat /\ Idle \in Nat
      BY <1>4, <2>2, Types, Scripts DEF Slept, TypeInv
    <3>2. HasHead(case)
      BY <1>3, <3>1, <2>2, GotFacts DEF TypeInv
    <3>3. Current.state # "head"
      BY <3>1, <3>2 DEF SilentInv, Outwaited, Reached, Current
    <3>4. Current.state = "body"
      BY <1>3, <3>3, Types DEF RowInv, States
    <3>5. wait <= Current.since /\ Current.since <= Idle /\ Current.since \in Nat
      BY <3>4, Types DEF SilentInv, Outwaited
    <3> QED
      BY <3>1, <3>5
  <2>4. GotInv'
    BY <1>1, <1>2, <1>3, <2>1 DEF GotInv
  <2>5. RowInv'
    BY <1>1, <1>2, <1>3, <2>1 DEF RowInv
  <2>6. IdleInv'
    BY <1>1, <1>2, <1>3, <2>1, <2>2, <2>3 DEF IdleInv
  <2>7. ReadInv'
    BY <1>1, <1>2, <1>3, <2>1 DEF ReadInv
  <2> QED
    BY <2>4, <2>5, <2>6, <2>7 DEF Progress
<1>5. CASE AllWritten
  <2>1. /\ Current' = Current /\ UNCHANGED response
        /\ step = "write" /\ written = Len(script.segments) /\ wait' = 0
        /\ step' = IF case = 4 THEN "preread" ELSE "shutdown"
    BY <1>2, <1>5, Scripts DEF AllWritten, Goto, Current, serverVars, TypeInv
  <2>2. case = 7 => written = 3
    BY <2>1, Scripts DEF TypeInv
  <2>3. GotInv'
    BY <1>1, <1>2, <1>3, <2>1 DEF GotInv
  <2>4. RowInv'
    BY <1>1, <1>2, <1>3, <2>1 DEF RowInv
  <2>5. IdleInv'
    BY <1>1, <1>2, <1>3, <2>1, <2>2 DEF IdleInv
  <2>6. ReadInv'
    BY <1>1, <1>2, <1>3, <2>1 DEF ReadInv
  <2> QED
    BY <2>3, <2>4, <2>5, <2>6 DEF Progress
<1>6. CASE ShutDown
  <2>1. Current' = [Current EXCEPT !.gone = script.shut] /\ UNCHANGED response
        /\ step = "shutdown" /\ step' = "read" /\ wait' = 0
    BY <1>2, <1>6, Types DEF ShutDown, Goto, Current
  <2>2. /\ Current'.state = Current.state /\ Current'.got = Current.got
        /\ Current'.gone = script.shut /\ Current'.reply = Current.reply
        /\ Current'.since = Current.since
    BY <2>1, Types DEF Current, Connections
  <2>3. case \in {4, 5, 6} => script.shut
    BY Scripts DEF TypeInv
  <2>4. GotInv'
    BY <1>1, <1>2, <1>3, <2>1, <2>2 DEF GotInv
  <2>5. RowInv'
    BY <1>1, <1>2, <1>3, <2>1, <2>2 DEF RowInv
  <2>6. IdleInv'
    BY <1>1, <1>2, <1>3, <2>1, <2>2, <2>3 DEF IdleInv
  <2>7. ReadInv'
    BY <1>1, <1>2, <1>3, <2>1, <2>2 DEF ReadInv
  <2> QED
    BY <2>4, <2>5, <2>6, <2>7 DEF Progress
<1>7. CASE ReadBytes
  <2>1. /\ Current' = Current /\ Current.state = "closed" /\ UNCHANGED step
        /\ step \in {"preread", "read"} /\ wait' = 0
    BY <1>2, <1>7 DEF ReadBytes, Reading, Current, serverVars
  <2>2. GotInv'
    BY <1>1, <1>2, <1>3, <2>1 DEF GotInv
  <2>3. RowInv'
    BY <1>1, <1>2, <1>3, <2>1 DEF RowInv
  <2>4. IdleInv'
    BY <1>1, <1>2, <1>3, <2>1 DEF IdleInv
  <2>5. ReadInv'
    BY <1>1, <1>2, <1>3, <2>1 DEF ReadInv
  <2> QED
    BY <2>2, <2>3, <2>4, <2>5 DEF Progress
<1> QED
  BY <1>4, <1>5, <1>6, <1>7

(* What comes of the short read before the write side is shut down.         *)
LEMMA PrereadProgress ==
  ASSUME TypeInv, SilentInv, Talking, OutcomeOK, Progress, step = "preread", ReadEnd \/ ReadTimesOut
  PROVE  Progress'
<1>1. PICK t \in BOOLEAN : ReadReturns(t) /\ (t = FALSE => Current.state = "closed")
  BY DEF ReadEnd, ReadTimesOut
<1>2. /\ UNCHANGED <<slow, turn, caused, written, response>> /\ step' = "shutdown" /\ wait' = 0
      /\ outcome' = [outcome EXCEPT !.pre = t]
  BY <1>1 DEF ReadReturns, Goto
<1>3. case' = case /\ script' = script /\ \A d : Observed(d)' = Observed(d)
  BY <1>2, SameCase
<1>4. GotInv /\ RowInv /\ IdleInv /\ ReadInv /\ case = 4 /\ ~Current.gone
  BY DEF Progress, GotInv
<1>5. /\ Current'.state = Current.state /\ Current'.got = Current.got
      /\ Current'.gone = Current.gone /\ Current'.reply = Current.reply
      /\ Current'.since = Current.since
  <2>1. Current' = [Current EXCEPT !.gone = Current.gone]
    BY <1>1, <1>3, Types DEF ReadReturns, Current
  <2> QED
    BY <2>1, Types DEF Current, Connections
<1>6. outcome'.error = outcome.error /\ outcome'.timed_out = outcome.timed_out /\ outcome'.pre = t
  BY <1>2 DEF OutcomeOK
<1>7. t = FALSE => Idle <= 1
  BY <1>1, <1>4 DEF IdleInv
<1>8. GotInv'
  BY <1>2, <1>3, <1>4, <1>5 DEF GotInv
<1>9. RowInv'
  BY <1>2, <1>3, <1>4, <1>5 DEF RowInv
<1>10. IdleInv'
  BY <1>2, <1>3, <1>4, <1>5 DEF IdleInv
<1>11. ReadInv'
  <2>1. Idle \in Nat
    BY Types
  <2> QED
    BY <1>2, <1>3, <1>4, <1>5, <1>6, <1>7, <2>1 DEF ReadInv
<1> QED
  BY <1>8, <1>9, <1>10, <1>11 DEF Progress

(* The last read of a case ends with what the case shows.                   *)
LEMMA LastRead ==
  ASSUME TypeInv, SilentInv, Talking, Progress, step = "read", ReadEnd \/ ReadTimesOut, OutcomeOK
  PROVE  Shows(case, response, outcome.timed_out, outcome.pre)' /\ ~outcome'.error
<1>1. PICK t \in BOOLEAN :
        /\ ReadReturns(t)
        /\ \/ t = FALSE /\ Current.state = "closed" /\ Current.reply = response
           \/ t = TRUE /\ Current.state # "closed" /\ wait >= ReadTimeout
  BY DEF ReadEnd, ReadTimesOut, ReadLimit
<1>2. UNCHANGED <<slow, turn, caused, response>> /\ outcome' = [outcome EXCEPT !.timed_out = t]
  BY <1>1 DEF ReadReturns
<1>3. case' = case /\ \A d : Observed(d)' = Observed(d)
  BY <1>2, SameCase
<1>4. outcome'.error = outcome.error /\ outcome'.timed_out = t /\ outcome'.pre = outcome.pre
  BY <1>2 DEF OutcomeOK
<1>5. GotInv /\ RowInv /\ IdleInv /\ ReadInv
  BY DEF Progress
<1>6. /\ ~outcome.error
      /\ outcome.pre => case = 4
      /\ case = 4 /\ Idle > 1 => outcome.pre
  BY <1>5 DEF ReadInv
<1>7. <<response, caused[case]>> \in Observed(case) /\ (t <=> case = 2)
  <2>1. CASE t = FALSE /\ Current.state = "closed" /\ Current.reply = response
    BY <1>5, <2>1 DEF RowInv
  <2>2. CASE t = TRUE /\ Current.state # "closed" /\ wait >= ReadTimeout
    <3>1. wait \in Nat /\ wait > Idle /\ Idle \in Nat \ {0} /\ Current.since \in Nat
      BY <2>2, Types
    <3>2. Current.state # "body"
      BY <3>1 DEF SilentInv, Outwaited
    <3>3. Current.state = "head"
      BY <1>5, <2>2, <3>2, Types DEF RowInv, States
    <3>4. ~HasHead(case)
      BY <3>1, <3>3 DEF SilentInv, Outwaited, Reached, Current
    <3>5. written > 0
      BY <1>5, Scripts DEF GotInv, TypeInv
    <3>6. case = 2
      BY <1>5, <3>4, <3>5, GotFacts DEF TypeInv
    <3>7. response = 0 /\ caused[case] = {}
      BY <1>5, <2>2, <3>3 DEF ReadInv, RowInv
    <3> QED
      BY <2>2, <3>6, <3>7 DEF Observed, Unconcerned
  <2> QED
    BY <1>1, <2>1, <2>2
<1> QED
  BY <1>2, <1>3, <1>4, <1>6, <1>7 DEF Shows

(* A case is judged by its status and by whether a handler was seen, which *)
(* cases 2 and 8 are only asked for when they are not to be.               *)
LEMMA JudgedByRow ==
  ASSUME NEW c \in Cases, NEW status, NEW timed_out, NEW pre, NEW error, NEW seen \in BOOLEAN,
         Shows(c, status, timed_out, pre), seen => "requests_total" \in caused[c]
  PROVE  Verdict(c, status, timed_out, error, seen) = Judged(c, <<status, caused[c]>>)
<1>1. c \in {1, 2, 3, 4, 5, 6, 7, 8} /\ <<status, caused[c]>> \in Observed(c)
  BY DEF Cases, Shows
<1>2. CASE c = 1
  <2>1. status = 200
    BY <1>1, <1>2 DEF Observed, Served
  <2> QED
    BY <1>2, <2>1 DEF Verdict, Judged
<1>3. CASE c = 2
  <2>1. status = 0 /\ caused[c] = {}
    BY <1>1, <1>3 DEF Observed, Unconcerned
  <2> QED
    BY <1>3, <2>1 DEF Verdict, Judged
<1>4. CASE c \in 3..6
  <2>1. Verdict(c, status, timed_out, error, seen) = "Review"
    BY <1>4, c # 1, c # 2 DEF Verdict
  <2>2. Judged(c, <<status, caused[c]>>) = "Review"
    BY <1>4, c # 1, c # 2 DEF Judged
  <2> QED
    BY <2>1, <2>2
<1>5. CASE c = 7
  <2>1. Verdict(c, status, timed_out, error, seen)
          = IF status = 408 THEN "Pass" ELSE IF status = 200 \/ seen THEN "Review" ELSE "Fail"
    BY <1>5, 7 \notin 3..6 DEF Verdict
  <2>2. Judged(c, <<status, caused[c]>>)
          = IF <<status, caused[c]>> = TooLate THEN "Pass" ELSE "Review"
    BY <1>5, 7 \notin 3..6 DEF Judged
  <2>3. <<status, caused[c]>> \in {Served, TooLate}
    BY <1>1, <1>5 DEF Observed
  <2> QED
    BY <2>1, <2>2, <2>3 DEF Served, TooLate
<1>6. CASE c = 8
  <2>1. Verdict(c, status, timed_out, error, seen)
          = IF ~seen /\ status = 0 THEN "Info" ELSE "Review"
    BY <1>6, 8 \notin 3..6 DEF Verdict
  <2>2. Judged(c, <<status, caused[c]>>)
          = IF <<status, caused[c]>> = Unconcerned THEN "Info" ELSE "Review"
    BY <1>6, 8 \notin 3..6 DEF Judged
  <2>3. <<status, caused[c]>> \in {Unconcerned, <<400, {}>>, Unauthorized}
    BY <1>1, <1>6 DEF Observed
  <2> QED
    BY <2>1, <2>2, <2>3 DEF Unconcerned, Unauthorized
<1> QED
  BY <1>1, <1>2, <1>3, <1>4, <1>5, <1>6

(* Only the present case moves counters, and only before it has a record.   *)
LEMMA MovesOwn ==
  ASSUME TypeInv, SilentInv, [Next]_vars, caused' # caused
  PROVE  /\ Talking /\ UNCHANGED <<slow, turn, step, results>>
         /\ \A c \in DOMAIN results : c # case /\ caused'[c] = caused[c]
<1>1. PICK c \in Cases : HandlerStarts(c) \/ HandlerAnswers(c)
  BY DEF Next, VerifierStep, WriteRequestFile, FileFails, Snapshot, Keeps, Connect, Refused, Errs,
         WriteSegment, WriteFails, Slept, AllWritten, ShutDown, ReadBytes, ReadEnd, ReadTimesOut,
         ReadReturns, ReadFails, WriteResult, Rejected, Tick, Quiet, vars, serverVars
<1>2. c = case /\ Talking
  BY <1>1 DEF HandlerStarts, HandlerAnswers, SilentInv, OthersSilent, Silent, Reached
<1>3. UNCHANGED <<slow, turn, step, results>>
  BY <1>1 DEF HandlerStarts, HandlerAnswers, Answers, verifierVars
<1>4. \A d \in Cases : d # case => caused'[d] = caused[d]
  <2>1. \E k : caused' = [caused EXCEPT ![c] = k]
    <3>1. CASE HandlerStarts(c)
      BY <3>1 DEF HandlerStarts
    <3>2. CASE HandlerAnswers(c)
      BY <3>2 DEF HandlerAnswers, Answers
    <3> QED
      BY <1>1, <3>1, <3>2
  <2> QED
    BY <1>2, <2>1, Types
<1>5. \A d \in DOMAIN results : d \in Cases /\ d # case
  <2>1. DOMAIN results = {Selected[i] : i \in 1..(turn - 1)} /\ turn \in DOMAIN Selected
    BY <1>2 DEF TypeInv, TypeOK, Talking
  <2>2. turn \in 1..Len(Selected) /\ Len(Selected) \in Nat
    BY <2>1, RawSocketAssumption
  <2>3. \A i \in 1..(turn - 1) : i \in DOMAIN Selected /\ i # turn
    BY <2>2, RawSocketAssumption
  <2>4. \A i \in DOMAIN Selected : i # turn => Selected[i] \in Cases /\ Selected[i] # case
    BY <2>1, RawSocketAssumption DEF case, Cases
  <2> QED
    BY <2>1, <2>3, <2>4
<1>6. \A d \in DOMAIN results : d # case /\ caused'[d] = caused[d]
  BY <1>4, <1>5
<1> QED
  BY <1>2, <1>3, <1>6, Zenon

LEMMA TalkStep ==
  ASSUME TypeInv, SilentInv, CountInv, OutcomeOK, Talking => Progress, [Next]_vars, Talking'
  PROVE  Progress'
<1>1. ASSUME NEW c \in Cases, HandlerStarts(c) \/ Rejected(c) \/ HandlerAnswers(c)
      PROVE  Progress'
  <2>1. Talking
    BY <1>1 DEF HandlerStarts, Rejected, HandlerAnswers, Answers, verifierVars, Talking
  <2> QED
    BY <1>1, <2>1, ServerProgress
<1>2. CASE Tick
  <2>1. Talking
    BY <1>2 DEF Tick, Talking
  <2> QED
    BY <1>2, <2>1, TickProgress
<1>3. CASE Connect
  BY <1>3, ConnectProgress
<1>4. CASE WriteSegment
  BY <1>4, WriteProgress DEF WriteSegment, Talking
<1>5. CASE Slept \/ AllWritten \/ ShutDown \/ ReadBytes
  <2>1. Talking
    BY <1>5 DEF Slept, AllWritten, ShutDown, ReadBytes, Reading, Talking
  <2> QED
    BY <1>5, <2>1, TurnProgress
<1>6. CASE ReadEnd \/ ReadTimesOut
  <2>1. step = "preread"
    BY <1>6 DEF ReadEnd, ReadTimesOut, ReadReturns, Reading, Goto, Talking
  <2> QED
    BY <1>6, <2>1, PrereadProgress DEF Talking
<1>7. CASE WriteRequestFile \/ FileFails \/ Snapshot \/ Refused \/ WriteFails \/ ReadFails \/ WriteResult
  <2>1. ~Talking'
    BY <1>7 DEF WriteRequestFile, FileFails, Snapshot, Keeps, Refused, WriteFails, ReadFails, Errs,
                WriteResult, Goto, Talking
  <2> QED
    BY <2>1
<1>8. CASE UNCHANGED vars
  <2>1. UNCHANGED <<slow, turn, step, written, wait, response, outcome, conn, caused>>
    BY <1>8 DEF vars, verifierVars, serverVars
  <2>2. Current' = Current /\ caused'[case] = caused[case] /\ Talking
    BY <2>1, SameCase DEF Current, Talking
  <2> QED
    BY <2>1, <2>2, SameProgress
<1> QED
  BY <1>1, <1>2, <1>3, <1>4, <1>5, <1>6, <1>7, <1>8 DEF Next, VerifierStep, Quiet

LEMMA OutcomeStep ==
  ASSUME OutcomeOK, [Next]_vars
  PROVE  OutcomeOK'
<1>1. \/ outcome' = outcome
      \/ outcome' = Pending \/ outcome' = [Pending EXCEPT !.error = TRUE]
      \/ \E t \in BOOLEAN : \/ outcome' = [outcome EXCEPT !.pre = t]
                            \/ outcome' = [outcome EXCEPT !.timed_out = t]
  BY DEF Next, VerifierStep, WriteRequestFile, FileFails, Snapshot, Keeps, Connect, Refused, Errs,
         WriteSegment, WriteFails, Slept, AllWritten, ShutDown, ReadBytes, ReadEnd, ReadTimesOut,
         ReadReturns, ReadFails, WriteResult, HandlerStarts, Rejected, HandlerAnswers, Answers,
         Tick, Quiet, vars, verifierVars
<1>2. \A t \in BOOLEAN : /\ [outcome EXCEPT !.pre = t]
                            \in [error : BOOLEAN, timed_out : BOOLEAN, pre : BOOLEAN]
                        /\ [outcome EXCEPT !.timed_out = t]
                            \in [error : BOOLEAN, timed_out : BOOLEAN, pre : BOOLEAN]
  BY DEF OutcomeOK
<1>3. /\ Pending \in [error : BOOLEAN, timed_out : BOOLEAN, pre : BOOLEAN]
      /\ [Pending EXCEPT !.error = TRUE] \in [error : BOOLEAN, timed_out : BOOLEAN, pre : BOOLEAN]
  BY DEF Pending
<1> QED
  BY <1>1, <1>2, <1>3 DEF OutcomeOK

LEMMA ShownStep ==
  ASSUME TypeInv, SilentInv, TableInv, [Next]_vars, step' \in {"after", "record"}, ~outcome'.error
  PROVE  Shows(case, response, outcome.timed_out, outcome.pre)'
<1>1. CASE ReadEnd \/ ReadTimesOut
  <2>1. step = "read" /\ Talking
    BY <1>1 DEF ReadEnd, ReadTimesOut, ReadReturns, Reading, Goto, Talking
  <2> QED
    BY <1>1, <2>1, LastRead DEF TableInv
<1>2. ~Errs
  BY DEF Errs, Pending
<1>3. CASE UNCHANGED <<slow, turn, response, outcome, caused>> /\ step \in {"after", "record"}
  <2>1. case' = case /\ \A d : Observed(d)' = Observed(d)
    BY <1>3, SameCase
  <2>2. Shows(case, response, outcome.timed_out, outcome.pre)
    BY <1>3 DEF TableInv
  <2> QED
    BY <1>3, <2>1, <2>2 DEF Shows
<1>4. CASE Snapshot
  <2>1. PICK s : Keeps(s)
    BY <1>4 DEF Snapshot
  <2> QED
    BY <1>3, <2>1 DEF Keeps, Goto, serverVars
<1>5. ASSUME NEW c \in Cases, HandlerStarts(c) \/ HandlerAnswers(c)
      PROVE  FALSE
  <2>1. Talking
    BY <1>5 DEF HandlerStarts, HandlerAnswers, SilentInv, OthersSilent, Silent, Reached
  <2>2. step' = step
    BY <1>5 DEF HandlerStarts, HandlerAnswers, Answers, verifierVars
  <2> QED
    BY <2>1, <2>2 DEF Talking
<1>6. ASSUME NEW c \in Cases, Rejected(c)
      PROVE  UNCHANGED <<slow, turn, response, outcome, caused, step>>
  BY <1>6 DEF Rejected, verifierVars
<1>7. CASE Tick \/ UNCHANGED vars
  BY <1>3, <1>7 DEF Tick, vars, verifierVars, serverVars
<1>8. CASE VerifierStep
  BY <1>1, <1>2, <1>4, <1>8
     DEF VerifierStep, WriteRequestFile, FileFails, Connect, Refused, WriteSegment, WriteFails,
         Slept, AllWritten, ShutDown, ReadBytes, Reading, ReadFails, WriteResult, Goto
<1> QED
  BY <1>3, <1>5, <1>6, <1>7, <1>8 DEF Next, Quiet

LEMMA TableStep ==
  ASSUME TypeInv, SilentInv, CountInv, TableInv, [Next]_vars
  PROVE  CasesDistinguished'
<1>1. CASE WriteResult
  <2>1. /\ results' = [c \in DOMAIN results \cup {case} |-> IF c = case THEN Result ELSE results[c]]
        /\ UNCHANGED <<slow, caused>> /\ step = "record"
    BY <1>1 DEF WriteResult, serverVars
  <2>2. \A d : Observed(d)' = Observed(d)
    BY <2>1 DEF Observed
  <2>3. ASSUME ~Result.error
        PROVE  /\ <<Result.status, caused[case]>> \in Observed(case)
               /\ Result.timed_out <=> case = 2
               /\ Result.pre => case = 4
               /\ case = 4 /\ Idle > 1 => Result.pre
               /\ Result.verdict = Judged(case, <<Result.status, caused[case]>>)
    <3>1. Shows(case, response, outcome.timed_out, outcome.pre)
      BY <2>1, <2>3 DEF TableInv, Result
    <3>2. case \in Cases
      BY Types
    <3> DEFINE seen == Delta # NoSnapshot /\ Delta["requests_total"] > 0
    <3>3. Verdict(case, response, outcome.timed_out, outcome.error, seen)
            = Judged(case, <<response, caused[case]>>)
      <4>1. seen \in BOOLEAN
        OBVIOUS
      <4>2. seen => "requests_total" \in caused[case]
        BY <2>1, DeltaOfCase DEF CountInv, Counters
      <4> HIDE DEF seen
      <4> QED
        BY <3>1, <3>2, <4>1, <4>2, JudgedByRow
    <3>4. /\ Result.verdict = Verdict(case, response, outcome.timed_out, outcome.error, seen)
          /\ Result.status = response /\ Result.timed_out = outcome.timed_out
          /\ Result.pre = outcome.pre
      BY DEF Result
    <3> HIDE DEF seen
    <3> QED
      BY <3>1, <3>3, <3>4 DEF Shows
  <2>4. \A c \in DOMAIN results' : results'[c] = IF c = case THEN Result ELSE results[c]
    BY <2>1
  <2>5. \A c \in DOMAIN results' : c = case \/ c \in DOMAIN results
    BY <2>1
  <2> QED
    BY <2>1, <2>2, <2>3, <2>4, <2>5 DEF TableInv, CasesDistinguished
<1>2. CASE UNCHANGED <<slow, results>> /\ \A c \in DOMAIN results : caused'[c] = caused[c]
  <2>1. \A d : Observed(d)' = Observed(d)
    BY <1>2 DEF Observed
  <2> QED
    BY <1>2, <2>1 DEF TableInv, CasesDistinguished
<1>3. CASE caused' = caused /\ ~WriteResult
  <2>1. ASSUME VerifierStep PROVE slow' = slow /\ results' = results
    <3>1. CASE WriteRequestFile \/ FileFails \/ Snapshot \/ Connect \/ Refused \/ WriteSegment
               \/ WriteFails
      BY <3>1 DEF WriteRequestFile, FileFails, Snapshot, Keeps, Connect, Refused, Errs,
                  WriteSegment, WriteFails
    <3>2. CASE Slept \/ AllWritten \/ ShutDown \/ ReadBytes \/ ReadEnd \/ ReadTimesOut \/ ReadFails
      BY <3>2 DEF Slept, AllWritten, ShutDown, ReadBytes, ReadEnd, ReadTimesOut, ReadReturns,
                  ReadFails, Errs
    <3> QED
      BY <1>3, <2>1, <3>1, <3>2 DEF VerifierStep
  <2>2. ASSUME Tick \/ \E c \in Cases : HandlerStarts(c) \/ Rejected(c) \/ HandlerAnswers(c)
        PROVE  slow' = slow /\ results' = results
    BY <2>2 DEF Tick, HandlerStarts, Rejected, HandlerAnswers, Answers, verifierVars
  <2>3. ASSUME UNCHANGED vars PROVE slow' = slow /\ results' = results
    BY <2>3 DEF vars, verifierVars
  <2>4. slow' = slow /\ results' = results
    BY <2>1, <2>2, <2>3 DEF Next, Quiet
  <2>5. \A c \in DOMAIN results : caused'[c] = caused[c]
    BY <1>3
  <2> QED
    BY <1>2, <2>4, <2>5, Zenon
<1>4. CASE caused' # caused
  <2>1. UNCHANGED <<slow, results>> /\ \A c \in DOMAIN results : caused'[c] = caused[c]
    BY <1>4, MovesOwn
  <2> QED
    BY <1>2, <2>1
<1> QED
  BY <1>1, <1>3, <1>4

(* For any cases, delays and timeouts of which the verifier's is the        *)
(* longer, every case that meets no error of its socket shows its own       *)
(* status and counters and gets the verdict that goes with them.            *)
THEOREM CasesCorrect == Spec => []CasesDistinguished
<1>1. Init => TableInv
  <2> SUFFICES ASSUME Init PROVE TableInv
    OBVIOUS
  <2>1. step = "file" /\ outcome = Pending /\ results = <<>>
    BY DEF Init
  <2>2. OutcomeOK
    BY <2>1 DEF OutcomeOK, Pending
  <2>3. DOMAIN results = {}
    BY <2>1
  <2> QED
    BY <2>1, <2>2, <2>3 DEF TableInv, Talking, CasesDistinguished
<1>2. IInv /\ TableInv /\ [Next]_vars => TableInv'
  <2> SUFFICES ASSUME IInv, TableInv, [Next]_vars PROVE TableInv'
    OBVIOUS
  <2>1. TypeInv /\ SilentInv /\ CountInv /\ OutcomeOK /\ (Talking => Progress)
    BY DEF IInv, TableInv
  <2>2. OutcomeOK'
    BY <2>1, OutcomeStep
  <2>3. Talking' => Progress'
    BY <2>1, TalkStep
  <2>4. step' \in {"after", "record"} /\ ~outcome'.error =>
          Shows(case, response, outcome.timed_out, outcome.pre)'
    BY <2>1, ShownStep
  <2>5. CasesDistinguished'
    BY <2>1, TableStep DEF IInv
  <2> QED
    BY <2>2, <2>3, <2>4, <2>5 DEF TableInv
<1>3. TableInv => CasesDistinguished
  BY DEF TableInv
<1> QED
  BY <1>1, <1>2, <1>3, Inductive, PTL DEF Spec
=============================================================================

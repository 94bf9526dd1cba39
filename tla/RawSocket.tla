------------------------------ MODULE RawSocket ------------------------------
(***************************************************************************)
(* The verifier src/bin/raw_socket_hec.rs: it sends the exact bytes of one *)
(* case after the other to a receiver, each over a connection of its own,  *)
(* with a snapshot of /hec/stats before and after, and judges what comes   *)
(* back.  The receiver is the environment: it goes on with the connections *)
(* of earlier cases, and answers a body when it is complete, ends early or *)
(* stays away for longer than the idle timeout.  A tick is 500 ms; who can *)
(* go on does so before the next tick.                                     *)
(***************************************************************************)
EXTENDS Naturals, Integers, Sequences, FiniteSets

CONSTANTS
  Selected,    (* the cases of --case, by number, in order                 *)
  SlowDelays,  (* what --slow-body-delay-ms may be, in ticks               *)
  ReadTimeout, (* --read-timeout-ms, in ticks                              *)
  Idle,        (* the receiver's limits.body_idle_timeout, in ticks        *)
  MaxFaults    (* connections refused, snapshots and files that fail: a    *)
               (* bound of the model                                       *)

(* The verifier outwaits the receiver, as by default (8 s and 5 s); else it *)
(* leaves handlers behind that report during a later case.                 *)
ASSUME RawSocketAssumption ==
  /\ Selected \in Seq(1..8) /\ Selected # <<>>
  /\ \A i, j \in DOMAIN Selected : Selected[i] = Selected[j] => i = j
  /\ SlowDelays \subseteq Nat \ {0}
  /\ Idle \in Nat \ {0}
  /\ ReadTimeout \in Nat /\ ReadTimeout > Idle
  /\ MaxFaults \in Nat

Cases == 1..8

(* What a segment brings the receiver, and the ticks the verifier sleeps    *)
(* after it.                                                               *)
Segment(brings, sleep) == [brings |-> brings, sleep |-> sleep]
Script(segments, shut, pre) == [segments |-> segments, shut |-> shut, pre |-> pre]

(* The scripts of the cases: a whole request, an unfinished head, a head    *)
(* with a Content-Length and less body than that, a chunked body cut off,  *)
(* a body that comes late, and a head with the byte 0xFF in a header and   *)
(* no token, after which the client is done.                               *)
ScriptOf(c, slow) ==
  CASE c = 1 -> Script(<<Segment("request", 0)>>, FALSE, 0)
    [] c = 2 -> Script(<<Segment("partial", 2)>>, FALSE, 0)
    [] c = 3 -> Script(<<Segment("head", 2)>>, FALSE, 0)
    [] c = 4 -> Script(<<Segment("head", 0)>>, TRUE, 1)
    [] c \in {5, 6} -> Script(<<Segment("head", 0)>>, TRUE, 0)
    [] c = 7 -> Script(<<Segment("head", 0), Segment("part", slow), Segment("rest", 0)>>,
                       FALSE, 0)
    [] c = 8 -> Script(<<Segment("malformed", 0)>>, TRUE, 0)

VARIABLES
  slow,     (* --slow-body-delay-ms                                        *)
  turn,     (* the place in Selected of the case that is run               *)
  step,     (* how far the verifier is with it                             *)
  written,  (* segments written                                            *)
  wait,     (* ticks in the present sleep or read                          *)
  response, (* the status in the bytes read; 0: none                       *)
  outcome,  (* what run_case returns                                       *)
  before, after, (* the snapshots, and the empty function for one that     *)
            (* failed                                                      *)
  results,  (* the records of the cases done                               *)
  faults

VARIABLES
  conn,     (* per case, the receiver's side of its connection             *)
  caused    (* per case, the counters its handler has incremented          *)

verifierVars == <<slow, turn, step, written, wait, response, outcome, before, after,
                  results, faults>>
serverVars == <<conn, caused>>
vars == <<verifierVars, serverVars>>

Counters ==
  {"requests_total", "requests_failed", "auth_failures", "body_read_errors", "timeouts"}
NoSnapshot == <<>>
Pending == [error |-> FALSE, timed_out |-> FALSE, pre |-> FALSE]

(* `gone` is set when the client has shut its side or dropped the socket,   *)
(* `hurt` when it wrote to one the receiver had closed.                    *)
NoConnection ==
  [state |-> "none", since |-> 0, got |-> {}, gone |-> FALSE, reply |-> 0, hurt |-> FALSE]

case == Selected[turn]
script == ScriptOf(case, slow)
Current == conn[case]
------------------------------------------------------------------------------
Init ==
  /\ slow \in SlowDelays
  /\ turn = 1
  /\ step = "file"
  /\ written = 0
  /\ wait = 0
  /\ response = 0
  /\ outcome = Pending
  /\ before = NoSnapshot
  /\ after = NoSnapshot
  /\ results = <<>>
  /\ faults = 0
  /\ conn = [c \in Cases |-> NoConnection]
  /\ caused = [c \in Cases |-> {}]

Running == step \notin {"end", "aborted"}

Goto(s) == step' = s /\ wait' = 0

(* write_request_file.                                                      *)
WriteRequestFile ==
  /\ step = "file"
  /\ Goto("before")
  /\ UNCHANGED <<slow, turn, written, response, outcome, before, after, results, faults,
                 serverVars>>

(* A file cannot be written: main returns, results.json is never written.   *)
FileFails ==
  /\ step \in {"file", "record"}
  /\ faults < MaxFaults
  /\ faults' = faults + 1
  /\ Goto("aborted")
  /\ UNCHANGED <<slow, turn, written, response, outcome, before, after, results, serverVars>>

(* What /hec/stats shows.                                                   *)
Shown == [k \in Counters |-> Cardinality({c \in Cases : k \in caused[c]})]

(* snapshot_stats: the GET is answered, or fails or takes too long.         *)
Keeps(s) ==
  /\ \/ step = "before" /\ before' = s /\ Goto("connect") /\ UNCHANGED after
     \/ step = "after" /\ after' = s /\ Goto("record") /\ UNCHANGED before
  /\ UNCHANGED <<slow, turn, written, response, outcome, results, serverVars>>

Snapshot ==
  \/ Keeps(Shown) /\ UNCHANGED faults
  \/ faults < MaxFaults /\ Keeps(NoSnapshot) /\ faults' = faults + 1

Connect ==
  /\ step = "connect"
  /\ conn' = [conn EXCEPT ![case] = [NoConnection EXCEPT !.state = "head"]]
  /\ written' = 0
  /\ response' = 0
  /\ outcome' = Pending
  /\ Goto("write")
  /\ UNCHANGED <<slow, turn, before, after, results, faults, caused>>

(* run_case returns Err; the socket, if there is one, is dropped, and what  *)
(* was read from it with it.                                                *)
Errs ==
  /\ outcome' = [Pending EXCEPT !.error = TRUE]
  /\ response' = 0
  /\ conn' = [conn EXCEPT ![case].gone = TRUE]
  /\ Goto("after")
  /\ UNCHANGED <<slow, turn, written, before, after, results, caused>>

Refused ==
  /\ step = "connect"
  /\ faults < MaxFaults
  /\ faults' = faults + 1
  /\ Errs

(* The next segment.  The first write to a socket the receiver has closed   *)
(* may go through; what comes back is a reset.                              *)
WriteSegment ==
  /\ step = "write"
  /\ written < Len(script.segments)
  /\ LET s == script.segments[written + 1]
     IN  /\ conn' = [conn EXCEPT ![case] =
                       [Current EXCEPT !.got = @ \cup {s.brings}, !.since = 0,
                                       !.hurt = (@ \/ Current.state = "closed")]]
         /\ Goto(IF s.sleep > 0 THEN "sleep" ELSE "write")
  /\ written' = written + 1
  /\ UNCHANGED <<slow, turn, response, outcome, before, after, results, faults, caused>>

WriteFails ==
  /\ step = "write"
  /\ written < Len(script.segments)
  /\ Current.state = "closed"
  /\ Errs
  /\ UNCHANGED faults

Slept ==
  /\ step = "sleep"
  /\ wait >= script.segments[written].sleep
  /\ Goto("write")
  /\ UNCHANGED <<slow, turn, written, response, outcome, before, after, results, faults,
                 serverVars>>

AllWritten ==
  /\ step = "write"
  /\ written = Len(script.segments)
  /\ Goto(IF script.pre > 0 THEN "preread" ELSE "shutdown")
  /\ UNCHANGED <<slow, turn, written, response, outcome, before, after, results, faults,
                 serverVars>>

ShutDownNever ==  \* variant: the write side stays open
  /\ step = "shutdown"
  /\ Goto("read")
  /\ UNCHANGED <<slow, turn, written, response, outcome, before, after, results, faults,
                 serverVars>>

ShutDown ==
  /\ step = "shutdown"
  /\ conn' = [conn EXCEPT ![case].gone = script.shut]
  /\ Goto("read")
  /\ UNCHANGED <<slow, turn, written, response, outcome, before, after, results, faults,
                 caused>>

Reading == step \in {"preread", "read"}
ReadLimitOfStats == IF step = "preread" THEN script.pre ELSE 2  \* variant: --stats-timeout-ms
ReadLimit == IF step = "preread" THEN script.pre ELSE ReadTimeout

(* read_available: the receiver sends its answer and closes.                *)
ReadBytes ==
  /\ Reading
  /\ Current.state = "closed" /\ Current.reply # response
  /\ response' = Current.reply
  /\ wait' = 0
  /\ UNCHANGED <<slow, turn, step, written, outcome, before, after, results, faults,
                 serverVars>>

(* It returns: whether the time was up.  The second time run_case returns   *)
(* Ok, and the socket is dropped.                                           *)
ReadReturns(timed_out) ==
  /\ outcome' = IF step = "preread" THEN [outcome EXCEPT !.pre = timed_out]
                ELSE [outcome EXCEPT !.timed_out = timed_out]
  /\ conn' = [conn EXCEPT ![case].gone = (@ \/ step = "read")]
  /\ Goto(IF step = "preread" THEN "shutdown" ELSE "after")
  /\ UNCHANGED <<slow, turn, written, response, before, after, results, faults, caused>>

ReadEndIgnored ==  \* variant: a read of no bytes is tried again
  /\ Reading
  /\ Current.state = "closed" /\ Current.reply = response
  /\ UNCHANGED vars

ReadEnd ==
  /\ Reading
  /\ Current.state = "closed" /\ Current.reply = response
  /\ ReadReturns(FALSE)

ReadTimesOut ==
  /\ Reading
  /\ Current.state # "closed" /\ wait >= ReadLimit
  /\ ReadReturns(TRUE)

ReadFails ==
  /\ Reading
  /\ Current.hurt
  /\ Errs
  /\ UNCHANGED faults
------------------------------------------------------------------------------
(* stats_delta, when there are two snapshots.                               *)
Delta ==
  IF NoSnapshot \in {before, after} THEN NoSnapshot
  ELSE [k \in Counters |-> after[k] - before[k]]

(* diagnose; without a delta the handler counts as not seen.                *)
Verdict(c, status, timed_out, error, seen) ==
  CASE c = 1 -> IF status = 200 THEN "Pass" ELSE "Fail"
    [] c = 2 -> IF ~seen /\ (status = 0 \/ timed_out \/ error) THEN "Info" ELSE "Review"
    [] c \in 3..6 -> "Review"
    [] c = 7 -> IF status = 408 THEN "Pass"
                ELSE IF status = 200 \/ seen THEN "Review" ELSE "Fail"
    [] c = 8 -> IF ~seen /\ status = 0 THEN "Info" ELSE "Review"

Result ==
  [status |-> response, timed_out |-> outcome.timed_out, pre |-> outcome.pre,
   error |-> outcome.error, delta |-> Delta,
   verdict |-> Verdict(case, response, outcome.timed_out, outcome.error,
                       Delta # NoSnapshot /\ Delta["requests_total"] > 0)]

WriteResultIfFine ==  \* variant: a case that ended in an error has no record
  /\ step = "record"
  /\ results' = IF outcome.error THEN results
                ELSE [c \in DOMAIN results \cup {case} |->
                        IF c = case THEN Result ELSE results[c]]
  /\ turn' = IF turn < Len(Selected) THEN turn + 1 ELSE turn
  /\ Goto(IF turn < Len(Selected) THEN "file" ELSE "end")
  /\ UNCHANGED <<slow, written, response, outcome, before, after, faults, serverVars>>

(* write_result, and on to the next case or to the summary.                 *)
WriteResult ==
  /\ step = "record"
  /\ results' = [c \in DOMAIN results \cup {case} |-> IF c = case THEN Result ELSE results[c]]
  /\ turn' = IF turn < Len(Selected) THEN turn + 1 ELSE turn
  /\ Goto(IF turn < Len(Selected) THEN "file" ELSE "end")
  /\ UNCHANGED <<slow, written, response, outcome, before, after, faults, serverVars>>
------------------------------------------------------------------------------
(* The receiver.  Whether a head with the byte 0xFF comes to a handler is   *)
(* hyper's choice: the byte is obs-text, which its parser may take; but it  *)
(* drops a connection whose client is done before it has polled a handler.  *)
NoToken(c) == "malformed" \in conn[c].got
HasHead(c) == NoToken(c) \/ conn[c].got \cap {"request", "head"} # {}

(* A handler starts with the head and counts its request.                   *)
HandlerStarts(c) ==
  /\ conn[c].state = "head"
  /\ HasHead(c)
  /\ conn' = [conn EXCEPT ![c] = [@ EXCEPT !.state = "body", !.since = 0]]
  /\ caused' = [caused EXCEPT ![c] = {"requests_total"}]
  /\ UNCHANGED verifierVars

(* A head it refuses and a connection that ends too early are hyper's       *)
(* alone; it may send a 400 of its own.                                     *)
Rejected(c) ==
  /\ conn[c].state = "head"
  /\ \/ NoToken(c)
     \/ conn[c].gone /\ ~HasHead(c)
  /\ \E status \in {0, 400} :
       conn' = [conn EXCEPT ![c] = [@ EXCEPT !.state = "closed", !.reply = status]]
  /\ UNCHANGED <<caused, verifierVars>>

Answers(c, status, counters) ==
  /\ conn' = [conn EXCEPT ![c] = [@ EXCEPT !.state = "closed", !.reply = status]]
  /\ caused' = [caused EXCEPT ![c] = @ \cup counters]
  /\ UNCHANGED verifierVars

Complete(c) == conn[c].got \cap {"request", "rest"} # {}

(* Each outcome is counted before it is sent; the token comes first.        *)
HandlerAnswers(c) ==
  /\ conn[c].state = "body"
  /\ \/ /\ NoToken(c)
        /\ Answers(c, 401, {"requests_failed", "auth_failures"})
     \/ /\ ~NoToken(c) /\ Complete(c)
        /\ Answers(c, 200, {})
     \/ /\ ~NoToken(c) /\ ~Complete(c) /\ conn[c].gone
        /\ Answers(c, 400, {"requests_failed", "body_read_errors"})
     \/ /\ ~NoToken(c) /\ ~Complete(c) /\ ~conn[c].gone /\ conn[c].since >= Idle
        /\ Answers(c, 408, {"requests_failed", "timeouts"})

(* Time passes when all wait for it.                                        *)
ReceiverWaits(c) ==
  \/ conn[c].state \in {"none", "closed"}
  \/ conn[c].state = "head" /\ ~conn[c].gone /\ conn[c].got = {"partial"}
  \/ /\ conn[c].state = "body" /\ ~NoToken(c) /\ ~Complete(c) /\ ~conn[c].gone
     /\ conn[c].since < Idle

VerifierWaits ==
  \/ step = "sleep" /\ wait < script.segments[written].sleep
  \/ Reading /\ Current.state # "closed" /\ wait < ReadLimit

Tick ==
  /\ VerifierWaits
  /\ \A c \in Cases : ReceiverWaits(c)
  /\ wait' = wait + 1
  /\ conn' = [c \in Cases |-> IF conn[c].state = "body" THEN [conn[c] EXCEPT !.since = @ + 1]
                              ELSE conn[c]]
  /\ UNCHANGED <<slow, turn, step, written, response, outcome, before, after, results,
                 faults, caused>>

VerifierStep ==
  \/ WriteRequestFile \/ FileFails \/ Snapshot \/ Connect \/ Refused
  \/ WriteSegment \/ WriteFails \/ Slept \/ AllWritten \/ ShutDown
  \/ ReadBytes \/ ReadEnd \/ ReadTimesOut \/ ReadFails \/ WriteResult

Quiet == ~Running /\ UNCHANGED vars

Next ==
  \/ VerifierStep
  \/ \E c \in Cases : HandlerStarts(c) \/ Rejected(c) \/ HandlerAnswers(c)
  \/ Tick
  \/ Quiet

Spec == Init /\ [][Next]_vars

(* The verifier's one thread runs, the receiver serves each connection, and *)
(* time passes.                                                             *)
FairSpec ==
  /\ Spec
  /\ WF_vars(VerifierStep)
  /\ \A c \in Cases : WF_vars(HandlerStarts(c) \/ Rejected(c) \/ HandlerAnswers(c))
  /\ WF_vars(Tick)
------------------------------------------------------------------------------
(* Every variable stays in its range; each case that is done has its record,*)
(* however it went.                                                         *)
TypeOK ==
  /\ slow \in SlowDelays
  /\ turn \in DOMAIN Selected
  /\ step \in {"file", "before", "connect", "write", "sleep", "preread", "shutdown", "read",
               "after", "record", "end", "aborted"}
  /\ written \in 0..3
  /\ wait \in 0..ReadTimeout \cup 0..slow
  /\ response \in {0, 200, 400, 401, 408}
  /\ faults \in 0..MaxFaults
  /\ DOMAIN results = {Selected[i] : i \in 1..(IF step = "end" THEN turn ELSE turn - 1)}
  /\ caused \in [Cases -> SUBSET Counters]

(* The differences recorded with a case are what its own request did to the *)
(* receiver's counters, nothing of it missing and nothing of an earlier     *)
(* case's in it, whichever way the case went.                               *)
DeltaIsOwn ==
  \A c \in DOMAIN results :
    results[c].delta # NoSnapshot =>
      \A k \in Counters : results[c].delta[k] = IF k \in caused[c] THEN 1 ELSE 0

(* What a case shows of this receiver: a status (0: none) and the counters  *)
(* that move.                                                              *)
Unconcerned == <<0, {}>>
Served == <<200, {"requests_total"}>>
Unauthorized == <<401, {"requests_total", "requests_failed", "auth_failures"}>>
CutOff == <<400, {"requests_total", "requests_failed", "body_read_errors"}>>
TooLate == <<408, {"requests_total", "requests_failed", "timeouts"}>>

(* Cases 1 to 7 have one outcome, but for a pause as long as the idle       *)
(* timeout, which races with it; case 8 has what hyper makes of its byte.   *)
Observed(c) ==
  CASE c = 1 -> {Served}
    [] c = 2 -> {Unconcerned}
    [] c = 3 -> {TooLate}
    [] c = 4 -> {CutOff} \cup (IF Idle > 1 THEN {} ELSE {TooLate})
    [] c \in {5, 6} -> {CutOff}
    [] c = 7 -> (IF slow <= Idle THEN {Served} ELSE {})
                \cup (IF slow >= Idle THEN {TooLate} ELSE {})
    [] c = 8 -> {Unconcerned, <<400, {}>>, Unauthorized}

(* How a case that shows this is judged: in 2 and 8 no handler may have     *)
(* been seen, which the snapshots tell.  HECpoc.md's table of observations  *)
(* has the same statuses and counters for 1 to 7, but Pass for 3 to 6.      *)
Judged(c, shown) ==
  CASE c = 1 -> "Pass"
    [] c = 2 -> "Info"
    [] c \in 3..6 -> "Review"
    [] c = 7 -> IF shown = TooLate THEN "Pass" ELSE "Review"
    [] c = 8 -> IF shown = Unconcerned THEN "Info" ELSE "Review"

(* A case that meets no error of its socket shows the status and moves the  *)
(* counters that are its own, and is judged by them and nothing an earlier  *)
(* case left behind; case 2 is the only one that waits in vain, and case 4  *)
(* waits in vain before it shuts its side.                                  *)
CasesDistinguished ==
  \A c \in DOMAIN results :
    ~results[c].error =>
      /\ <<results[c].status, caused[c]>> \in Observed(c)
      /\ results[c].verdict = Judged(c, <<results[c].status, caused[c]>>)
      /\ results[c].timed_out <=> c = 2
      /\ results[c].pre => c = 4
      /\ c = 4 /\ Idle > 1 => results[c].pre

(* The verifier comes to its end against a receiver that never answers as   *)
(* well as one that resets its connections.                                 *)
EveryRunEnds == <>~Running
==============================================================================

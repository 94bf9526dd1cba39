----------------------------- MODULE CaptureSink -----------------------------
(***************************************************************************)
(* FileSink::write_events of src/hec_receiver/sink.rs, the capture file    *)
(* that all requests share.  A caller takes the tokio Mutex, opens the     *)
(* file if nobody has, and for every event hands first the JSON text and   *)
(* then a newline to write_all.  tokio's File copies the bytes of a        *)
(* write_all into a buffer, starts the write on a blocking thread and      *)
(* returns: the outcome of a write is seen by the NEXT write, whoever      *)
(* makes it, and nothing in the sink ever calls flush.  The process may    *)
(* die (only ctrl_c is handled); the next one appends to the same file.    *)
(***************************************************************************)
EXTENDS Naturals, FiniteSets, SequencesExt

CONSTANTS
  Callers,        (* requests that call Sink::submit_events                *)
  MaxEvents,      (* most events one request carries (limits.max_events)   *)
  Parts,          (* file buffers one event's JSON text fills, at least 1  *)
  WriteMayFail,   (* whether opening or writing the file may fail          *)
  CallersMayLeave,(* whether a client may disconnect during the call       *)
  MaxLives        (* processes that append to the file, one after another  *)

ASSUME SinkAssumption ==
  /\ IsFiniteSet(Callers)
  /\ MaxEvents \in Nat \ {0}
  /\ Parts \in Nat \ {0}
  /\ WriteMayFail \in BOOLEAN
  /\ CallersMayLeave \in BOOLEAN
  /\ MaxLives \in Nat \ {0}

VARIABLES
  queue,   (* callers in the Mutex: the head holds it, the rest wait, FIFO *)
  handle,  (* TRUE once the Option<File> is Some                           *)
  op,      (* the File's operation: the last piece handed to it            *)
  disk,    (* what the file holds: pieces, in order                        *)
  state,   (* per caller: how far its call is                              *)
  size,    (* per caller: events in its request                            *)
  next,    (* per caller: the piece it hands to write_all next             *)
  faults,  (* opens and writes that failed and had to be reported (history)*)
  lives    (* processes that have used the file so far (history)           *)

sinkVars == <<queue, handle, op, disk, state, size, next, faults, lives>>

States == {"idle", "pending", "ok", "failed", "gone"}

(***************************************************************************)
(* A call writes pieces 1, 2, ...: the Parts buffers of the first event's  *)
(* JSON text, its newline, the buffers of the second event, and so on.     *)
(***************************************************************************)
PerEvent == Parts + 1
TotalUnterminated(c) == size[c] * PerEvent - 1  \* variant: newline as separator
Total(c) == size[c] * PerEvent
IsNewline(q) == q % PerEvent = 0
EndsJson(q) == q % PerEvent = Parts
EventOf(q) == ((q - 1) \div PerEvent) + 1

Piece(c, q, whole) == [by |-> c, at |-> q, whole |-> whole]

Idle == [st |-> "idle"]
InFlight(st, c, q) == [st |-> st, by |-> c, at |-> q]

HoldsUnlocked(c) == \E i \in DOMAIN queue : queue[i] = c   \* variant: no Mutex
Holds(c) == queue # <<>> /\ Head(queue) = c

(* The call returns and its MutexGuard is dropped: the next waiter holds.  *)
Return(c, how) ==
  /\ state' = [state EXCEPT ![c] = how]
  /\ queue' = Tail(queue)
------------------------------------------------------------------------------
Init ==
  /\ queue = <<>>
  /\ handle = FALSE
  /\ op = Idle
  /\ disk = <<>>
  /\ state = [c \in Callers |-> "idle"]
  /\ size = [c \in Callers |-> 0]
  /\ next = [c \in Callers |-> 1]
  /\ faults = 0
  /\ lives = 1

(* submit_events with n events, up to `self.file.lock().await`.            *)
Submit(c, n) ==
  /\ state[c] = "idle"
  /\ state' = [state EXCEPT ![c] = "pending"]
  /\ size' = [size EXCEPT ![c] = n]
  /\ queue' = Append(queue, c)
  /\ UNCHANGED <<handle, op, disk, next, faults, lives>>

(* create_dir_all and open, only while no File is kept.                    *)
OpenFile(c) ==
  /\ Holds(c)
  /\ ~handle
  /\ handle' = TRUE
  /\ UNCHANGED <<queue, op, disk, state, size, next, faults, lives>>

OpenFails(c) ==
  /\ WriteMayFail
  /\ Holds(c)
  /\ ~handle
  /\ Return(c, "failed")
  /\ faults' = faults + 1
  /\ UNCHANGED <<handle, op, disk, size, next, lives>>

WritePieceForever(c) ==  \* variant: the loop over the events does not end
  /\ Holds(c)
  /\ handle
  /\ op.st \in {"idle", "done"}
  /\ op' = InFlight("busy", c, next[c])
  /\ next' = [next EXCEPT ![c] = @ + 1]
  /\ UNCHANGED <<queue, handle, disk, state, size, faults, lives>>

WritePieceIgnoring(c) ==  \* variant: the previous operation's error is dropped
  /\ Holds(c)
  /\ handle
  /\ op.st # "busy"
  /\ op' = InFlight("busy", c, next[c])
  /\ next' = [next EXCEPT ![c] = @ + 1]
  /\ IF next[c] = Total(c)
       THEN Return(c, "ok")
       ELSE UNCHANGED <<state, queue>>
  /\ UNCHANGED <<handle, disk, size, faults, lives>>

(* write_all takes the next piece once the previous operation has ended    *)
(* well.  After the last newline the loop is over and the call returns Ok  *)
(* with that newline still in flight.                                      *)
WritePiece(c) ==
  /\ Holds(c)
  /\ handle
  /\ op.st \in {"idle", "done"}
  /\ op' = InFlight("busy", c, next[c])
  /\ next' = [next EXCEPT ![c] = @ + 1]
  /\ IF next[c] = Total(c)
       THEN Return(c, "ok")
       ELSE UNCHANGED <<state, queue>>
  /\ UNCHANGED <<handle, disk, size, faults, lives>>

WriteFailsGoesOn(c) ==  \* variant: the error does not leave the loop
  /\ Holds(c)
  /\ handle
  /\ op.st = "failed"
  /\ op' = Idle
  /\ UNCHANGED <<queue, handle, disk, state, size, next, faults, lives>>

(* write_all finds that the previous operation failed, whoever started it: *)
(* the error is consumed, the call fails, the File stays in its Option.    *)
WriteFails(c) ==
  /\ Holds(c)
  /\ handle
  /\ op.st = "failed"
  /\ op' = Idle
  /\ Return(c, "failed")
  /\ UNCHANGED <<handle, disk, size, next, faults, lives>>

(* The blocking thread writes the piece in flight.                         *)
DiskWrites ==
  /\ op.st = "busy"
  /\ op' = [op EXCEPT !.st = "done"]
  /\ disk' = Append(disk, Piece(op.by, op.at, TRUE))
  /\ UNCHANGED <<queue, handle, state, size, next, faults, lives>>

(* The blocking thread's write fails; of a JSON text a part may have been  *)
(* written, of a newline there is no part.                                 *)
DiskFails ==
  /\ WriteMayFail
  /\ op.st = "busy"
  /\ op' = [op EXCEPT !.st = "failed"]
  /\ \/ UNCHANGED disk
     \/ /\ ~IsNewline(op.at)
        /\ disk' = Append(disk, Piece(op.by, op.at, FALSE))
  /\ faults' = faults + 1
  /\ UNCHANGED <<queue, handle, state, size, next, lives>>

LeaveUnwoken(c) ==  \* variant: the waiters behind a dropped call are not woken
  /\ CallersMayLeave
  /\ state[c] = "pending"
  /\ state' = [state EXCEPT ![c] = "gone"]
  /\ \E i \in DOMAIN queue :
       /\ queue[i] = c
       /\ queue' = SubSeq(queue, 1, i - 1)
  /\ UNCHANGED <<handle, op, disk, size, next, faults, lives>>

(* The client disconnects and hyper drops the handler's future, waiting    *)
(* for the lock or between any two awaits of the loop: the place in the    *)
(* Mutex is given up, an operation already started goes on.                *)
Leave(c) ==
  /\ CallersMayLeave
  /\ state[c] = "pending"
  /\ state' = [state EXCEPT ![c] = "gone"]
  /\ \E i \in DOMAIN queue :
       /\ queue[i] = c
       /\ queue' = RemoveAt(queue, i)
  /\ UNCHANGED <<handle, op, disk, size, next, faults, lives>>

CrashTruncates ==  \* variant: the file is opened anew, not appended to
  /\ lives < MaxLives
  /\ lives' = lives + 1
  /\ state' = [c \in Callers |-> IF state[c] = "pending" THEN "gone" ELSE state[c]]
  /\ queue' = <<>>
  /\ handle' = FALSE
  /\ op' = Idle
  /\ disk' = <<>>
  /\ faults' = IF op.st = "failed" THEN faults - 1 ELSE faults
  /\ UNCHANGED <<size, next>>

(* The process dies and is started again: its calls end with their         *)
(* connections, Mutex, File and what it had to report are gone, and of the *)
(* piece in flight the file has nothing, a part or (after DiskWrites) all. *)
(* Nothing is read back or repaired; the file is reopened for appending.   *)
Crash ==
  /\ lives < MaxLives
  /\ lives' = lives + 1
  /\ state' = [c \in Callers |-> IF state[c] = "pending" THEN "gone" ELSE state[c]]
  /\ queue' = <<>>
  /\ handle' = FALSE
  /\ op' = Idle
  /\ \/ UNCHANGED disk
     \/ /\ op.st = "busy" /\ ~IsNewline(op.at)
        /\ disk' = Append(disk, Piece(op.by, op.at, FALSE))
  /\ faults' = IF op.st = "failed" THEN faults - 1 ELSE faults
  /\ UNCHANGED <<size, next>>

(* Steps of the sink itself, without the calls that enter it.              *)
Progress(c) == OpenFile(c) \/ OpenFails(c) \/ WritePiece(c) \/ WriteFails(c)

Quiet ==
  /\ \A c \in Callers : state[c] \notin {"idle", "pending"}
  /\ op.st # "busy"
  /\ UNCHANGED sinkVars

Next ==
  \/ \E c \in Callers :
       \/ \E n \in 1..MaxEvents : Submit(c, n)
       \/ OpenFile(c)
       \/ OpenFails(c)
       \/ WritePiece(c)
       \/ WriteFails(c)
       \/ Leave(c)
  \/ DiskWrites
  \/ DiskFails
  \/ Crash
  \/ Quiet

Spec == Init /\ [][Next]_sinkVars

(* The runtime polls a woken task and runs a queued blocking write.        *)
Fairness ==
  /\ \A c \in Callers : WF_sinkVars(Progress(c))
  /\ WF_sinkVars(DiskWrites \/ DiskFails)

FairSpec == Spec /\ Fairness
------------------------------------------------------------------------------
(* Every variable stays in its range; no call hands over more pieces than  *)
(* its request has.                                                        *)
TypeOK ==
  /\ queue \in Seq(Callers)
  /\ handle \in BOOLEAN
  /\ op \in [st : {"idle"}]
          \cup [st : {"busy", "done", "failed"}, by : Callers, at : Nat \ {0}]
  /\ disk \in Seq([by : Callers, at : Nat \ {0}, whole : BOOLEAN])
  /\ state \in [Callers -> States]
  /\ size \in [Callers -> 0..MaxEvents]
  /\ next \in [Callers -> Nat \ {0}]
  /\ \A c \in Callers : next[c] <= Total(c) + 1
  /\ faults \in Nat
  /\ lives \in 1..MaxLives

OnDisk(c, q) == \E j \in DOMAIN disk : disk[j] = Piece(c, q, TRUE)

(* A call that returned Ok has all of its request in the file, but for the *)
(* last newline, although no write is ever flushed and even when the       *)
(* process dies after it: SinkOutcome::written and the 200 rest on it.     *)
AcceptedOnDisk ==
  \A c \in Callers : state[c] = "ok" => \A q \in 1..(Total(c) - 1) : OnDisk(c, q)

(* Every failed open or write makes exactly one call return an error (not  *)
(* necessarily the call that started the write), or is the File's pending  *)
(* result: no error is lost when a caller leaves, none is reported twice.  *)
(* (What is pending when the process dies is never reported.)              *)
EveryFaultReportedOnce ==
  faults = Cardinality({c \in Callers : state[c] = "failed"})
           + (IF op.st = "failed" THEN 1 ELSE 0)

IsLineEnd(p) == p.whole /\ IsNewline(p.at)

(* The JSON text of event i of c fills a line of its own; the line may be  *)
(* the last, its newline still missing.                                    *)
OnOwnLine(c, i) ==
  \E j \in DOMAIN disk :
    /\ j + Parts - 1 \in DOMAIN disk
    /\ \A k \in 1..Parts : disk[j + k - 1] = Piece(c, (i - 1) * PerEvent + k, TRUE)
    /\ j = 1 \/ IsLineEnd(disk[j - 1])
    /\ j + Parts \notin DOMAIN disk \/ IsLineEnd(disk[j + Parts])

(* Every event of a request answered Ok is a line of the capture file, so  *)
(* that reading the file line by line finds it.                            *)
AcceptedOwnLines ==
  \A c \in Callers : state[c] = "ok" => \A i \in 1..size[c] : OnOwnLine(c, i)

(* It is so as long as nothing fails, nobody leaves and the process lives, *)
(* however the calls interleave.                                           *)
OwnLinesUndisturbed ==
  faults = 0 /\ lives = 1 /\ (\A c \in Callers : state[c] # "gone") => AcceptedOwnLines

(* Where in the file a JSON text ends that is whole.                       *)
TextEnds(pieces) ==
  {j \in DOMAIN pieces : pieces[j].whole /\ EndsJson(pieces[j].at)}

(* The events whose JSON text is whole in the file, in file order: entry k *)
(* is the text with k ends up to its own.                                  *)
LogOf(pieces) ==
  LET ends == TextEnds(pieces)
      entries(k) == {<<pieces[j].by, EventOf(pieces[j].at)>> :
                       j \in {i \in ends : Cardinality({h \in ends : h <= i}) = k}}
  IN  [k \in 1..Cardinality(ends) |-> CHOOSE e \in entries(k) : TRUE]

(* The sink, with its lock, its deferred writes, its failures and its      *)
(* leaving callers, appends whole requests to one log, in order and never  *)
(* interleaved, and returns Ok only for what is in it.                     *)
Log == INSTANCE CaptureLog WITH log <- LogOf(disk), status <- state, total <- size
ImplementsLog == Log!Spec

(* Every call returns or is dropped: the Mutex is handed on whatever       *)
(* happened to the calls before.                                           *)
EveryCallReturns ==
  \A c \in Callers : (state[c] = "pending") ~> (state[c] # "pending")
==============================================================================

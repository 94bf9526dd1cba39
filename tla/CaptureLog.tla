----------------------------- MODULE CaptureLog -----------------------------
(***************************************************************************)
(* What the capture sink promises its callers, without the lock, the file  *)
(* handle or the write that is still in flight when a call returns: one    *)
(* append-only log of events, to which every call appends the events of    *)
(* its request in order and with nothing of another request in between.    *)
(***************************************************************************)
EXTENDS Naturals, Sequences, FiniteSets

CONSTANTS
  Callers,    (* requests that call Sink::submit_events                    *)
  MaxEvents   (* most events one request carries                           *)

VARIABLES
  log,        (* the events appended so far, as <<caller, position>> pairs *)
  status,     (* per caller: how far its call is                           *)
  total       (* per caller: events in its request                         *)

logVars == <<log, status, total>>

Statuses == {"idle", "pending", "ok", "failed", "gone"}

(* How many events of c the log holds. *)
Appended(c) == Cardinality({j \in DOMAIN log : log[j][1] = c})

Init ==
  /\ log = <<>>
  /\ status = [c \in Callers |-> "idle"]
  /\ total = [c \in Callers |-> 0]

Submit(c, n) ==
  /\ status[c] = "idle"
  /\ status' = [status EXCEPT ![c] = "pending"]
  /\ total' = [total EXCEPT ![c] = n]
  /\ UNCHANGED log

(* The next event of c reaches the log, at its end: either c has none yet  *)
(* or the last event of the log is its previous one.  A caller that left   *)
(* may still have the event it had already handed over appended.           *)
AppendEvent(c) ==
  /\ status[c] \in {"pending", "gone"}
  /\ Appended(c) < total[c]
  /\ Appended(c) > 0 => log[Len(log)] = <<c, Appended(c)>>
  /\ log' = Append(log, <<c, Appended(c) + 1>>)
  /\ UNCHANGED <<status, total>>

(* A call returns Ok only once its whole request is in the log. *)
Accept(c) ==
  /\ status[c] = "pending"
  /\ Appended(c) = total[c]
  /\ status' = [status EXCEPT ![c] = "ok"]
  /\ UNCHANGED <<log, total>>

(* Calls end without Ok, one with an error or any number at once. *)
GiveUp(S, how) ==
  /\ \A c \in S : status[c] = "pending"
  /\ status' = [c \in Callers |-> IF c \in S THEN how ELSE status[c]]
  /\ UNCHANGED <<log, total>>

Next ==
  \/ \E c \in Callers :
       \/ \E n \in 1..MaxEvents : Submit(c, n)
       \/ AppendEvent(c)
       \/ Accept(c)
       \/ GiveUp({c}, "failed")
  \/ \E S \in SUBSET Callers : GiveUp(S, "gone")

Spec == Init /\ [][Next]_logVars
=============================================================================

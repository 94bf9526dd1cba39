-------------------------------- MODULE Stats --------------------------------
(***************************************************************************)
(* src/hec_receiver/stats.rs as the handlers use it through Reporter: one  *)
(* atomic per counter, a running maximum kept by compare-and-exchange, a   *)
(* map of reasons behind a Mutex, then the line of the log, and /hec/stats,*)
(* which loads the cells one after the other while the handlers go on.     *)
(* Everything is Relaxed: a snapshot may see the cells in any order.       *)
(***************************************************************************)
EXTENDS Naturals, FiniteSets

CONSTANTS
  Handlers,   (* handlers running at once                                  *)
  Latencies,  (* what a handler may measure, in nanoseconds                *)
  Width       (* values an AtomicU64 tells apart: 2^64 in the code         *)

(* There are fewer than 2^64 requests; their nanoseconds may be more.      *)
ASSUME StatsAssumption ==
  /\ IsFiniteSet(Handlers)
  /\ Width \in Nat \ {0}
  /\ Cardinality(Handlers) < Width
  /\ Latencies \subseteq 0..(Width - 1)

VARIABLES
  cell,     (* the atomics                                                 *)
  reasons,  (* entries of the reasons map, counted                         *)
  at,       (* per handler: the next call it makes on Stats                *)
  ends,     (* per handler: the counter of its end                         *)
  nanos,    (* per handler: what it measured                               *)
  seen,     (* per handler: `current` of record_latency                    *)
  snap,     (* the cells /hec/stats has loaded                             *)
  before    (* handlers whose line was in the log when that request came in*)

vars == <<cell, reasons, at, ends, nanos, seen, snap, before>>

Ends == {"requests_ok", "requests_failed"}
Cells == {"requests_total", "latency_nanos_total", "latency_nanos_max"} \cup Ends
Stages == {"new", "running", "latency", "load", "compare", "reason", "line", "done"}

Init ==
  /\ cell = [c \in Cells |-> 0]
  /\ reasons = 0
  /\ at = [h \in Handlers |-> "new"]
  /\ ends = [h \in Handlers |-> "requests_ok"]
  /\ nanos = [h \in Handlers |-> 0]
  /\ seen = [h \in Handlers |-> 0]
  /\ snap = <<>>
  /\ before = {}

StoreAdd(c, n) ==  \* variant: another handler's add in between is lost
  cell' = [cell EXCEPT ![c] = n % Width]

WideAdd(c, n) ==  \* variant: the sum does not wrap
  cell' = [cell EXCEPT ![c] = @ + n]

(* fetch_add wraps.                                                         *)
FetchAdd(c, n) == cell' = [cell EXCEPT ![c] = (@ + n) % Width]

Goto(h, stage) == at' = [at EXCEPT ![h] = stage]

(* REQUEST_RECEIVED.                                                        *)
Receive(h) ==
  /\ at[h] = "new"
  /\ FetchAdd("requests_total", 1)
  /\ Goto(h, "running")
  /\ UNCHANGED <<reasons, ends, nanos, seen, snap, before>>

(* REQUEST_SUCCEEDED or REQUEST_FAILED: its counter, then its latency, then *)
(* its reason.                                                              *)
End(h, c, n) ==
  /\ at[h] = "running"
  /\ FetchAdd(c, 1)
  /\ ends' = [ends EXCEPT ![h] = c]
  /\ nanos' = [nanos EXCEPT ![h] = n]
  /\ Goto(h, "latency")
  /\ UNCHANGED <<reasons, seen, snap, before>>

AddLatency(h) ==
  /\ at[h] = "latency"
  /\ FetchAdd("latency_nanos_total", nanos[h])
  /\ Goto(h, "load")
  /\ UNCHANGED <<reasons, ends, nanos, seen, snap, before>>

RecordedAll(h) == Goto(h, "line")  \* variant: the reason is not counted

(* Where record_latency returns to: only a failure has a reason to count.   *)
Recorded(h) == Goto(h, IF ends[h] = "requests_failed" THEN "reason" ELSE "line")

LoadMax(h) ==
  /\ at[h] = "load"
  /\ seen' = [seen EXCEPT ![h] = cell["latency_nanos_max"]]
  /\ Goto(h, "compare")
  /\ UNCHANGED <<cell, reasons, ends, nanos, snap, before>>

(* The loop is left when the maximum is at least as large.                  *)
NotLarger(h) ==
  /\ at[h] = "compare"
  /\ nanos[h] <= seen[h]
  /\ Recorded(h)
  /\ UNCHANGED <<cell, reasons, ends, nanos, seen, snap, before>>

ExchangesBlindly(h) ==  \* variant: a plain store instead of the exchange
  /\ at[h] = "compare"
  /\ nanos[h] > seen[h]
  /\ cell' = [cell EXCEPT !["latency_nanos_max"] = nanos[h]]
  /\ Recorded(h)
  /\ UNCHANGED <<reasons, ends, nanos, seen, snap, before>>

(* compare_exchange_weak succeeds.  (That it may also fail for no reason    *)
(* changes nothing: the loop comes back with the value it had.)             *)
Exchanges(h) ==
  /\ at[h] = "compare"
  /\ nanos[h] > seen[h]
  /\ cell["latency_nanos_max"] = seen[h]
  /\ cell' = [cell EXCEPT !["latency_nanos_max"] = nanos[h]]
  /\ Recorded(h)
  /\ UNCHANGED <<reasons, ends, nanos, seen, snap, before>>

RetriesStale(h) ==  \* variant: the value found is not taken over
  /\ at[h] = "compare"
  /\ nanos[h] > seen[h]
  /\ cell["latency_nanos_max"] # seen[h]
  /\ UNCHANGED vars

(* It fails because another handler got in between: the loop goes on with   *)
(* the value found.                                                         *)
Retries(h) ==
  /\ at[h] = "compare"
  /\ nanos[h] > seen[h]
  /\ cell["latency_nanos_max"] # seen[h]
  /\ seen' = [seen EXCEPT ![h] = cell["latency_nanos_max"]]
  /\ UNCHANGED <<cell, reasons, at, ends, nanos, snap, before>>

IncrementReason(h) ==
  /\ at[h] = "reason"
  /\ reasons' = reasons + 1
  /\ Goto(h, "line")
  /\ UNCHANGED <<cell, ends, nanos, seen, snap, before>>

(* emit_tracing and emit_console come after apply_counters; the answer is   *)
(* sent after both.                                                         *)
EmitLine(h) ==
  /\ at[h] = "line"
  /\ Goto(h, "done")
  /\ UNCHANGED <<cell, reasons, ends, nanos, seen, snap, before>>

(* /hec/stats loads one more cell.                                          *)
LoadCell(c) ==
  /\ c \notin DOMAIN snap
  /\ snap' = [x \in DOMAIN snap \cup {c} |-> IF x = c THEN cell[c] ELSE snap[x]]
  /\ before' = IF DOMAIN snap = {} THEN {h \in Handlers : at[h] = "done"} ELSE before
  /\ UNCHANGED <<cell, reasons, at, ends, nanos, seen>>

Quiet ==
  /\ \A h \in Handlers : at[h] = "done"
  /\ DOMAIN snap = Cells
  /\ UNCHANGED vars

Record(h) ==
  AddLatency(h) \/ LoadMax(h) \/ NotLarger(h) \/ Exchanges(h) \/ Retries(h)
  \/ IncrementReason(h) \/ EmitLine(h)

Next ==
  \/ \E h \in Handlers :
       \/ Receive(h)
       \/ \E c \in Ends, n \in Latencies : End(h, c, n)
       \/ Record(h)
  \/ \E c \in Cells : LoadCell(c)
  \/ Quiet

Spec == Init /\ [][Next]_vars

(* A thread that runs gets through record_latency: its exchange is not      *)
(* refused for no reason for ever.                                          *)
FairSpec == Spec /\ \A h \in Handlers : WF_vars(Record(h))
------------------------------------------------------------------------------
(* Every variable stays in its range.                                       *)
TypeOK ==
  /\ cell \in [Cells -> 0..(Width - 1)]
  /\ reasons \in Nat
  /\ at \in [Handlers -> Stages]
  /\ ends \in [Handlers -> Ends]
  /\ nanos \in [Handlers -> 0..(Width - 1)]
  /\ seen \in [Handlers -> 0..(Width - 1)]
  /\ before \subseteq Handlers

(* Handlers that have taken part in the maximum.                            *)
Finished == {h \in Handlers : at[h] \in {"reason", "line", "done"}}

(* latency_nanos_max is no less than what any handler that finished has     *)
(* measured, and is what some handler measured: no exchange is lost, and    *)
(* none puts an older value back.                                           *)
MaxIsMax ==
  /\ \A h \in Finished : nanos[h] <= cell["latency_nanos_max"]
  /\ \/ cell["latency_nanos_max"] = 0
     \/ \E h \in Finished : nanos[h] = cell["latency_nanos_max"]

(* A snapshot counts the end of every request whose line in the log was     *)
(* there before it was asked for (and so of every answer), and no end of a  *)
(* request that has not begun.  (It may well show more ends than requests:  *)
(* the cells are not loaded together.)                                      *)
SnapshotCovers ==
  DOMAIN snap = Cells =>
    /\ Cardinality(before) <= snap["requests_ok"] + snap["requests_failed"]
    /\ Cardinality(before) <= snap["requests_total"]
    /\ snap["requests_ok"] + snap["requests_failed"]
         <= Cardinality({h \in Handlers : at[h] # "new"})

(* The nanoseconds the handlers of S have measured, one pair for each.      *)
NanosOf(S) == {e \in S \X (1..(Width - 1)) : e[2] <= nanos[e[1]]}

(* When no handler runs, the cells agree: every request has ended in one    *)
(* way, every failure has its reason, no latency is missing from the sum.   *)
Settled ==
  (\A h \in Handlers : at[h] \in {"new", "done"}) =>
    /\ cell["requests_total"] = cell["requests_ok"] + cell["requests_failed"]
    /\ reasons = cell["requests_failed"]
    /\ cell["latency_nanos_total"] = Cardinality(NanosOf(Handlers)) % Width

(* A handler's report comes to its end, however many others exchange the    *)
(* maximum meanwhile.                                                       *)
EveryReportEnds == \A h \in Handlers : (at[h] = "latency") ~> (at[h] = "done")
==============================================================================

---------------------------- MODULE Stats_proofs ----------------------------
(***************************************************************************)
(* For any number of handlers and any latencies: record_latency keeps the  *)
(* maximum, no add is lost, and a snapshot that is loaded cell by cell     *)
(* covers the requests whose line was in the log before.                   *)
(***************************************************************************)
EXTENDS Stats, FiniteSetTheorems, TLAPS

Max64 == cell["latency_nanos_max"]

(* What the loop has read is never more than what is there now: the maximum *)
(* only grows.  TypeOK in the parts the argument needs.                     *)
LoopInv ==
  /\ cell \in [Cells -> Nat]
  /\ at \in [Handlers -> Stages]
  /\ nanos \in [Handlers -> Nat]
  /\ seen \in [Handlers -> Nat]
  /\ \A h \in Handlers : at[h] = "compare" => seen[h] <= Max64

IInv == LoopInv /\ MaxIsMax
-----------------------------------------------------------------------------
LEMMA MaxInCells ==
  /\ "latency_nanos_max" \in Cells
  /\ "requests_total" \in Cells /\ "latency_nanos_total" \in Cells
  /\ \A c \in Ends : c \in Cells /\ c # "latency_nanos_max"
  BY DEF Cells, Ends

(* Adding to another counter leaves the maximum alone. *)
LEMMA AddKeepsMax ==
  ASSUME cell \in [Cells -> Nat], NEW c \in Cells, c # "latency_nanos_max",
         NEW n \in Nat, FetchAdd(c, n)
  PROVE  cell' \in [Cells -> Nat] /\ Max64' = Max64
  <1>1. (cell[c] + n) % Width \in Nat
    BY StatsAssumption
  <1>2. cell' = [cell EXCEPT ![c] = (cell[c] + n) % Width]
    BY DEF FetchAdd
  <1> QED
    BY <1>1, <1>2, MaxInCells DEF Max64

(* A step of h that neither finishes h nor changes the maximum. *)
LEMMA NotFinishing ==
  ASSUME IInv, NEW h \in Handlers, NEW stage \in Stages \ {"reason", "line", "done"},
         h \notin Finished, at' = [at EXCEPT ![h] = stage], Max64' = Max64,
         cell' \in [Cells -> Nat], nanos' \in [Handlers -> Nat], seen' \in [Handlers -> Nat],
         \A k \in Handlers : k # h => nanos'[k] = nanos[k] /\ seen'[k] = seen[k],
         stage = "compare" => seen'[h] <= Max64
  PROVE  IInv'
  <1>1. at' \in [Handlers -> Stages] /\ at'[h] = stage
        /\ \A k \in Handlers : k # h => at'[k] = at[k]
    BY DEF IInv, LoopInv
  <1>2. Finished' = Finished
    BY <1>1 DEF Finished
  <1>3. \A k \in Finished : nanos'[k] = nanos[k]
    BY DEF Finished
  <1>4. MaxIsMax'
    BY <1>2, <1>3 DEF IInv, MaxIsMax, Max64
  <1>5. LoopInv'
    BY <1>1 DEF IInv, LoopInv
  <1> QED
    BY <1>4, <1>5 DEF IInv

(* A step that finishes h, whose measurement the maximum covers after it.   *)
LEMMA Finishing ==
  ASSUME IInv, NEW h \in Handlers, at[h] = "compare",
         at'[h] \in {"reason", "line", "done"}, at' \in [Handlers -> Stages],
         \A k \in Handlers : k # h => at'[k] = at[k],
         cell' \in [Cells -> Nat], nanos' = nanos, seen' = seen,
         Max64 <= Max64', nanos[h] <= Max64',
         Max64' = Max64 \/ Max64' = nanos[h]
  PROVE  IInv'
  <1>1. Finished' = Finished \cup {h}
    BY DEF Finished
  <1>2. Max64 \in Nat /\ Max64' \in Nat /\ \A k \in Handlers : nanos[k] \in Nat /\ seen[k] \in Nat
    BY MaxInCells DEF IInv, LoopInv, Max64
  <1>3. \A k \in Finished : nanos[k] <= Max64
    BY DEF IInv, MaxIsMax, Max64
  <1>4. \A k \in Finished' : nanos'[k] <= Max64'
    BY <1>1, <1>2, <1>3 DEF Finished
  <1>5. Max64' = 0 \/ \E k \in Finished' : nanos'[k] = Max64'
    BY <1>1 DEF IInv, MaxIsMax, Max64
  <1>6. LoopInv'
    BY <1>2 DEF IInv, LoopInv
  <1> QED
    BY <1>4, <1>5, <1>6 DEF IInv, MaxIsMax, Max64

LEMMA InitInv == Init => IInv
  BY MaxInCells DEF Init, IInv, LoopInv, MaxIsMax, Finished, Max64, Stages

LEMMA NextInv == IInv /\ [Next]_vars => IInv'
  <1> SUFFICES ASSUME IInv, [Next]_vars PROVE IInv'
    OBVIOUS
  <1>0. /\ cell \in [Cells -> Nat] /\ at \in [Handlers -> Stages]
        /\ nanos \in [Handlers -> Nat] /\ seen \in [Handlers -> Nat] /\ Max64 \in Nat
    BY MaxInCells DEF IInv, LoopInv, Max64
  <1>1. ASSUME NEW h \in Handlers, Receive(h) PROVE IInv'
    <2>1. cell' \in [Cells -> Nat] /\ Max64' = Max64
      BY <1>0, <1>1, MaxInCells, AddKeepsMax DEF Receive
    <2> QED
      BY <1>0, <1>1, <2>1, NotFinishing DEF Receive, Goto, Finished, Stages
  <1>2. ASSUME NEW h \in Handlers, NEW c \in Ends, NEW n \in Latencies, End(h, c, n)
        PROVE  IInv'
    <2>1. cell' \in [Cells -> Nat] /\ Max64' = Max64
      BY <1>0, <1>2, MaxInCells, AddKeepsMax DEF End
    <2>2. n \in Nat
      BY StatsAssumption
    <2> QED
      BY <1>0, <1>2, <2>1, <2>2, NotFinishing DEF End, Goto, Finished, Stages
  <1>3. ASSUME NEW h \in Handlers, AddLatency(h) PROVE IInv'
    <2>1. cell' \in [Cells -> Nat] /\ Max64' = Max64
      BY <1>0, <1>3, MaxInCells, AddKeepsMax DEF AddLatency
    <2> QED
      BY <1>0, <1>3, <2>1, NotFinishing DEF AddLatency, Goto, Finished, Stages
  <1>4. ASSUME NEW h \in Handlers, LoadMax(h) PROVE IInv'
    <2>1. seen' \in [Handlers -> Nat] /\ seen'[h] <= Max64 /\ Max64' = Max64
      BY <1>0, <1>4 DEF LoadMax, Max64
    <2> QED
      BY <1>0, <1>4, <2>1, NotFinishing DEF LoadMax, Goto, Finished, Stages
  <1>5. ASSUME NEW h \in Handlers, NotLarger(h) PROVE IInv'
    <2>1. nanos[h] <= Max64 /\ Max64' = Max64
      BY <1>0, <1>5 DEF NotLarger, IInv, LoopInv, Max64
    <2> QED
      BY <1>0, <1>5, <2>1, Finishing DEF NotLarger, Recorded, Goto, Stages
  <1>6. ASSUME NEW h \in Handlers, Exchanges(h) PROVE IInv'
    <2>1. cell' \in [Cells -> Nat] /\ Max64' = nanos[h] /\ Max64 <= nanos[h]
      BY <1>0, <1>6, MaxInCells DEF Exchanges, Max64
    <2> QED
      BY <1>0, <1>6, <2>1, Finishing DEF Exchanges, Recorded, Goto, Stages
  <1>7. ASSUME NEW h \in Handlers, Retries(h) PROVE IInv'
    <2>1. seen' \in [Handlers -> Nat] /\ seen'[h] = Max64 /\ Max64' = Max64
          /\ \A k \in Handlers : k # h => seen'[k] = seen[k]
      BY <1>0, <1>7 DEF Retries, Max64
    <2> QED
      BY <1>0, <1>7, <2>1 DEF Retries, IInv, LoopInv, MaxIsMax, Finished, Max64
  <1>8. ASSUME NEW h \in Handlers, IncrementReason(h) \/ EmitLine(h) PROVE IInv'
    <2>1. Finished' = Finished
      BY <1>0, <1>8 DEF IncrementReason, EmitLine, Goto, Finished
    <2>2. at' \in [Handlers -> Stages] /\ \A k \in Handlers : at'[k] = "compare" => at[k] = "compare"
      BY <1>0, <1>8 DEF IncrementReason, EmitLine, Goto, Stages
    <2> QED
      BY <1>8, <2>1, <2>2 DEF IncrementReason, EmitLine, IInv, LoopInv, MaxIsMax, Max64
  <1>9. ASSUME UNCHANGED <<cell, at, nanos, seen>> PROVE IInv'
    BY <1>9 DEF IInv, LoopInv, MaxIsMax, Finished, Max64
  <1> QED
    BY <1>1, <1>2, <1>3, <1>4, <1>5, <1>6, <1>7, <1>8, <1>9
       DEF Next, Record, LoadCell, Quiet, vars

(* latency_nanos_max is the largest latency recorded so far, for any number *)
(* of handlers that exchange it at once.                                    *)
THEOREM MaxCorrect == Spec => []MaxIsMax
  <1>1. IInv => MaxIsMax
    BY DEF IInv
  <1> QED
    BY <1>1, InitInv, NextInv, PTL DEF Spec
-----------------------------------------------------------------------------
CellRange == 0..(Width - 1)

LEMMA WidthFacts ==
  /\ Width \in Nat /\ Width >= 1
  /\ Cardinality(Handlers) \in Nat /\ Cardinality(Handlers) < Width
  /\ 0 \in CellRange /\ CellRange \subseteq Nat
  /\ Latencies \subseteq CellRange
  /\ \A n \in Nat : n % Width \in CellRange
  /\ \A n \in CellRange : n % Width = n
  <1>1. Width \in Nat /\ Width >= 1 /\ Cardinality(Handlers) < Width /\ IsFiniteSet(Handlers)
    BY StatsAssumption
  <1>2. Cardinality(Handlers) \in Nat
    BY <1>1, FS_CardinalityType
  <1>3. \A n \in Nat : n % Width \in CellRange
    BY <1>1 DEF CellRange
  <1>4. \A n \in CellRange : n % Width = n
    BY <1>1 DEF CellRange
  <1>5. 0 \in CellRange /\ CellRange \subseteq Nat /\ Latencies \subseteq CellRange
    BY <1>1, StatsAssumption DEF CellRange
  <1> QED
    BY <1>1, <1>2, <1>3, <1>4, <1>5

(* Every variable of the model stays in its range; what is compared to the  *)
(* maximum, and what a snapshot shows, is a value of a cell.                *)
THEOREM TypeCorrect == Spec => []TypeOK
  <1>1. Init => TypeOK
    BY WidthFacts DEF Init, TypeOK, Stages, Ends, CellRange
  <1>2. TypeOK /\ [Next]_vars => TypeOK'
    <2> SUFFICES ASSUME TypeOK, [Next]_vars PROVE TypeOK'
      OBVIOUS
    <2>0. /\ cell \in [Cells -> CellRange] /\ at \in [Handlers -> Stages]
          /\ nanos \in [Handlers -> CellRange] /\ seen \in [Handlers -> CellRange]
      BY DEF TypeOK, CellRange
    <2>1. ASSUME NEW c \in Cells, NEW n \in CellRange, FetchAdd(c, n)
          PROVE  cell' \in [Cells -> CellRange]
      <3>1. cell[c] + n \in Nat
        <4>1. cell[c] \in Nat /\ n \in Nat
          BY <2>0, WidthFacts, Zenon
        <4> QED
          BY <4>1
      <3>2. (cell[c] + n) % Width \in CellRange
        BY <3>1, WidthFacts
      <3> QED
        <4> DEFINE v == (cell[c] + n) % Width
        <4>1. cell' = [cell EXCEPT ![c] = v]
          BY <2>1 DEF FetchAdd
        <4>2. v \in CellRange
          BY <3>2
        <4> HIDE DEF v
        <4> QED
          BY <2>0, <4>1, <4>2
    <2>2. ASSUME NEW h \in Handlers, NEW stage \in Stages, Goto(h, stage)
          PROVE  at' \in [Handlers -> Stages]
      BY <2>0, <2>2 DEF Goto
    <2>3. 1 \in CellRange \/ Handlers = {}
      <3>1. ASSUME Handlers # {} PROVE Cardinality(Handlers) # 0
        BY <3>1, StatsAssumption, FS_EmptySet
      <3> QED
        BY <3>1, WidthFacts DEF CellRange
    <2>4. ASSUME NEW h \in Handlers, Receive(h) PROVE TypeOK'
      <3>1. cell' \in [Cells -> CellRange]
        BY <2>1, <2>3, <2>4, MaxInCells DEF Receive
      <3>2. at' \in [Handlers -> Stages]
        BY <2>2, <2>4 DEF Receive, Stages
      <3> QED
        BY <2>4, <3>1, <3>2 DEF Receive, TypeOK, CellRange
    <2>5. ASSUME NEW h \in Handlers, NEW c \in Ends, NEW n \in Latencies, End(h, c, n)
          PROVE  TypeOK'
      <3>1. cell' \in [Cells -> CellRange]
        BY <2>1, <2>3, <2>5, MaxInCells DEF End
      <3>2. at' \in [Handlers -> Stages]
        BY <2>2, <2>5 DEF End, Stages
      <3>3. nanos' \in [Handlers -> CellRange] /\ ends' \in [Handlers -> Ends]
        BY <2>0, <2>5, WidthFacts DEF End, TypeOK
      <3> QED
        BY <2>5, <3>1, <3>2, <3>3 DEF End, TypeOK, CellRange
    <2>6. ASSUME NEW h \in Handlers, AddLatency(h) PROVE TypeOK'
      <3>1. cell' \in [Cells -> CellRange]
        BY <2>0, <2>1, <2>6, MaxInCells DEF AddLatency
      <3>2. at' \in [Handlers -> Stages]
        BY <2>2, <2>6 DEF AddLatency, Stages
      <3> QED
        BY <2>6, <3>1, <3>2 DEF AddLatency, TypeOK, CellRange
    <2>7. ASSUME NEW h \in Handlers, LoadMax(h) PROVE TypeOK'
      <3>1. at' \in [Handlers -> Stages] /\ seen' \in [Handlers -> CellRange]
        BY <2>0, <2>2, <2>7, MaxInCells DEF LoadMax, Stages
      <3> QED
        BY <2>7, <3>1 DEF LoadMax, TypeOK, CellRange
    <2>8. ASSUME NEW h \in Handlers, NotLarger(h) \/ Exchanges(h) PROVE TypeOK'
      <3>1. at' \in [Handlers -> Stages]
        BY <2>2, <2>8 DEF NotLarger, Exchanges, Recorded, Stages
      <3>2. cell' \in [Cells -> CellRange]
        BY <2>0, <2>8, MaxInCells DEF NotLarger, Exchanges
      <3> QED
        BY <2>8, <3>1, <3>2 DEF NotLarger, Exchanges, TypeOK, CellRange
    <2>9. ASSUME NEW h \in Handlers, Retries(h) PROVE TypeOK'
      <3>1. seen' \in [Handlers -> CellRange]
        BY <2>0, <2>9, MaxInCells DEF Retries
      <3> QED
        BY <2>9, <3>1 DEF Retries, TypeOK, CellRange
    <2>10. ASSUME NEW h \in Handlers, IncrementReason(h) \/ EmitLine(h) PROVE TypeOK'
      <3>1. at' \in [Handlers -> Stages]
        BY <2>2, <2>10 DEF IncrementReason, EmitLine, Stages
      <3> QED
        BY <2>10, <3>1 DEF IncrementReason, EmitLine, TypeOK
    <2>11. ASSUME NEW c \in Cells, LoadCell(c) PROVE TypeOK'
      BY <2>11 DEF LoadCell, TypeOK
    <2>12. CASE Quiet \/ UNCHANGED vars
      BY <2>12 DEF Quiet, vars, TypeOK
    <2> QED
      BY <2>4, <2>5, <2>6, <2>7, <2>8, <2>9, <2>10, <2>11, <2>12 DEF Next, Record
  <1> QED
    BY <1>1, <1>2, PTL DEF Spec
-----------------------------------------------------------------------------
Begun == {h \in Handlers : at[h] # "new"}
EndedAs(c) == {h \in Handlers : at[h] \notin {"new", "running"} /\ ends[h] = c}
Reasoned == {h \in Handlers : at[h] \in {"line", "done"} /\ ends[h] = "requests_failed"}
Added == {h \in Handlers : at[h] \notin {"new", "running", "latency"}}

(* Every counter is the number of handlers that are past its add, and the   *)
(* sum is that of their latencies, whatever other adds came between.        *)
CountInv ==
  /\ cell["requests_total"] = Cardinality(Begun)
  /\ \A c \in Ends : cell[c] = Cardinality(EndedAs(c))
  /\ reasons = Cardinality(Reasoned)
  /\ cell["latency_nanos_total"] = Cardinality(NanosOf(Added)) % Width
  /\ \A h \in Handlers : at[h] = "reason" => ends[h] = "requests_failed"
  /\ \A h \in Handlers : at[h] \in {"new", "running"} => nanos[h] = 0

(* A set of handlers has fewer members than a cell has values. *)
LEMMA HandlersFit ==
  ASSUME NEW S, S \subseteq Handlers
  PROVE  /\ IsFiniteSet(S) /\ Cardinality(S) \in Nat
         /\ Cardinality(S) \in CellRange
         /\ \A h \in Handlers : h \notin S =>
              /\ Cardinality(S \cup {h}) = Cardinality(S) + 1
              /\ (Cardinality(S) + 1) % Width = Cardinality(S) + 1
  <1>1. /\ IsFiniteSet(Handlers) /\ Width \in Nat /\ Cardinality(Handlers) \in Nat
        /\ Cardinality(Handlers) < Width
    BY StatsAssumption, WidthFacts
  <1>2. ASSUME NEW T, T \subseteq Handlers
        PROVE  /\ IsFiniteSet(T) /\ Cardinality(T) \in Nat
               /\ Cardinality(T) <= Cardinality(Handlers)
    BY <1>1, <1>2, FS_Subset, FS_CardinalityType
  <1>3. ASSUME NEW T, T \subseteq Handlers PROVE Cardinality(T) \in CellRange
    BY <1>1, <1>2, <1>3 DEF CellRange
  <1>4. ASSUME NEW h \in Handlers, h \notin S
        PROVE  /\ Cardinality(S \cup {h}) = Cardinality(S) + 1
               /\ (Cardinality(S) + 1) % Width = Cardinality(S) + 1
    <2>1. Cardinality(S \cup {h}) = Cardinality(S) + 1
      BY <1>2, <1>4, FS_AddElement
    <2>2. S \cup {h} \subseteq Handlers
      OBVIOUS
    <2>3. Cardinality(S) + 1 \in CellRange
      BY <1>3, <2>1, <2>2
    <2>4. (Cardinality(S) + 1) % Width = Cardinality(S) + 1
      BY <2>3, WidthFacts
    <2> QED
      BY <2>1, <2>4
  <1> QED
    BY <1>2, <1>3, <1>4

(* Adding to a value that wraps wraps like the sum. *)
LEMMA WrapAdd ==
  ASSUME NEW x \in Nat, NEW n \in Nat
  PROVE  ((x % Width) + n) % Width = (x + n) % Width
  <1> DEFINE a == x % Width
             d == x \div Width
             b == (a + n) % Width
             e == (a + n) \div Width
             c == (x + n) % Width
             f == (x + n) \div Width
  <1>0. Width \in Nat /\ Width >= 1
    BY WidthFacts
  <1>1. a \in Nat /\ d \in Nat /\ x = Width * d + a
    BY <1>0
  <1> HIDE DEF a, d
  <1>2. b \in Nat /\ b < Width /\ e \in Nat /\ a + n = Width * e + b
    BY <1>0, <1>1
  <1>3. c \in Nat /\ c < Width /\ f \in Nat /\ x + n = Width * f + c
    BY <1>0
  <1> HIDE DEF b, c, e, f
  <1>4. Width * f + c = Width * (d + e) + b
    BY <1>0, <1>1, <1>2, <1>3
  <1> DEFINE g == d + e
  <1>5. g \in Nat /\ Width * f + c = Width * g + b
    BY <1>1, <1>2, <1>4
  <1> HIDE DEF g
  <1>6. ASSUME NEW p \in Nat, NEW q \in Nat, NEW r \in Nat, NEW s \in Nat,
               r < Width, s < Width, Width * p + r = Width * q + s, p < q
        PROVE  FALSE
    <2>1. PICK k \in Nat : q = p + 1 + k
      <3>1. q - (p + 1) \in Nat /\ q = p + 1 + (q - (p + 1))
        BY <1>6
      <3> QED
        BY <3>1
    <2>2. Width * q = Width * p + Width + Width * k /\ Width * k \in Nat /\ Width * p \in Nat
      BY <1>0, <2>1
    <2> QED
      BY <1>0, <1>6, <2>2
  <1>7. f = g
    BY <1>2, <1>3, <1>5, <1>6
  <1>8. c = b
    BY <1>0, <1>2, <1>3, <1>5, <1>7
  <1> QED
    BY <1>8 DEF a, b, c

(* The handlers' nanoseconds are finitely many; one more adds its own. *)
LEMMA NanosGrow ==
  ASSUME TypeOK, NEW S, S \subseteq Handlers, NEW h \in Handlers, h \notin S
  PROVE  /\ Cardinality(NanosOf(S)) \in Nat
         /\ Cardinality(NanosOf(S \cup {h})) = Cardinality(NanosOf(S)) + nanos[h]
  <1> DEFINE n == nanos[h]
             old == NanosOf(S)
             own == {h} \X (1..n)
  <1>1. Width \in Nat /\ n \in Nat /\ n <= Width - 1
    BY WidthFacts DEF TypeOK
  <1>2. IsFiniteSet(1..(Width - 1)) /\ IsFiniteSet(1..n) /\ Cardinality(1..n) = n
    BY <1>1, FS_Interval
  <1>3. IsFiniteSet(old) /\ Cardinality(old) \in Nat
    <2>1. IsFiniteSet(S \X (1..(Width - 1)))
      BY <1>2, HandlersFit, FS_Product
    <2>2. old \subseteq S \X (1..(Width - 1))
      BY DEF NanosOf
    <2>3. IsFiniteSet(old)
      BY <2>1, <2>2, FS_Subset
    <2> QED
      BY <2>3, FS_CardinalityType
  <1>4. IsFiniteSet(own) /\ Cardinality(own) = n
    <2>1. IsFiniteSet({h}) /\ Cardinality({h}) = 1
      BY FS_Singleton
    <2>2. IsFiniteSet(own) /\ Cardinality(own) = Cardinality({h}) * Cardinality(1..n)
      BY <1>2, <2>1, FS_Product
    <2> QED
      BY <1>1, <1>2, <2>1, <2>2
  <1>5. NanosOf(S \cup {h}) = old \cup own
    <2>1. ASSUME NEW k \in S \cup {h}, NEW i \in 1..(Width - 1)
          PROVE  <<k, i>> \in NanosOf(S \cup {h}) <=> <<k, i>> \in old \/ <<k, i>> \in own
      <3>1. CASE k = h
        BY <1>1, <3>1 DEF NanosOf
      <3>2. CASE k # h
        BY <3>2 DEF NanosOf
      <3> QED
        BY <3>1, <3>2
    <2>2. /\ NanosOf(S \cup {h}) \subseteq (S \cup {h}) \X (1..(Width - 1))
          /\ old \subseteq (S \cup {h}) \X (1..(Width - 1))
          /\ own \subseteq (S \cup {h}) \X (1..(Width - 1))
      <3>1. \A i \in 1..n : i \in 1..(Width - 1)
        BY <1>1
      <3>2. S \subseteq S \cup {h} /\ h \in S \cup {h}
        OBVIOUS
      <3>3. NanosOf(S \cup {h}) \subseteq (S \cup {h}) \X (1..(Width - 1))
        BY DEF NanosOf
      <3>4. old \subseteq (S \cup {h}) \X (1..(Width - 1))
        BY <3>2 DEF NanosOf
      <3>5. own \subseteq (S \cup {h}) \X (1..(Width - 1))
        BY <3>1, <3>2
      <3> QED
        BY <3>3, <3>4, <3>5
    <2> DEFINE new == NanosOf(S \cup {h})
               all == (S \cup {h}) \X (1..(Width - 1))
    <2>3. ASSUME NEW x \in all PROVE x \in new <=> x \in old \cup own
      <3>1. PICK k \in S \cup {h}, i \in 1..(Width - 1) : x = <<k, i>>
        OBVIOUS
      <3> HIDE DEF old, own, new
      <3> QED
        BY <2>1, <3>1 DEF new
    <2>4. new \subseteq all /\ old \cup own \subseteq all
      BY <2>2
    <2> HIDE DEF old, own, new, all
    <2>5. new = old \cup own
      BY <2>3, <2>4
    <2> QED
      BY <2>5 DEF new
  <1>6. old \cap own = {}
    BY DEF NanosOf
  <1> HIDE DEF old, own, n
  <1>7. Cardinality(old \cup own) = Cardinality(old) + Cardinality(own) - Cardinality(old \cap own)
    BY <1>3, <1>4, FS_Union
  <1>8. Cardinality(old \cap own) = 0
    BY <1>6, FS_EmptySet
  <1>9. Cardinality(NanosOf(S \cup {h})) = Cardinality(old) + n - 0
    BY <1>4, <1>5, <1>7, <1>8, Zenon
  <1> QED
    BY <1>1, <1>3, <1>9 DEF old, n

LEMMA InitCounts == Init => CountInv
  <1> SUFFICES ASSUME Init PROVE CountInv
    OBVIOUS
  <1>1. Begun = {} /\ (\A c : EndedAs(c) = {}) /\ Reasoned = {} /\ Added = {}
    BY DEF Init, Begun, EndedAs, Reasoned, Added
  <1>2. NanosOf(Added) = {}
    BY <1>1 DEF NanosOf
  <1>3. Cardinality({}) = 0 /\ 0 % Width = 0
    BY FS_EmptySet, WidthFacts
  <1>4. /\ cell["requests_total"] = 0 /\ cell["latency_nanos_total"] = 0
        /\ \A c \in Ends : cell[c] = 0
        /\ reasons = 0
        /\ \A h \in Handlers : at[h] = "new" /\ nanos[h] = 0
    BY MaxInCells DEF Init
  <1> QED
    BY <1>1, <1>2, <1>3, <1>4 DEF CountInv

(* A step that counts nothing. *)
LEMMA SameCounts ==
  ASSUME CountInv, Begun' = Begun, \A c \in Ends : EndedAs(c)' = EndedAs(c),
         Reasoned' = Reasoned, Added' = Added, nanos' = nanos, reasons' = reasons,
         \A c \in Cells : c # "latency_nanos_max" => cell'[c] = cell[c],
         \A h \in Handlers : at'[h] = "reason" => ends'[h] = "requests_failed",
         \A h \in Handlers : at'[h] \in {"new", "running"} => at[h] \in {"new", "running"}
  PROVE  CountInv'
  <1>1. NanosOf(Added)' = NanosOf(Added)
    BY DEF NanosOf
  <1>2. /\ cell'["requests_total"] = cell["requests_total"]
        /\ cell'["latency_nanos_total"] = cell["latency_nanos_total"]
        /\ \A c \in Ends : cell'[c] = cell[c]
    BY DEF Cells, Ends
  <1> QED
    BY <1>1, <1>2 DEF CountInv

LEMMA CountsNext == TypeOK /\ CountInv /\ [Next]_vars => CountInv'
  <1> SUFFICES ASSUME TypeOK, CountInv, [Next]_vars PROVE CountInv'
    OBVIOUS
  <1>0. /\ cell \in [Cells -> CellRange] /\ at \in [Handlers -> Stages]
        /\ ends \in [Handlers -> Ends] /\ nanos \in [Handlers -> CellRange]
    BY DEF TypeOK, CellRange
  <1> DEFINE At(h, stage) == at'[h] = stage /\ \A k \in Handlers : k # h => at'[k] = at[k]
  <1>1. ASSUME NEW h \in Handlers, NEW stage, Goto(h, stage) PROVE At(h, stage)
    BY <1>0, <1>1 DEF Goto
  <1>2. ASSUME NEW c \in Cells, NEW n, FetchAdd(c, n)
        PROVE  /\ cell'[c] = (cell[c] + n) % Width
               /\ \A d \in Cells : d # c => cell'[d] = cell[d]
    BY <1>0, <1>2 DEF FetchAdd
  <1>3. "requests_total" \notin Ends /\ "latency_nanos_total" \notin Ends
        /\ "requests_total" \in Cells /\ "latency_nanos_total" \in Cells
        /\ \A c \in Ends : c \in Cells
    BY DEF Ends, Cells
  <1>4. ASSUME NEW h \in Handlers, Receive(h) PROVE CountInv'
    <2>1. at[h] = "new" /\ At(h, "running") /\ FetchAdd("requests_total", 1)
          /\ UNCHANGED <<reasons, ends, nanos>>
      BY <1>1, <1>4 DEF Receive
    <2>2. Begun' = Begun \cup {h} /\ h \notin Begun /\ Begun \subseteq Handlers
      BY <2>1 DEF Begun
    <2>3. Cardinality(Begun') = Cardinality(Begun) + 1
          /\ (Cardinality(Begun) + 1) % Width = Cardinality(Begun) + 1
      BY <2>2, HandlersFit
    <2>4. /\ cell'["requests_total"] = Cardinality(Begun')
          /\ cell'["latency_nanos_total"] = cell["latency_nanos_total"]
          /\ \A c \in Ends : cell'[c] = cell[c]
      BY <1>2, <1>3, <2>1, <2>3 DEF CountInv
    <2>5. (\A c : EndedAs(c)' = EndedAs(c)) /\ Reasoned' = Reasoned /\ Added' = Added
      BY <2>1 DEF EndedAs, Reasoned, Added
    <2>6. NanosOf(Added)' = NanosOf(Added)
      BY <2>1, <2>5 DEF NanosOf
    <2>7. /\ \A k \in Handlers : at'[k] = "reason" => ends'[k] = "requests_failed"
          /\ \A k \in Handlers : at'[k] \in {"new", "running"} => nanos'[k] = 0
      BY <2>1 DEF CountInv
    <2> QED
      BY <2>1, <2>4, <2>5, <2>6, <2>7 DEF CountInv
  <1>5. ASSUME NEW h \in Handlers, NEW c \in Ends, NEW n \in Latencies, End(h, c, n)
        PROVE  CountInv'
    <2>1. /\ at[h] = "running" /\ At(h, "latency") /\ FetchAdd(c, 1) /\ reasons' = reasons
          /\ ends'[h] = c /\ \A k \in Handlers : k # h => ends'[k] = ends[k] /\ nanos'[k] = nanos[k]
      BY <1>0, <1>1, <1>5 DEF End
    <2>2. EndedAs(c)' = EndedAs(c) \cup {h} /\ h \notin EndedAs(c) /\ EndedAs(c) \subseteq Handlers
      BY <2>1 DEF EndedAs
    <2>3. ASSUME NEW d \in Ends, d # c PROVE EndedAs(d)' = EndedAs(d)
      BY <2>1, <2>3 DEF EndedAs
    <2>4. Cardinality(EndedAs(c)') = Cardinality(EndedAs(c)) + 1
          /\ (Cardinality(EndedAs(c)) + 1) % Width = Cardinality(EndedAs(c)) + 1
      BY <2>2, HandlersFit
    <2>5. /\ cell'["requests_total"] = cell["requests_total"]
          /\ cell'["latency_nanos_total"] = cell["latency_nanos_total"]
          /\ cell'[c] = (cell[c] + 1) % Width
          /\ \A d \in Ends : d # c => cell'[d] = cell[d]
      BY <1>2, <1>3, <2>1
    <2>6. \A d \in Ends : cell'[d] = Cardinality(EndedAs(d)')
      BY <2>3, <2>4, <2>5 DEF CountInv
    <2>7. Begun' = Begun /\ Reasoned' = Reasoned /\ Added' = Added
      BY <2>1 DEF Begun, Reasoned, Added
    <2>8. NanosOf(Added)' = NanosOf(Added)
      <3>1. \A k \in Added : nanos'[k] = nanos[k]
        BY <2>1 DEF Added
      <3> QED
        BY <2>7, <3>1 DEF NanosOf
    <2>9. /\ \A k \in Handlers : at'[k] = "reason" => ends'[k] = "requests_failed"
          /\ \A k \in Handlers : at'[k] \in {"new", "running"} => nanos'[k] = 0
      BY <2>1 DEF CountInv
    <2> QED
      BY <2>1, <2>5, <2>6, <2>7, <2>8, <2>9 DEF CountInv
  <1>6. ASSUME NEW h \in Handlers, AddLatency(h) PROVE CountInv'
    <2>1. /\ at[h] = "latency" /\ At(h, "load") /\ FetchAdd("latency_nanos_total", nanos[h])
          /\ UNCHANGED <<reasons, ends, nanos>>
      BY <1>1, <1>6 DEF AddLatency
    <2>2. Added' = Added \cup {h} /\ h \notin Added /\ Added \subseteq Handlers
      BY <2>1 DEF Added
    <2> DEFINE x == Cardinality(NanosOf(Added))
    <2>3. /\ x \in Nat /\ nanos[h] \in Nat
          /\ Cardinality(NanosOf(Added \cup {h})) = x + nanos[h]
      BY <1>0, <2>2, NanosGrow, WidthFacts
    <2>4. NanosOf(Added)' = NanosOf(Added \cup {h})
      BY <2>1, <2>2 DEF NanosOf
    <2>5. cell["latency_nanos_total"] = x % Width
      BY DEF CountInv
    <2>6. cell'["latency_nanos_total"] = ((x % Width) + nanos[h]) % Width
      BY <1>2, <1>3, <2>1, <2>5
    <2> HIDE DEF x
    <2>7. cell'["latency_nanos_total"] = (x + nanos[h]) % Width
      BY <2>3, <2>6, WrapAdd
    <2>8. cell'["latency_nanos_total"] = Cardinality(NanosOf(Added)') % Width
      BY <2>3, <2>4, <2>7
    <2>9. /\ cell'["requests_total"] = cell["requests_total"]
          /\ \A c \in Ends : cell'[c] = cell[c]
      BY <1>2, <1>3, <2>1
    <2>10. Begun' = Begun /\ (\A c : EndedAs(c)' = EndedAs(c)) /\ Reasoned' = Reasoned
      BY <2>1 DEF Begun, EndedAs, Reasoned
    <2>11. /\ \A k \in Handlers : at'[k] = "reason" => ends'[k] = "requests_failed"
           /\ \A k \in Handlers : at'[k] \in {"new", "running"} => nanos'[k] = 0
      BY <2>1 DEF CountInv
    <2> QED
      BY <2>1, <2>8, <2>9, <2>10, <2>11 DEF CountInv
  <1>7. ASSUME NEW h \in Handlers, LoadMax(h) PROVE CountInv'
    <2>1. at[h] = "load" /\ At(h, "compare") /\ UNCHANGED <<cell, reasons, ends, nanos>>
      BY <1>1, <1>7 DEF LoadMax
    <2>2. /\ Begun' = Begun /\ (\A c : EndedAs(c)' = EndedAs(c))
          /\ Reasoned' = Reasoned /\ Added' = Added
      BY <2>1 DEF Begun, EndedAs, Reasoned, Added
    <2> QED
      BY <2>1, <2>2, SameCounts DEF CountInv
  <1>8. ASSUME NEW h \in Handlers, NotLarger(h) \/ Exchanges(h) PROVE CountInv'
    <2>1. /\ at[h] = "compare" /\ UNCHANGED <<reasons, ends, nanos>>
          /\ At(h, IF ends[h] = "requests_failed" THEN "reason" ELSE "line")
      BY <1>1, <1>8 DEF NotLarger, Exchanges, Recorded
    <2>2. \A c \in Cells : c # "latency_nanos_max" => cell'[c] = cell[c]
      BY <1>0, <1>8 DEF NotLarger, Exchanges
    <2>3. /\ Begun' = Begun /\ (\A c : EndedAs(c)' = EndedAs(c))
          /\ Reasoned' = Reasoned /\ Added' = Added
      BY <2>1 DEF Begun, EndedAs, Reasoned, Added
    <2> QED
      BY <2>1, <2>2, <2>3, SameCounts DEF CountInv
  <1>9. ASSUME NEW h \in Handlers, IncrementReason(h) PROVE CountInv'
    <2>1. /\ at[h] = "reason" /\ At(h, "line") /\ reasons' = reasons + 1
          /\ UNCHANGED <<cell, ends, nanos>> /\ ends[h] = "requests_failed"
      BY <1>1, <1>9 DEF IncrementReason, CountInv
    <2>2. Reasoned' = Reasoned \cup {h} /\ h \notin Reasoned /\ Reasoned \subseteq Handlers
      BY <2>1 DEF Reasoned
    <2>3. Cardinality(Reasoned') = Cardinality(Reasoned) + 1
      BY <2>2, HandlersFit
    <2>4. Begun' = Begun /\ (\A c : EndedAs(c)' = EndedAs(c)) /\ Added' = Added
      BY <2>1 DEF Begun, EndedAs, Added
    <2>5. NanosOf(Added)' = NanosOf(Added)
      BY <2>1, <2>4 DEF NanosOf
    <2>6. /\ \A k \in Handlers : at'[k] = "reason" => ends'[k] = "requests_failed"
          /\ \A k \in Handlers : at'[k] \in {"new", "running"} => nanos'[k] = 0
      BY <2>1 DEF CountInv
    <2> QED
      BY <2>1, <2>3, <2>4, <2>5, <2>6 DEF CountInv
  <1>10. ASSUME NEW h \in Handlers, EmitLine(h) PROVE CountInv'
    <2>1. at[h] = "line" /\ At(h, "done") /\ UNCHANGED <<cell, reasons, ends, nanos>>
      BY <1>1, <1>10 DEF EmitLine
    <2>2. /\ Begun' = Begun /\ (\A c : EndedAs(c)' = EndedAs(c))
          /\ Reasoned' = Reasoned /\ Added' = Added
      BY <2>1 DEF Begun, EndedAs, Reasoned, Added
    <2> QED
      BY <2>1, <2>2, SameCounts DEF CountInv
  <1>11. ASSUME UNCHANGED <<cell, reasons, at, ends, nanos>> PROVE CountInv'
    BY <1>11, SameCounts DEF CountInv, Begun, EndedAs, Reasoned, Added
  <1> QED
    BY <1>4, <1>5, <1>6, <1>7, <1>8, <1>9, <1>10, <1>11
       DEF Next, Record, Retries, LoadCell, Quiet, vars

(* When no handler runs, requests_total is the sum of the ends, every       *)
(* failure has its reason and no latency is missing from the sum, for any   *)
(* number of handlers that added to the cells at once.                      *)
THEOREM SettledCorrect == Spec => []Settled
  <1>1. TypeOK /\ CountInv => Settled
    <2> SUFFICES ASSUME TypeOK, CountInv, \A h \in Handlers : at[h] \in {"new", "done"}
                 PROVE  /\ cell["requests_total"] = cell["requests_ok"] + cell["requests_failed"]
                        /\ reasons = cell["requests_failed"]
                        /\ cell["latency_nanos_total"] = Cardinality(NanosOf(Handlers)) % Width
      BY DEF Settled
    <2> DEFINE ok == EndedAs("requests_ok")
               failed == EndedAs("requests_failed")
    <2>1. Begun = ok \cup failed /\ ok \cap failed = {} /\ ok \subseteq Handlers /\ failed \subseteq Handlers
      BY DEF TypeOK, Begun, EndedAs, Ends
    <2>2. Reasoned = failed
      BY DEF Reasoned, EndedAs
    <2>3. NanosOf(Handlers) = NanosOf(Added)
      <3>1. \A h \in Handlers : h \notin Added => nanos[h] = 0
        BY DEF Added, CountInv
      <3>2. ASSUME NEW h \in Handlers, NEW i \in 1..(Width - 1), i <= nanos[h] PROVE h \in Added
        BY <3>1, <3>2
      <3>3. Added \subseteq Handlers
        BY DEF Added
      <3> QED
        BY <3>2, <3>3 DEF NanosOf
    <2> HIDE DEF ok, failed
    <2>4. IsFiniteSet(ok) /\ IsFiniteSet(failed) /\ Cardinality(ok) \in Nat /\ Cardinality(failed) \in Nat
      BY <2>1, HandlersFit
    <2>5. Cardinality(ok \cup failed) = Cardinality(ok) + Cardinality(failed) - Cardinality(ok \cap failed)
      BY <2>4, FS_Union
    <2>6. Cardinality(ok \cap failed) = 0
      BY <2>1, FS_EmptySet
    <2>7. Cardinality(Begun) = Cardinality(ok) + Cardinality(failed)
      <3>1. Cardinality(Begun) = Cardinality(ok) + Cardinality(failed) - 0
        BY <2>1, <2>5, <2>6, Zenon
      <3> QED
        BY <2>4, <3>1
    <2>8. cell["requests_ok"] = Cardinality(ok) /\ cell["requests_failed"] = Cardinality(failed)
      BY DEF CountInv, Ends, ok, failed
    <2> QED
      BY <2>2, <2>3, <2>7, <2>8 DEF CountInv
  <1> QED
    BY <1>1, InitCounts, CountsNext, TypeCorrect, PTL DEF Spec
-----------------------------------------------------------------------------
CountedBefore(c) == {h \in before : ends[h] = c}

(* What a cell had when it was loaded lies between the handlers that were   *)
(* done when the snapshot was asked for and those that have ended by now.   *)
SnapInv ==
  /\ DOMAIN snap \subseteq Cells
  /\ \A h \in before : at[h] = "done"
  /\ \A c \in DOMAIN snap : snap[c] \in Nat
  /\ \A c \in Ends \cap DOMAIN snap :
       /\ Cardinality(CountedBefore(c)) <= snap[c]
       /\ snap[c] <= Cardinality(EndedAs(c))
  /\ "requests_total" \in DOMAIN snap => Cardinality(before) <= snap["requests_total"]

LEMMA MoreHandlers ==
  ASSUME NEW S, NEW T, S \subseteq T, T \subseteq Handlers
  PROVE  /\ Cardinality(S) \in Nat /\ Cardinality(T) \in Nat
         /\ Cardinality(S) <= Cardinality(T)
  <1>1. IsFiniteSet(T) /\ Cardinality(T) \in Nat /\ Cardinality(S) \in Nat
    BY HandlersFit
  <1> QED
    BY <1>1, FS_Subset

(* Handlers only go on: one that is done stays so, with the end it had, and *)
(* one that has ended has ended.                                            *)
LEMMA HandlersGoOn ==
  ASSUME TypeOK, [Next]_vars
  PROVE  /\ \A h \in Handlers : at[h] = "done" => at'[h] = "done" /\ ends'[h] = ends[h]
         /\ \A c : EndedAs(c) \subseteq EndedAs(c)'
  <1>1. ASSUME NEW h \in Handlers
        PROVE  \/ at'[h] = at[h] /\ ends'[h] = ends[h]
               \/ at[h] \in {"new", "running"}
               \/ at[h] # "done" /\ at'[h] \notin {"new", "running"} /\ ends'[h] = ends[h]
    <2>1. ASSUME NEW k \in Handlers, Receive(k)
          PROVE  \/ at'[h] = at[h] /\ ends'[h] = ends[h]
                 \/ at[h] = "new"
      BY <2>1 DEF Receive, Goto, TypeOK
    <2>2. ASSUME NEW k \in Handlers, NEW c \in Ends, NEW n \in Latencies, End(k, c, n)
          PROVE  \/ at'[h] = at[h] /\ ends'[h] = ends[h]
                 \/ at[h] = "running"
      BY <2>2 DEF End, Goto, TypeOK
    <2>3. ASSUME NEW k \in Handlers, Record(k)
          PROVE  /\ ends'[h] = ends[h]
                 /\ \/ at'[h] = at[h]
                    \/ at[h] # "done" /\ at'[h] \notin {"new", "running"}
      <3>1. ends' = ends
        BY <2>3 DEF Record, AddLatency, LoadMax, NotLarger, Exchanges, Retries,
                    IncrementReason, EmitLine
      <3>2. \/ at' = at
            \/ /\ at[k] # "done"
               /\ \E stage \in {"load", "compare", "reason", "line", "done"} :
                    at' = [at EXCEPT ![k] = stage]
        BY <2>3 DEF Record, AddLatency, LoadMax, NotLarger, Exchanges, Retries, Recorded,
                    IncrementReason, EmitLine, Goto
      <3>3. DOMAIN at = Handlers
        BY DEF TypeOK
      <3>4. ASSUME NEW stage \in {"load", "compare", "reason", "line", "done"},
                   at[k] # "done", at' = [at EXCEPT ![k] = stage]
            PROVE  \/ at'[h] = at[h]
                   \/ at[h] # "done" /\ at'[h] \notin {"new", "running"}
        <4>1. CASE h = k
          BY <3>3, <3>4, <4>1
        <4>2. CASE h # k
          BY <3>3, <3>4, <4>2
        <4> QED
          BY <4>1, <4>2
      <3> QED
        BY <3>1, <3>2, <3>4
    <2>4. CASE UNCHANGED <<at, ends>>
      BY <2>4
    <2> QED
      BY <2>1, <2>2, <2>3, <2>4 DEF Next, LoadCell, Quiet, vars
  <1>2. \A h \in Handlers : at[h] = "done" => at'[h] = "done" /\ ends'[h] = ends[h]
    <2> SUFFICES ASSUME NEW h \in Handlers, at[h] = "done"
                 PROVE  at'[h] = "done" /\ ends'[h] = ends[h]
      OBVIOUS
    <2> QED
      BY <1>1
  <1>3. ASSUME NEW c, NEW h \in EndedAs(c) PROVE h \in EndedAs(c)'
    <2>1. h \in Handlers /\ at[h] \notin {"new", "running"} /\ ends[h] = c
      BY <1>3 DEF EndedAs
    <2>2. at'[h] \notin {"new", "running"} /\ ends'[h] = c
      BY <1>1, <2>1
    <2> QED
      BY <2>1, <2>2 DEF EndedAs
  <1> QED
    BY <1>2, <1>3

LEMMA SnapNext == TypeOK /\ TypeOK' /\ CountInv /\ SnapInv /\ [Next]_vars => SnapInv'
  <1> SUFFICES ASSUME TypeOK, TypeOK', CountInv, SnapInv, [Next]_vars PROVE SnapInv'
    OBVIOUS
  <1>1. /\ \A h \in Handlers : at[h] = "done" => at'[h] = "done" /\ ends'[h] = ends[h]
        /\ \A c : EndedAs(c) \subseteq EndedAs(c)'
    BY HandlersGoOn
  <1>2. \A c : /\ EndedAs(c) \subseteq Handlers /\ EndedAs(c)' \subseteq Handlers
               /\ Cardinality(EndedAs(c)) \in Nat /\ Cardinality(EndedAs(c)') \in Nat
               /\ Cardinality(EndedAs(c)) <= Cardinality(EndedAs(c)')
    <2>1. \A c : EndedAs(c) \subseteq Handlers /\ EndedAs(c)' \subseteq Handlers
      BY DEF EndedAs
    <2> QED
      BY <1>1, <2>1, MoreHandlers
  <1>3. CASE UNCHANGED <<snap, before>>
    <2>1. \A h \in before : at'[h] = "done" /\ ends'[h] = ends[h]
      BY <1>1 DEF SnapInv, TypeOK
    <2>2. \A c : CountedBefore(c)' = CountedBefore(c)
      BY <1>3, <2>1 DEF CountedBefore
    <2>3. ASSUME NEW c \in Ends \cap DOMAIN snap
          PROVE  /\ Cardinality(CountedBefore(c)') <= snap'[c]
                 /\ snap'[c] <= Cardinality(EndedAs(c)')
      <3>1. /\ snap'[c] = snap[c] /\ snap[c] \in Nat
            /\ Cardinality(CountedBefore(c)) <= snap[c]
            /\ snap[c] <= Cardinality(EndedAs(c))
        BY <1>3 DEF SnapInv
      <3> QED
        BY <1>2, <2>2, <3>1
    <2> QED
      BY <1>3, <2>1, <2>3 DEF SnapInv
  <1>4. ASSUME NEW x \in Cells, LoadCell(x) PROVE SnapInv'
    <2>1. /\ DOMAIN snap' = DOMAIN snap \cup {x} /\ snap'[x] = cell[x]
          /\ \A c \in DOMAIN snap : snap'[c] = snap[c]
          /\ UNCHANGED <<cell, at, ends>>
      BY <1>4 DEF LoadCell
    <2>2. /\ before' \subseteq Handlers /\ \A h \in before' : at'[h] = "done"
          /\ DOMAIN snap # {} => before' = before
      BY <1>4, <2>1 DEF LoadCell, SnapInv, TypeOK
    <2>3. cell[x] \in Nat
      BY WidthFacts DEF TypeOK, CellRange
    <2>4. ASSUME NEW c \in Ends
          PROVE  Cardinality(CountedBefore(c)') <= cell[c] /\ cell[c] = Cardinality(EndedAs(c)')
      <3>1. CountedBefore(c)' \subseteq EndedAs(c)'
        BY <2>2 DEF CountedBefore, EndedAs
      <3>2. cell[c] = Cardinality(EndedAs(c)) /\ EndedAs(c)' = EndedAs(c)
        BY <2>1 DEF CountInv, EndedAs
      <3> QED
        BY <1>2, <3>1, <3>2, MoreHandlers
    <2>5. Cardinality(before') <= cell["requests_total"]
      <3>1. before' \subseteq Begun /\ Begun \subseteq Handlers
        BY <2>1, <2>2 DEF Begun
      <3> QED
        BY <3>1, MoreHandlers DEF CountInv
    <2>6. ASSUME NEW c \in Ends \cap DOMAIN snap'
          PROVE  /\ Cardinality(CountedBefore(c)') <= snap'[c]
                 /\ snap'[c] <= Cardinality(EndedAs(c)')
      <3>1. CASE c = x
        <4>1. cell[c] <= cell[c]
          BY <2>3, <3>1
        <4> QED
          BY <2>1, <2>4, <3>1, <4>1
      <3>2. CASE c # x
        <4>1. c \in DOMAIN snap /\ before' = before
          BY <2>1, <2>2, <3>2
        <4>2. CountedBefore(c)' = CountedBefore(c) /\ EndedAs(c)' = EndedAs(c)
          BY <2>1, <4>1 DEF CountedBefore, EndedAs
        <4> QED
          BY <2>1, <4>1, <4>2 DEF SnapInv
      <3> QED
        BY <3>1, <3>2
    <2>7. ASSUME "requests_total" \in DOMAIN snap'
          PROVE  Cardinality(before') <= snap'["requests_total"]
      <3>1. CASE x = "requests_total"
        BY <2>1, <2>5, <3>1
      <3>2. CASE x # "requests_total"
        <4>1. "requests_total" \in DOMAIN snap /\ before' = before
          BY <2>1, <2>2, <2>7, <3>2
        <4> QED
          BY <2>1, <4>1 DEF SnapInv
      <3> QED
        BY <3>1, <3>2
    <2> QED
      BY <2>1, <2>2, <2>3, <2>6, <2>7 DEF SnapInv
  <1> QED
    <2>1. \A h \in Handlers : Record(h) => UNCHANGED <<snap, before>>
      BY DEF Record, AddLatency, LoadMax, NotLarger, Exchanges, Retries, IncrementReason, EmitLine
    <2> QED
      BY <1>3, <1>4, <2>1 DEF Next, Receive, End, Quiet, vars

(* A snapshot that is loaded cell by cell counts every end whose line was   *)
(* in the log before, and no end of a request that has not begun, in any    *)
(* order of the loads and with any adds between them.                       *)
THEOREM SnapshotCorrect == Spec => []SnapshotCovers
  <1>1. Init => SnapInv
    BY DEF Init, SnapInv
  <1>2. TypeOK /\ CountInv /\ SnapInv => SnapshotCovers
    <2> SUFFICES ASSUME TypeOK, CountInv, SnapInv, DOMAIN snap = Cells
                 PROVE  /\ Cardinality(before) <= snap["requests_ok"] + snap["requests_failed"]
                        /\ Cardinality(before) <= snap["requests_total"]
                        /\ snap["requests_ok"] + snap["requests_failed"] <= Cardinality(Begun)
      BY DEF SnapshotCovers, Begun
    <2>1. ASSUME NEW S, NEW T, S \subseteq Handlers, T \subseteq Handlers, S \cap T = {}
          PROVE  /\ Cardinality(S) \in Nat /\ Cardinality(T) \in Nat
                 /\ Cardinality(S \cup T) = Cardinality(S) + Cardinality(T)
      <3>1. /\ IsFiniteSet(S) /\ IsFiniteSet(T)
            /\ Cardinality(S) \in Nat /\ Cardinality(T) \in Nat
        BY <2>1, HandlersFit
      <3>2. Cardinality(S \cap T) = 0
        BY <2>1, FS_EmptySet
      <3>3. Cardinality(S \cup T) = Cardinality(S) + Cardinality(T) - Cardinality(S \cap T)
        BY <3>1, FS_Union
      <3> QED
        BY <3>1, <3>2, <3>3
    <2>2. /\ "requests_ok" \in Ends \cap DOMAIN snap
          /\ "requests_failed" \in Ends \cap DOMAIN snap
          /\ "requests_total" \in DOMAIN snap
      BY DEF Cells, Ends
    <2> DEFINE ok == EndedAs("requests_ok")
               failed == EndedAs("requests_failed")
               okBefore == CountedBefore("requests_ok")
               failedBefore == CountedBefore("requests_failed")
    <2>3. /\ before = okBefore \cup failedBefore /\ okBefore \cap failedBefore = {}
          /\ okBefore \subseteq Handlers /\ failedBefore \subseteq Handlers
      BY DEF TypeOK, CountedBefore, Ends
    <2>4. /\ ok \cup failed \subseteq Begun /\ ok \cap failed = {}
          /\ ok \subseteq Handlers /\ failed \subseteq Handlers /\ Begun \subseteq Handlers
      BY DEF EndedAs, Begun
    <2>5. /\ snap["requests_ok"] \in Nat /\ snap["requests_failed"] \in Nat
          /\ Cardinality(okBefore) <= snap["requests_ok"]
          /\ snap["requests_ok"] <= Cardinality(ok)
          /\ Cardinality(failedBefore) <= snap["requests_failed"]
          /\ snap["requests_failed"] <= Cardinality(failed)
          /\ Cardinality(before) <= snap["requests_total"]
      BY <2>2 DEF SnapInv
    <2> HIDE DEF ok, failed, okBefore, failedBefore
    <2>6. /\ Cardinality(okBefore) \in Nat /\ Cardinality(failedBefore) \in Nat
          /\ Cardinality(before) = Cardinality(okBefore) + Cardinality(failedBefore)
      BY <2>1, <2>3
    <2>7. /\ Cardinality(ok) \in Nat /\ Cardinality(failed) \in Nat
          /\ Cardinality(ok \cup failed) = Cardinality(ok) + Cardinality(failed)
      BY <2>1, <2>4
    <2>8. Cardinality(ok \cup failed) <= Cardinality(Begun) /\ Cardinality(Begun) \in Nat
      BY <2>4, MoreHandlers
    <2> QED
      BY <2>5, <2>6, <2>7, <2>8
  <1>3. TypeOK /\ CountInv /\ SnapInv /\ [Next]_vars /\ TypeOK' => SnapInv'
    BY SnapNext
  <1> QED
    BY <1>1, <1>2, <1>3, InitCounts, CountsNext, TypeCorrect, PTL DEF Spec
=============================================================================

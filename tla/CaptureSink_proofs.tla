------------------------- MODULE CaptureSink_proofs -------------------------
(***************************************************************************)
(* What the capture sink guarantees for any number of callers, any batch   *)
(* size and any number of buffers per event, with every fault enabled.     *)
(***************************************************************************)
EXTENDS CaptureSink, FiniteSetTheorems, SequenceTheorems, TLAPS

Pieces == [by : Callers, at : Nat \ {0}, whole : BOOLEAN]

(* Exactly the callers in the Mutex have a call pending, each once. *)
QueueInv ==
  /\ \A i \in DOMAIN queue : state[queue[i]] = "pending"
  /\ \A i, j \in DOMAIN queue : queue[i] = queue[j] => i = j

(* A call has no more pieces to hand over than its request has. One that   *)
(* has handed over a piece holds the Mutex, its last piece is the File's   *)
(* operation and all pieces before that one are on disk.                   *)
CallOK(c) ==
  /\ state[c] = "idle" => next[c] = 1
  /\ state[c] = "pending" => next[c] <= Total(c)
  /\ state[c] = "pending" /\ next[c] > 1 =>
       /\ Holds(c)
       /\ op.st # "idle"
       /\ op.by = c
       /\ op.at = next[c] - 1
       /\ \A q \in 1..(next[c] - 2) : OnDisk(c, q)

PendingInv == \A c \in Callers : CallOK(c)

OpInv ==
  /\ op.st = "done" => OnDisk(op.by, op.at)
  /\ op.st = "failed" => faults > 0

IInv == TypeOK /\ QueueInv /\ PendingInv /\ OpInv /\ AcceptedOnDisk
-----------------------------------------------------------------------------
(* A request of n events has a natural number of pieces. *)
LEMMA TotalNat ==
  ASSUME NEW n \in Nat
  PROVE  n * PerEvent \in Nat
  BY SinkAssumption DEF PerEvent

(* The file only grows, so what is on it stays on it. *)
Grows == \/ disk' = disk
         \/ \E p \in Pieces : disk' = Append(disk, p)

LEMMA AppendKeeps ==
  ASSUME NEW S, NEW s \in Seq(S), NEW p \in S, NEW j \in DOMAIN s
  PROVE  j \in DOMAIN Append(s, p) /\ Append(s, p)[j] = s[j]
  OBVIOUS

LEMMA AppendEnds ==
  ASSUME NEW S, NEW s \in Seq(S), NEW p \in S
  PROVE  /\ Append(s, p) \in Seq(S)
         /\ Len(s) + 1 \in DOMAIN Append(s, p)
         /\ Append(s, p)[Len(s) + 1] = p
  OBVIOUS

LEMMA OnDiskStable ==
  ASSUME disk \in Seq(Pieces), Grows, NEW c, NEW q, OnDisk(c, q)
  PROVE  OnDisk(c, q)'
  <1>1. PICK j \in DOMAIN disk : disk[j] = Piece(c, q, TRUE)
    BY DEF OnDisk
  <1>2. j \in DOMAIN disk' /\ disk'[j] = disk[j]
    <2>1. CASE disk' = disk
      BY <1>1, <2>1
    <2>2. CASE \E p \in Pieces : disk' = Append(disk, p)
      <3>1. PICK p \in Pieces : disk' = Append(disk, p)
        BY <2>2
      <3>2. disk \in Seq(Pieces) /\ p \in Pieces /\ j \in DOMAIN disk
        BY <1>1, <3>1
      <3>3. j \in DOMAIN Append(disk, p) /\ Append(disk, p)[j] = disk[j]
        BY <3>2, AppendKeeps
      <3> QED
        BY <3>1, <3>3
    <2> QED
      BY <2>1, <2>2 DEF Grows
  <1> QED
    BY <1>1, <1>2 DEF OnDisk, Piece

(* Where an element stands in the second of two sequences put together.     *)
LEMMA SecondPart ==
  ASSUME NEW i \in Nat, NEW j \in Nat, NEW n \in Nat, i <= j, j <= n - 1
  PROVE  \A la, lb : la = i - 1 /\ lb = n - i =>
           j - la \in 1..(n - i) /\ i + (j - la) = j + 1 /\ j \in (la + 1)..(la + lb)
  <1>1. /\ j - (i - 1) \in 1..(n - i) /\ i + (j - (i - 1)) = j + 1
        /\ j \in ((i - 1) + 1)..((i - 1) + (n - i))
    OBVIOUS
  <1> QED
    BY <1>1

(* Taking the element at i out of a sequence keeps the rest, in order. *)
LEMMA RemoveAtKeeps ==
  ASSUME NEW S, NEW s \in Seq(S), NEW i \in DOMAIN s
  PROVE  /\ RemoveAt(s, i) \in Seq(S)
         /\ Len(RemoveAt(s, i)) = Len(s) - 1
         /\ \A j \in 1..(Len(s) - 1) :
              RemoveAt(s, i)[j] = IF j < i THEN s[j] ELSE s[j + 1]
  <1>1. i \in 1..Len(s) /\ Len(s) \in Nat /\ \A j \in 1..Len(s) : s[j] \in S
    OBVIOUS
  <1>2. PICK a : /\ a = SubSeq(s, 1, i - 1)
                 /\ a \in Seq(S)
                 /\ Len(a) = i - 1
                 /\ \A j \in 1..(i - 1) : a[j] = s[j]
    <2> DEFINE w == SubSeq(s, 1, i - 1)
    <2>1. /\ w \in Seq(S)
          /\ Len(w) = i - 1
          /\ \A j \in 1..(i - 1) : w[j] = s[j]
      BY <1>1
    <2> QED
      BY <2>1
  <1>3. PICK b : /\ b = SubSeq(s, i + 1, Len(s))
                 /\ b \in Seq(S)
                 /\ Len(b) = Len(s) - i
                 /\ \A j \in 1..(Len(s) - i) : b[j] = s[i + j]
    <2> DEFINE w == SubSeq(s, i + 1, Len(s))
    <2>1. /\ w \in Seq(S)
          /\ Len(w) = Len(s) - i
          /\ \A j \in 1..(Len(s) - i) : w[j] = s[i + j]
      BY <1>1
    <2> QED
      BY <2>1
  <1>4. RemoveAt(s, i) = a \o b
    BY <1>2, <1>3 DEF RemoveAt
  <1>5. /\ a \o b \in Seq(S)
        /\ Len(a \o b) = Len(s) - 1
    <2>1. a \in Seq(S) /\ b \in Seq(S)
      BY <1>2, <1>3
    <2>2. a \o b \in Seq(S) /\ Len(a \o b) = Len(a) + Len(b)
      BY <2>1
    <2>3. Len(a) = i - 1 /\ Len(b) = Len(s) - i /\ i \in Nat /\ Len(s) \in Nat
      BY <1>1, <1>2, <1>3
    <2> QED
      BY <2>2, <2>3
  <1>6. ASSUME NEW j \in 1..(Len(s) - 1)
        PROVE  (a \o b)[j] = IF j < i THEN s[j] ELSE s[j + 1]
    <2>1. CASE j < i
      <3>1. j \in 1..Len(a) /\ j \in 1..(i - 1)
        BY <1>1, <1>2, <2>1
      <3>2. (a \o b)[j] = a[j]
        BY <3>1, <1>2, <1>3
      <3> QED
        BY <1>2, <2>1, <3>1, <3>2
    <2>2. CASE ~(j < i)
      <3> DEFINE k == j - Len(a)
      <3>0. /\ Len(a) = i - 1 /\ Len(b) = Len(s) - i
            /\ i \in Nat /\ Len(s) \in Nat /\ j \in Nat
            /\ i <= j /\ j <= Len(s) - 1
        <4>1. Len(a) = i - 1 /\ Len(b) = Len(s) - i
          BY <1>2, <1>3
        <4>2. i \in Nat /\ Len(s) \in Nat
          BY <1>1
        <4>3. j \in Nat /\ i <= j /\ j <= Len(s) - 1
          BY <2>2, <4>2
        <4> QED
          BY <4>1, <4>2, <4>3
      <3>1. /\ k \in 1..(Len(s) - i)
            /\ i + k = j + 1
            /\ j \in (Len(a) + 1)..(Len(a) + Len(b))
        BY <3>0, SecondPart
      <3>2. (a \o b)[j] = b[j - Len(a)]
        <4>1. a \in Seq(S) /\ b \in Seq(S)
          BY <1>2, <1>3
        <4>2. j \in 1..(Len(a) + Len(b)) /\ ~(j <= Len(a))
          BY <3>0
        <4> QED
          BY <4>1, <4>2, ConcatProperties
      <3>3. b[j - Len(a)] = s[j + 1]
        BY <1>3, <3>1
      <3> QED
        BY <2>2, <3>2, <3>3
    <2> QED
      BY <2>1, <2>2
  <1> QED
    BY <1>4, <1>5, <1>6

LEMMA InitInv == Init => IInv
  <1> SUFFICES ASSUME Init PROVE IInv
    OBVIOUS
  <1>1. TypeOK
    <2>1. \A c \in Callers : Total(c) = 0 * PerEvent
      BY DEF Init, Total
    <2>2. 0 * PerEvent \in Nat
      BY TotalNat
    <2>3. \A c \in Callers : next[c] <= Total(c) + 1
      BY <2>1, <2>2 DEF Init
    <2>4. op \in [st : {"idle"}]
                \cup [st : {"busy", "done", "failed"}, by : Callers, at : Nat \ {0}]
      BY DEF Init, Idle
    <2>5. queue \in Seq(Callers) /\ disk \in Seq([by : Callers, at : Nat \ {0}, whole : BOOLEAN])
      BY DEF Init
    <2>6. state \in [Callers -> States] /\ size \in [Callers -> 0..MaxEvents]
      BY SinkAssumption DEF Init, States
    <2>7. next \in [Callers -> Nat \ {0}] /\ faults \in Nat
      BY DEF Init
    <2>8. handle \in BOOLEAN
      BY DEF Init
    <2>9. lives \in 1..MaxLives
      BY SinkAssumption DEF Init
    <2> QED
      BY <2>3, <2>4, <2>5, <2>6, <2>7, <2>8, <2>9 DEF TypeOK
  <1>2. QueueInv /\ PendingInv /\ OpInv /\ AcceptedOnDisk
    BY DEF Init, QueueInv, PendingInv, CallOK, OpInv, AcceptedOnDisk, Idle
  <1> QED
    BY <1>1, <1>2 DEF IInv

(* The holder of the Mutex has a call pending and is alone. *)
LEMMA HolderFacts ==
  ASSUME TypeOK, QueueInv, NEW c \in Callers, Holds(c)
  PROVE  /\ state[c] = "pending"
         /\ queue # <<>> /\ 1 \in DOMAIN queue /\ queue[1] = c
         /\ \A d : Holds(d) => d = c
  <1>1. queue \in Seq(Callers) /\ queue # <<>> /\ Head(queue) = c
    BY DEF TypeOK, Holds
  <1>2. 1 \in DOMAIN queue /\ queue[1] = c
    BY <1>1
  <1> QED
    BY <1>1, <1>2 DEF QueueInv, Holds

(* A caller that waits for the Mutex has handed nothing over. *)
LEMMA WaiterAtStart ==
  ASSUME TypeOK, QueueInv, PendingInv,
         NEW c \in Callers, Holds(c), NEW d \in Callers, d # c, state[d] = "pending"
  PROVE  next[d] = 1
  <1>1. ~Holds(d)
    BY HolderFacts
  <1>2. next[d] \in Nat \ {0} /\ CallOK(d)
    BY DEF TypeOK, PendingInv
  <1> QED
    BY <1>1, <1>2 DEF CallOK

(* The guard dropped by a call that returns leaves the Mutex to the callers *)
(* that were waiting, in their order.                                       *)
LEMMA ReturnKeeps ==
  ASSUME TypeOK, QueueInv, NEW c \in Callers, Holds(c),
         NEW how \in {"ok", "failed"}, Return(c, how)
  PROVE  /\ queue' \in Seq(Callers)
         /\ state' \in [Callers -> States]
         /\ QueueInv'
  <1>1. /\ queue \in Seq(Callers) /\ queue # <<>>
        /\ 1 \in DOMAIN queue /\ queue[1] = c
    BY HolderFacts DEF TypeOK
  <1>2. /\ queue' \in Seq(Callers)
        /\ \A j \in DOMAIN queue' : j + 1 \in DOMAIN queue /\ queue'[j] = queue[j + 1]
    <2>1. queue' = Tail(queue)
      BY DEF Return
    <2>2. queue' \in Seq(Callers) /\ Len(queue') = Len(queue) - 1
      BY <1>1, <2>1
    <2>3. ASSUME NEW j \in DOMAIN queue'
          PROVE  j + 1 \in DOMAIN queue /\ queue'[j] = queue[j + 1]
      BY <1>1, <2>1, <2>2
    <2> QED
      BY <2>2, <2>3
  <1>3. state' \in [Callers -> States]
    BY DEF TypeOK, Return, States
  <1>4. \A j \in DOMAIN queue' : j \in Nat /\ j + 1 # 1
    BY <1>2
  <1>5. \A j \in DOMAIN queue' : queue'[j] # c
    BY <1>1, <1>2, <1>4 DEF QueueInv
  <1>6. \A j \in DOMAIN queue' : state'[queue'[j]] = "pending"
    <2>1. \A d \in Callers : d # c => state'[d] = state[d]
      BY DEF Return, TypeOK
    <2>2. \A j \in DOMAIN queue' : queue'[j] \in Callers
      BY <1>2
    <2> QED
      BY <1>2, <1>5, <2>1, <2>2 DEF QueueInv
  <1>7. ASSUME NEW i \in DOMAIN queue', NEW j \in DOMAIN queue', queue'[i] = queue'[j]
        PROVE  i = j
    <2>1. i + 1 = j + 1
      BY <1>2, <1>7 DEF QueueInv
    <2> QED
      BY <1>4, <2>1
  <1> QED
    BY <1>2, <1>3, <1>6, <1>7 DEF QueueInv
-----------------------------------------------------------------------------
(* A step that does not touch the call of d, and either keeps the File's    *)
(* operation for it or lets it start, keeps what is known of that call.     *)
LEMMA CallKeeps ==
  ASSUME TypeOK, PendingInv, Grows, NEW d \in Callers,
         state'[d] = state[d], size'[d] = size[d], next'[d] = next[d],
         state[d] = "pending" /\ next[d] > 1 =>
           /\ Holds(d)'
           /\ op'.st # "idle" /\ op'.by = op.by /\ op'.at = op.at
  PROVE  CallOK(d)'
  <1>1. CallOK(d) /\ Total(d)' = Total(d)
    BY DEF PendingInv, Total
  <1>2. ASSUME state[d] = "pending", next[d] > 1, NEW q \in 1..(next[d] - 2)
        PROVE  OnDisk(d, q)'
    BY <1>1, <1>2, OnDiskStable DEF CallOK, TypeOK, Pieces
  <1> QED
    BY <1>1, <1>2 DEF CallOK

(* A call that returns Ok leaves all but its last newline on disk; what an  *)
(* accepted call left there stays.                                          *)
LEMMA AcceptedKeeps ==
  ASSUME TypeOK, AcceptedOnDisk, Grows,
         \A d \in Callers : state'[d] = "ok" =>
           /\ size'[d] = size[d]
           /\ \/ state[d] = "ok"
              \/ \A q \in 1..(Total(d) - 1) : OnDisk(d, q)
  PROVE  AcceptedOnDisk'
  <1> SUFFICES ASSUME NEW d \in Callers, state'[d] = "ok",
                      NEW q \in 1..(Total(d) - 1)'
               PROVE  OnDisk(d, q)'
    BY DEF AcceptedOnDisk
  <1>1. q \in 1..(Total(d) - 1)
    BY DEF Total, PerEvent
  <1>2. OnDisk(d, q)
    BY <1>1 DEF AcceptedOnDisk
  <1> QED
    BY <1>2, OnDiskStable DEF TypeOK, Pieces

(* Every call that is taken up has at least two pieces to hand over. *)
LEMMA TotalPositive ==
  ASSUME NEW n \in 1..MaxEvents
  PROVE  n * PerEvent \in Nat /\ n * PerEvent >= 1
  <1>1. MaxEvents \in Nat /\ Parts \in Nat /\ Parts >= 1
    BY SinkAssumption
  <1>2. n \in Nat /\ n >= 1
    BY <1>1
  <1>3. n * (Parts + 1) = n * Parts + n
    BY <1>1, <1>2
  <1>4. n * Parts \in Nat
    BY <1>1, <1>2
  <1> QED
    BY <1>2, <1>3, <1>4 DEF PerEvent

LEMMA SubmitInv ==
  ASSUME IInv, NEW c \in Callers, NEW n \in 1..MaxEvents, Submit(c, n)
  PROVE  IInv'
  <1>1. /\ TypeOK /\ QueueInv /\ PendingInv /\ OpInv /\ AcceptedOnDisk
        /\ state[c] = "idle" /\ state' = [state EXCEPT ![c] = "pending"]
        /\ size' = [size EXCEPT ![c] = n]
        /\ queue' = Append(queue, c)
        /\ UNCHANGED <<handle, op, disk, next, faults, lives>>
    BY DEF IInv, Submit
  <1>2. /\ queue \in Seq(Callers)
        /\ queue' \in Seq(Callers)
        /\ Len(queue') = Len(queue) + 1
        /\ queue'[Len(queue) + 1] = c
        /\ \A j \in DOMAIN queue : queue'[j] = queue[j]
        /\ \A j \in DOMAIN queue' : j \in DOMAIN queue \/ j = Len(queue) + 1
    BY <1>1 DEF TypeOK
  <1>3. next[c] = 1
    BY <1>1 DEF PendingInv, CallOK
  <1>4. TypeOK'
    <2>1. state' \in [Callers -> States] /\ size' \in [Callers -> 0..MaxEvents]
      BY <1>1, SinkAssumption DEF TypeOK, States
    <2>2. ASSUME NEW d \in Callers
          PROVE  next'[d] <= Total(d)' + 1
      <3>1. CASE d = c
        <4>1. Total(c)' = n * PerEvent
          BY <1>1 DEF Total, TypeOK, PerEvent
        <4> QED
          BY <1>1, <1>3, <3>1, <4>1, TotalPositive
      <3>2. CASE d # c
        BY <1>1, <3>2 DEF TypeOK, Total
      <3> QED
        BY <3>1, <3>2
    <2> QED
      BY <1>1, <1>2, <2>1, <2>2 DEF TypeOK
  <1>5. QueueInv'
    <2>1. \A j \in DOMAIN queue : queue[j] # c
      BY <1>1 DEF QueueInv
    <2>2. \A d \in Callers : state'[d] = IF d = c THEN "pending" ELSE state[d]
      BY <1>1 DEF TypeOK
    <2>3. \A j \in DOMAIN queue' : state'[queue'[j]] = "pending"
      BY <1>1, <1>2, <2>2 DEF QueueInv
    <2> QED
      BY <1>1, <1>2, <2>1, <2>3 DEF QueueInv
  <1>6. PendingInv'
    <2> SUFFICES ASSUME NEW d \in Callers PROVE CallOK(d)'
      BY DEF PendingInv
    <2>1. CASE d = c
      <3>1. Total(c)' = n * PerEvent /\ state'[c] = "pending" /\ next'[c] = 1
        BY <1>1, <1>3 DEF Total, TypeOK, PerEvent
      <3> QED
        BY <2>1, <3>1, TotalPositive DEF CallOK
    <2>2. CASE d # c
      <3>1. state'[d] = state[d] /\ size'[d] = size[d] /\ next'[d] = next[d]
        BY <1>1, <2>2 DEF TypeOK
      <3>2. Holds(d) => Holds(d)'
        BY <1>2 DEF Holds
      <3>3. CallOK(d) /\ Grows
        BY <1>1 DEF PendingInv, Grows
      <3> QED
        BY <1>1, <3>1, <3>2, <3>3, CallKeeps DEF CallOK
    <2> QED
      BY <2>1, <2>2
  <1>7. OpInv'
    BY <1>1 DEF OpInv, OnDisk
  <1>8. AcceptedOnDisk'
    <2>1. \A d \in Callers : state'[d] = "ok" => state[d] = "ok" /\ size'[d] = size[d]
      BY <1>1 DEF TypeOK
    <2>2. Grows
      BY <1>1 DEF Grows
    <2> QED
      BY <1>1, <2>1, <2>2, AcceptedKeeps
  <1> QED
    BY <1>4, <1>5, <1>6, <1>7, <1>8 DEF IInv

LEMMA OpenFileInv ==
  ASSUME IInv, NEW c \in Callers, OpenFile(c)
  PROVE  IInv'
  <1>1. /\ TypeOK /\ QueueInv /\ PendingInv /\ OpInv /\ AcceptedOnDisk
        /\ handle' = TRUE /\ UNCHANGED <<queue, op, disk, state, size, next, faults, lives>>
    BY DEF IInv, OpenFile
  <1>2. TypeOK'
    BY <1>1 DEF TypeOK, Total
  <1>3. QueueInv' /\ OpInv' /\ AcceptedOnDisk'
    BY <1>1 DEF QueueInv, OpInv, AcceptedOnDisk, OnDisk, Total
  <1>4. PendingInv'
    BY <1>1 DEF PendingInv, CallOK, Holds, OnDisk, Total
  <1> QED
    BY <1>2, <1>3, <1>4 DEF IInv

LEMMA OpenFailsInv ==
  ASSUME IInv, NEW c \in Callers, OpenFails(c)
  PROVE  IInv'
  <1>1. /\ TypeOK /\ QueueInv /\ PendingInv /\ OpInv /\ AcceptedOnDisk
        /\ Holds(c) /\ Return(c, "failed") /\ faults' = faults + 1
        /\ UNCHANGED <<handle, op, disk, size, next, lives>>
    BY DEF IInv, OpenFails
  <1>2. queue' \in Seq(Callers) /\ state' \in [Callers -> States] /\ QueueInv'
    BY <1>1, ReturnKeeps
  <1>3. TypeOK'
    BY <1>1, <1>2 DEF TypeOK, Total
  <1>4. \A d \in Callers : state'[d] = IF d = c THEN "failed" ELSE state[d]
    BY <1>1 DEF TypeOK, Return
  <1>5. PendingInv'
    <2> SUFFICES ASSUME NEW d \in Callers PROVE CallOK(d)'
      BY DEF PendingInv
    <2>1. CASE d = c
      BY <1>4, <2>1 DEF CallOK
    <2>2. CASE d # c
      <3>1. state[d] = "pending" => ~(next[d] > 1)
        BY <1>1, <2>2, WaiterAtStart
      <3> QED
        BY <1>1, <1>4, <2>2, <3>1, CallKeeps DEF Grows
    <2> QED
      BY <2>1, <2>2
  <1>6. OpInv'
    <2>1. faults \in Nat /\ (op.st = "failed" => faults' > 0)
      BY <1>1 DEF TypeOK, OpInv
    <2> QED
      BY <1>1, <2>1 DEF OpInv, OnDisk
  <1>7. AcceptedOnDisk'
    BY <1>1, <1>4, AcceptedKeeps DEF Grows
  <1> QED
    BY <1>2, <1>3, <1>5, <1>6, <1>7 DEF IInv

LEMMA WriteFailsInv ==
  ASSUME IInv, NEW c \in Callers, WriteFails(c)
  PROVE  IInv'
  <1>1. /\ TypeOK /\ QueueInv /\ PendingInv /\ OpInv /\ AcceptedOnDisk
        /\ Holds(c) /\ Return(c, "failed") /\ op' = Idle
        /\ UNCHANGED <<handle, disk, size, next, faults, lives>>
    BY DEF IInv, WriteFails
  <1>2. queue' \in Seq(Callers) /\ state' \in [Callers -> States] /\ QueueInv'
    BY <1>1, ReturnKeeps
  <1>3. TypeOK'
    BY <1>1, <1>2 DEF TypeOK, Total, Idle
  <1>4. \A d \in Callers : state'[d] = IF d = c THEN "failed" ELSE state[d]
    BY <1>1 DEF TypeOK, Return
  <1>5. PendingInv'
    <2> SUFFICES ASSUME NEW d \in Callers PROVE CallOK(d)'
      BY DEF PendingInv
    <2>1. CASE d = c
      BY <1>4, <2>1 DEF CallOK
    <2>2. CASE d # c
      <3>1. state[d] = "pending" => ~(next[d] > 1)
        BY <1>1, <2>2, WaiterAtStart
      <3> QED
        BY <1>1, <1>4, <2>2, <3>1, CallKeeps DEF Grows
    <2> QED
      BY <2>1, <2>2
  <1>6. OpInv'
    BY <1>1 DEF OpInv, Idle
  <1>7. AcceptedOnDisk'
    BY <1>1, <1>4, AcceptedKeeps DEF Grows
  <1> QED
    BY <1>2, <1>3, <1>5, <1>6, <1>7 DEF IInv

LEMMA WritePieceInv ==
  ASSUME IInv, NEW c \in Callers, WritePiece(c)
  PROVE  IInv'
  <1>1. /\ TypeOK /\ QueueInv /\ PendingInv /\ OpInv /\ AcceptedOnDisk
        /\ Holds(c) /\ op.st \in {"idle", "done"}
        /\ op' = InFlight("busy", c, next[c])
        /\ next' = [next EXCEPT ![c] = @ + 1]
        /\ UNCHANGED <<handle, disk, size, faults, lives>>
    BY DEF IInv, WritePiece
  <1>2. \/ next[c] = Total(c) /\ Return(c, "ok")
        \/ next[c] # Total(c) /\ UNCHANGED <<state, queue>>
    BY DEF WritePiece
  <1>3. /\ state[c] = "pending"
        /\ next[c] \in Nat \ {0} /\ next[c] <= Total(c) /\ CallOK(c)
    BY <1>1, HolderFacts DEF TypeOK, PendingInv, CallOK
  <1>4. Total(c) \in Nat
    BY <1>1, TotalNat, SinkAssumption DEF TypeOK, Total
  <1>5. \A q \in 1..(next[c] - 1) : OnDisk(c, q)
    <2> SUFFICES ASSUME NEW q \in 1..(next[c] - 1) PROVE OnDisk(c, q)
      OBVIOUS
    <2>1. next[c] > 1 /\ (q = next[c] - 1 \/ q \in 1..(next[c] - 2))
      BY <1>3
    <2>2. op.st = "done" /\ op.by = c /\ op.at = next[c] - 1
      BY <1>1, <1>3, <2>1 DEF CallOK
    <2> QED
      BY <1>1, <1>3, <2>1, <2>2 DEF CallOK, OpInv
  <1>6. queue' \in Seq(Callers) /\ state' \in [Callers -> States] /\ QueueInv'
    <2>1. CASE Return(c, "ok")
      BY <1>1, <2>1, ReturnKeeps
    <2>2. CASE UNCHANGED <<state, queue>>
      BY <1>1, <2>2 DEF TypeOK, QueueInv
    <2> QED
      BY <1>2, <2>1, <2>2
  <1>7. \A d \in Callers : /\ next'[d] = IF d = c THEN next[c] + 1 ELSE next[d]
                           /\ d # c => state'[d] = state[d]
    BY <1>1, <1>2 DEF TypeOK, Return
  <1>8. TypeOK'
    <2>1. op' \in [st : {"busy", "done", "failed"}, by : Callers, at : Nat \ {0}]
      BY <1>1, <1>3 DEF InFlight
    <2>2. next' \in [Callers -> Nat \ {0}]
      BY <1>1, <1>3 DEF TypeOK
    <2>3. \A d \in Callers : next'[d] <= Total(d)' + 1
      BY <1>1, <1>3, <1>4, <1>7 DEF TypeOK, Total
    <2> QED
      BY <1>1, <1>6, <2>1, <2>2, <2>3 DEF TypeOK
  <1>9. PendingInv'
    <2> SUFFICES ASSUME NEW d \in Callers PROVE CallOK(d)'
      BY DEF PendingInv
    <2>1. CASE d # c
      <3>1. state[d] = "pending" => ~(next[d] > 1)
        BY <1>1, <2>1, WaiterAtStart
      <3> QED
        BY <1>1, <1>7, <2>1, <3>1, CallKeeps DEF Grows
    <2>2. CASE d = c /\ Return(c, "ok")
      BY <1>1, <2>2 DEF CallOK, Return, TypeOK
    <2>3. CASE d = c /\ next[c] # Total(c) /\ UNCHANGED <<state, queue>>
      <3>1. /\ Total(c)' = Total(c) /\ next'[c] = next[c] + 1 /\ Holds(c)'
            /\ op'.st = "busy" /\ op'.by = c /\ op'.at = next[c]
        BY <1>1, <1>7, <2>3 DEF Total, Holds, InFlight
      <3>2. \A q \in 1..(next'[c] - 2) : OnDisk(c, q)'
        <4>1. \A q \in 1..(next'[c] - 2) : q \in 1..(next[c] - 1)
          BY <1>3, <3>1
        <4>2. \A q : OnDisk(c, q) => OnDisk(c, q)'
          BY <1>1 DEF OnDisk
        <4> QED
          BY <1>5, <4>1, <4>2
      <3> QED
        BY <1>3, <1>4, <2>3, <3>1, <3>2 DEF CallOK
    <2> QED
      BY <1>2, <2>1, <2>2, <2>3
  <1>10. OpInv'
    BY <1>1 DEF OpInv, InFlight
  <1>11. AcceptedOnDisk'
    <2> SUFFICES ASSUME NEW d \in Callers, state'[d] = "ok"
                 PROVE  \/ state[d] = "ok"
                        \/ \A q \in 1..(Total(d) - 1) : OnDisk(d, q)
      BY <1>1, AcceptedKeeps DEF Grows
    <2>1. CASE d # c
      BY <1>7, <2>1
    <2>2. CASE d = c
      BY <1>2, <1>3, <1>5, <2>2
    <2> QED
      BY <2>1, <2>2
  <1> QED
    BY <1>6, <1>8, <1>9, <1>10, <1>11 DEF IInv

(* What an outcome of the write in flight changes: the operation's state,   *)
(* and perhaps the end of the file.                                         *)
LEMMA OutcomeInv ==
  ASSUME IInv, op.st = "busy", NEW st \in {"done", "failed"},
         op' = [op EXCEPT !.st = st], Grows, disk' \in Seq(Pieces), faults' \in Nat,
         st = "done" => OnDisk(op.by, op.at)',
         st = "failed" => faults' > 0,
         UNCHANGED <<queue, handle, state, size, next, lives>>
  PROVE  IInv'
  <1>1. TypeOK /\ QueueInv /\ PendingInv /\ AcceptedOnDisk
    BY DEF IInv
  <1>2. /\ op \in [st : {"busy", "done", "failed"}, by : Callers, at : Nat \ {0}]
        /\ op' \in [st : {"busy", "done", "failed"}, by : Callers, at : Nat \ {0}]
        /\ op'.st = st /\ op'.by = op.by /\ op'.at = op.at
    <2>1. op \in [st : {"busy", "done", "failed"}, by : Callers, at : Nat \ {0}]
      BY <1>1 DEF TypeOK
    <2> QED
      BY <2>1
  <1>3. TypeOK'
    BY <1>1, <1>2 DEF TypeOK, Total, Pieces
  <1>4. QueueInv'
    BY <1>1 DEF QueueInv
  <1>5. PendingInv'
    <2> SUFFICES ASSUME NEW d \in Callers PROVE CallOK(d)'
      BY DEF PendingInv
    <2>1. state[d] = "pending" /\ next[d] > 1 => Holds(d)'
      BY <1>1 DEF PendingInv, CallOK, Holds
    <2> QED
      BY <1>1, <1>2, <2>1, CallKeeps
  <1>6. OpInv'
    BY <1>2 DEF OpInv, OnDisk
  <1>7. AcceptedOnDisk'
    BY <1>1, AcceptedKeeps
  <1> QED
    BY <1>3, <1>4, <1>5, <1>6, <1>7 DEF IInv

LEMMA DiskWritesInv ==
  ASSUME IInv, DiskWrites
  PROVE  IInv'
  <1>1. /\ op.st = "busy" /\ op' = [op EXCEPT !.st = "done"]
        /\ disk' = Append(disk, Piece(op.by, op.at, TRUE))
        /\ UNCHANGED <<queue, handle, state, size, next, faults, lives>>
    BY DEF DiskWrites
  <1>2. disk \in Seq(Pieces) /\ Piece(op.by, op.at, TRUE) \in Pieces /\ faults \in Nat
    <2>1. op \in [st : {"busy", "done", "failed"}, by : Callers, at : Nat \ {0}]
      BY <1>1 DEF IInv, TypeOK
    <2> QED
      BY <2>1 DEF IInv, TypeOK, Pieces, Piece
  <1>3. /\ disk' \in Seq(Pieces) /\ Grows
        /\ Len(disk) + 1 \in DOMAIN disk' /\ disk'[Len(disk) + 1] = Piece(op.by, op.at, TRUE)
    <2> DEFINE p == Piece(op.by, op.at, TRUE)
    <2>1. disk \in Seq(Pieces) /\ p \in Pieces /\ disk' = Append(disk, p)
      BY <1>1, <1>2
    <2> HIDE DEF p
    <2>2. Grows
      BY <2>1 DEF Grows
    <2>3. /\ disk' \in Seq(Pieces)
          /\ Len(disk) + 1 \in DOMAIN disk' /\ disk'[Len(disk) + 1] = p
      BY <2>1, AppendEnds
    <2> QED
      BY <2>2, <2>3 DEF p
  <1>4. OnDisk(op.by, op.at)'
    <2>1. op'.by = op.by /\ op'.at = op.at
      BY <1>1 DEF IInv, TypeOK
    <2> QED
      BY <1>3, <2>1 DEF OnDisk, Piece
  <1> QED
    BY <1>1, <1>2, <1>3, <1>4, OutcomeInv

LEMMA DiskFailsInv ==
  ASSUME IInv, DiskFails
  PROVE  IInv'
  <1>1. /\ op.st = "busy" /\ op' = [op EXCEPT !.st = "failed"]
        /\ disk' = disk \/ disk' = Append(disk, Piece(op.by, op.at, FALSE))
        /\ faults' = faults + 1
        /\ UNCHANGED <<queue, handle, state, size, next, lives>>
    BY DEF DiskFails
  <1>2. disk \in Seq(Pieces) /\ Piece(op.by, op.at, FALSE) \in Pieces /\ faults \in Nat
    <2>1. op \in [st : {"busy", "done", "failed"}, by : Callers, at : Nat \ {0}]
      BY <1>1 DEF IInv, TypeOK
    <2> QED
      BY <2>1 DEF IInv, TypeOK, Pieces, Piece
  <1>3. disk' \in Seq(Pieces) /\ Grows
    <2> DEFINE p == Piece(op.by, op.at, FALSE)
    <2>1. /\ disk \in Seq(Pieces) /\ p \in Pieces
          /\ disk' = disk \/ disk' = Append(disk, p)
      BY <1>1, <1>2
    <2> HIDE DEF p
    <2>2. Grows
      BY <2>1 DEF Grows
    <2>3. disk' \in Seq(Pieces)
      BY <2>1, AppendEnds
    <2> QED
      BY <2>2, <2>3
  <1>4. faults' \in Nat /\ faults' > 0
    BY <1>1, <1>2
  <1> QED
    BY <1>1, <1>3, <1>4, OutcomeInv

LEMMA LeaveInv ==
  ASSUME IInv, NEW c \in Callers, Leave(c)
  PROVE  IInv'
  <1>1. /\ TypeOK /\ QueueInv /\ PendingInv /\ OpInv /\ AcceptedOnDisk
        /\ state[c] = "pending" /\ state' = [state EXCEPT ![c] = "gone"]
        /\ UNCHANGED <<handle, op, disk, size, next, faults, lives>>
    BY DEF IInv, Leave
  <1>2. PICK i \in DOMAIN queue : queue[i] = c /\ queue' = RemoveAt(queue, i)
    BY DEF Leave
  <1>3. /\ queue \in Seq(Callers) /\ i \in 1..Len(queue) /\ Len(queue) \in Nat
        /\ queue' \in Seq(Callers) /\ Len(queue') = Len(queue) - 1
        /\ \A j \in 1..(Len(queue) - 1) :
             queue'[j] = IF j < i THEN queue[j] ELSE queue[j + 1]
    <2>1. queue \in Seq(Callers) /\ i \in DOMAIN queue
      BY <1>1, <1>2 DEF TypeOK
    <2>2. i \in 1..Len(queue) /\ Len(queue) \in Nat
      BY <2>1
    <2>3. queue' = RemoveAt(queue, i)
      BY <1>2
    <2> QED
      BY <2>1, <2>2, <2>3, RemoveAtKeeps
  <1> DEFINE old(j) == IF j < i THEN j ELSE j + 1
  <1>4. ASSUME NEW j \in DOMAIN queue'
        PROVE  /\ j \in Nat
               /\ old(j) \in DOMAIN queue /\ old(j) # i
               /\ queue'[j] = queue[old(j)] /\ queue'[j] \in Callers
    BY <1>3
  <1>5. \A j, k \in DOMAIN queue' : old(j) = old(k) => j = k
    BY <1>3, <1>4
  <1>6. \A d \in Callers : state'[d] = IF d = c THEN "gone" ELSE state[d]
    BY <1>1 DEF TypeOK
  <1> HIDE DEF old
  <1>7. TypeOK'
    <2>1. state' \in [Callers -> States]
      BY <1>1 DEF TypeOK, States
    <2> QED
      BY <1>1, <1>3, <2>1 DEF TypeOK, Total
  <1>8. QueueInv'
    <2>1. \A j \in DOMAIN queue' : queue'[j] # c
      BY <1>1, <1>2, <1>4 DEF QueueInv
    <2>2. \A j \in DOMAIN queue' : state'[queue'[j]] = "pending"
      BY <1>1, <1>4, <1>6, <2>1 DEF QueueInv
    <2>3. \A j, k \in DOMAIN queue' : queue'[j] = queue'[k] => j = k
      BY <1>1, <1>4, <1>5 DEF QueueInv
    <2> QED
      BY <2>2, <2>3 DEF QueueInv
  <1>9. PendingInv'
    <2> SUFFICES ASSUME NEW d \in Callers PROVE CallOK(d)'
      BY DEF PendingInv
    <2>1. CASE d = c
      BY <1>6, <2>1 DEF CallOK
    <2>2. CASE d # c
      <3>1. ASSUME Holds(d) PROVE Holds(d)'
        <4>1. queue # <<>> /\ 1 \in DOMAIN queue /\ queue[1] = d
          BY <1>1, <3>1, HolderFacts
        <4>2. i > 1 /\ 1 \in 1..(Len(queue) - 1)
          BY <1>2, <1>3, <2>2, <4>1
        <4>3. queue'[1] = d /\ queue' # <<>>
          BY <1>3, <4>1, <4>2
        <4> QED
          BY <1>3, <4>3 DEF Holds
      <3>2. state[d] = "pending" /\ next[d] > 1 => Holds(d) /\ op.st # "idle"
        BY <1>1 DEF PendingInv, CallOK
      <3> QED
        BY <1>1, <1>6, <2>2, <3>1, <3>2, CallKeeps DEF Grows
    <2> QED
      BY <2>1, <2>2
  <1>10. OpInv'
    BY <1>1 DEF OpInv, OnDisk
  <1>11. AcceptedOnDisk'
    BY <1>1, <1>6, AcceptedKeeps DEF Grows
  <1> QED
    BY <1>7, <1>8, <1>9, <1>10, <1>11 DEF IInv

(* What survives the process: the file, and what it holds of accepted calls. *)
LEMMA CrashInv ==
  ASSUME IInv, Crash
  PROVE  IInv'
  <1>1. /\ TypeOK /\ AcceptedOnDisk /\ PendingInv
        /\ lives < MaxLives /\ lives' = lives + 1
        /\ state' = [c \in Callers |-> IF state[c] = "pending" THEN "gone" ELSE state[c]]
        /\ queue' = <<>> /\ handle' = FALSE /\ op' = Idle
        /\ faults' = IF op.st = "failed" THEN faults - 1 ELSE faults
        /\ UNCHANGED <<size, next>>
    BY DEF IInv, Crash
  <1>2. disk' \in Seq(Pieces) /\ Grows
    <2> DEFINE p == Piece(op.by, op.at, FALSE)
    <2>1. CASE UNCHANGED disk
      BY <1>1, <2>1 DEF TypeOK, Pieces, Grows
    <2>2. CASE op.st = "busy" /\ disk' = Append(disk, p)
      <3>1. op \in [st : {"busy", "done", "failed"}, by : Callers, at : Nat \ {0}]
        BY <1>1, <2>2 DEF TypeOK
      <3>2. disk \in Seq(Pieces) /\ p \in Pieces /\ disk' = Append(disk, p)
        BY <1>1, <2>2, <3>1 DEF TypeOK, Pieces, Piece
      <3> HIDE DEF p
      <3> QED
        BY <3>2, AppendEnds DEF Grows
    <2> QED
      BY <2>1, <2>2 DEF Crash
  <1>3. \A c \in Callers : state'[c] \in States /\ state'[c] # "pending"
                          /\ (state'[c] \in {"idle", "ok"} => state'[c] = state[c])
    BY <1>1 DEF TypeOK, States
  <1>4. TypeOK'
    <2>1. state' \in [Callers -> States]
      BY <1>1, <1>3
    <2>2. faults' \in Nat /\ lives' \in 1..MaxLives
      BY <1>1, SinkAssumption DEF TypeOK, OpInv, IInv
    <2>3. op' \in [st : {"idle"}] /\ queue' \in Seq(Callers)
      BY <1>1 DEF Idle
    <2> QED
      BY <1>1, <1>2, <2>1, <2>2, <2>3 DEF TypeOK, Total, Pieces
  <1>5. QueueInv' /\ OpInv'
    BY <1>1 DEF QueueInv, OpInv, Idle
  <1>6. PendingInv'
    BY <1>1, <1>3 DEF PendingInv, CallOK
  <1>7. AcceptedOnDisk'
    BY <1>1, <1>2, <1>3, AcceptedKeeps
  <1> QED
    BY <1>4, <1>5, <1>6, <1>7 DEF IInv

LEMMA StutterInv ==
  ASSUME IInv, UNCHANGED sinkVars
  PROVE  IInv'
  <1>1. TypeOK' /\ QueueInv' /\ OpInv' /\ AcceptedOnDisk'
    BY DEF sinkVars, IInv, TypeOK, Total, QueueInv, OpInv, AcceptedOnDisk, OnDisk
  <1>2. PendingInv'
    BY DEF sinkVars, IInv, PendingInv, CallOK, Holds, OnDisk, Total
  <1> QED
    BY <1>1, <1>2 DEF IInv

LEMMA NextInv == IInv /\ [Next]_sinkVars => IInv'
  <1> SUFFICES ASSUME IInv, [Next]_sinkVars PROVE IInv'
    OBVIOUS
  <1>1. ASSUME NEW c \in Callers, NEW n \in 1..MaxEvents, Submit(c, n) PROVE IInv'
    BY <1>1, SubmitInv
  <1>2. ASSUME NEW c \in Callers, OpenFile(c) PROVE IInv'
    BY <1>2, OpenFileInv
  <1>3. ASSUME NEW c \in Callers, OpenFails(c) PROVE IInv'
    BY <1>3, OpenFailsInv
  <1>4. ASSUME NEW c \in Callers, WritePiece(c) PROVE IInv'
    BY <1>4, WritePieceInv
  <1>5. ASSUME NEW c \in Callers, WriteFails(c) PROVE IInv'
    BY <1>5, WriteFailsInv
  <1>6. ASSUME NEW c \in Callers, Leave(c) PROVE IInv'
    BY <1>6, LeaveInv
  <1>7. CASE DiskWrites
    BY <1>7, DiskWritesInv
  <1>8. CASE DiskFails
    BY <1>8, DiskFailsInv
  <1>9. CASE Crash
    BY <1>9, CrashInv
  <1>10. CASE UNCHANGED sinkVars
    BY <1>10, StutterInv
  <1> QED
    BY <1>1, <1>2, <1>3, <1>4, <1>5, <1>6, <1>7, <1>8, <1>9, <1>10 DEF Next, Quiet

(* The inductive invariant holds of every behaviour of the sink. *)
LEMMA Inductive == Spec => []IInv
  BY InitInv, NextInv, PTL DEF Spec

(* Every variable of the sink stays in its range and no call hands over     *)
(* more pieces than its request has, for any number of callers, batch size  *)
(* and number of buffers per event.                                         *)
THEOREM TypeCorrect == Spec => []TypeOK
  <1>1. IInv => TypeOK
    BY DEF IInv
  <1> QED
    BY Inductive, <1>1, PTL

(* A call of FileSink::write_events that returned Ok has its whole request  *)
(* on disk but for the last newline, although the sink never flushes and    *)
(* whatever fails or leaves around it, and also after the process has died. *)
THEOREM AcceptedIsOnDisk == Spec => []AcceptedOnDisk
  <1>1. IInv => AcceptedOnDisk
    BY DEF IInv
  <1> QED
    BY Inductive, <1>1, PTL

-----------------------------------------------------------------------------
Failed == {c \in Callers : state[c] = "failed"}
Held == IF op.st = "failed" THEN 1 ELSE 0

(* One more call has returned an error. *)
LEMMA OneMoreFailed ==
  ASSUME TypeOK, NEW c \in Callers, state[c] = "pending",
         state' = [state EXCEPT ![c] = "failed"]
  PROVE  Cardinality(Failed)' = Cardinality(Failed) + 1
  <1>1. IsFiniteSet(Failed)
    BY SinkAssumption, FS_Subset DEF Failed
  <1>2. Failed' = Failed \cup {c} /\ c \notin Failed
    BY DEF Failed, TypeOK
  <1>3. Cardinality(Failed \cup {c}) = Cardinality(Failed) + 1
    BY <1>1, <1>2, FS_AddElement
  <1> QED
    BY <1>2, <1>3

LEMMA SameFailed ==
  ASSUME TypeOK, \A c \in Callers : (state'[c] = "failed") <=> (state[c] = "failed")
  PROVE  Cardinality(Failed)' = Cardinality(Failed)
  <1>1. Failed' = Failed
    BY DEF Failed
  <1> QED
    BY <1>1

LEMMA FaultsNext ==
  IInv /\ EveryFaultReportedOnce /\ [Next]_sinkVars => EveryFaultReportedOnce'
  <1> SUFFICES ASSUME TypeOK, QueueInv, EveryFaultReportedOnce, [Next]_sinkVars
               PROVE  faults' = Cardinality(Failed)' + Held'
    BY DEF IInv, EveryFaultReportedOnce, Failed, Held
  <1>1. /\ faults = Cardinality(Failed) + Held
        /\ Cardinality(Failed) \in Nat /\ Held \in {0, 1}
    <2>1. IsFiniteSet(Failed)
      BY SinkAssumption, FS_Subset DEF Failed
    <2>2. Cardinality(Failed) \in Nat
      BY <2>1, FS_CardinalityType
    <2> QED
      BY <2>2 DEF EveryFaultReportedOnce, Failed, Held
  <1>2. ASSUME NEW c \in Callers, NEW n \in 1..MaxEvents, Submit(c, n)
        PROVE  faults' = Cardinality(Failed)' + Held'
    <2>1. Cardinality(Failed)' = Cardinality(Failed)
      BY <1>2, SameFailed DEF Submit, TypeOK
    <2> QED
      BY <1>1, <1>2, <2>1 DEF Submit, Held
  <1>3. ASSUME NEW c \in Callers, OpenFile(c)
        PROVE  faults' = Cardinality(Failed)' + Held'
    BY <1>1, <1>3, SameFailed DEF OpenFile, Held
  <1>4. ASSUME NEW c \in Callers, OpenFails(c)
        PROVE  faults' = Cardinality(Failed)' + Held'
    <2>1. Cardinality(Failed)' = Cardinality(Failed) + 1
      BY <1>4, HolderFacts, OneMoreFailed DEF OpenFails, Return
    <2>2. faults' = faults + 1 /\ Held' = Held
      BY <1>4 DEF OpenFails, Held
    <2> QED
      BY <1>1, <2>1, <2>2
  <1>5. ASSUME NEW c \in Callers, WritePiece(c)
        PROVE  faults' = Cardinality(Failed)' + Held'
    <2>1. state[c] = "pending"
      BY <1>5, HolderFacts DEF WritePiece
    <2>2. Cardinality(Failed)' = Cardinality(Failed)
      BY <1>5, <2>1, SameFailed DEF WritePiece, Return, TypeOK
    <2>3. faults' = faults /\ Held' = 0 /\ Held = 0
      BY <1>5 DEF WritePiece, InFlight, Held
    <2> QED
      BY <1>1, <2>2, <2>3
  <1>6. ASSUME NEW c \in Callers, WriteFails(c)
        PROVE  faults' = Cardinality(Failed)' + Held'
    <2>1. Cardinality(Failed)' = Cardinality(Failed) + 1
      BY <1>6, HolderFacts, OneMoreFailed DEF WriteFails, Return
    <2>2. faults' = faults /\ Held = 1 /\ Held' = 0
      BY <1>6 DEF WriteFails, Idle, Held
    <2> QED
      BY <1>1, <2>1, <2>2
  <1>7. ASSUME NEW c \in Callers, Leave(c)
        PROVE  faults' = Cardinality(Failed)' + Held'
    <2>1. Cardinality(Failed)' = Cardinality(Failed)
      BY <1>7, SameFailed DEF Leave, TypeOK
    <2> QED
      BY <1>1, <1>7, <2>1 DEF Leave, Held
  <1>8. CASE DiskWrites
    <2>1. Held = 0 /\ Held' = 0
      BY <1>8 DEF DiskWrites, Held, TypeOK
    <2> QED
      BY <1>1, <1>8, <2>1, SameFailed DEF DiskWrites
  <1>9. CASE DiskFails
    <2>1. Held = 0 /\ Held' = 1 /\ faults' = faults + 1
      BY <1>9 DEF DiskFails, Held, TypeOK
    <2>2. Cardinality(Failed)' = Cardinality(Failed)
      BY <1>9, SameFailed DEF DiskFails
    <2> QED
      BY <1>1, <2>1, <2>2
  <1>10. CASE Crash
    <2>1. Cardinality(Failed)' = Cardinality(Failed)
      BY <1>10, SameFailed DEF Crash, TypeOK
    <2>2. Held' = 0 /\ faults' = faults - Held
      BY <1>10 DEF Crash, Idle, Held, TypeOK
    <2> QED
      BY <1>1, <2>1, <2>2
  <1>11. CASE UNCHANGED sinkVars
    BY <1>1, <1>11, SameFailed DEF sinkVars, Held
  <1> QED
    BY <1>2, <1>3, <1>4, <1>5, <1>6, <1>7, <1>8, <1>9, <1>10, <1>11 DEF Next, Quiet

(* Every failed open or write of the capture file makes exactly one call    *)
(* return an error or is still the File's pending result, for any number of *)
(* callers: no error is lost when its caller leaves.                        *)
THEOREM FaultsReported == Spec => []EveryFaultReportedOnce
  <1>1. Init => EveryFaultReportedOnce
    <2> SUFFICES ASSUME Init PROVE EveryFaultReportedOnce
      OBVIOUS
    <2>1. {c \in Callers : state[c] = "failed"} = {}
      BY DEF Init
    <2>2. faults = 0 /\ op.st # "failed"
      BY DEF Init, Idle
    <2> QED
      BY <2>1, <2>2, FS_EmptySet DEF EveryFaultReportedOnce
  <1> QED
    BY <1>1, Inductive, FaultsNext, PTL DEF Spec

-----------------------------------------------------------------------------
(* A request's pieces in their order: PerEvent of them for each event, the  *)
(* last but one of these ends its JSON text, the last is the newline.       *)
LEMMA PartsFacts ==
  /\ Parts \in Nat /\ Parts >= 1
  /\ PerEvent \in Nat /\ PerEvent = Parts + 1 /\ PerEvent >= 2
  BY SinkAssumption DEF PerEvent

(* Multiples of PerEvent keep their order. *)
LEMMA TimesPerEvent ==
  ASSUME NEW a \in Nat, NEW b \in Nat
  PROVE  /\ a * PerEvent \in Nat
         /\ (a + 1) * PerEvent = a * PerEvent + PerEvent
         /\ a < b => a * PerEvent + PerEvent <= b * PerEvent
  <1>1. (a + 1) * PerEvent = a * PerEvent + PerEvent /\ a * PerEvent \in Nat
    BY PartsFacts
  <1>2. ASSUME a < b PROVE a * PerEvent + PerEvent <= b * PerEvent
    <2>1. PICK d \in Nat : b = (a + 1) + d
      <3>1. b - (a + 1) \in Nat /\ b = (a + 1) + (b - (a + 1))
        BY <1>2
      <3> QED
        BY <3>1
    <2>2. b * PerEvent = (a + 1) * PerEvent + d * PerEvent /\ d * PerEvent \in Nat
      BY <2>1, PartsFacts
    <2> QED
      BY <1>1, <2>2, PartsFacts
  <1> QED
    BY <1>1, <1>2

LEMMA PieceOf ==
  ASSUME NEW m \in Nat, NEW r \in 0..Parts
  PROVE  /\ (m * PerEvent + r) % PerEvent = r
         /\ (m * PerEvent + r) \div PerEvent = m
  <1> DEFINE q == m * PerEvent + r
             d == q \div PerEvent
             s == q % PerEvent
  <1>1. m * PerEvent \in Nat /\ q \in Nat /\ r \in Nat /\ r < PerEvent
    BY PartsFacts, TimesPerEvent
  <1>2. d \in Nat /\ s \in Nat /\ s < PerEvent /\ q = PerEvent * d + s
    <2> HIDE DEF q
    <2> QED
      BY <1>1, PartsFacts
  <1>3. q = d * PerEvent + s
    <2>1. PerEvent * d = d * PerEvent
      BY <1>2, PartsFacts
    <2> QED
      BY <1>2, <2>1
  <1>4. q = m * PerEvent + r
    OBVIOUS
  <1> HIDE DEF q, d, s
  <1>5. d = m
    <2>1. ~(d < m)
      BY <1>1, <1>2, <1>3, <1>4, TimesPerEvent, PartsFacts
    <2>2. ~(m < d)
      BY <1>1, <1>2, <1>3, <1>4, TimesPerEvent, PartsFacts
    <2> QED
      BY <1>2, <2>1, <2>2
  <1>6. s = r
    BY <1>1, <1>2, <1>3, <1>4, <1>5
  <1> QED
    BY <1>5, <1>6 DEF d, s, q

(* The text of an event ends one piece before the event does. *)
LEMMA TextEnd ==
  ASSUME NEW q \in Nat \ {0}, NEW m \in Nat,
         m * PerEvent <= q, q < m * PerEvent + PerEvent
  PROVE  /\ EndsJson(q) <=> q = m * PerEvent + Parts
         /\ IsNewline(q) <=> q = m * PerEvent
         /\ EndsJson(q) => EventOf(q) = m + 1
  <1> DEFINE r == q - m * PerEvent
  <1>1. r \in 0..Parts /\ q = m * PerEvent + r
    BY TimesPerEvent, PartsFacts
  <1>2. q % PerEvent = r
    BY <1>1, PieceOf
  <1>3. ASSUME EndsJson(q) PROVE EventOf(q) = m + 1
    <2>1. r = Parts /\ Parts - 1 \in 0..Parts /\ q - 1 = m * PerEvent + (Parts - 1)
      BY <1>1, <1>2, <1>3, PartsFacts, TimesPerEvent DEF EndsJson
    <2>2. (q - 1) \div PerEvent = m
      BY <2>1, PieceOf
    <2> QED
      BY <2>2 DEF EventOf
  <1>4. m * PerEvent \in Nat
    BY TimesPerEvent
  <1> HIDE DEF r
  <1> QED
    BY <1>1, <1>2, <1>3, <1>4, PartsFacts DEF EndsJson, IsNewline
-----------------------------------------------------------------------------
Entries == Callers \X Nat
UpTo(S, i) == {h \in S : h <= i}

LEMMA TextEndsFinite ==
  ASSUME NEW s \in Seq(Pieces)
  PROVE  /\ TextEnds(s) \subseteq 1..Len(s)
         /\ IsFiniteSet(TextEnds(s)) /\ Cardinality(TextEnds(s)) \in Nat
         /\ \A i : UpTo(TextEnds(s), i) \subseteq TextEnds(s)
         /\ \A i : /\ Cardinality(UpTo(TextEnds(s), i)) \in Nat
                   /\ Cardinality(UpTo(TextEnds(s), i)) <= Cardinality(TextEnds(s))
  <1>1. Len(s) \in Nat /\ TextEnds(s) \subseteq 1..Len(s)
    BY DEF TextEnds
  <1>2. IsFiniteSet(1..Len(s))
    BY <1>1, FS_Interval
  <1>3. IsFiniteSet(TextEnds(s))
    BY <1>1, <1>2, FS_Subset
  <1>4. Cardinality(TextEnds(s)) \in Nat
    BY <1>3, FS_CardinalityType
  <1>5. \A i : UpTo(TextEnds(s), i) \subseteq TextEnds(s)
    BY DEF UpTo
  <1>6. ASSUME NEW i
        PROVE  /\ Cardinality(UpTo(TextEnds(s), i)) \in Nat
               /\ Cardinality(UpTo(TextEnds(s), i)) <= Cardinality(TextEnds(s))
    <2>1. UpTo(TextEnds(s), i) \subseteq TextEnds(s)
      BY <1>5
    <2>2. IsFiniteSet(UpTo(TextEnds(s), i))
      BY <1>3, <2>1, FS_Subset
    <2>3. Cardinality(UpTo(TextEnds(s), i)) \in Nat
      BY <2>2, FS_CardinalityType
    <2>4. Cardinality(UpTo(TextEnds(s), i)) <= Cardinality(TextEnds(s))
      BY <1>3, <2>1, FS_Subset
    <2> QED
      BY <2>3, <2>4
  <1> QED
    BY <1>1, <1>3, <1>4, <1>5, <1>6

(* The texts of rank k in a file. *)
Ranked(s, k) == {i \in TextEnds(s) : Cardinality(UpTo(TextEnds(s), i)) = k}
EntryAt(s, i) == <<s[i].by, EventOf(s[i].at)>>
RankedEntries(s, k) == {EntryAt(s, i) : i \in Ranked(s, k)}

LEMMA LogUnfolds ==
  ASSUME NEW s
  PROVE  LogOf(s) = [k \in 1..Cardinality(TextEnds(s)) |-> CHOOSE e \in RankedEntries(s, k) : TRUE]
  BY DEF LogOf, RankedEntries, Ranked, EntryAt, UpTo

(* A piece that ends no text leaves the log as it is. *)
LEMMA LogSame ==
  ASSUME NEW s \in Seq(Pieces), NEW p \in Pieces, ~(p.whole /\ EndsJson(p.at))
  PROVE  LogOf(Append(s, p)) = LogOf(s)
  <1> DEFINE t == Append(s, p)
  <1>1. /\ Len(s) \in Nat /\ DOMAIN s = 1..Len(s)
        /\ DOMAIN t = 1..(Len(s) + 1) /\ t[Len(s) + 1] = p
        /\ \A j \in DOMAIN s : t[j] = s[j]
    OBVIOUS
  <1> HIDE DEF t
  <1>2. TextEnds(t) = TextEnds(s)
    <2>1. ASSUME NEW j PROVE j \in TextEnds(t) <=> j \in TextEnds(s)
      <3>1. CASE j = Len(s) + 1
        BY <1>1, <3>1 DEF TextEnds
      <3>2. CASE j # Len(s) + 1
        <4>1. j \in DOMAIN t <=> j \in DOMAIN s
          BY <1>1, <3>2
        <4> QED
          BY <1>1, <4>1 DEF TextEnds
      <3> QED
        BY <3>1, <3>2
    <2> QED
      BY <2>1
  <1>3. ASSUME NEW k PROVE RankedEntries(t, k) = RankedEntries(s, k)
    <2>1. Ranked(t, k) = Ranked(s, k)
      BY <1>2 DEF Ranked
    <2>2. \A i \in Ranked(s, k) : EntryAt(t, i) = EntryAt(s, i)
      BY <1>1 DEF Ranked, TextEnds, EntryAt
    <2> QED
      BY <2>1, <2>2 DEF RankedEntries
  <1>4. LogOf(t) = LogOf(s)
    <2> DEFINE pick(k) == CHOOSE e \in RankedEntries(s, k) : TRUE
    <2>1. LogOf(t) = [k \in 1..Cardinality(TextEnds(s)) |-> CHOOSE e \in RankedEntries(t, k) : TRUE]
      BY <1>2, LogUnfolds
    <2>2. \A k : (CHOOSE e \in RankedEntries(t, k) : TRUE) = pick(k)
      BY <1>3
    <2>3. LogOf(s) = [k \in 1..Cardinality(TextEnds(s)) |-> pick(k)]
      BY LogUnfolds
    <2> HIDE DEF pick
    <2> QED
      BY <2>1, <2>2, <2>3
  <1> QED
    BY <1>4 DEF t

(* A piece that ends a text appends that text's event to the log. *)
LEMMA LogAppends ==
  ASSUME NEW s \in Seq(Pieces), NEW p \in Pieces, p.whole, EndsJson(p.at),
         LogOf(s) \in Seq(Entries)
  PROVE  LogOf(Append(s, p)) = Append(LogOf(s), <<p.by, EventOf(p.at)>>)
  <1> DEFINE t == Append(s, p)
             n == Len(s) + 1
             card == Cardinality(TextEnds(s))
             entry == <<p.by, EventOf(p.at)>>
  <1>1. /\ Len(s) \in Nat /\ DOMAIN s = 1..Len(s)
        /\ DOMAIN t = 1..n /\ t[n] = p
        /\ \A j \in DOMAIN s : t[j] = s[j]
        /\ t \in Seq(Pieces)
    OBVIOUS
  <1> HIDE DEF t
  <1>2. n \in Nat /\ n \notin 1..Len(s) /\ n \in 1..n /\ \A j \in 1..n : j = n \/ j \in 1..Len(s)
    BY <1>1
  <1> HIDE DEF n
  <1>3. TextEnds(t) = TextEnds(s) \cup {n} /\ n \notin TextEnds(s)
    <2>1. n \notin TextEnds(s)
      BY <1>1, <1>2 DEF TextEnds
    <2>2. ASSUME NEW j PROVE j \in TextEnds(t) <=> j \in TextEnds(s) \/ j = n
      <3>1. CASE j = n
        BY <1>1, <1>2, <3>1 DEF TextEnds
      <3>2. CASE j # n
        <4>1. j \in DOMAIN t <=> j \in DOMAIN s
          BY <1>1, <1>2, <3>2, n >= 1 DEF n
        <4> QED
          BY <1>1, <3>2, <4>1 DEF TextEnds
      <3> QED
        BY <3>1, <3>2
    <2> QED
      BY <2>1, <2>2
  <1>4. /\ card \in Nat /\ IsFiniteSet(TextEnds(s)) /\ TextEnds(s) \subseteq 1..Len(s)
        /\ \A i : /\ Cardinality(UpTo(TextEnds(s), i)) \in Nat
                  /\ Cardinality(UpTo(TextEnds(s), i)) <= card
    BY TextEndsFinite
  <1>5. Cardinality(TextEnds(t)) = card + 1
    BY <1>3, <1>4, FS_AddElement
  <1>6. UpTo(TextEnds(t), n) = TextEnds(t)
    <2>1. \A h \in TextEnds(t) : h <= n
      BY <1>1, <1>2, <1>3, <1>4 DEF n
    <2> QED
      BY <2>1 DEF UpTo
  <1>7. ASSUME NEW i \in TextEnds(s)
        PROVE  UpTo(TextEnds(t), i) = UpTo(TextEnds(s), i)
    <2>1. ~(n <= i)
      BY <1>1, <1>4 DEF n
    <2> QED
      BY <1>3, <2>1 DEF UpTo
  <1> HIDE DEF card
  <1>8. ASSUME NEW k \in 1..card PROVE RankedEntries(t, k) = RankedEntries(s, k)
    <2>1. k # card + 1
      BY <1>4
    <2>2. Ranked(t, k) = Ranked(s, k)
      <3>1. ASSUME NEW i PROVE i \in Ranked(t, k) <=> i \in Ranked(s, k)
        <4>1. CASE i = n
          BY <1>3, <1>5, <1>6, <2>1, <4>1 DEF Ranked
        <4>2. CASE i # n
          BY <1>3, <1>7, <4>2 DEF Ranked
        <4> QED
          BY <4>1, <4>2
      <3> QED
        BY <3>1
    <2>3. \A i \in Ranked(s, k) : EntryAt(t, i) = EntryAt(s, i)
      BY <1>1 DEF Ranked, TextEnds, EntryAt
    <2> QED
      BY <2>2, <2>3 DEF RankedEntries
  <1>9. RankedEntries(t, card + 1) = {entry}
    <2>1. n \in Ranked(t, card + 1)
      BY <1>3, <1>5, <1>6 DEF Ranked
    <2>2. ASSUME NEW i \in Ranked(t, card + 1) PROVE i = n
      <3>1. SUFFICES ASSUME i \in TextEnds(s) PROVE FALSE
        BY <1>3 DEF Ranked
      <3>2. Cardinality(UpTo(TextEnds(s), i)) = card + 1
        BY <1>7, <3>1 DEF Ranked
      <3>3. card + 1 <= card
        BY <1>4, <3>2
      <3> QED
        BY <1>4, <3>3
    <2>3. EntryAt(t, n) = entry
      BY <1>1 DEF EntryAt
    <2> HIDE DEF entry
    <2> QED
      BY <2>1, <2>2, <2>3 DEF RankedEntries
  <1> DEFINE log == LogOf(s)
  <1>10. /\ log \in Seq(Entries)
         /\ log = [k \in 1..card |-> CHOOSE e \in RankedEntries(s, k) : TRUE]
    BY LogUnfolds DEF card
  <1>11. Len(log) = card
    <2>1. DOMAIN log = 1..card
      BY <1>10
    <2> HIDE DEF log
    <2> QED
      BY <1>4, <1>10, <2>1
  <1>12. LogOf(t) = [k \in 1..(card + 1) |-> CHOOSE e \in RankedEntries(t, k) : TRUE]
    BY <1>5, LogUnfolds
  <1>13. ASSUME NEW k \in 1..card
         PROVE  (CHOOSE e \in RankedEntries(t, k) : TRUE) = log[k]
    BY <1>8, <1>10
  <1>14. (CHOOSE e \in RankedEntries(t, card + 1) : TRUE) = entry
    <2> HIDE DEF entry
    <2> QED
      BY <1>9
  <1> HIDE DEF log
  <1>15. entry = <<p.by, EventOf(p.at)>>
    OBVIOUS
  <1> HIDE DEF entry
  <1>16. Append(log, entry) = [k \in 1..(card + 1) |-> IF k = card + 1 THEN entry ELSE log[k]]
    <2> DEFINE X == Entries \cup {entry}
               longer == Append(log, entry)
    <2>1. log \in Seq(X) /\ entry \in X
      <3>1. Entries \subseteq X /\ entry \in X
        OBVIOUS
      <3> HIDE DEF X
      <3> QED
        BY <1>10, <3>1, SeqMonotonic
    <2> HIDE DEF X
    <2>2. /\ longer \in Seq(X) /\ Len(longer) = card + 1
          /\ longer[card + 1] = entry
          /\ \A k \in 1..card : longer[k] = log[k]
      BY <1>4, <1>11, <2>1
    <2> HIDE DEF longer
    <2>3. longer \in [1..(card + 1) -> X]
      BY <2>2
    <2>4. \A k \in 1..(card + 1) : longer[k] = IF k = card + 1 THEN entry ELSE log[k]
      BY <1>4, <2>2
    <2>5. longer = [k \in 1..(card + 1) |-> IF k = card + 1 THEN entry ELSE log[k]]
      <3>1. longer = [k \in 1..(card + 1) |-> longer[k]]
        BY <2>3
      <3> QED
        BY <2>4, <3>1, Zenon
    <2> QED
      BY <2>5 DEF longer
  <1>17. ASSUME NEW k \in 1..(card + 1)
         PROVE  (CHOOSE e \in RankedEntries(t, k) : TRUE)
                  = IF k = card + 1 THEN entry ELSE log[k]
    <2>1. CASE k = card + 1
      BY <1>14, <2>1
    <2>2. CASE k # card + 1
      <3>1. k \in 1..card
        BY <1>4, <2>2
      <3> QED
        BY <1>13, <2>2, <3>1
    <2> QED
      BY <2>1, <2>2
  <1>18. LogOf(t) = Append(log, entry)
    BY <1>12, <1>16, <1>17
  <1> QED
    BY <1>15, <1>18 DEF t, log
-----------------------------------------------------------------------------
(* The File's last operation: who started it, and how far that call is.  A *)
(* call that returned Ok before its operation ended handed over its last   *)
(* newline; a call that failed has taken the operation's result with it.   *)
OwnerInv ==
  op.st # "idle" =>
    /\ handle
    /\ op.at = next[op.by] - 1
    /\ state[op.by] \in {"pending", "ok", "gone"}
    /\ state[op.by] = "ok" => op.at = Total(op.by)

Started == [st : {"busy", "done", "failed"}, by : Callers, at : Nat \ {0}]

LEMMA OpTyped ==
  ASSUME TypeOK, op.st # "idle"
  PROVE  op \in Started /\ op.by \in Callers /\ op.at \in Nat \ {0}
  BY DEF TypeOK, Started

LEMMA OwnerNext ==
  ASSUME IInv, OwnerInv, [Next]_sinkVars
  PROVE  OwnerInv'
  <1> USE DEF IInv
  <1>1. ASSUME NEW c \in Callers, NEW n \in 1..MaxEvents, Submit(c, n) PROVE OwnerInv'
    <2>1. ASSUME op.st # "idle" PROVE op.by \in Callers /\ op.by # c
      BY <1>1, <2>1, OpTyped DEF Submit, OwnerInv
    <2> QED
      BY <1>1, <2>1 DEF Submit, OwnerInv, TypeOK, Total
  <1>2. ASSUME NEW c \in Callers, OpenFile(c) PROVE OwnerInv'
    BY <1>2 DEF OpenFile, OwnerInv, Total
  <1>3. ASSUME NEW c \in Callers, OpenFails(c) PROVE OwnerInv'
    BY <1>3 DEF OpenFails, OwnerInv
  <1>4. ASSUME NEW c \in Callers, WritePiece(c) PROVE OwnerInv'
    <2>1. /\ handle' /\ op'.by = c /\ op'.at = next[c] /\ next[c] \in Nat
          /\ next'[c] = next[c] + 1 /\ Total(c)' = Total(c)
      BY <1>4 DEF WritePiece, TypeOK, InFlight, Total
    <2>2. state[c] = "pending"
      BY <1>4, HolderFacts DEF WritePiece
    <2>3. /\ state'[c] \in {"pending", "ok"}
          /\ state'[c] = "ok" => next[c] = Total(c)
      BY <1>4, <2>2 DEF WritePiece, Return, TypeOK
    <2> QED
      BY <2>1, <2>3 DEF OwnerInv
  <1>5. ASSUME NEW c \in Callers, WriteFails(c) PROVE OwnerInv'
    BY <1>5 DEF WriteFails, OwnerInv, Idle
  <1>6. ASSUME NEW c \in Callers, Leave(c) PROVE OwnerInv'
    <2>1. ASSUME op.st # "idle"
          PROVE  state'[op.by] = IF op.by = c THEN "gone" ELSE state[op.by]
      BY <1>6, <2>1, OpTyped DEF Leave, TypeOK
    <2> QED
      BY <1>6, <2>1 DEF Leave, OwnerInv, Total
  <1>7. CASE DiskWrites
    <2>1. op \in Started
      BY <1>7, OpTyped DEF DiskWrites
    <2> QED
      BY <1>7, <2>1 DEF DiskWrites, OwnerInv, Total, Started
  <1>8. CASE DiskFails
    <2>1. op \in Started
      BY <1>8, OpTyped DEF DiskFails
    <2> QED
      BY <1>8, <2>1 DEF DiskFails, OwnerInv, Total, Started
  <1>9. CASE Crash
    BY <1>9 DEF Crash, OwnerInv, Idle
  <1>10. CASE UNCHANGED sinkVars
    BY <1>10 DEF sinkVars, OwnerInv, Total
  <1> QED
    BY <1>1, <1>2, <1>3, <1>4, <1>5, <1>6, <1>7, <1>8, <1>9, <1>10 DEF Next, Quiet
-----------------------------------------------------------------------------
Has(l, c) == Cardinality({j \in DOMAIN l : l[j][1] = c})

LEMMA AppendedIsHas ==
  ASSUME NEW c
  PROVE  Log!Appended(c) = Has(LogOf(disk), c)
  BY DEF Log!Appended, Has, Log!Cardinality, Cardinality

LEMMA HasAppend ==
  ASSUME NEW l \in Seq(Entries), NEW e \in Entries, NEW c
  PROVE  /\ Has(l, c) \in Nat
         /\ Append(l, e) \in Seq(Entries)
         /\ Append(l, e)[Len(Append(l, e))] = e
         /\ e[1] = c => Has(Append(l, e), c) = Has(l, c) + 1
         /\ e[1] # c => Has(Append(l, e), c) = Has(l, c)
  <1> DEFINE old == {j \in DOMAIN l : l[j][1] = c}
             longer == Append(l, e)
             new == {j \in DOMAIN longer : longer[j][1] = c}
             n == Len(l) + 1
  <1>1. /\ Len(l) \in Nat /\ DOMAIN l = 1..Len(l) /\ longer \in Seq(Entries)
        /\ Len(longer) = n /\ DOMAIN longer = 1..n /\ longer[n] = e
        /\ \A j \in 1..Len(l) : longer[j] = l[j]
    OBVIOUS
  <1> HIDE DEF longer
  <1>2. IsFiniteSet(old) /\ Cardinality(old) \in Nat
    <2>1. IsFiniteSet(1..Len(l)) /\ old \subseteq 1..Len(l)
      BY <1>1, FS_Interval
    <2>2. IsFiniteSet(old)
      BY <2>1, FS_Subset
    <2> HIDE DEF old
    <2> QED
      BY <2>2, FS_CardinalityType
  <1>3. n \notin old
    BY <1>1
  <1>4. new = IF e[1] = c THEN old \cup {n} ELSE old
    BY <1>1
  <1> HIDE DEF n, old, new
  <1>5. e[1] = c => Cardinality(new) = Cardinality(old) + 1
    BY <1>2, <1>3, <1>4, FS_AddElement
  <1>6. e[1] # c => Cardinality(new) = Cardinality(old)
    BY <1>4
  <1>7. Has(l, c) = Cardinality(old) /\ Has(longer, c) = Cardinality(new)
    BY DEF Has, old, new
  <1> QED
    BY <1>1, <1>2, <1>5, <1>6, <1>7 DEF longer

(* What the log holds of a call that has handed nothing over, and of the    *)
(* call whose piece the File took last: exactly the events whose text has   *)
(* ended, and they are the last of the log.                                 *)
Ended == IF op.st = "done" THEN op.at + 1 ELSE op.at

LoggedInv ==
  /\ LogOf(disk) \in Seq(Entries)
  /\ \A c \in Callers : next[c] = 1 => Has(LogOf(disk), c) = 0
  /\ op.st # "idle" =>
       /\ Has(LogOf(disk), op.by) * PerEvent <= Ended
       /\ Ended < Has(LogOf(disk), op.by) * PerEvent + PerEvent
       /\ Has(LogOf(disk), op.by) > 0 =>
            LogOf(disk)[Len(LogOf(disk))] = <<op.by, Has(LogOf(disk), op.by)>>

LEMMA HasNat ==
  ASSUME NEW l \in Seq(Entries), NEW c
  PROVE  Has(l, c) \in Nat
  <1>1. IsFiniteSet(1..Len(l)) /\ {j \in DOMAIN l : l[j][1] = c} \subseteq 1..Len(l)
    BY FS_Interval
  <1>2. IsFiniteSet({j \in DOMAIN l : l[j][1] = c})
    BY <1>1, FS_Subset
  <1> QED
    BY <1>2, FS_CardinalityType DEF Has

LEMMA LoggedKeeps ==
  ASSUME LoggedInv, LogOf(disk') = LogOf(disk), next' = next, op' = op \/ op'.st = "idle"
  PROVE  LoggedInv'
  BY DEF LoggedInv, Ended

LEMMA CrashLogs ==
  ASSUME TypeOK, NEW p \in Pieces, ~p.whole
  PROVE  LogOf(Append(disk, p)) = LogOf(disk)
  BY LogSame DEF TypeOK, Pieces

LEMMA LoggedNext ==
  ASSUME IInv, OwnerInv, LoggedInv, [Next]_sinkVars
  PROVE  LoggedInv'
  <1> USE DEF IInv
  <1> DEFINE log == LogOf(disk)
  <1>0. log \in Seq(Entries) /\ \A c \in Callers : Has(log, c) \in Nat
    BY HasNat DEF LoggedInv
  <1>1. ASSUME NEW c \in Callers, NEW n \in 1..MaxEvents, Submit(c, n) PROVE LoggedInv'
    BY <1>1, LoggedKeeps DEF Submit
  <1>2. ASSUME NEW c \in Callers, OpenFile(c) PROVE LoggedInv'
    BY <1>2, LoggedKeeps DEF OpenFile
  <1>3. ASSUME NEW c \in Callers, OpenFails(c) PROVE LoggedInv'
    BY <1>3, LoggedKeeps DEF OpenFails
  <1>4. ASSUME NEW c \in Callers, WritePiece(c) PROVE LoggedInv'
    <2>1. /\ disk' = disk /\ op'.st = "busy" /\ op'.by = c /\ op'.at = next[c]
          /\ next[c] \in Nat \ {0} /\ op.st \in {"idle", "done"}
          /\ \A d \in Callers : next'[d] = IF d = c THEN next[c] + 1 ELSE next[d]
      BY <1>4 DEF WritePiece, InFlight, TypeOK
    <2>2. Ended' = next[c] /\ log' = log
      BY <2>1 DEF Ended
    <2>3. CASE next[c] = 1
      <3>1. Has(log, c) = 0 /\ 0 * PerEvent = 0
        BY <2>3, PartsFacts DEF LoggedInv
      <3> QED
        BY <1>0, <2>1, <2>2, <2>3, <3>1, PartsFacts DEF LoggedInv
    <2>4. CASE next[c] # 1
      <3>1. state[c] = "pending" /\ next[c] > 1
        BY <1>4, <2>1, <2>4, HolderFacts DEF WritePiece
      <3>2. op.st = "done" /\ op.by = c /\ op.at = next[c] - 1
        BY <2>1, <3>1 DEF PendingInv, CallOK
      <3>3. Ended = next[c]
        BY <2>1, <3>2 DEF Ended
      <3>4. \A d \in Callers : next'[d] = 1 => next[d] = 1
        BY <2>1
      <3> QED
        BY <2>1, <2>2, <3>2, <3>3, <3>4 DEF LoggedInv
    <2> QED
      BY <2>3, <2>4
  <1>5. ASSUME NEW c \in Callers, WriteFails(c) PROVE LoggedInv'
    BY <1>5, LoggedKeeps DEF WriteFails, Idle
  <1>6. ASSUME NEW c \in Callers, Leave(c) PROVE LoggedInv'
    BY <1>6, LoggedKeeps DEF Leave
  <1>7. CASE DiskWrites
    <2> DEFINE c == op.by
               q == op.at
               p == Piece(c, q, TRUE)
               m == Has(log, c)
    <2>1. /\ op.st = "busy" /\ c \in Callers /\ q \in Nat \ {0}
          /\ op'.st = "done" /\ op'.by = c /\ op'.at = q
          /\ disk' = Append(disk, p) /\ next' = next
          /\ p \in Pieces /\ p.whole /\ p.at = q /\ p.by = c
      <3>1. op \in Started
        BY <1>7, OpTyped DEF DiskWrites
      <3> QED
        BY <1>7, <3>1 DEF DiskWrites, Started, Pieces, Piece
    <2>2. /\ m \in Nat /\ m * PerEvent \in Nat
          /\ m * PerEvent <= q /\ q < m * PerEvent + PerEvent
      BY <1>0, <2>1, TimesPerEvent DEF LoggedInv, Ended
    <2>3. Ended' = q + 1
      BY <2>1 DEF Ended
    <2>4. disk \in Seq(Pieces)
      BY DEF TypeOK, Pieces
    <2> HIDE DEF p
    <2>5. \A d \in Callers : next[d] = 1 => d # c
      BY <2>1 DEF OwnerInv
    <2>6. CASE EndsJson(q)
      <3> DEFINE e == <<c, m + 1>>
      <3>1. EventOf(q) = m + 1 /\ q = m * PerEvent + Parts /\ e \in Entries
        BY <2>1, <2>2, <2>6, TextEnd DEF Entries
      <3>2. log' = Append(log, e)
        BY <1>0, <2>1, <2>4, <2>6, <3>1, LogAppends
      <3>3. /\ Append(log, e) \in Seq(Entries)
            /\ Append(log, e)[Len(Append(log, e))] = e
            /\ Has(Append(log, e), c) = m + 1
            /\ \A d \in Callers : d # c => Has(Append(log, e), d) = Has(log, d)
        <4>1. e[1] = c /\ e \in Entries
          BY <3>1
        <4> HIDE DEF e, m
        <4> QED
          BY <1>0, <4>1, HasAppend DEF m
      <3>4. (m + 1) * PerEvent = q + 1
        <4>1. (m + 1) * PerEvent = m * PerEvent + PerEvent
          BY <2>2, TimesPerEvent
        <4>2. ASSUME NEW k \in Nat, q = k + Parts PROVE k + PerEvent = q + 1
          BY <4>2, PartsFacts
        <4> QED
          BY <2>2, <3>1, <4>1, <4>2
      <3> HIDE DEF log, m
      <3>5. /\ log' \in Seq(Entries)
            /\ \A d \in Callers : next'[d] = 1 => Has(log', d) = 0
        <4>1. \A d \in Callers : next[d] = 1 => Has(log, d) = 0
          BY DEF LoggedInv, log
        <4> QED
          BY <2>1, <2>5, <3>2, <3>3, <4>1
      <3>6. /\ Has(log', op'.by) * PerEvent <= Ended'
            /\ Ended' < Has(log', op'.by) * PerEvent + PerEvent
            /\ log'[Len(log')] = <<op'.by, Has(log', op'.by)>>
        BY <2>1, <2>3, <3>2, <3>3, <3>4, PartsFacts
      <3> QED
        BY <3>5, <3>6 DEF LoggedInv, log
    <2>7. CASE ~EndsJson(q)
      <3>1. log' = log
        BY <2>1, <2>4, <2>7, LogSame
      <3>2. q # m * PerEvent + Parts
        BY <2>1, <2>2, <2>7, TextEnd
      <3>3. m * PerEvent <= q + 1 /\ q + 1 < m * PerEvent + PerEvent
        <4> DEFINE k == m * PerEvent
        <4>1. k \in Nat /\ k <= q /\ q < k + PerEvent /\ q # k + Parts
          BY <2>2, <3>2
        <4> HIDE DEF k
        <4>2. k <= q + 1 /\ q + 1 < k + PerEvent
          BY <2>1, <4>1, PartsFacts
        <4> QED
          BY <4>2 DEF k
      <3> HIDE DEF log
      <3>4. /\ \A d \in Callers : next'[d] = 1 => Has(log', d) = 0
            /\ m > 0 => log[Len(log)] = <<c, m>>
        BY <2>1, <3>1 DEF LoggedInv, log
      <3> QED
        BY <1>0, <2>1, <2>3, <3>1, <3>3, <3>4 DEF LoggedInv, log
    <2> QED
      BY <2>6, <2>7
  <1>8. CASE DiskFails
    <2>1. op \in Started
      BY <1>8, OpTyped DEF DiskFails
    <2>2. op.st = "busy" /\ op'.st = "failed" /\ op'.by = op.by /\ op'.at = op.at /\ next' = next
      BY <1>8, <2>1 DEF DiskFails, Started
    <2>3. log' = log
      <3> DEFINE p == Piece(op.by, op.at, FALSE)
      <3>1. p \in Pieces /\ ~p.whole
        BY <2>1 DEF Started, Pieces, Piece
      <3>2. disk' = disk \/ disk' = Append(disk, p)
        BY <1>8 DEF DiskFails
      <3> HIDE DEF p
      <3>3. LogOf(Append(disk, p)) = LogOf(disk)
        BY <3>1, CrashLogs
      <3> QED
        BY <3>2, <3>3
    <2> QED
      BY <2>2, <2>3 DEF LoggedInv, Ended
  <1>9. CASE Crash
    <2>1. log' = log
      <3> DEFINE p == Piece(op.by, op.at, FALSE)
      <3>1. CASE UNCHANGED disk
        BY <3>1
      <3>2. CASE op.st = "busy" /\ disk' = Append(disk, p)
        <4>1. op \in Started
          BY <3>2, OpTyped
        <4>2. p \in Pieces /\ ~p.whole
          BY <4>1 DEF Started, Pieces, Piece
        <4> HIDE DEF p
        <4> QED
          BY <3>2, <4>2, CrashLogs
      <3> QED
        BY <1>9, <3>1, <3>2 DEF Crash
    <2> QED
      BY <1>9, <2>1, LoggedKeeps DEF Crash, Idle
  <1>10. CASE UNCHANGED sinkVars
    BY <1>10, LoggedKeeps DEF sinkVars
  <1> QED
    BY <1>1, <1>2, <1>3, <1>4, <1>5, <1>6, <1>7, <1>8, <1>9, <1>10 DEF Next, Quiet

(* A pending call that has its last newline to hand over has its whole      *)
(* request in the log.                                                      *)
LEMMA LastPieceLogged ==
  ASSUME IInv, LoggedInv, NEW c \in Callers, WritePiece(c), next[c] = Total(c)
  PROVE  Log!Appended(c) = size[c]
  <1> DEFINE m == Has(LogOf(disk), c)
             n == size[c]
  <1>1. m \in Nat /\ n \in Nat /\ next[c] \in Nat \ {0} /\ next[c] = n * PerEvent
    BY SinkAssumption, HasNat DEF LoggedInv, IInv, TypeOK, Total
  <1>2. next[c] > 1
    <2>1. n # 0
      BY <1>1, PartsFacts
    <2>2. 0 * PerEvent + PerEvent <= n * PerEvent /\ 0 * PerEvent \in Nat
      BY <1>1, <2>1, TimesPerEvent
    <2> QED
      BY <1>1, <2>2, PartsFacts
  <1>3. op.st = "done" /\ op.by = c /\ op.at = next[c] - 1
    <2>1. state[c] = "pending" /\ op.st \in {"idle", "done"}
      BY HolderFacts DEF IInv, WritePiece
    <2> QED
      BY <1>2, <2>1 DEF IInv, PendingInv, CallOK
  <1>4. m * PerEvent <= n * PerEvent /\ n * PerEvent < m * PerEvent + PerEvent
    BY <1>1, <1>3 DEF LoggedInv, Ended
  <1>5. m * PerEvent \in Nat /\ n * PerEvent \in Nat
    BY <1>1, TimesPerEvent
  <1> HIDE DEF m, n
  <1>6. ~(m < n) /\ ~(n < m)
    BY <1>1, <1>4, <1>5, TimesPerEvent, PartsFacts
  <1>7. m = n
    BY <1>1, <1>6
  <1> QED
    BY <1>7, AppendedIsHas DEF m, n

(* The File writes a text's last piece: one event reaches the log. *)
LEMMA TextReachesLog ==
  ASSUME IInv, OwnerInv, LoggedInv, DiskWrites, EndsJson(op.at)
  PROVE  op.by \in Callers /\ Log!AppendEvent(op.by)
  <1> DEFINE c == op.by
             q == op.at
             p == Piece(c, q, TRUE)
             log == LogOf(disk)
             m == Has(log, c)
             n == size[c]
  <1>1. /\ op.st = "busy" /\ c \in Callers /\ q \in Nat \ {0}
        /\ disk' = Append(disk, p) /\ UNCHANGED <<state, size>>
        /\ p \in Pieces /\ p.whole /\ p.at = q /\ p.by = c
        /\ disk \in Seq(Pieces)
    <2>1. op \in Started
      BY OpTyped DEF DiskWrites, IInv
    <2> QED
      BY <2>1 DEF DiskWrites, Started, Pieces, Piece, IInv, TypeOK
  <1> HIDE DEF p
  <1>2. /\ m \in Nat /\ m * PerEvent \in Nat
        /\ m * PerEvent <= q /\ q < m * PerEvent + PerEvent
        /\ m > 0 => log[Len(log)] = <<c, m>>
        /\ log \in Seq(Entries)
    BY <1>1, HasNat, TimesPerEvent DEF LoggedInv, Ended
  <1>3. EventOf(q) = m + 1 /\ q = m * PerEvent + Parts
    BY <1>1, <1>2, TextEnd
  <1>4. log' = Append(log, <<c, m + 1>>)
    BY <1>1, <1>2, <1>3, LogAppends
  <1>5. /\ n \in Nat /\ n * PerEvent \in Nat
        /\ q <= n * PerEvent
        /\ state[c] = "ok" => q = n * PerEvent
    <2>1. n \in Nat /\ next[c] \in Nat /\ next[c] <= n * PerEvent + 1
      BY <1>1, SinkAssumption DEF IInv, TypeOK, Total
    <2>2. q = next[c] - 1 /\ (state[c] = "ok" => q = n * PerEvent)
      BY <1>1 DEF OwnerInv, Total
    <2> QED
      BY <1>1, <2>1, <2>2, TimesPerEvent
  <1> HIDE DEF log, m, n, q, c
  <1>6. q # n * PerEvent
    <2>1. ASSUME q = n * PerEvent PROVE FALSE
      <3>1. n * PerEvent <= q /\ q < n * PerEvent + PerEvent
        BY <1>5, <2>1, PartsFacts
      <3>2. EndsJson(q) <=> q = n * PerEvent + Parts
        BY <1>1, <1>5, <3>1, TextEnd
      <3>3. EndsJson(q)
        BY DEF q
      <3> QED
        BY <1>5, <2>1, <3>2, <3>3, PartsFacts
    <2> QED
      BY <2>1
  <1>7. m < n
    <2>1. ASSUME n < m PROVE FALSE
      BY <1>2, <1>3, <1>5, <2>1, TimesPerEvent, PartsFacts
    <2>2. ASSUME m = n PROVE FALSE
      BY <1>2, <1>3, <1>5, <2>2, PartsFacts
    <2> QED
      BY <1>2, <1>5, <2>1, <2>2
  <1>8. state[c] \in {"pending", "gone"}
    BY <1>1, <1>5, <1>6 DEF OwnerInv, c
  <1>9. Log!Appended(c) = m
    BY AppendedIsHas DEF m, log
  <1>10. Log!AppendEvent(c)
    BY <1>1, <1>2, <1>4, <1>7, <1>8, <1>9 DEF Log!AppendEvent, log, n
  <1> QED
    BY <1>1, <1>10 DEF c

LEMMA StepMaps ==
  ASSUME IInv, OwnerInv, LoggedInv, [Next]_sinkVars
  PROVE  [Log!Next]_(Log!logVars)
  <1> USE DEF IInv
  <1> DEFINE log == LogOf(disk)
  <1>1. ASSUME NEW c \in Callers, NEW n \in 1..MaxEvents, Submit(c, n)
        PROVE  Log!Next
    <2>1. Log!Submit(c, n)
      BY <1>1 DEF Submit, Log!Submit
    <2> QED
      BY <2>1 DEF Log!Next
  <1>2. ASSUME NEW c \in Callers, OpenFile(c) PROVE UNCHANGED Log!logVars
    BY <1>2 DEF OpenFile, Log!logVars
  <1>3. ASSUME NEW c \in Callers, state[c] = "pending", NEW how \in {"failed", "gone"},
               state' = [state EXCEPT ![c] = how], log' = log, size' = size
        PROVE  Log!Next
    <2>1. state' = [d \in Callers |-> IF d \in {c} THEN how ELSE state[d]]
      BY <1>3 DEF TypeOK
    <2>2. Log!GiveUp({c}, how)
      BY <1>3, <2>1 DEF Log!GiveUp
    <2>3. {c} \in SUBSET Callers
      OBVIOUS
    <2>4. CASE how = "failed"
      BY <2>2, <2>4 DEF Log!Next
    <2>5. CASE how = "gone"
      BY <2>2, <2>3, <2>5 DEF Log!Next
    <2> QED
      BY <1>3, <2>4, <2>5
  <1>4. ASSUME NEW c \in Callers, OpenFails(c) PROVE Log!Next
    <2>1. log' = log
      BY <1>4 DEF OpenFails
    <2> HIDE DEF log
    <2> QED
      BY <1>3, <1>4, <2>1, HolderFacts DEF OpenFails, Return
  <1>5. ASSUME NEW c \in Callers, WriteFails(c) PROVE Log!Next
    <2>1. log' = log
      BY <1>5 DEF WriteFails
    <2> HIDE DEF log
    <2> QED
      BY <1>3, <1>5, <2>1, HolderFacts DEF WriteFails, Return
  <1>6. ASSUME NEW c \in Callers, Leave(c) PROVE Log!Next
    <2>1. log' = log
      BY <1>6 DEF Leave
    <2> HIDE DEF log
    <2> QED
      BY <1>3, <1>6, <2>1 DEF Leave
  <1>7. ASSUME NEW c \in Callers, WritePiece(c)
        PROVE  Log!Next \/ UNCHANGED Log!logVars
    <2>1. /\ state[c] = "pending" /\ log' = log /\ size' = size
      BY <1>7, HolderFacts DEF WritePiece
    <2>2. CASE next[c] = Total(c)
      <3>1. state' = [state EXCEPT ![c] = "ok"]
        BY <1>7, <2>2 DEF WritePiece, Return
      <3>2. Log!Appended(c) = size[c]
        BY <1>7, <2>2, LastPieceLogged
      <3>3. Log!Accept(c)
        BY <2>1, <3>1, <3>2 DEF Log!Accept
      <3> QED
        BY <3>3 DEF Log!Next
    <2>3. CASE next[c] # Total(c)
      BY <1>7, <2>1, <2>3 DEF WritePiece, Log!logVars
    <2> QED
      BY <2>2, <2>3
  <1>8. ASSUME DiskWrites PROVE Log!Next \/ UNCHANGED Log!logVars
    <2>1. CASE EndsJson(op.at)
      BY <1>8, <2>1, TextReachesLog DEF Log!Next
    <2>2. CASE ~EndsJson(op.at)
      <3> DEFINE p == Piece(op.by, op.at, TRUE)
      <3>1. op \in Started /\ disk \in Seq(Pieces)
        BY <1>8, OpTyped DEF DiskWrites, TypeOK, Pieces
      <3>2. p \in Pieces /\ p.at = op.at /\ disk' = Append(disk, p)
        BY <1>8, <3>1 DEF DiskWrites, Started, Pieces, Piece
      <3> HIDE DEF p
      <3>3. log' = log
        BY <2>2, <3>1, <3>2, LogSame
      <3> QED
        BY <1>8, <3>3 DEF DiskWrites, Log!logVars
    <2> QED
      BY <2>1, <2>2
  <1>9. ASSUME DiskFails PROVE UNCHANGED Log!logVars
    <2> DEFINE p == Piece(op.by, op.at, FALSE)
    <2>1. op \in Started
      BY <1>9, OpTyped DEF DiskFails
    <2>2. p \in Pieces /\ ~p.whole
      BY <2>1 DEF Started, Pieces, Piece
    <2>3. disk' = disk \/ disk' = Append(disk, p)
      BY <1>9 DEF DiskFails
    <2> HIDE DEF p
    <2>4. LogOf(Append(disk, p)) = log
      BY <2>2, CrashLogs
    <2>5. log' = log
      BY <2>3, <2>4
    <2> QED
      BY <1>9, <2>5 DEF DiskFails, Log!logVars
  <1>10. ASSUME Crash PROVE Log!Next
    <2> DEFINE S == {c \in Callers : state[c] = "pending"}
               p == Piece(op.by, op.at, FALSE)
    <2>1. log' = log
      <3>1. CASE UNCHANGED disk
        BY <3>1
      <3>2. CASE op.st = "busy" /\ disk' = Append(disk, p)
        <4>1. op \in Started
          BY <3>2, OpTyped
        <4>2. p \in Pieces /\ ~p.whole
          BY <4>1 DEF Started, Pieces, Piece
        <4> HIDE DEF p
        <4> QED
          BY <3>2, <4>2, CrashLogs
      <3> QED
        BY <1>10, <3>1, <3>2 DEF Crash
    <2>2. /\ \A c \in S : state[c] = "pending"
          /\ state' = [c \in Callers |-> IF c \in S THEN "gone" ELSE state[c]]
          /\ size' = size /\ S \in SUBSET Callers
      BY <1>10 DEF Crash
    <2> HIDE DEF S
    <2>3. Log!GiveUp(S, "gone")
      BY <2>1, <2>2 DEF Log!GiveUp
    <2> QED
      BY <2>2, <2>3 DEF Log!Next
  <1>11. CASE UNCHANGED sinkVars
    BY <1>11 DEF sinkVars, Log!logVars
  <1> QED
    BY <1>1, <1>2, <1>4, <1>5, <1>6, <1>7, <1>8, <1>9, <1>10, <1>11 DEF Next, Quiet

LEMMA InitMaps == Init => Log!Init /\ OwnerInv /\ LoggedInv
  <1> SUFFICES ASSUME Init PROVE Log!Init /\ OwnerInv /\ LoggedInv
    OBVIOUS
  <1>1. disk = <<>> /\ op.st = "idle"
    BY DEF Init, Idle
  <1>2. TextEnds(disk) = {}
    BY <1>1 DEF TextEnds
  <1>3. Cardinality(TextEnds(disk)) = 0
    BY <1>2, FS_EmptySet
  <1>4. LogOf(disk) = <<>>
    <2> DEFINE pick(k) == CHOOSE e \in RankedEntries(disk, k) : TRUE
    <2>1. LogOf(disk) = [k \in 1..0 |-> pick(k)]
      BY <1>3, LogUnfolds
    <2> HIDE DEF pick
    <2>2. [k \in 1..0 |-> pick(k)] = <<>>
      OBVIOUS
    <2> QED
      BY <2>1, <2>2
  <1>5. \A c : Has(<<>>, c) = 0
    <2>1. \A c : {j \in DOMAIN <<>> : <<>>[j][1] = c} = {}
      OBVIOUS
    <2> QED
      BY <2>1, FS_EmptySet DEF Has
  <1>6. OwnerInv /\ LoggedInv
    <2> DEFINE log == LogOf(disk)
    <2>1. log = <<>> /\ \A c : Has(log, c) = 0
      BY <1>4, <1>5, Zenon
    <2> HIDE DEF log
    <2>2. log \in Seq(Entries)
      BY <2>1
    <2> QED
      BY <1>1, <2>1, <2>2 DEF OwnerInv, LoggedInv, log
  <1>7. Log!Init
    BY <1>4 DEF Init, Log!Init
  <1> QED
    BY <1>6, <1>7

(* The sink implements CaptureLog for any number of callers, batch size and *)
(* number of buffers per event: whatever fails, leaves or dies, and however *)
(* late its writes reach the file, the events whose text is whole in it are *)
(* those of whole requests in order, never interleaved, and a call of       *)
(* FileSink::write_events returns Ok only when all its events are there.    *)
THEOREM Refines == Spec => ImplementsLog
  <1>1. IInv /\ OwnerInv /\ LoggedInv /\ [Next]_sinkVars => OwnerInv' /\ LoggedInv'
    BY OwnerNext, LoggedNext
  <1>2. IInv /\ OwnerInv /\ LoggedInv /\ [Next]_sinkVars => [Log!Next]_(Log!logVars)
    BY StepMaps
  <1>3. Init => Log!Init /\ OwnerInv /\ LoggedInv
    BY InitMaps
  <1> QED
    BY <1>1, <1>2, <1>3, Inductive, PTL DEF Spec, ImplementsLog, Log!Spec
-----------------------------------------------------------------------------
(* While nothing fails, leaves or dies, the file is a sequence of whole     *)
(* requests: every piece follows the pieces of its request before it, and   *)
(* these follow a line end; the operation's piece is the next of them.      *)
Calm == faults = 0 /\ lives = 1 /\ \A c \in Callers : state[c] # "gone"

Follows(c, q) ==
  \/ q = 1 /\ (disk = <<>> \/ IsLineEnd(disk[Len(disk)]))
  \/ q # 1 /\ disk # <<>> /\ disk[Len(disk)] = Piece(c, q - 1, TRUE)

OpFollows ==
  /\ op.st = "idle" => disk = <<>>
  /\ op.st = "busy" => Follows(op.by, op.at)
  /\ op.st = "done" => disk # <<>> /\ disk[Len(disk)] = Piece(op.by, op.at, TRUE)

InLine(j) ==
  LET q == disk[j].at
  IN  /\ q <= j
      /\ \A m \in 0..(q - 1) : disk[j - m] = Piece(disk[j].by, q - m, TRUE)
      /\ j = q \/ IsLineEnd(disk[j - q])

LinesInv == Calm => OpFollows /\ \A j \in DOMAIN disk : InLine(j)

LEMMA NoneFailed ==
  ASSUME EveryFaultReportedOnce, faults = 0, NEW c \in Callers
  PROVE  state[c] # "failed"
  <1>1. IsFiniteSet(Failed) /\ Cardinality(Failed) \in Nat
    BY SinkAssumption, FS_Subset, FS_CardinalityType DEF Failed
  <1>2. Cardinality(Failed) = 0
    BY <1>1 DEF EveryFaultReportedOnce, Failed
  <1>3. Failed = {}
    BY <1>1, <1>2, FS_EmptySet
  <1> QED
    BY <1>3 DEF Failed

(* A call that takes over the File finds a line end there. *)
LEMMA TakeOver ==
  ASSUME IInv, OwnerInv, EveryFaultReportedOnce, Calm, OpFollows,
         NEW c \in Callers, WritePiece(c)
  PROVE  Follows(c, next[c])
  <1> USE DEF IInv
  <1>1. /\ state[c] = "pending" /\ Holds(c) /\ next[c] \in Nat \ {0}
        /\ op.st \in {"idle", "done"}
    BY HolderFacts DEF WritePiece, TypeOK
  <1>2. CASE next[c] # 1
    <2>1. op.st = "done" /\ op.by = c /\ op.at = next[c] - 1
      BY <1>1, <1>2 DEF PendingInv, CallOK
    <2> QED
      BY <1>2, <2>1 DEF OpFollows, Follows
  <1>3. CASE next[c] = 1 /\ op.st = "idle"
    BY <1>3 DEF OpFollows, Follows
  <1>4. CASE next[c] = 1 /\ op.st = "done"
    <2>1. op.by \in Callers /\ op.at \in Nat \ {0} /\ op.at = next[op.by] - 1
      BY <1>4, OpTyped DEF OwnerInv
    <2>2. op.by # c
      BY <1>4, <2>1
    <2>3. state[op.by] # "pending"
      <3>1. ASSUME state[op.by] = "pending" PROVE FALSE
        <4>1. next[op.by] = 1
          BY <1>1, <2>1, <2>2, <3>1, WaiterAtStart
        <4> QED
          BY <2>1, <4>1
      <3> QED
        BY <3>1
    <2>4. op.at = Total(op.by)
      BY <1>4, <2>1, <2>3 DEF OwnerInv, Calm
    <2>5. IsNewline(op.at)
      <3>1. size[op.by] \in Nat
        BY <2>1, SinkAssumption DEF TypeOK
      <3>2. /\ op.at = size[op.by] * PerEvent
            /\ size[op.by] * PerEvent <= op.at
            /\ op.at < size[op.by] * PerEvent + PerEvent
        BY <2>1, <2>4, PartsFacts DEF Total
      <3> QED
        BY <2>1, <3>1, <3>2, TextEnd
    <2>6. IsLineEnd(disk[Len(disk)])
      BY <1>4, <2>5 DEF OpFollows, IsLineEnd, Piece
    <2> QED
      BY <1>4, <2>6 DEF Follows
  <1> QED
    BY <1>1, <1>2, <1>3, <1>4

(* The piece the File writes continues its line and disturbs no other. *)
LEMMA LineGrows ==
  ASSUME IInv, Calm, OpFollows, \A j \in DOMAIN disk : InLine(j), DiskWrites
  PROVE  OpFollows' /\ \A j \in DOMAIN disk' : InLine(j)'
  <1> DEFINE c == op.by
             q == op.at
             p == Piece(c, q, TRUE)
  <1>0. PICK n : n = Len(disk)
    OBVIOUS
  <1>1. /\ op.st = "busy" /\ c \in Callers /\ q \in Nat \ {0}
        /\ op'.st = "done" /\ op'.by = c /\ op'.at = q
        /\ disk' = Append(disk, p) /\ p \in Pieces
        /\ disk \in Seq(Pieces)
    <2>1. op \in Started
      BY OpTyped DEF DiskWrites, IInv
    <2> QED
      BY <2>1 DEF DiskWrites, Started, Pieces, Piece, IInv, TypeOK
  <1>2. p.whole /\ p.at = q /\ p.by = c
    BY DEF Piece
  <1> HIDE DEF p
  <1>3. /\ n \in Nat /\ DOMAIN disk = 1..n /\ DOMAIN disk' = 1..(n + 1)
        /\ disk'[n + 1] = p /\ Len(disk') = n + 1
        /\ \A j \in 1..n : disk'[j] = disk[j] /\ disk[j].at \in Nat \ {0}
        /\ disk # <<>> => n \in 1..n
    <2> HIDE DEF Pieces
    <2>1. /\ n \in Nat /\ DOMAIN disk = 1..n /\ DOMAIN disk' = 1..(n + 1)
          /\ disk'[n + 1] = p /\ Len(disk') = n + 1
          /\ \A j \in 1..n : disk'[j] = disk[j] /\ disk[j] \in Pieces
          /\ disk # <<>> => n \in 1..n
      BY <1>0, <1>1
    <2>2. \A x \in Pieces : x.at \in Nat \ {0}
      BY DEF Pieces
    <2> QED
      BY <2>1, <2>2
  <1>4. Follows(c, q)
    BY <1>1 DEF OpFollows
  <1> HIDE DEF c, q
  <1>5. OpFollows'
    <2>1. disk' # <<>> /\ disk'[Len(disk')] = p
      BY <1>3
    <2> QED
      BY <1>1, <2>1 DEF OpFollows, p
  <1>6. ASSUME NEW j \in 1..n PROVE InLine(j)'
    <2>1. InLine(j) /\ j \in Nat /\ disk'[j] = disk[j] /\ disk[j].at \in Nat \ {0}
      BY <1>3, <1>6
    <2>2. \A m \in 0..(disk[j].at - 1) : j - m \in 1..n
      BY <1>3, <2>1 DEF InLine
    <2>3. j # disk[j].at => j - disk[j].at \in 1..n
      BY <1>3, <2>1 DEF InLine
    <2>4. j = disk[j].at \/ IsLineEnd(disk'[j - disk[j].at])
      BY <1>3, <2>1, <2>3 DEF InLine
    <2>5. \A m \in 0..(disk[j].at - 1) : disk'[j - m] = Piece(disk[j].by, disk[j].at - m, TRUE)
      BY <1>3, <2>1, <2>2 DEF InLine
    <2> QED
      BY <2>1, <2>4, <2>5 DEF InLine
  <1>7. InLine(n + 1)'
    <2>0. SUFFICES /\ q <= n + 1
                   /\ \A m \in 0..(q - 1) : disk'[(n + 1) - m] = Piece(c, q - m, TRUE)
                   /\ n + 1 = q \/ IsLineEnd(disk'[(n + 1) - q])
      BY <1>2, <1>3 DEF InLine
    <2>3. (n + 1) - 0 = n + 1 /\ q - 0 = q
      BY <1>1, <1>3
    <2>4. disk'[(n + 1) - 0] = Piece(c, q - 0, TRUE)
      BY <1>3, <2>3 DEF p
    <2>1. CASE q = 1
      <3>1. \A m \in 0..(q - 1) : m = 0
        BY <2>1
      <3>2. q <= n + 1
        BY <1>3, <2>1
      <3>3. n + 1 = 1 \/ IsLineEnd(disk'[(n + 1) - 1])
        <4>1. CASE disk = <<>>
          BY <1>3, <4>1
        <4>2. CASE disk # <<>> /\ IsLineEnd(disk[n])
          <5>1. n \in 1..n /\ (n + 1) - 1 = n
            BY <1>3, <4>2
          <5> QED
            BY <1>3, <4>2, <5>1
        <4> QED
          BY <1>0, <1>4, <2>1, <4>1, <4>2 DEF Follows
      <3> QED
        BY <2>1, <2>4, <3>1, <3>2, <3>3
    <2>2. CASE q # 1
      <3>1. disk # <<>> /\ disk[n] = Piece(c, q - 1, TRUE) /\ n \in 1..n
        BY <1>0, <1>3, <1>4, <2>2 DEF Follows
      <3>2. /\ disk[n].at = q - 1 /\ disk[n].by = c
            /\ q - 1 <= n
            /\ \A m \in 0..(q - 2) : disk[n - m] = Piece(c, (q - 1) - m, TRUE)
            /\ n = q - 1 \/ IsLineEnd(disk[n - (q - 1)])
        <4>1. InLine(n) /\ disk[n].at = q - 1 /\ disk[n].by = c
          BY <1>3, <3>1 DEF Piece
        <4>2. (q - 1) - 1 = q - 2
          BY <1>1
        <4> QED
          BY <4>1, <4>2 DEF InLine
      <3>3. ASSUME NEW m \in 0..(q - 1)
            PROVE  disk'[(n + 1) - m] = Piece(c, q - m, TRUE)
        <4>1. CASE m = 0
          BY <2>4, <4>1
        <4>2. CASE m # 0
          <5>1. /\ m - 1 \in 0..(q - 2) /\ (n + 1) - m = n - (m - 1)
                /\ (q - 1) - (m - 1) = q - m /\ n - (m - 1) \in 1..n
            BY <1>1, <1>3, <3>2, <3>3, <4>2
          <5>2. disk[n - (m - 1)] = Piece(c, (q - 1) - (m - 1), TRUE)
            BY <3>2, <5>1
          <5>3. disk'[n - (m - 1)] = disk[n - (m - 1)]
            BY <1>3, <5>1
          <5> QED
            BY <5>1, <5>2, <5>3
        <4> QED
          BY <4>1, <4>2
      <3>4. n + 1 = q \/ IsLineEnd(disk'[(n + 1) - q])
        <4>1. CASE n = q - 1
          BY <1>1, <4>1
        <4>2. CASE n # q - 1
          <5>1. (n + 1) - q = n - (q - 1) /\ n - (q - 1) \in 1..n
            BY <1>1, <1>3, <3>2, <4>2
          <5>2. disk'[n - (q - 1)] = disk[n - (q - 1)]
            BY <1>3, <5>1
          <5> QED
            BY <3>2, <4>2, <5>1, <5>2
        <4> QED
          BY <4>1, <4>2
      <3>5. q <= n + 1
        BY <1>1, <1>3, <3>2
      <3> QED
        BY <3>3, <3>4, <3>5
    <2> QED
      BY <2>1, <2>2
  <1>8. \A j \in DOMAIN disk' : j \in 1..n \/ j = n + 1
    BY <1>3
  <1>9. \A j \in DOMAIN disk' : InLine(j)'
    BY <1>6, <1>7, <1>8
  <1> QED
    BY <1>5, <1>9

LEMMA LinesNext ==
  ASSUME IInv, OwnerInv, EveryFaultReportedOnce, LinesInv, [Next]_sinkVars
  PROVE  LinesInv'
  <1> USE DEF IInv
  <1> DEFINE Lines == \A j \in DOMAIN disk : InLine(j)
  <1> SUFFICES ASSUME Calm' PROVE OpFollows' /\ Lines'
    BY DEF LinesInv
  <1>0. faults \in Nat /\ lives \in Nat /\ lives >= 1 /\ faults' = 0 /\ lives' = 1
    BY SinkAssumption DEF TypeOK, Calm
  <1>1. ASSUME disk' = disk, op' = op, Calm
        PROVE  OpFollows' /\ Lines'
    BY <1>1 DEF LinesInv, OpFollows, Follows, InLine
  <1>2. ASSUME NEW c \in Callers, NEW n \in 1..MaxEvents, Submit(c, n)
        PROVE  OpFollows' /\ Lines'
    BY <1>1, <1>2 DEF Submit, Calm, TypeOK
  <1>3. ASSUME NEW c \in Callers, OpenFile(c) PROVE OpFollows' /\ Lines'
    BY <1>1, <1>3 DEF OpenFile, Calm
  <1>4. ASSUME NEW c \in Callers, OpenFails(c) PROVE FALSE
    BY <1>0, <1>4 DEF OpenFails
  <1>5. ASSUME NEW c \in Callers, WritePiece(c) PROVE OpFollows' /\ Lines'
    <2>1. Calm
      <3>1. state[c] = "pending"
        BY <1>5, HolderFacts DEF WritePiece
      <3> QED
        BY <1>5, <3>1 DEF WritePiece, Return, Calm, TypeOK
    <2>2. Follows(c, next[c])
      BY <1>5, <2>1, TakeOver DEF LinesInv
    <2>3. /\ disk' = disk /\ op'.st = "busy" /\ op'.by = c /\ op'.at = next[c]
      BY <1>5 DEF WritePiece, InFlight
    <2>4. OpFollows'
      BY <2>2, <2>3 DEF OpFollows, Follows
    <2>5. Lines'
      BY <2>1, <2>3 DEF LinesInv, InLine
    <2> QED
      BY <2>4, <2>5
  <1>6. ASSUME NEW c \in Callers, WriteFails(c) PROVE FALSE
    BY <1>0, <1>6 DEF WriteFails, OpInv
  <1>7. ASSUME NEW c \in Callers, Leave(c) PROVE FALSE
    BY <1>7 DEF Leave, Calm, TypeOK
  <1>8. CASE DiskWrites
    BY <1>8, LineGrows DEF DiskWrites, Calm, LinesInv
  <1>9. ASSUME DiskFails PROVE FALSE
    BY <1>0, <1>9 DEF DiskFails
  <1>10. ASSUME Crash PROVE FALSE
    BY <1>0, <1>10 DEF Crash
  <1>11. CASE UNCHANGED sinkVars
    BY <1>1, <1>11 DEF sinkVars, Calm
  <1> QED
    BY <1>2, <1>3, <1>4, <1>5, <1>6, <1>7, <1>8, <1>9, <1>10, <1>11 DEF Next, Quiet

(* An accepted request's texts are on disk, each alone in its line. *)
LEMMA LinesOwn ==
  ASSUME IInv, LinesInv, Calm, NEW c \in Callers, state[c] = "ok", NEW i \in 1..size[c]
  PROVE  OnOwnLine(c, i)
  <1> DEFINE q == (i - 1) * PerEvent + Parts
             b == (i - 1) * PerEvent
             n == Len(disk)
  <1>1. /\ size[c] \in Nat /\ i \in Nat /\ i >= 1 /\ i <= size[c]
        /\ i - 1 \in Nat /\ b \in Nat /\ q = b + Parts
        /\ i * PerEvent = b + PerEvent
    <2>1. size[c] \in Nat /\ i \in Nat /\ i >= 1 /\ i <= size[c] /\ i - 1 \in Nat /\ (i - 1) + 1 = i
      BY SinkAssumption DEF IInv, TypeOK
    <2> QED
      BY <2>1, TimesPerEvent
  <1>2. q \in 1..(Total(c) - 1)
    <2>1. b + PerEvent <= size[c] * PerEvent /\ size[c] * PerEvent \in Nat
      BY <1>1, TimesPerEvent
    <2> HIDE DEF b, q
    <2> QED
      BY <1>1, <2>1, PartsFacts DEF Total
  <1>3. PICK k \in DOMAIN disk : disk[k] = Piece(c, q, TRUE)
    BY <1>2 DEF IInv, AcceptedOnDisk, OnDisk
  <1>4. /\ n \in Nat /\ DOMAIN disk = 1..n /\ k \in Nat /\ k >= 1
        /\ \A j \in 1..n : InLine(j) /\ disk[j].at \in Nat \ {0}
    <2>1. disk \in Seq(Pieces) /\ \A j \in DOMAIN disk : InLine(j)
      BY DEF LinesInv, IInv, TypeOK, Pieces
    <2>2. n \in Nat /\ DOMAIN disk = 1..n /\ \A j \in 1..n : disk[j] \in Pieces
      BY <2>1
    <2>3. \A x \in Pieces : x.at \in Nat \ {0}
      BY DEF Pieces
    <2> QED
      BY <2>1, <2>2, <2>3
  <1> HIDE DEF b, q, n
  <1>5. /\ q <= k
        /\ \A m \in 0..(q - 1) : disk[k - m] = Piece(c, q - m, TRUE)
        /\ k = q \/ IsLineEnd(disk[k - q])
    <2>1. disk[k].at = q /\ disk[k].by = c /\ InLine(k)
      BY <1>3, <1>4 DEF Piece
    <2> QED
      BY <2>1 DEF InLine
  <1> DEFINE j == k - Parts + 1
  <1>6. /\ j \in Nat /\ j >= 1 /\ j + Parts - 1 = k /\ j + Parts = k + 1
        /\ j \in 1..n /\ q \in Nat
    BY <1>1, <1>4, <1>5, PartsFacts
  <1>7. ASSUME NEW l \in 1..Parts
        PROVE  disk[j + l - 1] = Piece(c, (i - 1) * PerEvent + l, TRUE)
    <2>1. /\ Parts - l \in 0..(q - 1) /\ k - (Parts - l) = j + l - 1
          /\ q - (Parts - l) = b + l
      BY <1>1, <1>4, <1>6, <1>7, PartsFacts
    <2>2. disk[j + l - 1] = Piece(c, b + l, TRUE)
      BY <1>5, <2>1
    <2> QED
      BY <2>2 DEF b
  <1>8. j = 1 \/ IsLineEnd(disk[j - 1])
    <2>1. CASE i = 1
      <3>1. b = 0
        <4>1. 1 - 1 = 0 /\ 0 * PerEvent = 0
          BY PartsFacts
        <4> QED
          BY <2>1, <4>1 DEF b
      <3>2. q = Parts
        BY <1>1, <3>1, PartsFacts
      <3>3. j - 1 = k - q /\ (k = q => j = 1)
        BY <1>4, <3>2, PartsFacts
      <3> HIDE DEF j
      <3> QED
        BY <1>5, <3>3
    <2>2. CASE i # 1
      <3>1. b >= PerEvent
        <4>1. 0 * PerEvent + PerEvent <= (i - 1) * PerEvent /\ 0 * PerEvent \in Nat
          BY <1>1, <2>2, TimesPerEvent
        <4> QED
          BY <1>1, <4>1, PartsFacts DEF b
      <3>2. /\ Parts \in 0..(q - 1) /\ q - Parts = b /\ j - 1 = k - Parts
            /\ b \in Nat \ {0}
        BY <1>1, <1>4, <1>6, <3>1, PartsFacts
      <3>3. disk[j - 1] = Piece(c, b, TRUE)
        BY <1>5, <3>2
      <3>4. IsNewline(b)
        <4>1. (i - 1) * PerEvent = b
          BY DEF b
        <4>2. (i - 1) * PerEvent <= b /\ b < (i - 1) * PerEvent + PerEvent
          BY <1>1, <4>1, PartsFacts
        <4> QED
          BY <1>1, <3>2, <4>1, <4>2, TextEnd
      <3> HIDE DEF j
      <3> QED
        BY <3>3, <3>4 DEF IsLineEnd, Piece
    <2> QED
      BY <2>1, <2>2
  <1>9. j + Parts \notin DOMAIN disk \/ IsLineEnd(disk[j + Parts])
    <2> SUFFICES ASSUME k + 1 \in 1..n PROVE IsLineEnd(disk[k + 1])
      BY <1>4, <1>6
    <2> DEFINE d == disk[k + 1].by
               r == disk[k + 1].at
    <2>1. /\ InLine(k + 1) /\ r \in Nat \ {0}
      BY <1>4
    <2> HIDE DEF r, d
    <2>2. r # 1
      <3>1. ASSUME r = 1 PROVE FALSE
        <4>1. k + 1 = 1 \/ IsLineEnd(disk[(k + 1) - 1])
          BY <2>1, <3>1 DEF InLine, r
        <4>2. IsLineEnd(disk[k])
          BY <1>4, <4>1
        <4>3. IsNewline(q)
          BY <1>3, <4>2 DEF IsLineEnd, Piece
        <4>4. b <= q /\ q < b + PerEvent /\ q # b
          BY <1>1, PartsFacts
        <4> QED
          BY <1>1, <1>2, <4>3, <4>4, TextEnd DEF b
      <3> QED
        BY <3>1
    <2>3. disk[(k + 1) - 1] = Piece(d, r - 1, TRUE) /\ disk[(k + 1) - 0] = Piece(d, r - 0, TRUE)
      <3>1. 1 \in 0..(r - 1) /\ 0 \in 0..(r - 1)
        BY <2>1, <2>2
      <3> QED
        BY <2>1, <3>1 DEF InLine, r, d
    <2>4. r - 1 = q
      <3>0. (k + 1) - 1 = k
        BY <1>4
      <3>1. disk[k] = Piece(d, r - 1, TRUE)
        BY <2>3, <3>0
      <3> QED
        BY <1>3, <3>1 DEF Piece
    <2>5. r = i * PerEvent /\ disk[k + 1] = Piece(d, r, TRUE)
      <3>1. (k + 1) - 0 = k + 1 /\ r - 0 = r /\ r = q + 1
        BY <1>4, <1>6, <2>1, <2>4
      <3>2. disk[k + 1] = Piece(d, r, TRUE)
        BY <2>3, <3>1
      <3>3. r = i * PerEvent
        BY <1>1, <3>1, PartsFacts
      <3> QED
        BY <3>2, <3>3
    <2>6. IsNewline(r)
      BY <1>1, <2>1, <2>5, TextEnd, TimesPerEvent, PartsFacts
    <2> QED
      BY <2>5, <2>6 DEF IsLineEnd, Piece
  <1>10. j \in DOMAIN disk /\ j + Parts - 1 \in DOMAIN disk
    BY <1>4, <1>6
  <1> HIDE DEF j
  <1> QED
    BY <1>7, <1>8, <1>9, <1>10 DEF OnOwnLine

(* While no open or write fails, no client leaves and the process lives,    *)
(* every event of a request that write_events accepted is a line of its own *)
(* of the capture file, however many calls of however many events there     *)
(* are: only the faults tear lines, never the callers' interleaving.        *)
THEOREM LinesUndisturbed == Spec => []OwnLinesUndisturbed
  <1>1. Init => LinesInv
    BY DEF Init, Idle, LinesInv, OpFollows
  <1>2. IInv /\ OwnerInv /\ EveryFaultReportedOnce /\ LinesInv /\ [Next]_sinkVars => LinesInv'
    BY LinesNext
  <1>3. IInv /\ OwnerInv /\ [Next]_sinkVars => OwnerInv'
    BY OwnerNext
  <1>4. Init => OwnerInv
    BY InitMaps
  <1>5. IInv /\ LinesInv => OwnLinesUndisturbed
    BY LinesOwn DEF OwnLinesUndisturbed, AcceptedOwnLines, Calm
  <1> QED
    BY <1>1, <1>2, <1>3, <1>4, <1>5, Inductive, FaultsReported, PTL DEF Spec
=============================================================================

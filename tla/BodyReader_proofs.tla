------------------------- MODULE BodyReader_proofs -------------------------
(***************************************************************************)
(* The limits of the body reader hold for any frames, any gzip body and    *)
(* any values of the limits.                                               *)
(***************************************************************************)
EXTENDS BodyReader, FiniteSetTheorems, TLAPS

(* The reader has taken frames that were sent, and holds a bounded number   *)
(* of bytes.                                                                *)
BytesInv ==
  /\ sent \in Seq(FrameSizes)
  /\ taken \in 0..Len(sent)
  /\ out \in 0..MaxBytes
  /\ plain \in 0..MaxDecoded
  /\ gzip.length \in Nat

(* Its wait is not yet beyond the timeouts.                                 *)
TimeInv ==
  /\ now \in Nat
  /\ since \in 0..now
  /\ result = "headers" => now = 0
  /\ BoundedTime

BodyInv == BytesInv /\ TimeInv

LEMMA InitBody == Init => BodyInv
  <1> SUFFICES ASSUME Init PROVE BodyInv
    OBVIOUS
  <1>1. gzip.length \in Nat
    <2>1. CASE gzip \in GzipBodies
      BY <2>1, BodyAssumption DEF GzipBodies
    <2>2. CASE gzip = NoGzip
      BY <2>2 DEF NoGzip
    <2> QED
      BY <2>1, <2>2 DEF Init
  <1>2. BytesInv
    BY <1>1, BodyAssumption DEF Init, BytesInv
  <1>3. TimeInv
    BY BodyAssumption DEF Init, TimeInv, BoundedTime
  <1> QED
    BY <1>2, <1>3 DEF BodyInv

(* Returning an outcome keeps what is held; the wait is over.               *)
LEMMA ReturnBody ==
  ASSUME BodyInv, NEW r, Returns(r), r \notin {"headers", "reading"}
  PROVE  BodyInv'
  BY DEF Returns, BodyInv, BytesInv, TimeInv, BoundedTime

LEMMA TakeBody ==
  ASSUME BodyInv, TakeFrame
  PROVE  BodyInv'
  <1> DEFINE n == sent[taken + 1]
  <1>1. n \in Nat /\ taken + 1 \in 0..Len(sent)
    <2>1. taken \in 0..Len(sent) /\ Len(sent) \in Nat /\ taken < Len(sent)
      BY DEF TakeFrame, FrameReady, BodyInv, BytesInv
    <2>2. taken + 1 \in 1..Len(sent)
      BY <2>1
    <2>3. n \in FrameSizes
      BY <2>2 DEF BodyInv, BytesInv
    <2>4. n \in Nat
      BY <2>3, BodyAssumption
    <2>5. taken + 1 \in 0..Len(sent)
      BY <2>1
    <2> QED
      BY <2>4, <2>5
  <1>2. CASE out + n > MaxBytes
    <2>1. Returns("BodyTooLarge")
      BY <1>2 DEF TakeFrame
    <2> QED
      BY <2>1, ReturnBody
  <1>3. CASE ~(out + n > MaxBytes)
    <2>1. /\ out' = out + n /\ taken' = taken + 1 /\ since' = now
          /\ UNCHANGED <<now, sent, stream, gzip, plain, result>>
      BY <1>3 DEF TakeFrame
    <2>2. BytesInv'
      <3>1. out' \in 0..MaxBytes
        BY <1>1, <1>3, <2>1, BodyAssumption DEF BodyInv, BytesInv
      <3> QED
        BY <1>1, <2>1, <3>1 DEF BodyInv, BytesInv
    <2>3. TimeInv'
      BY <2>1, BodyAssumption DEF BodyInv, TimeInv, BoundedTime
    <2> QED
      BY <2>2, <2>3 DEF BodyInv
  <1> QED
    BY <1>2, <1>3

LEMMA DecodeBody ==
  ASSUME BodyInv, NEW n \in 1..BufferBytes, DecodeBuffer(n)
  PROVE  BodyInv'
  <1>1. CASE plain + n > MaxDecoded
    BY <1>1, ReturnBody DEF DecodeBuffer
  <1>2. CASE ~(plain + n > MaxDecoded)
    <2>1. /\ plain' = plain + n
          /\ UNCHANGED <<now, since, sent, stream, taken, out, gzip, result>>
      BY <1>2 DEF DecodeBuffer
    <2>2. plain' \in 0..MaxDecoded
      BY <1>2, <2>1, BodyAssumption DEF BodyInv, BytesInv
    <2> QED
      BY <2>1, <2>2 DEF BodyInv, BytesInv, TimeInv, BoundedTime
  <1> QED
    BY <1>1, <1>2

LEMMA NextBody == BodyInv /\ [Next]_vars => BodyInv'
  <1> SUFFICES ASSUME BodyInv, [Next]_vars PROVE BodyInv'
    OBVIOUS
  <1>1. ASSUME NEW n \in FrameSizes, Send(n) PROVE BodyInv'
    <2>1. sent' \in Seq(FrameSizes) /\ taken' \in 0..Len(sent')
      BY <1>1 DEF Send, BodyInv, BytesInv
    <2> QED
      BY <1>1, <2>1 DEF Send, BodyInv, BytesInv, TimeInv, BoundedTime
  <1>2. ASSUME NEW how, EndStream(how) PROVE BodyInv'
    BY <1>2 DEF EndStream, BodyInv, BytesInv, TimeInv, BoundedTime
  <1>3. CASE TakeFrame
    BY <1>3, TakeBody
  <1>4. CASE TakeEnd \/ TimeOut \/ DecodeIdentity \/ DecodeEnd
    BY <1>4, ReturnBody DEF TakeEnd, TimeOut, DecodeIdentity, DecodeEnd
  <1>5. ASSUME NEW n \in 1..BufferBytes, DecodeBuffer(n) PROVE BodyInv'
    BY <1>5, DecodeBody
  <1>6. CASE Tick
    <2>1. now' = now + 1 /\ now' <= TotalTime /\ now' <= since + Idle
      BY <1>6, BodyAssumption DEF Tick, CanGoOn, Expired, BodyInv, TimeInv
    <2> QED
      BY <1>6, <2>1 DEF Tick, BodyInv, BytesInv, TimeInv, BoundedTime
  <1>7. CASE Quiet \/ UNCHANGED vars
    BY <1>7 DEF Quiet, vars, BodyInv, BytesInv, TimeInv, BoundedTime
  <1>8. CASE CheckHeaders
    <2>1. CASE Returns("reading")
      <3>1. now = 0 /\ since = 0
        BY <1>8 DEF CheckHeaders, BodyInv, TimeInv
      <3> QED
        BY <2>1, <3>1, BodyAssumption
        DEF Returns, BodyInv, BytesInv, TimeInv, BoundedTime
    <2> QED
      BY <1>8, <2>1, ReturnBody DEF CheckHeaders
  <1> QED
    BY <1>1, <1>2, <1>3, <1>4, <1>5, <1>6, <1>7, <1>8 DEF Next, HandlerStep

(* No more bytes are buffered for a request than the limits allow, before   *)
(* and after decoding.                                                      *)
THEOREM MemoryBounded == Spec => []BoundedMemory
  <1>1. BodyInv => BoundedMemory
    BY BodyAssumption DEF BodyInv, BytesInv, BoundedMemory
  <1> QED
    BY <1>1, InitBody, NextBody, PTL DEF Spec

(* No request is waited for beyond the two timeouts, however many frames    *)
(* its client sends.                                                        *)
THEOREM TimeBounded == Spec => []BoundedTime
  <1>1. BodyInv => BoundedTime
    BY DEF BodyInv, TimeInv
  <1> QED
    BY <1>1, InitBody, NextBody, PTL DEF Spec

(* The variables that hold no numbers. *)
KindInv ==
  /\ header \in Headers
  /\ stream \in {"open", "ended", "broken"}
  /\ gzip \in GzipBodies \cup {NoGzip}
  /\ result \in {"headers", "reading", "decoding", "fine", "Timeout", "BodyTooLarge",
                 "InvalidDataFormat", "UnsupportedEncoding", "MalformedGzip"}

(* Every variable stays in its range, for any limits. *)
THEOREM TypeCorrect == Spec => []TypeOK
  <1>1. Init => KindInv
    BY DEF Init, KindInv
  <1>2. KindInv /\ [Next]_vars => KindInv'
    <2> SUFFICES ASSUME KindInv, [Next]_vars PROVE KindInv'
      OBVIOUS
    <2>1. CASE \E n \in FrameSizes : Send(n)
      BY <2>1 DEF Send, KindInv
    <2>2. CASE \E how \in {"ended", "broken"} : EndStream(how)
      BY <2>2 DEF EndStream, KindInv
    <2>3. CASE CheckHeaders \/ TakeEnd \/ TimeOut \/ DecodeIdentity \/ DecodeEnd
      BY <2>3 DEF CheckHeaders, TakeEnd, TimeOut, DecodeIdentity, DecodeEnd, Returns, KindInv
    <2>4. CASE TakeFrame \/ \E n \in 1..BufferBytes : DecodeBuffer(n)
      BY <2>4 DEF TakeFrame, DecodeBuffer, Returns, KindInv
    <2>5. CASE Tick \/ Quiet \/ UNCHANGED vars
      BY <2>5 DEF Tick, Quiet, vars, KindInv
    <2> QED
      BY <2>1, <2>2, <2>3, <2>4, <2>5 DEF Next, HandlerStep
  <1>3. BodyInv /\ KindInv => TypeOK
    BY BodyAssumption DEF BodyInv, BytesInv, TimeInv, KindInv, TypeOK
  <1> QED
    BY <1>1, <1>2, <1>3, InitBody, NextBody, PTL DEF Spec
-----------------------------------------------------------------------------
(* What the reader holds is what it has taken; a body with a Content-Length *)
(* ends only when it is complete; no unknown encoding is read.              *)
HeldInv ==
  /\ IsFiniteSet(Bytes(Len(sent)))
  /\ out = Cardinality(Bytes(taken))
  /\ stream = "ended" /\ Limited => Sent = header.length
  /\ result \in {"reading", "decoding"} => header.encoding # "other"

OutcomeInv == BodyInv /\ HeldInv /\ OutcomeIsTrue

(* The bytes of the first frames are finitely many, no more than all of them. *)
LEMMA BytesPart ==
  ASSUME NEW n \in Nat, NEW k \in 0..n, IsFiniteSet(Bytes(n))
  PROVE  /\ IsFiniteSet(Bytes(k)) /\ Cardinality(Bytes(k)) \in Nat
         /\ Cardinality(Bytes(k)) <= Cardinality(Bytes(n))
  <1>1. Bytes(k) \subseteq Bytes(n)
    <2>1. \A j \in 1..k : j \in 1..n
      OBVIOUS
    <2> QED
      BY <2>1 DEF Bytes
  <1>2. IsFiniteSet(Bytes(k)) /\ Cardinality(Bytes(k)) <= Cardinality(Bytes(n))
    BY <1>1, FS_Subset
  <1> QED
    BY <1>2, FS_CardinalityType

BytesIn(s, k) == UNION {{j} \X (1..s[j]) : j \in 1..k}

LEMMA BytesInStep ==
  ASSUME NEW s, NEW k \in Nat
  PROVE  BytesIn(s, k + 1) = BytesIn(s, k) \cup ({k + 1} \X (1..s[k + 1]))
  <1> DEFINE part(j) == {j} \X (1..s[j])
  <1>1. \A j : j \in 1..(k + 1) <=> j \in 1..k \/ j = k + 1
    OBVIOUS
  <1>2. \A m : BytesIn(s, m) = UNION {part(j) : j \in 1..m}
    BY DEF BytesIn
  <1> HIDE DEF part
  <1>3. ASSUME NEW m, NEW b
        PROVE  b \in BytesIn(s, m) <=> \E j \in 1..m : b \in part(j)
    BY <1>2
  <1>4. ASSUME NEW b
        PROVE  b \in BytesIn(s, k + 1) <=> b \in BytesIn(s, k) \/ b \in part(k + 1)
    BY <1>1, <1>3, Zenon
  <1>5. BytesIn(s, k + 1) = BytesIn(s, k) \cup part(k + 1)
    BY <1>4
  <1> QED
    BY <1>5 DEF part

LEMMA FrameFinite ==
  ASSUME NEW k, NEW n \in Nat
  PROVE  IsFiniteSet({k} \X (1..n)) /\ Cardinality({k} \X (1..n)) = n
  <1>1. IsFiniteSet({k}) /\ Cardinality({k}) = 1
    BY FS_Singleton
  <1>2. IsFiniteSet(1..n) /\ Cardinality(1..n) = n
    BY FS_Interval
  <1>3. IsFiniteSet({k} \X (1..n)) /\ Cardinality({k} \X (1..n)) = Cardinality({k}) * Cardinality(1..n)
    BY <1>1, <1>2, FS_Product
  <1> QED
    BY <1>1, <1>2, <1>3

(* One more frame adds its size. *)
LEMMA BytesGrow ==
  ASSUME NEW s, NEW k \in Nat, NEW n \in Nat, s[k + 1] = n, IsFiniteSet(BytesIn(s, k))
  PROVE  /\ IsFiniteSet(BytesIn(s, k + 1))
         /\ Cardinality(BytesIn(s, k + 1)) = Cardinality(BytesIn(s, k)) + n
  <1> DEFINE frame == {k + 1} \X (1..n)
             old == BytesIn(s, k)
  <1>1. BytesIn(s, k + 1) = old \cup frame
    BY BytesInStep
  <1>2. IsFiniteSet(frame) /\ Cardinality(frame) = n
    BY FrameFinite
  <1>3. old \cap frame = {}
    <2>1. \A b \in old : b[1] \in 1..k
      BY DEF BytesIn
    <2>2. \A b \in frame : b[1] = k + 1
      OBVIOUS
    <2>3. k + 1 \notin 1..k
      OBVIOUS
    <2> QED
      BY <2>1, <2>2, <2>3
  <1> HIDE DEF frame, old
  <1>4. IsFiniteSet(old) /\ Cardinality(old) \in Nat /\ Cardinality({}) = 0
    BY FS_CardinalityType, FS_EmptySet DEF old
  <1>5. /\ IsFiniteSet(old \cup frame)
        /\ Cardinality(old \cup frame)
             = Cardinality(old) + Cardinality(frame) - Cardinality(old \cap frame)
    BY <1>2, <1>4, FS_Union
  <1>6. Cardinality(old \cup frame) = Cardinality(old) + n - 0
    BY <1>2, <1>3, <1>4, <1>5, Zenon
  <1>7. Cardinality(old \cup frame) = Cardinality(old) + n
    BY <1>4, <1>6
  <1> QED
    BY <1>1, <1>5, <1>7 DEF old

(* A frame that arrives leaves the bytes before it as they were. *)
LEMMA BytesSame ==
  ASSUME sent \in Seq(FrameSizes), NEW n \in FrameSizes, sent' = Append(sent, n),
         NEW k \in 0..Len(sent)
  PROVE  Bytes(k)' = Bytes(k)
  <1>1. \A j \in 1..k : sent'[j] = sent[j]
    OBVIOUS
  <1>2. {{j} \X (1..sent'[j]) : j \in 1..k} = {{j} \X (1..sent[j]) : j \in 1..k}
    BY <1>1
  <1> QED
    BY <1>2 DEF Bytes

LEMMA InitOutcome == Init => HeldInv /\ OutcomeIsTrue
  <1> SUFFICES ASSUME Init PROVE HeldInv /\ OutcomeIsTrue
    OBVIOUS
  <1>1. Bytes(0) = {} /\ Len(sent) = 0
    BY DEF Init, Bytes
  <1>2. IsFiniteSet(Bytes(Len(sent))) /\ Cardinality(Bytes(0)) = 0
    BY <1>1, FS_EmptySet
  <1> QED
    BY <1>2 DEF Init, HeldInv, OutcomeIsTrue

(* Steps that change the outcome only. *)
LEMMA ReturnHeld ==
  ASSUME HeldInv, NEW r, Returns(r), r \notin {"reading", "decoding"}
  PROVE  HeldInv'
  BY DEF Returns, HeldInv, Bytes, Sent, Limited

LEMMA SendOutcome ==
  ASSUME OutcomeInv, NEW n \in FrameSizes, Send(n)
  PROVE  HeldInv' /\ OutcomeIsTrue'
  <1>1. /\ result = "reading" /\ stream = "open" /\ sent' = Append(sent, n)
        /\ UNCHANGED <<header, stream, taken, out, gzip, plain, result>>
        /\ sent \in Seq(FrameSizes) /\ taken \in 0..Len(sent) /\ Len(sent) \in Nat
    BY DEF Send, OutcomeInv, BodyInv, BytesInv
  <1>2. /\ Len(sent') = Len(sent) + 1 /\ sent'[Len(sent) + 1] = n /\ n \in Nat
    BY <1>1, BodyAssumption
  <1>3. Bytes(taken)' = Bytes(taken)
    <2> PICK k \in 0..Len(sent) : k = taken
      BY <1>1
    <2>1. Bytes(k)' = Bytes(k)
      BY <1>1, BytesSame
    <2>2. taken' = k
      BY <1>1
    <2> QED
      BY <2>1, <2>2 DEF Bytes
  <1>4. IsFiniteSet(Bytes(Len(sent))')
    <2> PICK k \in Nat : k = Len(sent)
      BY <1>1
    <2>1. IsFiniteSet(Bytes(k)') /\ k \in 0..Len(sent)
      BY <1>1, BytesSame DEF OutcomeInv, HeldInv
    <2>2. IsFiniteSet(Bytes(k + 1)')
      <3>1. sent'[k + 1] = n
        BY <1>2
      <3>2. IsFiniteSet(BytesIn(sent', k))
        BY <2>1 DEF Bytes, BytesIn
      <3>3. IsFiniteSet(BytesIn(sent', k + 1))
        BY <1>2, <3>1, <3>2, BytesGrow
      <3> QED
        BY <3>3 DEF Bytes, BytesIn
    <2>3. Len(sent') = k + 1
      BY <1>2
    <2> QED
      BY <2>2, <2>3 DEF Bytes
  <1> QED
    BY <1>1, <1>3, <1>4 DEF OutcomeInv, HeldInv, OutcomeIsTrue

LEMMA TakeOutcome ==
  ASSUME OutcomeInv, TakeFrame
  PROVE  HeldInv' /\ OutcomeIsTrue'
  <1> DEFINE n == sent[taken + 1]
  <1>1. /\ taken \in Nat /\ Len(sent) \in Nat /\ taken + 1 \in 0..Len(sent)
        /\ taken \in 0..Len(sent) /\ n \in Nat
    <2>1. taken \in Nat /\ Len(sent) \in Nat /\ taken + 1 \in 1..Len(sent) /\ sent \in Seq(FrameSizes)
      BY DEF TakeFrame, FrameReady, OutcomeInv, BodyInv, BytesInv
    <2>2. n \in FrameSizes
      BY <2>1
    <2>3. n \in Nat
      BY <2>2, BodyAssumption
    <2> HIDE DEF n
    <2> QED
      BY <2>1, <2>3
  <1>2. /\ IsFiniteSet(Bytes(Len(sent))) /\ out = Cardinality(Bytes(taken))
        /\ result = "reading"
    BY DEF OutcomeInv, HeldInv, TakeFrame
  <1>3. IsFiniteSet(Bytes(taken))
    BY <1>1, <1>2, BytesPart
  <1>4. Cardinality(Bytes(taken + 1)) = out + n
    <2>1. \A k : Bytes(k) = BytesIn(sent, k)
      BY DEF Bytes, BytesIn
    <2>2. IsFiniteSet(BytesIn(sent, taken))
      BY <1>3, <2>1
    <2>3. Cardinality(BytesIn(sent, taken + 1)) = Cardinality(BytesIn(sent, taken)) + n
      BY <1>1, <2>2, BytesGrow
    <2> QED
      BY <1>2, <2>1, <2>3
  <1>5. out + n <= Sent /\ Sent \in Nat
    BY <1>1, <1>2, <1>4, BytesPart, FS_CardinalityType DEF Sent
  <1>6. CASE out + n > MaxBytes
    <2>1. Returns("BodyTooLarge")
      BY <1>6 DEF TakeFrame
    <2>2. Sent' = Sent /\ Sent > MaxBytes
      BY <1>1, <1>2, <1>3, <1>5, <1>6, <2>1, BodyAssumption, FS_CardinalityType
      DEF Returns, Sent, Bytes
    <2>3. OutcomeIsTrue'
      BY <2>1, <2>2 DEF Returns, OutcomeIsTrue
    <2> QED
      BY <2>1, <2>3, ReturnHeld DEF OutcomeInv
  <1>7. CASE ~(out + n > MaxBytes)
    <2>1. /\ out' = out + n /\ taken' = taken + 1
          /\ UNCHANGED <<header, sent, stream, gzip, plain, result>>
      BY <1>7 DEF TakeFrame
    <2>2. Bytes(taken)' = Bytes(taken + 1) /\ Bytes(Len(sent))' = Bytes(Len(sent))
      BY <2>1 DEF Bytes
    <2>3. HeldInv'
      BY <1>2, <1>4, <2>1, <2>2 DEF OutcomeInv, HeldInv, Sent, Limited
    <2>4. OutcomeIsTrue'
      BY <1>2, <2>1 DEF OutcomeIsTrue
    <2> QED
      BY <2>3, <2>4
  <1> QED
    BY <1>6, <1>7

LEMMA NextOutcome == OutcomeInv /\ [Next]_vars => HeldInv' /\ OutcomeIsTrue'
  <1> SUFFICES ASSUME OutcomeInv, [Next]_vars PROVE HeldInv' /\ OutcomeIsTrue'
    OBVIOUS
  <1>0. BodyInv /\ HeldInv /\ OutcomeIsTrue
    BY DEF OutcomeInv
  <1> DEFINE Same == UNCHANGED <<header, sent, stream, taken, out, gzip, plain>>
  <1>1. ASSUME Same PROVE Sent' = Sent /\ Limited' = Limited /\ Coded' = Coded
    BY <1>1 DEF Sent, Bytes, Limited, Coded
  <1>2. ASSUME NEW n \in FrameSizes, Send(n) PROVE HeldInv' /\ OutcomeIsTrue'
    BY <1>2, SendOutcome
  <1>3. ASSUME NEW how \in {"ended", "broken"}, EndStream(how)
        PROVE  HeldInv' /\ OutcomeIsTrue'
    <2>1. Sent' = Sent /\ Bytes(taken)' = Bytes(taken) /\ Limited' = Limited
          /\ Bytes(Len(sent))' = Bytes(Len(sent))
      BY <1>3 DEF EndStream, Sent, Bytes, Limited
    <2> QED
      BY <1>0, <1>3, <2>1 DEF EndStream, HeldInv, OutcomeIsTrue
  <1>4. CASE CheckHeaders
    <2>1. ASSUME NEW r \in {"UnsupportedEncoding", "InvalidDataFormat"}, Returns(r)
          PROVE  HeldInv' /\ OutcomeIsTrue'
      BY <1>0, <2>1, ReturnHeld DEF Returns, OutcomeIsTrue
    <2>2. ASSUME Returns("BodyTooLarge"), Limited, header.length > MaxBytes
          PROVE  HeldInv' /\ OutcomeIsTrue'
      BY <1>0, <2>2, ReturnHeld DEF Returns, OutcomeIsTrue, Limited
    <2>3. ASSUME Returns("reading"), header.encoding # "other"
          PROVE  HeldInv' /\ OutcomeIsTrue'
      BY <1>0, <2>3 DEF Returns, OutcomeIsTrue, HeldInv, Bytes, Sent, Limited
    <2> QED
      BY <1>4, <2>1, <2>2, <2>3 DEF CheckHeaders
  <1>5. CASE TakeFrame
    BY <1>5, TakeOutcome
  <1>6. CASE TakeEnd
    <2>1. taken = Len(sent)
      BY <1>0, <1>6 DEF TakeEnd, FrameReady, BodyInv, BytesInv
    <2>2. CASE stream = "ended" /\ Returns("decoding")
      <3>1. out = Sent /\ (Limited => Sent = header.length) /\ header.encoding # "other"
        BY <1>0, <1>6, <2>1, <2>2 DEF TakeEnd, HeldInv, Sent
      <3>2. Same /\ result' = "decoding"
        BY <2>2 DEF Returns
      <3>3. OutcomeIsTrue'
        BY <1>1, <2>2, <3>1, <3>2 DEF OutcomeIsTrue
      <3>4. HeldInv'
        BY <1>0, <3>1, <3>2 DEF HeldInv, Bytes, Sent, Limited
      <3> QED
        BY <3>3, <3>4
    <2>3. CASE Returns("InvalidDataFormat")
      BY <1>0, <2>3, ReturnHeld DEF Returns, OutcomeIsTrue
    <2> QED
      BY <1>6, <2>2, <2>3 DEF TakeEnd
  <1>7. CASE TimeOut
    BY <1>0, <1>7, ReturnHeld DEF TimeOut, Returns, OutcomeIsTrue
  <1>8. CASE DecodeIdentity
    <2>1. ~(out > MaxDecoded)
      BY <1>0, BodyAssumption DEF BodyInv, BytesInv
    <2>2. Returns("fine") /\ ~Coded /\ result = "decoding"
      BY <1>8, <2>1 DEF DecodeIdentity
    <2>3. Same /\ result' = "fine"
      BY <2>2 DEF Returns
    <2>4. OutcomeIsTrue'
      BY <1>0, <1>1, <2>2, <2>3 DEF HeldInv, OutcomeIsTrue
    <2> QED
      BY <1>0, <2>2, <2>4, ReturnHeld
  <1>9. ASSUME NEW n \in 1..BufferBytes, DecodeBuffer(n) PROVE HeldInv' /\ OutcomeIsTrue'
    <2>1. CASE plain + n > MaxDecoded
      <3>1. /\ Returns("BodyTooLarge") /\ Coded
            /\ plain + n <= gzip.length /\ plain + n \in Nat /\ gzip.length \in Nat
        BY <1>0, <1>9, <2>1, BodyAssumption DEF DecodeBuffer, BodyInv, BytesInv
      <3>2. gzip.length > MaxDecoded
        BY <2>1, <3>1, BodyAssumption
      <3>3. Same /\ result' = "BodyTooLarge"
        BY <3>1 DEF Returns
      <3>4. OutcomeIsTrue'
        BY <1>1, <3>1, <3>2, <3>3 DEF OutcomeIsTrue
      <3> QED
        BY <1>0, <3>1, <3>4, ReturnHeld
    <2>2. CASE ~(plain + n > MaxDecoded)
      <3>1. UNCHANGED <<header, sent, stream, taken, out, gzip, result>> /\ result = "decoding"
        BY <1>9, <2>2 DEF DecodeBuffer
      <3>2. Sent' = Sent /\ Limited' = Limited
        BY <3>1 DEF Sent, Bytes, Limited
      <3>3. HeldInv'
        BY <1>0, <3>1 DEF HeldInv, Bytes, Sent, Limited
      <3>4. OutcomeIsTrue'
        BY <1>0, <3>1, <3>2 DEF OutcomeIsTrue
      <3> QED
        BY <3>3, <3>4
    <2> QED
      BY <2>1, <2>2
  <1>10. CASE DecodeEnd
    <2>1. PICK r \in {"fine", "MalformedGzip"} : Returns(r)
      BY <1>10 DEF DecodeEnd
    <2>2. /\ Same /\ result' = r /\ result = "decoding" /\ Coded
          /\ r = "fine" => ~gzip.corrupt /\ plain = gzip.length
          /\ r = "MalformedGzip" => gzip.corrupt
      BY <1>10, <2>1 DEF DecodeEnd, Returns
    <2>3. OutcomeIsTrue'
      BY <1>0, <1>1, <2>2 DEF HeldInv, OutcomeIsTrue
    <2> QED
      BY <1>0, <2>1, <2>3, ReturnHeld
  <1>11. CASE Tick \/ Quiet \/ UNCHANGED vars
    <2>1. Same /\ result' = result
      BY <1>11 DEF Tick, Quiet, vars
    <2>2. HeldInv'
      BY <1>0, <2>1 DEF HeldInv, Bytes, Sent, Limited
    <2>3. OutcomeIsTrue'
      BY <1>0, <1>1, <2>1 DEF OutcomeIsTrue
    <2> QED
      BY <2>2, <2>3
  <1> QED
    BY <1>2, <1>3, <1>4, <1>5, <1>6, <1>7, <1>8, <1>9, <1>10, <1>11 DEF Next, HandlerStep

(* read_limited_body and decode_limited take a body for complete only when  *)
(* all of it was read and nothing broke, and call it too large only when    *)
(* what is advertised, sent or decoded exceeds its limit, for any frames,   *)
(* any gzip body and any limits.                                            *)
THEOREM OutcomeTrue == Spec => []OutcomeIsTrue
  <1>1. Init => OutcomeInv
    BY InitBody, InitOutcome DEF OutcomeInv
  <1>2. OutcomeInv /\ [Next]_vars => OutcomeInv'
    BY NextBody, NextOutcome DEF OutcomeInv
  <1>3. OutcomeInv => OutcomeIsTrue
    BY DEF OutcomeInv
  <1> QED
    BY <1>1, <1>2, <1>3, PTL DEF Spec
=============================================================================

----------------------------- MODULE BodyReader -----------------------------
(***************************************************************************)
(* src/hec_receiver/body.rs as the pipeline uses it: the two headers that  *)
(* speak of the body are checked, the frames a client sends are collected  *)
(* under a limit of bytes and two timeouts, one for each frame and one for *)
(* all, and a gzip body is then decoded buffer by buffer under a limit of  *)
(* its own.  Time is a count of ticks; a handler that can go on does so    *)
(* before the next tick.                                                   *)
(***************************************************************************)
EXTENDS Naturals, Sequences, FiniteSets

CONSTANTS
  FrameSizes,  (* bytes of a frame; 0 stands for trailers, which have none *)
  MaxFrames,   (* frames of the longest body: a bound of the model         *)
  Advertised,  (* values of a Content-Length header that is a number       *)
  MaxBytes,    (* limits.max_http_body_bytes and limits.max_content_length,*)
               (* which RuntimeConfig sets to the same value               *)
  MaxDecoded,  (* limits.max_decoded_body_bytes                            *)
  BufferBytes, (* limits.gzip_buffer_bytes                                 *)
  Plains,      (* bytes the gzip body of a request may decode to           *)
  Idle,        (* limits.body_idle_timeout, in ticks                       *)
  TotalTime    (* limits.body_total_timeout, in ticks                      *)

(* RuntimeConfig refuses other limits; a gzip body decodes to any length.  *)
ASSUME BodyAssumption ==
  /\ FrameSizes \subseteq Nat /\ Advertised \subseteq Nat
  /\ MaxFrames \in Nat
  /\ MaxBytes \in Nat \ {0}
  /\ MaxDecoded \in Nat /\ MaxDecoded >= MaxBytes
  /\ BufferBytes \in Nat \ {0}
  /\ Plains \subseteq Nat
  /\ Idle \in Nat \ {0}
  /\ TotalTime \in Nat /\ TotalTime >= Idle

VARIABLES
  header,  (* Content-Encoding and Content-Length of the request           *)
  now,     (* ticks since read_limited_body was called                     *)
  since,   (* when the wait for the next frame began                       *)
  sent,    (* the frames hyper has handed to the body, their sizes         *)
  stream,  (* "open", "ended" or "broken": what follows the frames sent    *)
  taken,   (* how many frames the reader has taken                         *)
  out,     (* bytes it has collected                                       *)
  gzip,    (* what a decoder finds in the body: the bytes it decodes to,   *)
           (* and whether an error comes after them                        *)
  plain,   (* bytes decoded so far                                         *)
  result   (* "headers", "reading", "decoding", "fine" or the error        *)

vars == <<header, now, since, sent, stream, taken, out, gzip, plain, result>>

Encodings == {"identity", "gzip", "other"}
Headers ==
  [encoding : Encodings, told : {"none", "unreadable"}, length : {0}]
    \cup [encoding : Encodings, told : {"length"}, length : Advertised]
NoGzip == [length |-> 0, corrupt |-> TRUE]
GzipBodies == [length : Plains, corrupt : BOOLEAN]

Limited == header.told = "length"
Coded == header.encoding = "gzip"

(* The bytes of the first k frames: byte i of frame j.                     *)
Bytes(k) == UNION {{j} \X (1..sent[j]) : j \in 1..k}
Sent == Cardinality(Bytes(Len(sent)))

Returns(r) ==
  /\ result' = r
  /\ UNCHANGED <<header, now, since, sent, stream, taken, out, gzip, plain>>
------------------------------------------------------------------------------
Init ==
  /\ header \in Headers
  /\ now = 0
  /\ since = 0
  /\ sent = <<>>
  /\ stream = "open"
  /\ taken = 0
  /\ out = 0
  /\ gzip \in IF Coded THEN GzipBodies ELSE {NoGzip}
  /\ plain = 0
  /\ result = "headers"

CheckHeadersLoose ==  \* variant: an unknown encoding is taken for identity
  /\ result = "headers"
  /\ \/ /\ header.told = "unreadable"
        /\ Returns("InvalidDataFormat")
     \/ /\ Limited /\ header.length > MaxBytes
        /\ Returns("BodyTooLarge")
     \/ /\ header.told = "none" \/ (Limited /\ header.length <= MaxBytes)
        /\ Returns("reading")

(* parse_content_encoding, then reject_advertised_oversize.                *)
CheckHeaders ==
  /\ result = "headers"
  /\ \/ /\ header.encoding = "other"
        /\ Returns("UnsupportedEncoding")
     \/ /\ header.encoding # "other" /\ header.told = "unreadable"
        /\ Returns("InvalidDataFormat")
     \/ /\ header.encoding # "other" /\ Limited /\ header.length > MaxBytes
        /\ Returns("BodyTooLarge")
     \/ /\ header.encoding # "other"
        /\ header.told = "none" \/ (Limited /\ header.length <= MaxBytes)
        /\ Returns("reading")

(* hyper: a frame of the body, never more than its Content-Length says, its *)
(* end, or the end of the connection before it.                            *)
Send(n) ==
  /\ result = "reading" /\ stream = "open"
  /\ Len(sent) < MaxFrames
  /\ Limited => Sent + n <= header.length
  /\ sent' = Append(sent, n)
  /\ UNCHANGED <<header, now, since, stream, taken, out, gzip, plain, result>>

EndStream(how) ==
  /\ result = "reading" /\ stream = "open"
  /\ how = "ended" /\ Limited => Sent = header.length
  /\ stream' = how
  /\ UNCHANGED <<header, now, since, sent, taken, out, gzip, plain, result>>

FrameReady == taken < Len(sent)

TakeFrameByFrame ==  \* variant: the limit is applied to each frame
  /\ result = "reading" /\ FrameReady
  /\ LET n == sent[taken + 1]
     IN  IF n > MaxBytes
           THEN Returns("BodyTooLarge")
           ELSE /\ out' = out + n
                /\ taken' = taken + 1
                /\ since' = now
                /\ UNCHANGED <<header, now, sent, stream, gzip, plain, result>>

(* A frame is there, whatever the timers say: they are looked at only when *)
(* the body has nothing to give.                                           *)
TakeFrame ==
  /\ result = "reading" /\ FrameReady
  /\ LET n == sent[taken + 1]
     IN  IF out + n > MaxBytes
           THEN Returns("BodyTooLarge")
           ELSE /\ out' = out + n
                /\ taken' = taken + 1
                /\ since' = now
                /\ UNCHANGED <<header, now, sent, stream, gzip, plain, result>>

TakeEndAnyhow ==  \* variant: an error of the body ends it like its end
  /\ result = "reading" /\ ~FrameReady /\ stream # "open"
  /\ Returns("decoding")

TakeEnd ==
  /\ result = "reading" /\ ~FrameReady /\ stream # "open"
  /\ Returns(IF stream = "ended" THEN "decoding" ELSE "InvalidDataFormat")

ExpiredIdle == now >= since + Idle  \* variant: no total timeout
Expired == now >= since + Idle \/ now >= TotalTime

TimeOutBusy ==  \* variant: a timeout is returned as the overload it shares a code with
  /\ result = "reading" /\ ~FrameReady /\ stream = "open"
  /\ Expired
  /\ Returns("ServerBusy")

TimeOut ==
  /\ result = "reading" /\ ~FrameReady /\ stream = "open"
  /\ Expired
  /\ Returns("Timeout")

(* An identity body is at most MaxBytes long, and so at most MaxDecoded.   *)
DecodeIdentity ==
  /\ result = "decoding" /\ ~Coded
  /\ Returns(IF out > MaxDecoded THEN "BodyTooLarge" ELSE "fine")

DecodeBufferLate(n) ==  \* variant: the limit is checked before the read
  /\ result = "decoding" /\ Coded
  /\ n <= BufferBytes /\ plain + n <= gzip.length
  /\ IF plain > MaxDecoded
       THEN Returns("BodyTooLarge")
       ELSE /\ plain' = plain + n
            /\ UNCHANGED <<header, now, since, sent, stream, taken, out, gzip, result>>

(* The decoder fills a buffer, not always to its end.                      *)
DecodeBuffer(n) ==
  /\ result = "decoding" /\ Coded
  /\ n <= BufferBytes /\ plain + n <= gzip.length
  /\ IF plain + n > MaxDecoded
       THEN Returns("BodyTooLarge")
       ELSE /\ plain' = plain + n
            /\ UNCHANGED <<header, now, since, sent, stream, taken, out, gzip, result>>

DecodeEndIgnoring ==  \* variant: an error of the decoder is read over
  /\ result = "decoding" /\ Coded
  /\ ~gzip.corrupt /\ plain = gzip.length
  /\ Returns("fine")

(* It comes to the end of the first gzip member, or to an error, with      *)
(* which what it had decoded into this buffer is lost.                     *)
DecodeEnd ==
  /\ result = "decoding" /\ Coded
  /\ \/ /\ ~gzip.corrupt /\ plain = gzip.length
        /\ Returns("fine")
     \/ /\ gzip.corrupt /\ gzip.length - plain <= BufferBytes
        /\ Returns("MalformedGzip")

CanGoOn == FrameReady \/ stream # "open" \/ Expired

Tick ==
  /\ result = "reading" /\ ~CanGoOn
  /\ now' = now + 1
  /\ UNCHANGED <<header, since, sent, stream, taken, out, gzip, plain, result>>

Working == result \in {"headers", "reading", "decoding"}
Quiet == ~Working /\ UNCHANGED vars

HandlerStep ==
  \/ CheckHeaders
  \/ TakeFrame
  \/ TakeEnd
  \/ TimeOut
  \/ DecodeIdentity
  \/ \E n \in 1..BufferBytes : DecodeBuffer(n)
  \/ DecodeEnd

Next ==
  \/ \E n \in FrameSizes : Send(n)
  \/ \E how \in {"ended", "broken"} : EndStream(how)
  \/ HandlerStep
  \/ Tick
  \/ Quiet

Spec == Init /\ [][Next]_vars

(* The runtime polls a handler that can go on, and time passes.  Nothing is *)
(* asked of the client: it may never send another byte.                    *)
FairSpec == Spec /\ WF_vars(HandlerStep) /\ WF_vars(Tick)
------------------------------------------------------------------------------
(* Every variable stays in its range.                                      *)
TypeOK ==
  /\ header \in Headers
  /\ now \in Nat /\ since \in 0..now
  /\ sent \in Seq(FrameSizes)
  /\ stream \in {"open", "ended", "broken"}
  /\ taken \in 0..Len(sent)
  /\ out \in Nat
  /\ gzip \in GzipBodies \cup {NoGzip}
  /\ plain \in Nat
  /\ result \in {"headers", "reading", "decoding", "fine", "Timeout", "BodyTooLarge",
                 "InvalidDataFormat", "UnsupportedEncoding", "MalformedGzip"}

(* However a client deals out its bytes, in frames, in trailers or in what *)
(* they decode to, no more is buffered for it than the limits allow.       *)
BoundedMemory == out <= MaxBytes /\ plain <= MaxDecoded

(* A client that stops, or that trickles frames each in time for the idle  *)
(* timeout, is not waited for beyond the timeouts.                         *)
BoundedTime ==
  result = "reading" => now <= TotalTime /\ now <= since + Idle

(* The outcome tells what the client sent: a body is taken for complete    *)
(* only when all of it has been read, in an encoding the receiver knows,   *)
(* and nothing broke; it is called too large only when what is advertised, *)
(* sent or decoded is, and an identity body is never too large for the     *)
(* decoder when it was not for the reader.                                 *)
OutcomeIsTrue ==
  /\ result \in {"decoding", "fine", "MalformedGzip"} =>
       stream = "ended" /\ out = Sent /\ (Limited => Sent = header.length)
  /\ result = "BodyTooLarge" =>
       \/ Sent > MaxBytes
       \/ Limited /\ header.length > MaxBytes
       \/ Coded /\ gzip.length > MaxDecoded
  /\ result = "fine" =>
       header.encoding # "other" /\ (Coded => ~gzip.corrupt /\ plain = gzip.length)
  /\ result = "MalformedGzip" => Coded /\ gzip.corrupt

(* Every request gets the outcome of its body, from a client that stops as *)
(* from one that never stops, and from a decoder that meets an error.      *)
EveryBodyEnds == <>~Working
==============================================================================

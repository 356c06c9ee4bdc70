---------------------------- MODULE IpcProtocol ----------------------------
(***************************************************************************)
(* Protocol: whole frames over a byte stream whose send() and recv() move  *)
(* as many bytes as they like.  A frame is a header, the code (method,     *)
(* status or event type) and the length of the body, and the body.  The    *)
(* two 32-bit words of the header are one unit each, counted modulo        *)
(* Modulus: a number is a code, a length or a byte of a body only by where *)
(* it is found in the stream.                                              *)
(***************************************************************************)
EXTENDS Naturals, Sequences, SequencesExt

CONSTANTS
  Modulus,    \* lengths are kept modulo this (2^32)
  MaxFrame,   \* max_frame_bytes of the reader
  Bodies,     \* the bodies sent
  Room,       \* bytes the socket holds on their way
  MaxFrames   \* bound: frames written

ASSUME ProtocolConstants ==
  /\ Modulus \in Nat \ {0} /\ MaxFrame \in Nat /\ Room \in Nat \ {0}
  /\ MaxFrames \in Nat /\ Bodies \subseteq Seq(0..(Modulus - 1))

VARIABLES
  sent,     \* frames that writeRequest, writeResponse or writeEvent began
  out,      \* writeAll: the bytes from ptr on
  writer,   \* what the writer does: "open", or "closed" after an error
  stream,   \* bytes under way
  reader,   \* "idle", "header", "body", "failed" or "refused"
  buf,      \* readExact: the bytes before ptr
  header,   \* the header read
  got       \* frames returned

writerVars == <<sent, out, writer>>
readerVars == <<reader, buf, header, got>>
protocolVars == <<writerVars, stream, readerVars>>

HeaderSize == 2

\* The size_t of the body becomes a uint32_t.
encode(code, body) == <<code, Len(body) % Modulus>> \o body

\* Mutant: a frame of the greatest length allowed is refused.
validateLengthStrictly(length) == length < MaxFrame

validateLength(length) == length <= MaxFrame

ProtocolInit ==
  /\ sent = <<>> /\ out = <<>> /\ writer = "open" /\ stream = <<>>
  /\ reader = "idle" /\ buf = <<>> /\ header = <<>> /\ got = <<>>
-----------------------------------------------------------------------------
(* The writer; frames of one stream are written one after the other, see   *)
(* IpcServer and IpcClient.                                                *)

WriteBegins(body) ==
  /\ writer = "open" /\ out = <<>> /\ Len(sent) < MaxFrames
  /\ LET code == Len(sent) % Modulus IN
     /\ sent' = Append(sent, <<code, body>>)
     /\ out' = encode(code, body)
  /\ UNCHANGED <<writer, stream, readerVars>>

\* send() takes n bytes; EINTR takes none and is tried again.
Sends(n) ==
  /\ writer = "open" /\ n \in 1..Len(out) /\ Len(stream) + n <= Room
  /\ stream' = stream \o SubSeq(out, 1, n)
  /\ out' = SubSeq(out, n + 1, Len(out))
  /\ UNCHANGED <<sent, writer, readerVars>>

\* writeAll gives up, its caller closes the connection: EPIPE after the reader
\* has closed its end.
SendFails ==
  /\ writer = "open" /\ out # <<>> /\ reader \in {"failed", "refused"}
  /\ writer' = "closed"
  /\ UNCHANGED <<sent, out, stream, readerVars>>

\* The writer hangs up or dies, between two frames or in one.
HangsUp ==
  /\ writer = "open" /\ writer' = "closed"
  /\ UNCHANGED <<sent, out, stream, readerVars>>
-----------------------------------------------------------------------------
(* The reader; a call that returns false is the last on its stream: every  *)
(* caller closes the descriptor.                                           *)

ReadBegins ==
  /\ reader = "idle" /\ reader' = "header" /\ buf' = <<>>
  /\ UNCHANGED <<writerVars, stream, header, got>>

\* The size readExact was called with.
Wanted == IF reader = "header" THEN HeaderSize ELSE header[2]

\* Mutant: what one recv() returned counts as the whole.
RecvsOnce(n) ==
  /\ reader \in {"header", "body"}
  /\ n \in 1..(Wanted - Len(buf)) /\ n <= Len(stream)
  /\ buf' = buf \o SubSeq(stream, 1, n) \o [i \in 1..(Wanted - Len(buf) - n) |-> 0]
  /\ stream' = SubSeq(stream, n + 1, Len(stream))
  /\ UNCHANGED <<writerVars, reader, header, got>>

Recvs(n) ==
  /\ reader \in {"header", "body"}
  /\ n \in 1..(Wanted - Len(buf)) /\ n <= Len(stream)
  /\ buf' = buf \o SubSeq(stream, 1, n)
  /\ stream' = SubSeq(stream, n + 1, Len(stream))
  /\ UNCHANGED <<writerVars, reader, header, got>>

\* End of the stream.
RecvEof ==
  /\ reader \in {"header", "body"} /\ Len(buf) < Wanted
  /\ stream = <<>> /\ writer = "closed" /\ reader' = "failed"
  /\ UNCHANGED <<writerVars, stream, buf, header, got>>

\* SO_RCVTIMEO, at any byte: what was read of the frame is dropped.
RecvTimesOut ==
  /\ reader \in {"header", "body"} /\ Len(buf) < Wanted /\ stream = <<>>
  /\ reader' = "failed"
  /\ UNCHANGED <<writerVars, stream, buf, header, got>>

HeaderRead ==
  /\ reader = "header" /\ Len(buf) = HeaderSize
  /\ header' = buf /\ buf' = <<>>
  /\ reader' = IF validateLength(buf[2]) THEN "body" ELSE "refused"
  /\ UNCHANGED <<writerVars, stream, got>>

\* A body of no bytes is not asked for.
BodyRead ==
  /\ reader = "body" /\ Len(buf) = Wanted
  /\ got' = Append(got, <<header[1], buf>>) /\ reader' = "idle"
  /\ UNCHANGED <<writerVars, stream, buf, header>>

Reads == ReadBegins \/ HeaderRead \/ BodyRead \/ RecvEof

ProtocolNext ==
  \/ \E body \in Bodies : WriteBegins(body)
  \/ \E n \in 1..Room : Sends(n) \/ Recvs(n)
  \/ SendFails \/ HangsUp \/ Reads \/ RecvTimesOut

ProtocolSpec == ProtocolInit /\ [][ProtocolNext]_protocolVars

\* Both sides go on while they can.
ProtocolFairness ==
  /\ WF_protocolVars(\E n \in 1..Room : Sends(n))
  /\ WF_protocolVars(Reads \/ \E n \in 1..Room : Recvs(n))
-----------------------------------------------------------------------------
ProtocolTypeOK ==
  /\ sent \in Seq(Nat \X Bodies) /\ out \in Seq(0..(Modulus - 1))
  /\ writer \in {"open", "closed"} /\ stream \in Seq(0..(Modulus - 1))
  /\ reader \in {"idle", "header", "body", "failed", "refused"}
  /\ buf \in Seq(0..(Modulus - 1)) /\ header \in Seq(0..(Modulus - 1))
  /\ got \in Seq(Nat \X Seq(0..(Modulus - 1)))

\* A body whose length does not fit into the header.
Overlong(frame) == Len(frame[2]) >= Modulus

\* However send() and recv() cut the stream and wherever it breaks off, the
\* frames returned are the frames written, whole and in order, up to the first
\* whose length is truncated on encoding (ipc_protocol.cpp:19).
FramesInSync ==
  \/ IsPrefix(got, sent)
  \/ \E i \in 1..Len(sent) : /\ Overlong(sent[i]) /\ i <= Len(got)
                             /\ SubSeq(got, 1, i - 1) = SubSeq(sent, 1, i - 1)

\* A frame that was begun is returned, unless a side gave up, or one up to it
\* is longer than max_frame_bytes: no length up to the limit is lost.
FramesArrive ==
  \A i \in 1..MaxFrames :
    Len(sent) >= i
      ~> \/ Len(got) >= i \/ writer = "closed" \/ reader = "failed"
         \/ \E j \in 1..Len(sent) : j <= i /\ Len(sent[j][2]) > MaxFrame
=============================================================================

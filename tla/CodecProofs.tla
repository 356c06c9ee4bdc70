---------------------------- MODULE CodecProofs ----------------------------
(***************************************************************************)
(* Safety of the frames on a stream, for any width of the length field,    *)
(* limit of a frame, bodies and room in the socket; of the buffer of the   *)
(* hash, for any size of a block and of the length at its end; and of the  *)
(* base64 text, for data of any length.                                    *)
(***************************************************************************)
EXTENDS IpcProtocol, Base64, Sha256, SequenceTheorems, WellFoundedInduction, TLAPS

USE DEF protocolVars, writerVars, readerVars

Unit == 0..(Modulus - 1)
Frame == Nat \X Seq(Nat)

Encoded(frame) == encode(frame[1], frame[2])

\* The units are those of the frames, one after the other; frame i ends at at[i].
InFrames(units, frames) ==
  \E at \in [0..Len(frames) -> Nat] :
    /\ at[0] = 0 /\ at[Len(frames)] = Len(units)
    /\ \A i, j \in 0..Len(frames) : i <= j => at[i] <= at[j]
    /\ \A i \in 1..Len(frames) :
         /\ at[i] = at[i - 1] + Len(Encoded(frames[i]))
         /\ \A j \in 1..Len(Encoded(frames[i])) :
              units[at[i - 1] + j] = Encoded(frames[i])[j]

\* What was begun to be read of a frame, and what is yet to come.
Begun == IF reader = "idle" THEN <<>> ELSE IF reader = "header" THEN buf ELSE header \o buf
Unread == Begun \o (stream \o out)
FramesLeft == SubSeq(sent, Len(got) + 1, Len(sent))

\* A frame was returned whose body does not fit the field of its length.
Misread ==
  \E i \in 1..Len(sent) : /\ Overlong(sent[i]) /\ i <= Len(got)
                          /\ SubSeq(got, 1, i - 1) = SubSeq(sent, 1, i - 1)

InStep ==
  /\ IsPrefix(got, sent)
  /\ reader \in {"failed", "refused"} \/ InFrames(Unread, FramesLeft)

FrameInv == ProtocolTypeOK /\ (reader = "body" => Len(header) = 2) /\ (Misread \/ InStep)
-----------------------------------------------------------------------------
(* Sequences                                                               *)

LEMMA UnitsAreNumbers == Unit \subseteq Nat /\ Seq(Unit) \subseteq Seq(Nat)
<1>1. Unit \subseteq Nat BY ProtocolConstants DEF Unit
<1> QED BY <1>1, SeqMonotonic

LEMMA Associative ==
  ASSUME NEW a \in Seq(Nat), NEW b \in Seq(Nat), NEW c \in Seq(Nat)
  PROVE  (a \o b) \o c = a \o (b \o c)
BY ConcatAssociative, SMTT(30)

LEMMA MovedType ==
  ASSUME NEW S, NEW s \in Seq(S), NEW t \in Seq(S), NEW n \in 1..Len(t)
  PROVE  /\ SubSeq(t, 1, n) \in Seq(S) /\ SubSeq(t, n + 1, Len(t)) \in Seq(S)
         /\ s \o SubSeq(t, 1, n) \in Seq(S)
         /\ Len(s \o SubSeq(t, 1, n)) = Len(s) + n
<1> DEFINE u == SubSeq(t, 1, n)
<1>1. Len(t) \in Nat /\ \A i \in 1..Len(t) : t[i] \in S BY LenProperties, ElementOfSeq
<1>2. u \in Seq(S) /\ Len(u) = n BY <1>1, SubSeqProperties
<1>3. SubSeq(t, n + 1, Len(t)) \in Seq(S) BY <1>1, SubSeqProperties
<1> HIDE DEF u
<1>4. s \o u \in Seq(S) /\ Len(s \o u) = Len(s) + n BY <1>2, ConcatProperties
<1> QED BY <1>2, <1>3, <1>4 DEF u

\* Moving n units from the head of t to the end of s moves none of the whole.
LEMMA Moved ==
  ASSUME NEW s \in Seq(Nat), NEW t \in Seq(Nat), NEW n \in 1..Len(t)
  PROVE  (s \o SubSeq(t, 1, n)) \o SubSeq(t, n + 1, Len(t)) = s \o t
<1> DEFINE u == SubSeq(t, 1, n)
           v == SubSeq(t, n + 1, Len(t))
<1>1. Len(t) \in Nat BY LenProperties
<1>2. u \in Seq(Nat) /\ v \in Seq(Nat) BY MovedType
<1>3. u \o v = SubSeq(t, 1, Len(t)) BY <1>1, ConcatAdjacentSubSeq
<1>4. SubSeq(t, 1, Len(t)) = t BY SubSeqFull
<1> HIDE DEF u, v
<1>5. (s \o u) \o v = s \o (u \o v) BY <1>2, Associative
<1> QED BY <1>3, <1>4, <1>5 DEF u, v

LEMMA SubSeqType ==
  ASSUME NEW S, NEW s \in Seq(S), NEW m \in Nat \ {0}, NEW n \in 0..Len(s)
  PROVE  /\ SubSeq(s, m, n) \in Seq(S)
         /\ Len(SubSeq(s, m, n)) = IF m <= n THEN n - m + 1 ELSE 0
         /\ \A i \in 1..(n - m + 1) : SubSeq(s, m, n)[i] = s[m + i - 1]
<1>1. \A i \in m..n : s[i] \in S BY LenProperties, ElementOfSeq
<1> QED BY <1>1, SubSeqProperties, LenProperties

LEMMA Remainder ==
  ASSUME NEW n \in Nat, NEW m \in Nat \ {0}
  PROVE  n % m \in 0..(m - 1)
OBVIOUS

LEMMA Small ==
  ASSUME NEW n \in Nat, NEW m \in Nat \ {0}, n < m
  PROVE  n % m = n
OBVIOUS

LEMMA EncodedType ==
  ASSUME NEW code \in Unit, NEW body \in Seq(Unit)
  PROVE  encode(code, body) \in Seq(Unit)
<1> DEFINE n == Len(body)
<1>1. n \in Nat BY LenProperties
<1> HIDE DEF n
<1>2. n % Modulus \in Unit BY <1>1, ProtocolConstants, Remainder DEF Unit
<1>3. <<code, n % Modulus>> \in Seq(Unit) BY <1>2
<1> DEFINE h == <<code, n % Modulus>>
<1> HIDE DEF h
<1>4. h \o body \in Seq(Unit) BY <1>3, ConcatProperties DEF h
<1> QED BY <1>4 DEF encode, h, n

LEMMA EncodedFrame ==
  ASSUME NEW f \in Frame
  PROVE  /\ Encoded(f) \in Seq(Nat)
         /\ Len(Encoded(f)) = Len(f[2]) + 2
         /\ Encoded(f)[1] = f[1]
         /\ Encoded(f)[2] = Len(f[2]) % Modulus
         /\ \A j \in 1..Len(f[2]) : Encoded(f)[j + 2] = f[2][j]
<1> DEFINE code == f[1]
           body == f[2]
           n == Len(body)
           h == <<code, n % Modulus>>
<1>1. code \in Nat /\ body \in Seq(Nat) BY DEF Frame
<1>2. n \in Nat BY <1>1, LenProperties
<1> HIDE DEF code, body
<1>3. n % Modulus \in Nat
  <2> HIDE DEF n
  <2> QED BY <1>2, ProtocolConstants, Remainder
<1>4. h \in Seq(Nat) /\ Len(h) = 2 /\ h[1] = code /\ h[2] = n % Modulus BY <1>1, <1>3
<1> HIDE DEF h
<1>5. /\ h \o body \in Seq(Nat) /\ Len(h \o body) = Len(h) + Len(body)
      /\ \A i \in 1..(Len(h) + Len(body)) :
           (h \o body)[i] = IF i <= Len(h) THEN h[i] ELSE body[i - Len(h)]
  BY <1>1, <1>4, ConcatProperties
<1>6. Encoded(f) = h \o body BY DEF Encoded, encode, h, code, body
<1>7. \A j \in 1..Len(body) : (h \o body)[j + 2] = body[j] BY <1>2, <1>4, <1>5
<1>8. (h \o body)[1] = code /\ (h \o body)[2] = n % Modulus BY <1>2, <1>4, <1>5
<1> QED BY <1>4, <1>5, <1>6, <1>7, <1>8 DEF code, body
-----------------------------------------------------------------------------
(* Frames laid out in a sequence of units                                  *)

LEMMA NoFrames == InFrames(<<>>, <<>>)
<1> DEFINE at == [i \in 0..0 |-> 0]
<1>1. at \in [0..Len(<<>>) -> Nat] /\ at[0] = 0 /\ at[Len(<<>>)] = Len(<<>>)
  OBVIOUS
<1>2. \A i, j \in 0..Len(<<>>) : i <= j => at[i] <= at[j] OBVIOUS
<1>3. 1..Len(<<>>) = {} OBVIOUS
<1> QED BY <1>1, <1>2, <1>3 DEF InFrames

\* One more frame behind the others.
LEMMA FrameAppended ==
  ASSUME NEW units \in Seq(Nat), NEW frames \in Seq(Frame), NEW f \in Frame,
         InFrames(units, frames)
  PROVE  InFrames(units \o Encoded(f), Append(frames, f))
<1> DEFINE n == Len(frames)
           e == Encoded(f)
           more == Append(frames, f)
           whole == units \o e
<1>1. PICK at \in [0..n -> Nat] :
        /\ at[0] = 0 /\ at[n] = Len(units)
        /\ \A i, j \in 0..n : i <= j => at[i] <= at[j]
        /\ \A i \in 1..n :
             /\ at[i] = at[i - 1] + Len(Encoded(frames[i]))
             /\ \A j \in 1..Len(Encoded(frames[i])) :
                  units[at[i - 1] + j] = Encoded(frames[i])[j]
  BY DEF InFrames
<1>2. n \in Nat /\ Len(units) \in Nat BY LenProperties
<1>3. e \in Seq(Nat) /\ Len(e) \in Nat BY EncodedFrame, LenProperties
<1>4. /\ Len(more) = n + 1 /\ more[n + 1] = f
      /\ \A i \in 1..n : more[i] = frames[i]
  BY AppendProperties
<1>5. /\ whole \in Seq(Nat) /\ Len(whole) = Len(units) + Len(e)
      /\ \A i \in 1..(Len(units) + Len(e)) :
           whole[i] = IF i <= Len(units) THEN units[i] ELSE e[i - Len(units)]
  BY <1>3, ConcatProperties
<1> DEFINE to == [i \in 0..(n + 1) |-> IF i = n + 1 THEN Len(units) + Len(e) ELSE at[i]]
<1>6. /\ to \in [0..(n + 1) -> Nat] /\ to[0] = 0 /\ to[n + 1] = Len(units) + Len(e)
      /\ \A i \in 0..n : to[i] = at[i]
  BY <1>1, <1>2, <1>3
<1> HIDE DEF n, e, more, whole, to
<1>7. \A i, j \in 0..(n + 1) : i <= j => to[i] <= to[j]
  <2> SUFFICES ASSUME NEW i \in 0..(n + 1), NEW j \in 0..(n + 1), i <= j
               PROVE  to[i] <= to[j]
    OBVIOUS
  <2>1. CASE j = n + 1
    <3>1. CASE i = n + 1 BY <1>6, <2>1, <3>1
    <3>2. CASE i # n + 1
      <4>1. i \in 0..n /\ n \in 0..n /\ i <= n BY <1>2, <3>2
      <4>2. to[i] <= Len(units) BY <1>1, <1>6, <4>1
      <4> QED BY <1>1, <1>2, <1>3, <1>6, <2>1, <4>1, <4>2
    <3> QED BY <3>1, <3>2
  <2>2. CASE j # n + 1
    <3>1. i \in 0..n /\ j \in 0..n BY <1>2, <2>2
    <3> QED BY <1>1, <1>6, <3>1
  <2> QED BY <2>1, <2>2
<1>8. ASSUME NEW i \in 1..(n + 1)
      PROVE  /\ to[i] = to[i - 1] + Len(Encoded(more[i]))
             /\ \A j \in 1..Len(Encoded(more[i])) :
                  whole[to[i - 1] + j] = Encoded(more[i])[j]
  <2>1. CASE i = n + 1
    <3>1. to[i - 1] = Len(units) /\ to[i] = Len(units) + Len(e) /\ Encoded(more[i]) = e
      BY <1>1, <1>2, <1>4, <1>6, <2>1 DEF e
    <3>2. ASSUME NEW j \in 1..Len(e) PROVE whole[Len(units) + j] = e[j]
      <4>1. /\ Len(units) + j \in 1..(Len(units) + Len(e))
            /\ ~(Len(units) + j <= Len(units)) /\ (Len(units) + j) - Len(units) = j
        BY <1>2, <1>3
      <4> QED BY <1>5, <4>1
    <3> QED BY <3>1, <3>2
  <2>2. CASE i # n + 1
    <3>1. i \in 1..n /\ i \in 0..n /\ i - 1 \in 0..n /\ n \in 0..n /\ i <= n BY <1>2, <2>2
    <3>2. Encoded(more[i]) = Encoded(frames[i]) /\ to[i] = at[i] /\ to[i - 1] = at[i - 1]
      BY <1>4, <1>6, <3>1
    <3>3. at[i] = at[i - 1] + Len(Encoded(frames[i])) BY <1>1, <3>1
    <3>4. at[i] <= Len(units) /\ at[i] \in Nat /\ at[i - 1] \in Nat BY <1>1, <3>1
    <3>5. frames[i] \in Frame BY <3>1, ElementOfSeq DEF n
    <3>6. Len(Encoded(frames[i])) \in Nat BY <3>5, EncodedFrame, LenProperties
    <3>7. ASSUME NEW j \in 1..Len(Encoded(frames[i]))
          PROVE  whole[at[i - 1] + j] = Encoded(frames[i])[j]
      <4> DEFINE p == at[i - 1]
                 l == Len(Encoded(frames[i]))
      <4> HIDE DEF p, l
      <4>0. p \in Nat /\ l \in Nat /\ j \in 1..l /\ p + l <= Len(units)
        BY <3>3, <3>4, <3>6 DEF p, l
      <4>1. p + j \in 1..(Len(units) + Len(e)) /\ p + j <= Len(units)
        BY <1>2, <1>3, <4>0
      <4>2. units[p + j] = Encoded(frames[i])[j] BY <1>1, <3>1 DEF p
      <4> QED BY <1>5, <4>1, <4>2 DEF p
    <3> QED BY <3>2, <3>3, <3>7
  <2> QED BY <2>1, <2>2
<1>9. InFrames(whole, more)
  <2>1. to \in [0..Len(more) -> Nat] /\ to[Len(more)] = Len(whole) BY <1>4, <1>5, <1>6
  <2>2. \A i, j \in 0..Len(more) : i <= j => to[i] <= to[j] BY <1>4, <1>7
  <2>3. \A i \in 1..Len(more) :
          /\ to[i] = to[i - 1] + Len(Encoded(more[i]))
          /\ \A j \in 1..Len(Encoded(more[i])) :
               whole[to[i - 1] + j] = Encoded(more[i])[j]
    BY <1>4, <1>8
  <2> QED BY <1>6, <2>1, <2>2, <2>3, ZenonT(30) DEF InFrames
<1> QED BY <1>9 DEF whole, more, e

\* Units that are not none begin with a frame.
LEMMA FirstFrame ==
  ASSUME NEW units \in Seq(Nat), NEW frames \in Seq(Frame), InFrames(units, frames),
         units # <<>>
  PROVE  /\ frames # <<>> /\ frames[1] \in Frame
         /\ Len(Encoded(frames[1])) <= Len(units)
         /\ \A j \in 1..Len(Encoded(frames[1])) : units[j] = Encoded(frames[1])[j]
<1> DEFINE n == Len(frames)
           l == Len(Encoded(frames[1]))
<1>1. PICK at \in [0..n -> Nat] :
        /\ at[0] = 0 /\ at[n] = Len(units)
        /\ \A i, j \in 0..n : i <= j => at[i] <= at[j]
        /\ \A i \in 1..n :
             /\ at[i] = at[i - 1] + Len(Encoded(frames[i]))
             /\ \A j \in 1..Len(Encoded(frames[i])) :
                  units[at[i - 1] + j] = Encoded(frames[i])[j]
  BY DEF InFrames
<1>2. n \in Nat /\ Len(units) \in Nat \ {0} BY LenProperties, EmptySeq
<1>3. n # 0 BY <1>1, <1>2
<1>4. frames # <<>> /\ 1 \in 1..n /\ 1 \in 0..n /\ n \in 0..n /\ 1 <= n /\ 1 - 1 = 0
  BY <1>2, <1>3
<1>5. frames[1] \in Frame BY <1>4, ElementOfSeq
<1>6. l \in Nat BY <1>5, EncodedFrame, LenProperties
<1>7. at[1] = at[1 - 1] + l BY <1>1, <1>4
<1> HIDE DEF l
<1>8. at[1] = l BY <1>1, <1>4, <1>6, <1>7
<1>9. at[1] <= at[n] BY <1>1, <1>4
<1>10. \A j \in 1..l : units[0 + j] = Encoded(frames[1])[j] BY <1>1, <1>4 DEF l
<1>11. \A j \in 1..l : units[j] = Encoded(frames[1])[j]
  <2>1. \A j \in 1..l : 0 + j = j BY <1>6
  <2> QED BY <1>10, <2>1
<1>12. l <= Len(units) BY <1>1, <1>8, <1>9
<1> QED BY <1>4, <1>5, <1>11, <1>12 DEF l

\* Behind the units of the first frame come those of the others.
LEMMA FrameRemoved ==
  ASSUME NEW head \in Seq(Nat), NEW rest \in Seq(Nat), NEW frames \in Seq(Frame),
         frames # <<>>, InFrames(head \o rest, frames),
         Len(head) = Len(Encoded(frames[1]))
  PROVE  InFrames(rest, Tail(frames))
<1> DEFINE n == Len(frames)
           units == head \o rest
           l == Len(head)
           less == Tail(frames)
<1>1. PICK at \in [0..n -> Nat] :
        /\ at[0] = 0 /\ at[n] = Len(units)
        /\ \A i, j \in 0..n : i <= j => at[i] <= at[j]
        /\ \A i \in 1..n :
             /\ at[i] = at[i - 1] + Len(Encoded(frames[i]))
             /\ \A j \in 1..Len(Encoded(frames[i])) :
                  units[at[i - 1] + j] = Encoded(frames[i])[j]
  BY DEF InFrames
<1>2. n \in Nat \ {0} /\ l \in Nat /\ Len(rest) \in Nat BY LenProperties, EmptySeq
<1>3. /\ Len(units) = l + Len(rest)
      /\ \A i \in 1..(l + Len(rest)) : units[i] = IF i <= l THEN head[i] ELSE rest[i - l]
  BY ConcatProperties
<1>4. /\ less \in Seq(Frame) /\ Len(less) = n - 1
      /\ \A i \in 1..(n - 1) : less[i] = frames[i + 1]
  BY HeadTailProperties
<1>5. at[1] = l
  <2>1. 1 \in 1..n /\ 1 - 1 = 0 BY <1>2
  <2>2. at[1] = at[1 - 1] + Len(Encoded(frames[1])) BY <1>1, <2>1
  <2> HIDE DEF l
  <2>3. at[1] = at[0] + l BY <2>1, <2>2 DEF l
  <2> QED BY <1>1, <1>2, <2>3
<1> HIDE DEF n, units, l, less
<1>6. ASSUME NEW i \in 0..(n - 1) PROVE at[i + 1] \in Nat /\ l <= at[i + 1]
  <2>1. i + 1 \in 0..n /\ 1 \in 0..n /\ 1 <= i + 1 BY <1>2
  <2> QED BY <1>1, <1>5, <2>1
<1> DEFINE to == [i \in 0..(n - 1) |-> at[i + 1] - l]
<1>7. \A i \in 0..(n - 1) : to[i] = at[i + 1] - l OBVIOUS
<1>8. to \in [0..(n - 1) -> Nat] BY <1>2, <1>6
<1> HIDE DEF to
<1>9. to[0] = 0 /\ to[n - 1] = Len(rest)
  <2>1. 0 \in 0..(n - 1) /\ n - 1 \in 0..(n - 1) /\ 0 + 1 = 1 /\ (n - 1) + 1 = n BY <1>2
  <2>2. to[0] = at[1] - l /\ to[n - 1] = at[n] - l BY <1>7, <2>1
  <2> QED BY <1>1, <1>2, <1>3, <1>5, <2>2
<1>10. ASSUME NEW i \in 0..(n - 1), NEW j \in 0..(n - 1), i <= j PROVE to[i] <= to[j]
  <2>1. i + 1 \in 0..n /\ j + 1 \in 0..n /\ i + 1 <= j + 1 BY <1>2, <1>10
  <2>2. at[i + 1] <= at[j + 1] BY <1>1, <2>1
  <2>3. to[i] = at[i + 1] - l /\ to[j] = at[j + 1] - l BY <1>7
  <2>4. at[i + 1] \in Nat /\ at[j + 1] \in Nat BY <1>6
  <2> DEFINE p == at[i + 1]
             r == at[j + 1]
  <2> HIDE DEF p, r
  <2>5. p <= r /\ to[i] = p - l /\ to[j] = r - l /\ p \in Nat /\ r \in Nat /\ l \in Nat
    BY <1>2, <2>2, <2>3, <2>4 DEF p, r
  <2> QED BY <2>5
<1>11. ASSUME NEW i \in 1..(n - 1)
       PROVE  /\ to[i] = to[i - 1] + Len(Encoded(less[i]))
              /\ \A j \in 1..Len(Encoded(less[i])) :
                   rest[to[i - 1] + j] = Encoded(less[i])[j]
  <2>1. /\ i + 1 \in 1..n /\ (i + 1) - 1 = i /\ i \in 0..n /\ i + 1 \in 0..n /\ n \in 0..n
        /\ i + 1 <= n /\ i \in 0..(n - 1) /\ i - 1 \in 0..(n - 1) /\ (i - 1) + 1 = i
    BY <1>2
  <2> DEFINE k == i + 1
             d == Len(Encoded(frames[k]))
             p == at[i]
  <2>2. less[i] = frames[k] BY <1>4
  <2>3. frames[k] \in Frame BY <2>1, ElementOfSeq DEF n
  <2>4. d \in Nat BY <2>3, EncodedFrame, LenProperties
  <2>5. /\ at[k] = at[k - 1] + d
        /\ \A j \in 1..d : units[at[k - 1] + j] = Encoded(frames[k])[j]
    BY <1>1, <2>1
  <2>6. at[k - 1] = p BY <2>1
  <2>7. at[k] <= at[n] BY <1>1, <2>1
  <2>8. to[i] = at[k] - l /\ to[i - 1] = p - l BY <1>7, <2>1
  <2>9. p \in Nat /\ l <= p BY <1>6, <2>1
  <2>10. at[k] \in Nat BY <1>6, <2>1
  <2> HIDE DEF k, d, p
  <2>11. at[k] = p + d /\ p + d <= l + Len(rest) BY <1>1, <1>3, <2>5, <2>6, <2>7
  <2>12. to[i] = to[i - 1] + d BY <1>2, <2>4, <2>8, <2>9, <2>11
  <2>13. ASSUME NEW j \in 1..d PROVE rest[to[i - 1] + j] = Encoded(frames[k])[j]
    <3>1. p + j \in 1..(l + Len(rest)) /\ ~(p + j <= l) /\ (p + j) - l = (p - l) + j
      BY <1>2, <2>4, <2>9, <2>11
    <3>2. units[p + j] = Encoded(frames[k])[j] BY <2>5, <2>6
    <3> QED BY <1>3, <2>8, <3>1, <3>2
  <2> QED BY <2>2, <2>12, <2>13 DEF d
<1>12. InFrames(rest, less)
  <2>1. to \in [0..Len(less) -> Nat] /\ to[Len(less)] = Len(rest) BY <1>4, <1>8, <1>9
  <2>2. \A i, j \in 0..Len(less) : i <= j => to[i] <= to[j] BY <1>4, <1>10
  <2>3. \A i \in 1..Len(less) :
          /\ to[i] = to[i - 1] + Len(Encoded(less[i]))
          /\ \A j \in 1..Len(Encoded(less[i])) :
               rest[to[i - 1] + j] = Encoded(less[i])[j]
    BY <1>4, <1>11
  <2> QED BY <1>9, <2>1, <2>2, <2>3, ZenonT(30) DEF InFrames
<1> QED BY <1>12 DEF less
-----------------------------------------------------------------------------
(* The stream                                                              *)

Shape == ProtocolTypeOK /\ (reader = "body" => Len(header) = 2)

\* What is read and what is under way are numbers, whatever they stand for.
LEMMA Plain ==
  ASSUME Shape
  PROVE  /\ sent \in Seq(Frame) /\ Len(sent) \in Nat /\ Len(got) \in Nat
         /\ got \in Seq(Frame)
         /\ out \in Seq(Nat) /\ stream \in Seq(Nat) /\ buf \in Seq(Nat)
         /\ header \in Seq(Nat) /\ stream \o out \in Seq(Nat)
         /\ Begun \in Seq(Nat) /\ Unread \in Seq(Nat)
         /\ FramesLeft \in Seq(Frame)
<1>1. /\ sent \in Seq(Nat \X Bodies) /\ out \in Seq(Unit) /\ stream \in Seq(Unit)
      /\ buf \in Seq(Unit) /\ header \in Seq(Unit) /\ got \in Seq(Nat \X Seq(Unit))
  BY DEF Shape, ProtocolTypeOK, Unit
<1>2. Nat \X Bodies \subseteq Frame /\ Nat \X Seq(Unit) \subseteq Frame
  BY UnitsAreNumbers, ProtocolConstants DEF Frame, Unit
<1>3. sent \in Seq(Frame) BY <1>1, <1>2, SeqMonotonic
<1>4. got \in Seq(Frame) BY <1>1, <1>2, SeqMonotonic
<1>5. out \in Seq(Nat) /\ stream \in Seq(Nat) /\ buf \in Seq(Nat) /\ header \in Seq(Nat)
  BY <1>1, UnitsAreNumbers
<1>6. Len(sent) \in Nat /\ Len(got) \in Nat BY <1>3, <1>4, LenProperties
<1>7. stream \o out \in Seq(Nat) /\ header \o buf \in Seq(Nat) BY <1>5, ConcatProperties
<1>8. <<>> \in Seq(Nat) BY EmptySeq
<1>9. Begun \in Seq(Nat) BY <1>5, <1>7, <1>8 DEF Begun
<1>10. Unread \in Seq(Nat) BY <1>7, <1>9, ConcatProperties DEF Unread
<1>11. FramesLeft \in Seq(Frame)
  <2>1. Len(got) + 1 \in Nat \ {0} /\ Len(sent) \in 0..Len(sent) BY <1>6
  <2> QED BY <1>3, <2>1, SubSeqType DEF FramesLeft
<1> QED BY <1>3, <1>4, <1>5, <1>6, <1>7, <1>9, <1>10, <1>11

LEMMA ShapeInit == ProtocolInit => Shape
<1> SUFFICES ASSUME ProtocolInit PROVE Shape OBVIOUS
<1>1. <<>> \in Seq(Unit) /\ <<>> \in Seq(Nat \X Bodies) /\ <<>> \in Seq(Nat \X Seq(Unit))
  BY EmptySeq
<1> QED BY <1>1 DEF ProtocolInit, Shape, ProtocolTypeOK, Unit

LEMMA ShapeStep == Shape /\ [ProtocolNext]_protocolVars => Shape'
<1> SUFFICES ASSUME Shape, [ProtocolNext]_protocolVars PROVE Shape'
  OBVIOUS
<1> USE DEF Shape, ProtocolTypeOK
<1>1. ASSUME NEW body \in Bodies, WriteBegins(body) PROVE Shape'
  <2> DEFINE code == Len(sent) % Modulus
  <2>1. Len(sent) \in Nat BY Plain
  <2>2. code \in Unit /\ code \in Nat
    <3> DEFINE n == Len(sent)
    <3> HIDE DEF n
    <3>1. n % Modulus \in 0..(Modulus - 1) BY <2>1, ProtocolConstants, Remainder DEF n
    <3>2. n % Modulus \in Unit BY <3>1 DEF Unit
    <3> QED BY <3>2, UnitsAreNumbers DEF n
  <2>3. body \in Seq(Unit) BY ProtocolConstants DEF Unit
  <2> HIDE DEF code
  <2>4. encode(code, body) \in Seq(Unit) BY <2>2, <2>3, EncodedType
  <2>5. Append(sent, <<code, body>>) \in Seq(Nat \X Bodies) BY <2>2, AppendProperties
  <2>6. out' = encode(code, body) /\ sent' = Append(sent, <<code, body>>)
    BY <1>1 DEF WriteBegins, code
  <2> QED BY <1>1, <2>4, <2>5, <2>6 DEF WriteBegins, Unit
<1>2. ASSUME NEW n \in 1..Room, Sends(n) PROVE Shape'
  <2>1. n \in 1..Len(out) /\ out \in Seq(Unit) /\ stream \in Seq(Unit) BY <1>2 DEF Sends, Unit
  <2>2. stream' \in Seq(Unit) /\ out' \in Seq(Unit) BY <1>2, <2>1, MovedType DEF Sends
  <2> QED BY <1>2, <2>2 DEF Sends, Unit
<1>3. ASSUME NEW n \in 1..Room, Recvs(n) PROVE Shape'
  <2>1. n \in 1..Len(stream) /\ buf \in Seq(Unit) /\ stream \in Seq(Unit)
    <3>1. Len(stream) \in Nat BY LenProperties
    <3> QED BY <1>3, <3>1 DEF Recvs, Unit
  <2>2. stream' \in Seq(Unit) /\ buf' \in Seq(Unit) BY <1>3, <2>1, MovedType DEF Recvs
  <2> QED BY <1>3, <2>2 DEF Recvs, Unit
<1>4. CASE SendFails BY <1>4 DEF SendFails
<1>5. CASE HangsUp BY <1>5 DEF HangsUp
<1>6. CASE ReadBegins
  <2>1. <<>> \in Seq(Unit) BY EmptySeq
  <2> QED BY <1>6, <2>1 DEF ReadBegins, Unit
<1>7. CASE HeaderRead
  <2>1. <<>> \in Seq(Unit) BY EmptySeq
  <2>2. reader' \in {"body", "refused"} /\ Len(header') = 2
    BY <1>7 DEF HeaderRead, HeaderSize
  <2> QED BY <1>7, <2>1, <2>2 DEF HeaderRead, Unit
<1>8. CASE BodyRead
  <2>1. Len(header) = 2 /\ header \in Seq(Unit) /\ buf \in Seq(Unit) BY <1>8 DEF BodyRead, Unit
  <2>2. header[1] \in Nat
    <3>1. 1 \in 1..Len(header) BY <2>1
    <3>2. header[1] \in Unit BY <2>1, <3>1, ElementOfSeq
    <3> QED BY <3>2, UnitsAreNumbers
  <2>3. Append(got, <<header[1], buf>>) \in Seq(Nat \X Seq(Unit))
    BY <2>1, <2>2, AppendProperties DEF Unit
  <2> QED BY <1>8, <2>3 DEF BodyRead, Unit
<1>9. CASE RecvEof BY <1>9 DEF RecvEof
<1>10. CASE RecvTimesOut BY <1>10 DEF RecvTimesOut
<1>11. CASE UNCHANGED protocolVars BY <1>11
<1> QED BY <1>1, <1>2, <1>3, <1>4, <1>5, <1>6, <1>7, <1>8, <1>9, <1>10, <1>11
        DEF ProtocolNext, Reads

\* A longer sequence begins as it did.
LEMMA Begins ==
  ASSUME NEW s \in Seq(Frame), NEW f \in Frame, NEW n \in 0..Len(s)
  PROVE  SubSeq(Append(s, f), 1, n) = SubSeq(s, 1, n)
<1> DEFINE t == Append(s, f)
<1>1. /\ t \in Seq(Frame) /\ Len(t) = Len(s) + 1 /\ Len(s) \in Nat
      /\ \A i \in 1..Len(s) : t[i] = s[i]
  BY AppendProperties, LenProperties
<1> HIDE DEF t
<1>2. n \in 0..Len(t) BY <1>1
<1> DEFINE a == SubSeq(t, 1, n)
           b == SubSeq(s, 1, n)
<1>3. /\ a \in Seq(Frame) /\ Len(a) = (IF 1 <= n THEN n - 1 + 1 ELSE 0)
      /\ \A i \in 1..(n - 1 + 1) : a[i] = t[1 + i - 1]
  BY <1>1, <1>2, SubSeqType
<1>4. /\ b \in Seq(Frame) /\ Len(b) = (IF 1 <= n THEN n - 1 + 1 ELSE 0)
      /\ \A i \in 1..(n - 1 + 1) : b[i] = s[1 + i - 1]
  BY SubSeqType
<1> HIDE DEF a, b
<1>5. \A i \in 1..n : a[i] = b[i]
  <2>1. \A i \in 1..n : i \in 1..(n - 1 + 1) /\ 1 + i - 1 \in 1..Len(s) BY <1>1
  <2> QED BY <1>1, <1>3, <1>4, <2>1
<1>6. Len(a) = n /\ Len(b) = n BY <1>3, <1>4
<1> QED BY <1>3, <1>4, <1>5, <1>6, SeqEqual DEF a, b, t

\* Nothing returned is taken back.
LEMMA MisreadStep == Shape /\ Misread /\ [ProtocolNext]_protocolVars => Misread'
<1> SUFFICES ASSUME Shape, Misread, [ProtocolNext]_protocolVars PROVE Misread'
  OBVIOUS
<1>1. PICK i \in 1..Len(sent) : /\ Overlong(sent[i]) /\ i <= Len(got)
                                /\ SubSeq(got, 1, i - 1) = SubSeq(sent, 1, i - 1)
  BY DEF Misread
<1>2. /\ sent \in Seq(Frame) /\ Len(sent) \in Nat /\ got \in Seq(Frame) /\ Len(got) \in Nat
      /\ Shape'
  BY Plain, ShapeStep
<1>3. /\ sent' \in Seq(Frame) /\ got' \in Seq(Frame) /\ Len(sent') \in Nat /\ Len(got') \in Nat
  <2>1. (Shape => /\ sent \in Seq(Frame) /\ got \in Seq(Frame)
                  /\ Len(sent) \in Nat /\ Len(got) \in Nat)'
    BY Plain, PTL
  <2> QED BY <1>2, <2>1
<1>4. (sent' = sent /\ (got' = got \/ BodyRead)) \/ (got' = got /\ \E b \in Bodies : WriteBegins(b))
  <2>1. ASSUME NEW b \in Bodies, WriteBegins(b) PROVE got' = got BY <2>1 DEF WriteBegins
  <2>2. CASE BodyRead BY <2>2 DEF BodyRead
  <2>3. ASSUME NEW n \in 1..Room, Sends(n) \/ Recvs(n) PROVE sent' = sent /\ got' = got
    BY <2>3 DEF Sends, Recvs
  <2>4. CASE SendFails \/ HangsUp \/ ReadBegins \/ RecvEof \/ RecvTimesOut \/ HeaderRead
    BY <2>4 DEF SendFails, HangsUp, ReadBegins, RecvEof, RecvTimesOut, HeaderRead
  <2>5. CASE UNCHANGED protocolVars BY <2>5
  <2> QED BY <2>1, <2>2, <2>3, <2>4, <2>5 DEF ProtocolNext, Reads
<1>5. /\ i <= Len(sent') /\ sent'[i] = sent[i]
      /\ SubSeq(sent', 1, i - 1) = SubSeq(sent, 1, i - 1)
  <2>1. CASE sent' = sent BY <1>2, <2>1
  <2>2. ASSUME NEW b \in Bodies, WriteBegins(b) 
        PROVE  /\ i <= Len(sent') /\ sent'[i] = sent[i]
               /\ SubSeq(sent', 1, i - 1) = SubSeq(sent, 1, i - 1)
    <3>1. PICK f : sent' = Append(sent, f) BY <2>2 DEF WriteBegins
    <3>2. Len(sent') = Len(sent) + 1 /\ f = sent'[Len(sent) + 1] /\ sent'[i] = sent[i]
      BY <1>2, <3>1
    <3>3. f \in Frame
      <4>1. Len(sent) + 1 \in 1..Len(sent') BY <1>2, <3>2
      <4> QED BY <1>3, <3>2, <4>1, ElementOfSeq
    <3>4. i - 1 \in 0..Len(sent) BY <1>2
    <3> QED BY <1>2, <3>1, <3>2, <3>3, <3>4, Begins
  <2> QED BY <1>4, <2>1, <2>2
<1>6. i <= Len(got') /\ SubSeq(got', 1, i - 1) = SubSeq(got, 1, i - 1)
  <2>1. CASE got' = got BY <1>1, <2>1
  <2>2. CASE BodyRead
    <3>1. PICK f : got' = Append(got, f) BY <2>2 DEF BodyRead
    <3>2. Len(got') = Len(got) + 1 /\ f = got'[Len(got) + 1] BY <1>2, <3>1
    <3>3. f \in Frame
      <4>1. Len(got) + 1 \in 1..Len(got') BY <1>2, <3>2
      <4> QED BY <1>3, <3>2, <4>1, ElementOfSeq
    <3>4. i - 1 \in 0..Len(got) /\ i <= Len(got') BY <1>1, <1>2, <3>2
    <3> QED BY <1>2, <3>1, <3>3, <3>4, Begins
  <2> QED BY <1>4, <2>1, <2>2
<1>7. i \in 1..Len(sent') BY <1>2, <1>3, <1>5
<1>8. Overlong(sent'[i]) = Overlong(sent[i]) BY <1>5 DEF Overlong
<1> QED BY <1>1, <1>5, <1>6, <1>7, <1>8 DEF Misread, Overlong

\* The units written last are the last to be read.
LEMMA WriteStep ==
  ASSUME Shape, InStep, NEW body \in Bodies, WriteBegins(body)
  PROVE  InStep'
<1> DEFINE f == <<Len(sent) % Modulus, body>>
           e == Encoded(f)
<1>1. /\ sent \in Seq(Frame) /\ Len(sent) \in Nat /\ Len(got) \in Nat
      /\ stream \in Seq(Nat) /\ Begun \in Seq(Nat) /\ FramesLeft \in Seq(Frame)
      /\ Unread \in Seq(Nat) /\ got \in Seq(Frame)
  BY Plain
<1>2. Len(got) <= Len(sent) /\ SubSeq(got, 1, Len(got)) = SubSeq(sent, 1, Len(got))
  BY DEF InStep, IsPrefix
<1>3. sent' = Append(sent, f) /\ out = <<>> /\ out' = e /\ got' = got /\ stream' = stream
      /\ reader' = reader /\ buf' = buf /\ header' = header
  BY DEF WriteBegins, Encoded
<1>4. f \in Frame
  <2> DEFINE n == Len(sent)
  <2> HIDE DEF n
  <2>1. n % Modulus \in Nat BY <1>1, ProtocolConstants, Remainder DEF n
  <2>2. body \in Seq(Nat) BY UnitsAreNumbers, ProtocolConstants DEF Unit
  <2> QED BY <2>1, <2>2 DEF Frame, n
<1>5. e \in Seq(Nat) BY <1>4, EncodedFrame
<1> HIDE DEF f, e
<1>6. /\ Len(sent') = Len(sent) + 1 /\ sent'[Len(sent) + 1] = f /\ sent' \in Seq(Frame)
      /\ \A i \in 1..Len(sent) : sent'[i] = sent[i]
  BY <1>1, <1>3, <1>4, AppendProperties
<1>7. IsPrefix(got', sent')
  <2>1. Len(got) \in 0..Len(sent) BY <1>1, <1>2
  <2>2. SubSeq(sent', 1, Len(got)) = SubSeq(sent, 1, Len(got)) BY <1>1, <1>3, <1>4, <2>1, Begins
  <2> QED BY <1>1, <1>2, <1>3, <1>6, <2>2 DEF IsPrefix
<1>8. FramesLeft' = Append(FramesLeft, f)
  <2> DEFINE k == Len(got)
             m == Len(sent)
             a == SubSeq(sent, k + 1, m)
             b == SubSeq(sent', k + 1, m + 1)
  <2>1. k + 1 \in Nat \ {0} /\ m \in 0..Len(sent) /\ m + 1 \in 0..Len(sent') /\ k <= m
    BY <1>1, <1>2, <1>6
  <2>2. /\ a \in Seq(Frame) /\ Len(a) = (IF k + 1 <= m THEN m - (k + 1) + 1 ELSE 0)
        /\ \A i \in 1..(m - (k + 1) + 1) : a[i] = sent[k + 1 + i - 1]
    BY <1>1, <2>1, SubSeqType
  <2>3. /\ b \in Seq(Frame) /\ Len(b) = (IF k + 1 <= m + 1 THEN m + 1 - (k + 1) + 1 ELSE 0)
        /\ \A i \in 1..(m + 1 - (k + 1) + 1) : b[i] = sent'[k + 1 + i - 1]
    BY <1>6, <2>1, SubSeqType
  <2>4. FramesLeft = a /\ FramesLeft' = b BY <1>3, <1>6 DEF FramesLeft
  <2>5. k \in Nat /\ m \in Nat BY <1>1
  <2>6. sent'[m + 1] = f /\ \A i \in 1..m : sent'[i] = sent[i] BY <1>6
  <2> HIDE DEF k, m, a, b
  <2>7. Len(a) = m - k /\ Len(b) = m - k + 1 BY <2>1, <2>2, <2>3, <2>5
  <2>8. \A i \in 1..(m - k) : b[i] = a[i]
    <3>1. \A i \in 1..(m - k) : /\ i \in 1..(m - (k + 1) + 1) /\ i \in 1..(m + 1 - (k + 1) + 1)
                                /\ k + 1 + i - 1 \in 1..m
      BY <2>1, <2>5
    <3> QED BY <2>2, <2>3, <2>6, <3>1
  <2>9. b[m - k + 1] = f
    <3>1. /\ m - k + 1 \in 1..(m + 1 - (k + 1) + 1) /\ k + 1 + (m - k + 1) - 1 = m + 1
      BY <2>1, <2>5
    <3> QED BY <2>3, <2>6, <3>1
  <2>10. /\ Append(a, f) \in Seq(Frame) /\ Len(Append(a, f)) = m - k + 1
         /\ \A i \in 1..(m - k) : Append(a, f)[i] = a[i]
         /\ Append(a, f)[m - k + 1] = f
    BY <1>4, <2>2, <2>7, AppendProperties
  <2>11. \A i \in 1..(m - k + 1) : b[i] = Append(a, f)[i]
    <3>1. \A i \in 1..(m - k + 1) : i = m - k + 1 \/ i \in 1..(m - k) BY <2>1, <2>5
    <3> QED BY <2>8, <2>9, <2>10, <3>1
  <2>12. b = Append(a, f) BY <2>3, <2>7, <2>10, <2>11, SeqEqual
  <2> QED BY <2>4, <2>12
<1>9. Unread' = Unread \o e
  <2>1. stream \o <<>> = stream BY <1>1, ConcatEmptySeq
  <2>2. (Begun \o stream) \o e = Begun \o (stream \o e) BY <1>1, <1>5, Associative
  <2> QED BY <1>3, <2>1, <2>2 DEF Unread, Begun
<1>10. reader' \in {"failed", "refused"} \/ InFrames(Unread', FramesLeft')
  <2>1. CASE reader \in {"failed", "refused"} BY <1>3, <2>1
  <2>2. CASE InFrames(Unread, FramesLeft)
    BY <1>1, <1>4, <1>8, <1>9, <2>2, FrameAppended DEF e
  <2> QED BY <2>1, <2>2 DEF InStep
<1>11. InFrames(Unread, FramesLeft)' = InFrames(Unread', FramesLeft') BY DEF InFrames, Encoded, encode
<1> QED BY <1>7, <1>10, <1>11 DEF InStep, IsPrefix

\* Nothing is lost or added where send() and recv() cut the stream.
LEMMA CutStep ==
  ASSUME InStep, sent' = sent, got' = got,
         \/ reader' \in {"failed", "refused"}
         \/ reader \notin {"failed", "refused"} /\ Unread' = Unread
  PROVE  InStep'
<1>1. IsPrefix(got', sent') /\ FramesLeft' = FramesLeft BY DEF InStep, FramesLeft
<1>2. reader' \in {"failed", "refused"} \/ InFrames(Unread', FramesLeft')
  BY <1>1 DEF InStep
<1> QED BY <1>1, <1>2 DEF InStep, IsPrefix, InFrames, Encoded, encode

\* What is returned is the next frame, unless its length was cut.
LEMMA BodyStep ==
  ASSUME Shape, InStep, BodyRead
  PROVE  Misread' \/ InStep'
<1> DEFINE k == Len(got)
           f == FramesLeft[1]
           e == Encoded(f)
           head == header \o buf
           rest == stream \o out
<1>1. /\ sent \in Seq(Frame) /\ Len(sent) \in Nat /\ k \in Nat /\ got \in Seq(Frame)
      /\ buf \in Seq(Nat) /\ header \in Seq(Nat) /\ rest \in Seq(Nat)
      /\ Unread \in Seq(Nat) /\ FramesLeft \in Seq(Frame)
  BY Plain
<1>2. k <= Len(sent) /\ SubSeq(got, 1, k) = SubSeq(sent, 1, k) BY DEF InStep, IsPrefix
<1>3. /\ reader = "body" /\ Len(header) = 2 /\ Len(buf) = header[2]
      /\ got' = Append(got, <<header[1], buf>>) /\ reader' = "idle"
      /\ sent' = sent /\ rest' = rest
  BY DEF BodyRead, Wanted, Shape
<1>4. Unread = head \o rest /\ Unread' = rest
  <2>1. Begun = head /\ Begun' = <<>> BY <1>3 DEF Begun
  <2>2. <<>> \o rest = rest BY <1>1, ConcatEmptySeq
  <2> HIDE DEF head, rest
  <2>3. Unread = Begun \o rest /\ Unread' = Begun' \o rest' BY DEF Unread, rest
  <2> QED BY <1>3, <2>1, <2>2, <2>3
<1>5. InFrames(Unread, FramesLeft) BY <1>3 DEF InStep
<1>6. Len(buf) \in Nat /\ Len(rest) \in Nat BY <1>1, LenProperties
<1>7. /\ head \in Seq(Nat) /\ Len(head) = 2 + Len(buf)
      /\ \A i \in 1..(2 + Len(buf)) : head[i] = IF i <= 2 THEN header[i] ELSE buf[i - 2]
  <2>1. /\ head \in Seq(Nat) /\ Len(head) = Len(header) + Len(buf)
        /\ \A i \in 1..(Len(header) + Len(buf)) :
             head[i] = IF i <= Len(header) THEN header[i] ELSE buf[i - Len(header)]
    BY <1>1, ConcatProperties
  <2> HIDE DEF head
  <2> QED BY <1>3, <2>1
<1> HIDE DEF k, head, rest, e
<1>8. /\ Len(Unread) = 2 + Len(buf) + Len(rest)
      /\ \A i \in 1..(2 + Len(buf)) : Unread[i] = head[i]
  <2>1. /\ Len(head \o rest) = Len(head) + Len(rest)
        /\ \A i \in 1..(Len(head) + Len(rest)) :
             (head \o rest)[i] = IF i <= Len(head) THEN head[i] ELSE rest[i - Len(head)]
    BY <1>1, <1>7, ConcatProperties
  <2> QED BY <1>4, <1>6, <1>7, <2>1
<1>9. Unread # <<>>
  <2>1. Len(Unread) # 0 BY <1>6, <1>8
  <2> QED BY <2>1
<1>10. /\ FramesLeft # <<>> /\ f \in Frame /\ Len(e) <= Len(Unread)
       /\ \A j \in 1..Len(e) : Unread[j] = e[j]
  BY <1>1, <1>5, <1>9, FirstFrame DEF e
<1>11. k < Len(sent) /\ f = sent[k + 1] /\ FramesLeft = SubSeq(sent, k + 1, Len(sent))
  <2>1. k + 1 \in Nat \ {0} /\ Len(sent) \in 0..Len(sent) BY <1>1
  <2>2. FramesLeft = SubSeq(sent, k + 1, Len(sent)) BY DEF FramesLeft, k
  <2>3. /\ Len(FramesLeft) = (IF k + 1 <= Len(sent) THEN Len(sent) - (k + 1) + 1 ELSE 0)
        /\ \A i \in 1..(Len(sent) - (k + 1) + 1) : FramesLeft[i] = sent[k + 1 + i - 1]
    BY <1>1, <2>1, <2>2, SubSeqType
  <2>4. Len(FramesLeft) # 0 BY <1>1, <1>10, EmptySeq
  <2>5. k < Len(sent) BY <1>1, <1>2, <2>3, <2>4
  <2>6. 1 \in 1..(Len(sent) - (k + 1) + 1) /\ k + 1 + 1 - 1 = k + 1 BY <1>1, <2>5
  <2> QED BY <2>2, <2>3, <2>5, <2>6
<1> DEFINE l == Len(f[2])
<1>12. /\ Len(e) = l + 2 /\ e[1] = f[1] /\ e[2] = l % Modulus /\ l \in Nat
       /\ \A j \in 1..l : e[j + 2] = f[2][j]
       /\ f[1] \in Nat /\ f[2] \in Seq(Nat) /\ f = <<f[1], f[2]>>
  <2>1. f[1] \in Nat /\ f[2] \in Seq(Nat) /\ f = <<f[1], f[2]>> BY <1>10 DEF Frame
  <2> QED BY <1>10, <2>1, EncodedFrame, LenProperties DEF e
<1>13. Overlong(f) <=> l >= Modulus BY DEF Overlong
<1> HIDE DEF f, l
<1>14. header[1] = f[1] /\ header[2] = l % Modulus
  <2>1. 1 \in 1..Len(e) /\ 2 \in 1..Len(e) /\ 1 \in 1..(2 + Len(buf)) /\ 2 \in 1..(2 + Len(buf))
    BY <1>6, <1>12
  <2>2. head[1] = header[1] /\ head[2] = header[2] BY <1>7, <2>1
  <2>3. Unread[1] = head[1] /\ Unread[2] = head[2] BY <1>8, <2>1
  <2>4. Unread[1] = e[1] /\ Unread[2] = e[2] BY <1>10, <2>1
  <2> QED BY <1>12, <2>2, <2>3, <2>4
<1>15. CASE Overlong(f)
  <2>1. /\ Len(got') = k + 1 /\ k + 1 \in 1..Len(sent') /\ Overlong(sent'[k + 1])
        /\ (k + 1) - 1 = k
    BY <1>1, <1>3, <1>11, <1>15 DEF k, Overlong
  <2>2. SubSeq(got', 1, k) = SubSeq(got, 1, k)
    <3> DEFINE g == <<header[1], buf>>
    <3>1. g \in Frame BY <1>1, <1>12, <1>14 DEF Frame
    <3>2. k \in 0..Len(got) BY <1>1 DEF k
    <3> QED BY <1>1, <1>3, <3>1, <3>2, Begins
  <2>3. SubSeq(got', 1, (k + 1) - 1) = SubSeq(sent', 1, (k + 1) - 1)
    BY <1>2, <1>3, <2>1, <2>2
  <2>4. \E i \in 1..Len(sent') :
          /\ Overlong(sent'[i]) /\ i <= Len(got')
          /\ SubSeq(got', 1, i - 1) = SubSeq(sent', 1, i - 1)
    <3>1. k + 1 <= Len(got') BY <1>1, <2>1
    <3> QED BY <2>1, <2>3, <3>1, Zenon
  <2>5. Misread' BY <2>4 DEF Misread, Overlong
  <2> QED BY <2>5
<1>16. CASE ~Overlong(f)
  <2>1. l % Modulus = l
    <3>1. l < Modulus BY <1>12, <1>13, <1>16, ProtocolConstants
    <3> QED BY <1>12, <3>1, ProtocolConstants, Small
  <2>2. Len(buf) = l BY <1>3, <1>14, <2>1
  <2>3. \A j \in 1..l : buf[j] = f[2][j]
    <3> SUFFICES ASSUME NEW j \in 1..l PROVE buf[j] = f[2][j] OBVIOUS
    <3>1. j + 2 \in 1..(2 + Len(buf)) /\ j + 2 \in 1..Len(e) /\ ~(j + 2 <= 2) /\ (j + 2) - 2 = j
      BY <1>12, <2>2
    <3>2. head[j + 2] = buf[j] BY <1>7, <3>1
    <3>3. Unread[j + 2] = head[j + 2] BY <1>8, <3>1
    <3>4. Unread[j + 2] = e[j + 2] BY <1>10, <3>1
    <3> QED BY <1>12, <3>2, <3>3, <3>4
  <2>4. buf = f[2] BY <1>1, <1>12, <2>2, <2>3, SeqEqual DEF l
  <2>5. got' = Append(got, f) BY <1>3, <1>12, <1>14, <2>4
  <2>6. /\ got' \in Seq(Frame) /\ Len(got') = k + 1 /\ got'[k + 1] = f
        /\ \A i \in 1..k : got'[i] = got[i]
    BY <1>1, <1>10, <2>5, AppendProperties DEF k, f
  <2>7. SubSeq(got', 1, k + 1) = SubSeq(sent, 1, k + 1)
    <3> DEFINE a == SubSeq(got', 1, k + 1)
               b == SubSeq(sent, 1, k + 1)
               c == SubSeq(got, 1, k)
               d == SubSeq(sent, 1, k)
    <3>1. k + 1 \in 0..Len(got') /\ k + 1 \in 0..Len(sent) /\ k \in 0..Len(got) /\ k \in 0..Len(sent)
      BY <1>1, <1>2, <1>11, <2>6 DEF k
    <3>2. /\ a \in Seq(Frame) /\ Len(a) = k + 1 /\ \A i \in 1..(k + 1) : a[i] = got'[i]
          /\ b \in Seq(Frame) /\ Len(b) = k + 1 /\ \A i \in 1..(k + 1) : b[i] = sent[i]
      <4>1. \A i \in 1..(k + 1) : 1 + i - 1 = i /\ i \in 1..(k + 1 - 1 + 1) BY <1>1
      <4>2. 1 <= k + 1 /\ (k + 1) - 1 + 1 = k + 1 BY <1>1
      <4>3. /\ a \in Seq(Frame) /\ Len(a) = (IF 1 <= k + 1 THEN k + 1 - 1 + 1 ELSE 0)
            /\ \A i \in 1..(k + 1 - 1 + 1) : a[i] = got'[1 + i - 1]
        BY <2>6, <3>1, SubSeqType
      <4>4. /\ b \in Seq(Frame) /\ Len(b) = (IF 1 <= k + 1 THEN k + 1 - 1 + 1 ELSE 0)
            /\ \A i \in 1..(k + 1 - 1 + 1) : b[i] = sent[1 + i - 1]
        BY <1>1, <3>1, SubSeqType
      <4> HIDE DEF a, b
      <4>5. \A i \in 1..(k + 1) : a[i] = got'[i] BY <4>1, <4>3
      <4>6. \A i \in 1..(k + 1) : b[i] = sent[i] BY <4>1, <4>4
      <4>7. Len(a) = k + 1 BY <1>1, <4>2, <4>3
      <4>8. Len(b) = k + 1 BY <1>1, <4>2, <4>4
      <4> QED BY <4>3, <4>4, <4>5, <4>6, <4>7, <4>8, Zenon
    <3>3. /\ \A i \in 1..(k - 1 + 1) : c[i] = got[1 + i - 1]
          /\ \A i \in 1..(k - 1 + 1) : d[i] = sent[1 + i - 1]
      BY <1>1, <3>1, SubSeqType
    <3>4. c = d BY <1>2
    <3> HIDE DEF a, b, c, d
    <3>5. \A i \in 1..k : got[i] = sent[i]
      <4>1. \A i \in 1..k : 1 + i - 1 = i /\ i \in 1..(k - 1 + 1) BY <1>1
      <4> QED BY <3>3, <3>4, <4>1
    <3>6. \A i \in 1..(k + 1) : a[i] = b[i]
      <4>1. \A i \in 1..(k + 1) : i = k + 1 \/ i \in 1..k BY <1>1
      <4> QED BY <1>11, <2>6, <3>2, <3>5, <4>1
    <3>7. a = b BY <3>2, <3>6, SeqEqual
    <3> QED BY <3>7 DEF a, b
  <2>8. IsPrefix(got', sent')
    <3>1. Len(got') = k + 1 /\ k + 1 <= Len(sent) /\ sent' = sent BY <1>1, <1>3, <1>11, <2>6
    <3> QED BY <2>7, <3>1 DEF IsPrefix
  <2>9. InFrames(rest, Tail(FramesLeft))
    <3>1. InFrames(head \o rest, FramesLeft) BY <1>4, <1>5
    <3>2. Len(head) = Len(Encoded(FramesLeft[1])) BY <1>7, <1>12, <2>2, <1>6 DEF e, f
    <3> QED BY <1>1, <1>7, <1>10, <3>1, <3>2, FrameRemoved
  <2>10. FramesLeft' = Tail(FramesLeft)
    <3>1. FramesLeft' = SubSeq(sent, k + 2, Len(sent))
      <4>1. Len(got') + 1 = k + 2 BY <1>1, <2>6
      <4> QED BY <1>3, <4>1 DEF FramesLeft
    <3>2. k + 1 \in 1..Len(sent) /\ Len(sent) \in (k + 1)..Len(sent) /\ (k + 1) + 1 = k + 2
      BY <1>1, <1>11
    <3>3. Tail(SubSeq(sent, k + 1, Len(sent))) = SubSeq(sent, (k + 1) + 1, Len(sent))
      BY <1>1, <3>2, HeadTailOfSubSeq
    <3> QED BY <1>11, <3>1, <3>2, <3>3
  <2>11. InFrames(Unread', FramesLeft') BY <1>4, <2>9, <2>10
  <2>12. InFrames(Unread', FramesLeft') = InFrames(Unread, FramesLeft)'
    BY DEF InFrames, Encoded, encode
  <2>13. InStep' BY <2>8, <2>11, <2>12 DEF InStep, IsPrefix
  <2> QED BY <2>13
<1> QED BY <1>15, <1>16

LEMMA InStepStep ==
  ASSUME Shape, InStep, [ProtocolNext]_protocolVars
  PROVE  Misread' \/ InStep'
<1>1. ASSUME NEW body \in Bodies, WriteBegins(body) PROVE InStep' BY <1>1, WriteStep
<1>2. ASSUME NEW n \in 1..Room, Sends(n) PROVE InStep'
  <2>1. n \in 1..Len(out) /\ out \in Seq(Nat) /\ stream \in Seq(Nat) BY <1>2, Plain DEF Sends
  <2>2. stream' \o out' = stream \o out BY <1>2, <2>1, Moved DEF Sends
  <2>3. sent' = sent /\ got' = got /\ reader' = reader /\ Begun' = Begun
    BY <1>2 DEF Sends, Begun
  <2>4. Unread' = Unread BY <2>2, <2>3 DEF Unread
  <2> QED BY <2>3, <2>4, CutStep
<1>3. ASSUME NEW n \in 1..Room, Recvs(n) PROVE InStep'
  <2> DEFINE u == SubSeq(stream, 1, n)
             v == SubSeq(stream, n + 1, Len(stream))
  <2>1. /\ out \in Seq(Nat) /\ stream \in Seq(Nat) /\ buf \in Seq(Nat) /\ header \in Seq(Nat)
        /\ Begun \in Seq(Nat)
    BY Plain
  <2>2. n \in 1..Len(stream)
    <3>1. Len(stream) \in Nat BY <2>1, LenProperties
    <3> QED BY <1>3, <3>1 DEF Recvs
  <2>3. u \in Seq(Nat) /\ v \in Seq(Nat) BY <2>1, <2>2, MovedType
  <2>4. /\ sent' = sent /\ got' = got /\ reader' = reader /\ reader \in {"header", "body"}
        /\ buf' = buf \o u /\ stream' = v /\ header' = header /\ out' = out
    BY <1>3 DEF Recvs
  <2>5. SubSeq(stream, 1, Len(stream)) = stream /\ u \o v = SubSeq(stream, 1, Len(stream))
    <3>1. Len(stream) \in Nat BY <2>1, LenProperties
    <3> QED BY <2>1, <2>2, <3>1, SubSeqFull, ConcatAdjacentSubSeq
  <2> HIDE DEF u, v
  <2>6. Begun' = Begun \o u
    <3>1. CASE reader = "header" BY <2>4, <3>1 DEF Begun
    <3>2. CASE reader = "body"
      <4>0. header \in Seq(Nat) /\ buf \in Seq(Nat) /\ u \in Seq(Nat) BY <2>1, <2>3
      <4>1. (header \o buf) \o u = header \o (buf \o u) BY <4>0, Associative, SMTT(30)
      <4> QED BY <2>4, <3>2, <4>1 DEF Begun
    <3> QED BY <2>4, <3>1, <3>2
  <2>7. v \o out \in Seq(Nat) BY <2>1, <2>3, ConcatProperties
  <2>8. (Begun \o u) \o (v \o out) = Begun \o (u \o (v \o out))
    <3> DEFINE t == v \o out
    <3> HIDE DEF t
    <3>1. Begun \in Seq(Nat) /\ u \in Seq(Nat) /\ t \in Seq(Nat) BY <2>1, <2>3, <2>7 DEF t
    <3>2. (Begun \o u) \o t = Begun \o (u \o t) BY <3>1, Associative, SMTT(30)
    <3> QED BY <3>2 DEF t
  <2>9. (u \o v) \o out = u \o (v \o out)
    <3>1. u \in Seq(Nat) /\ v \in Seq(Nat) /\ out \in Seq(Nat) BY <2>1, <2>3
    <3> QED BY <3>1, Associative
  <2>10. Unread' = Unread BY <2>4, <2>5, <2>6, <2>8, <2>9 DEF Unread
  <2> QED BY <2>4, <2>10, CutStep
<1>4. CASE SendFails \/ HangsUp
  <2>1. sent' = sent /\ got' = got /\ reader' = reader /\ Unread' = Unread
    BY <1>4 DEF SendFails, HangsUp, Unread, Begun
  <2> QED BY <2>1, CutStep
<1>5. CASE RecvEof \/ RecvTimesOut
  <2>1. sent' = sent /\ got' = got /\ reader' = "failed" BY <1>5 DEF RecvEof, RecvTimesOut
  <2> QED BY <2>1, CutStep
<1>6. CASE ReadBegins
  <2>1. sent' = sent /\ got' = got /\ reader = "idle" /\ Unread' = Unread
    BY <1>6 DEF ReadBegins, Unread, Begun
  <2> QED BY <2>1, CutStep
<1>7. CASE HeaderRead
  <2>1. sent' = sent /\ got' = got /\ reader = "header" /\ reader' \in {"body", "refused"}
        /\ stream' = stream /\ out' = out
    BY <1>7 DEF HeaderRead
  <2>2. buf \in Seq(Nat) /\ buf \o <<>> = buf BY Plain, ConcatEmptySeq
  <2>3. reader' = "body" => Begun' = Begun BY <1>7, <2>2 DEF HeaderRead, Begun
  <2>4. reader' = "body" => Unread' = Unread BY <2>1, <2>3 DEF Unread
  <2> QED BY <2>1, <2>4, CutStep
<1>8. CASE BodyRead BY <1>8, BodyStep
<1>9. CASE UNCHANGED protocolVars
  <2>1. sent' = sent /\ got' = got /\ reader' = reader /\ Unread' = Unread
    BY <1>9 DEF Unread, Begun
  <2> QED BY <2>1, CutStep
<1> QED BY <1>1, <1>2, <1>3, <1>4, <1>5, <1>6, <1>7, <1>8, <1>9 DEF ProtocolNext, Reads

LEMMA FrameInvInit == ProtocolInit => FrameInv
<1> SUFFICES ASSUME ProtocolInit PROVE FrameInv OBVIOUS
<1>1. Shape BY ShapeInit
<1>2. got = <<>> /\ sent = <<>> /\ Unread = <<>> /\ FramesLeft = <<>>
  <2>1. <<>> \in Seq(Nat) BY EmptySeq
  <2>2. <<>> \o (<<>> \o <<>>) = <<>> BY <2>1, ConcatEmptySeq
  <2>3. SubSeq(<<>>, 0 + 1, 0) = <<>> BY SubSeqEmpty
  <2> QED BY <2>2, <2>3 DEF ProtocolInit, Unread, Begun, FramesLeft
<1>3. IsPrefix(got, sent) BY <1>2 DEF IsPrefix
<1> QED BY <1>1, <1>2, <1>3, NoFrames DEF FrameInv, Shape, InStep

LEMMA FrameInvStep == FrameInv /\ [ProtocolNext]_protocolVars => FrameInv'
BY ShapeStep, MisreadStep, InStepStep DEF FrameInv, Shape

LEMMA FrameInvInvariant == ProtocolSpec => []FrameInv
BY FrameInvInit, FrameInvStep, PTL DEF ProtocolSpec

\* Every unit on the stream and every frame is what its variable stands for.
THEOREM FramesTyped == ProtocolSpec => []ProtocolTypeOK
<1>1. FrameInv => ProtocolTypeOK BY DEF FrameInv
<1> QED BY <1>1, FrameInvInvariant, PTL

\* However send() and recv() cut the stream and wherever it breaks off, the
\* frames readRequest, readResponse or readEvent returned are those written,
\* whole and in order, up to the first whose length is cut by encode
\* (ipc_protocol.cpp:19).
THEOREM FramesStayInSync == ProtocolSpec => []FramesInSync
<1>1. FrameInv => FramesInSync BY DEF FrameInv, FramesInSync, InStep, Misread
<1> QED BY <1>1, FrameInvInvariant, PTL
-----------------------------------------------------------------------------
(* The buffer of the hash                                                  *)

USE DEF hashVars

Cell == Nat \cup {Stale, One, Zero} \cup ({"length"} \X Nat \X (1..Length))

\* Before finalize() the blocks and the buffer hold the message so far, and the
\* buffer is not full.
Buffered ==
  /\ len < Block /\ bytes = Len(state) + len
  /\ \E q \in Nat : Len(state) = q * Block
  /\ \A i \in 1..Len(state) : state[i] = i
  /\ \A i \in 1..len : buffer[i] = Len(state) + i

HashInv == HashTypeOK /\ (digest = <<>> => Buffered) /\ DigestOfMessage

LEMMA Cells ==
  /\ Nat \subseteq Cell /\ Stale \in Cell /\ One \in Cell /\ Zero \in Cell
  /\ \A n \in Nat, i \in 1..Length : LengthByte(n, i) \in Cell
BY DEF Cell, LengthByte

LEMMA HashTypes ==
  HashTypeOK <=> /\ state \in Seq(Cell) /\ buffer \in [1..Block -> Cell]
                 /\ len \in 0..Block /\ bytes \in Nat /\ digest \in Seq(Cell)
BY DEF HashTypeOK, Cell

LEMMA Distributes ==
  ASSUME NEW a \in Nat, NEW b \in Nat, NEW c \in Nat
  PROVE  (a + b) * c = a * c + b * c
OBVIOUS

LEMMA Division ==
  ASSUME NEW n \in Nat, NEW m \in Nat \ {0}
  PROVE  /\ n \div m \in Nat /\ (n \div m) * m \in Nat
         /\ (n \div m) * m <= n /\ n - (n \div m) * m < m
OBVIOUS

LEMMA Multiple ==
  ASSUME NEW q \in Nat, NEW m \in Nat \ {0}
  PROVE  (q * m) % m = 0
OBVIOUS

LEMMA Divides ==
  ASSUME NEW n \in Nat, NEW m \in Nat \ {0}, n % m = 0
  PROVE  n = (n \div m) * m /\ n \div m \in Nat
OBVIOUS

LEMMA FewerMultiples ==
  ASSUME NEW a \in Nat, NEW b \in Nat, NEW m \in Nat \ {0}, a * m < b * m + m
  PROVE  a <= b
<1> SUFFICES ASSUME a >= b + 1 PROVE FALSE OBVIOUS
<1>1. PICK c \in Nat : a = b + 1 + c
  <2>1. a - b - 1 \in Nat OBVIOUS
  <2> QED BY <2>1
<1>2. a * m = b * m + m + c * m BY <1>1
<1>3. c * m \in Nat OBVIOUS
<1> QED BY <1>2, <1>3

\* Two numbers less than m apart are not both divisible by m.
LEMMA OneMultiple ==
  ASSUME NEW x \in Nat, NEW y \in Nat, NEW m \in Nat \ {0},
         x % m = 0, y % m = 0, x < y + m, y < x + m
  PROVE  x = y
<1> DEFINE a == x \div m
           b == y \div m
<1>1. x = a * m /\ a \in Nat /\ y = b * m /\ b \in Nat BY Divides
<1> HIDE DEF a, b
<1>2. a <= b /\ b <= a BY <1>1, FewerMultiples
<1> QED BY <1>1, <1>2

LEMMA Blocks ==
  ASSUME NEW q \in Nat, NEW w \in Nat, NEW n \in {0, Block}
  PROVE  \E r \in Nat : q * Block + n + w * Block = r * Block
<1>1. Block \in Nat BY HashConstants
<1>2. CASE n = 0
  <2>1. (q + w) * Block = q * Block + w * Block BY <1>1, Distributes
  <2>2. q * Block \in Nat /\ w * Block \in Nat /\ q + w \in Nat BY <1>1
  <2> QED BY <1>2, <2>1, <2>2
<1>3. CASE n = Block
  <2>1. (q + 1) * Block = q * Block + 1 * Block BY <1>1, Distributes
  <2>2. ((q + 1) + w) * Block = (q + 1) * Block + w * Block BY <1>1, Distributes
  <2>3. q * Block \in Nat /\ w * Block \in Nat /\ q + 1 + w \in Nat /\ 1 * Block = Block BY <1>1
  <2> QED BY <1>1, <1>3, <2>1, <2>2, <2>3
<1> QED BY <1>2, <1>3

LEMMA HashInvInit == HashInit => HashInv
<1> SUFFICES ASSUME HashInit PROVE HashInv OBVIOUS
<1>1. /\ state = <<>> /\ len = 0 /\ bytes = 0 /\ digest = <<>>
      /\ buffer = [i \in 1..Block |-> Stale]
  BY DEF HashInit
<1>2. <<>> \in Seq(Cell) BY EmptySeq
<1>3. HashTypeOK BY <1>1, <1>2, Cells, HashTypes, HashConstants
<1>4. Buffered
  <2>1. 0 = 0 * Block /\ 0 < Block BY HashConstants
  <2> QED BY <1>1, <2>1 DEF Buffered
<1> QED BY <1>1, <1>3, <1>4 DEF HashInv, DigestOfMessage

LEMMA UpdatesStep ==
  ASSUME HashInv, NEW n \in Chunks, Updates(n)
  PROVE  HashInv'
<1> DEFINE d == [i \in 1..n |-> bytes + i]
           base == Len(state)
           take == IF len > 0 THEN Least(Len(d), Block - len) ELSE 0
           full == len > 0 /\ len + take = Block
           filled == Copy(len, SubSeq(d, 1, take))
           left == SubSeq(d, take + 1, Len(d))
           whole == (Len(left) \div Block) * Block
           w == Len(left) \div Block
           rest == SubSeq(left, whole + 1, Len(left))
           mid == IF full THEN filled ELSE <<>>
           front == SubSeq(left, 1, whole)
<1>1. /\ n \in Nat /\ Block \in Nat \ {0} /\ digest = <<>> /\ digest' = digest
      /\ bytes' = bytes + Len(d)
      /\ state' = (state \o mid) \o front
      /\ buffer' = [i \in 1..Block |-> IF i <= Len(rest) THEN rest[i] ELSE filled[i]]
      /\ len' = IF rest # <<>> THEN Len(rest) ELSE IF full THEN 0 ELSE len + take
  <2>1. n \in Nat /\ Block \in Nat \ {0} BY HashConstants
  <2>2. digest = <<>> /\ update(d) BY DEF Updates
  <2> HIDE DEF d
  <2>3. /\ digest' = digest /\ bytes' = bytes + Len(d)
        /\ state' = (state \o mid) \o front
    BY <2>2 DEF update
  <2>4. buffer' = [i \in 1..Block |-> IF i <= Len(rest) THEN rest[i] ELSE filled[i]]
    BY <2>2 DEF update
  <2>5. len' = IF rest # <<>> THEN Len(rest) ELSE IF full THEN 0 ELSE len + take
    BY <2>2 DEF update
  <2> QED BY <2>1, <2>2, <2>3, <2>4, <2>5
<1>2. /\ state \in Seq(Cell) /\ buffer \in [1..Block -> Cell] /\ len \in Nat /\ bytes \in Nat
      /\ len < Block /\ bytes = base + len
      /\ \A i \in 1..base : state[i] = i
      /\ \A i \in 1..len : buffer[i] = base + i
      /\ digest \in Seq(Cell)
  <2>1. HashTypeOK /\ Buffered BY <1>1 DEF HashInv
  <2>2. /\ state \in Seq(Cell) /\ buffer \in [1..Block -> Cell] /\ len \in 0..Block
        /\ bytes \in Nat /\ digest \in Seq(Cell)
    BY <2>1, HashTypes
  <2>3. /\ len < Block /\ bytes = base + len
        /\ \A i \in 1..base : state[i] = i
        /\ \A i \in 1..len : buffer[i] = base + i
    BY <2>1 DEF Buffered
  <2>4. len \in Nat
    <3>1. Block \in Nat BY <1>1
    <3> QED BY <2>2, <3>1
  <2> QED BY <2>2, <2>3, <2>4, Zenon
<1>3. PICK q \in Nat : base = q * Block BY <1>1 DEF HashInv, Buffered
<1>4. base \in Nat BY <1>2, LenProperties
<1> HIDE DEF base
<1>5. d \in Seq(Nat) /\ Len(d) = n /\ \A i \in 1..n : d[i] = bytes + i
  <2>0. n \in Nat /\ bytes \in Nat
    <3> HIDE DEF d
    <3> QED BY <1>1, <1>2
  <2>1. n \in Nat /\ \A i \in 1..n : bytes + i \in Nat BY <2>0
  <2> QED BY <2>1
<1> HIDE DEF d
<1>6. /\ take \in 0..n /\ len + take <= Block
      /\ len = 0 => take = 0
      /\ len > 0 /\ ~full => take = n
  <2>1. /\ n \in Nat /\ len \in Nat /\ Block \in Nat /\ len < Block /\ Len(d) = n
    BY <1>1, <1>2, <1>5
  <2>2. take = IF len > 0 THEN Least(n, Block - len) ELSE 0 BY <2>1
  <2> HIDE DEF take
  <2>3. CASE len = 0 BY <2>1, <2>2, <2>3
  <2>4. CASE len > 0 /\ n < Block - len BY <2>1, <2>2, <2>4 DEF Least
  <2>5. CASE len > 0 /\ ~(n < Block - len) BY <2>1, <2>2, <2>5 DEF Least
  <2> QED BY <2>1, <2>3, <2>4, <2>5
<1>7. full <=> len > 0 /\ len + take = Block OBVIOUS
<1> DEFINE taken == SubSeq(d, 1, take)
<1> HIDE DEF take, full
<1>8. Len(taken) = take /\ \A i \in 1..take : taken[i] = bytes + i
  <2>1. 1 \in Nat \ {0} /\ take \in 0..Len(d) BY <1>5, <1>6
  <2>2. /\ Len(SubSeq(d, 1, take)) = (IF 1 <= take THEN take - 1 + 1 ELSE 0)
        /\ \A i \in 1..(take - 1 + 1) : SubSeq(d, 1, take)[i] = d[1 + i - 1]
    BY <1>5, <2>1, SubSeqType
  <2>3. \A i \in 1..take : 1 + i - 1 = i /\ i \in 1..(take - 1 + 1) /\ i \in 1..n BY <1>1, <1>6
  <2>4. take \in Nat BY <1>6
  <2> HIDE DEF taken
  <2>5. Len(taken) = take BY <2>2, <2>4 DEF taken
  <2>6. \A i \in 1..take : taken[i] = bytes + i BY <1>5, <2>2, <2>3 DEF taken
  <2> QED BY <2>5, <2>6
<1>9. filled = [i \in 1..Block |-> IF i > len /\ i <= len + Len(taken) THEN taken[i - len]
                                  ELSE buffer[i]]
  BY DEF Copy
<1> HIDE DEF taken, filled
<1>10. /\ filled \in [1..Block -> Cell] /\ \A i \in 1..(len + take) : filled[i] = base + i
  <2>1. ASSUME NEW i \in 1..Block PROVE filled[i] \in Cell
    <3>1. CASE i > len /\ i <= len + Len(taken)
      <4>1. i - len \in 1..take /\ bytes + (i - len) \in Nat BY <1>2, <1>6, <1>8, <3>1
      <4>2. filled[i] = taken[i - len] BY <1>9, <3>1
      <4>3. taken[i - len] = bytes + (i - len) BY <1>8, <4>1
      <4> QED BY <4>1, <4>2, <4>3, Cells
    <3>2. CASE ~(i > len /\ i <= len + Len(taken))
      <4>1. filled[i] = buffer[i] BY <1>9, <3>2
      <4> QED BY <1>2, <4>1
    <3> QED BY <3>1, <3>2
  <2>2. ASSUME NEW i \in 1..(len + take) PROVE filled[i] = base + i
    <3>0. i \in 1..Block BY <1>1, <1>2, <1>6
    <3>1. CASE i > len
      <4>1. i - len \in 1..take /\ bytes + (i - len) = base + i /\ i <= len + Len(taken)
        BY <1>2, <1>4, <1>6, <1>8, <3>1
      <4>2. filled[i] = taken[i - len] BY <1>9, <3>0, <3>1, <4>1
      <4>3. taken[i - len] = bytes + (i - len) BY <1>8, <4>1
      <4> QED BY <4>1, <4>2, <4>3
    <3>2. CASE ~(i > len)
      <4>1. filled[i] = buffer[i] BY <1>9, <3>0, <3>2
      <4>2. i \in 1..len BY <1>2, <1>6, <3>2
      <4> QED BY <1>2, <4>1, <4>2
    <3> QED BY <3>1, <3>2
  <2>3. filled = [i \in 1..Block |-> filled[i]] BY <1>9
  <2> QED BY <2>1, <2>2, <2>3
<1>11. /\ left \in Seq(Nat) /\ Len(left) = n - take
       /\ \A i \in 1..(n - take) : left[i] = bytes + take + i
  <2>1. take + 1 \in Nat \ {0} /\ n \in 0..Len(d) /\ take \in Nat /\ take <= n BY <1>1, <1>5, <1>6
  <2>2. left = SubSeq(d, take + 1, n) BY <1>5
  <2>3. /\ SubSeq(d, take + 1, n) \in Seq(Nat)
        /\ Len(SubSeq(d, take + 1, n)) = (IF take + 1 <= n THEN n - (take + 1) + 1 ELSE 0)
        /\ \A i \in 1..(n - (take + 1) + 1) : SubSeq(d, take + 1, n)[i] = d[take + 1 + i - 1]
    BY <1>5, <2>1, SubSeqType
  <2>4. \A i \in 1..(n - take) : /\ take + 1 + i - 1 = take + i /\ take + i \in 1..n
                                 /\ i \in 1..(n - (take + 1) + 1)
                                 /\ bytes + (take + i) = bytes + take + i
    BY <1>1, <1>2, <2>1
  <2> HIDE DEF left
  <2>5. Len(left) = n - take BY <1>1, <2>1, <2>2, <2>3
  <2>6. \A i \in 1..(n - take) : left[i] = bytes + take + i BY <1>5, <2>2, <2>3, <2>4
  <2> QED BY <2>2, <2>3, <2>5, <2>6
<1> HIDE DEF left
<1>12. /\ w \in Nat /\ whole = w * Block /\ whole \in Nat /\ whole <= Len(left)
       /\ Len(left) - whole < Block /\ Len(left) \in Nat
  <2>1. Len(left) \in Nat BY <1>11, LenProperties
  <2> DEFINE l == Len(left)
  <2> HIDE DEF l
  <2>2. /\ l \div Block \in Nat /\ (l \div Block) * Block \in Nat
        /\ (l \div Block) * Block <= l /\ l - (l \div Block) * Block < Block
    BY <1>1, <2>1, Division DEF l
  <2> QED BY <2>1, <2>2 DEF l
<1> HIDE DEF w, whole
<1>13. /\ front \in Seq(Nat) /\ Len(front) = whole
       /\ \A i \in 1..whole : front[i] = bytes + take + i
  <2>1. 1 \in Nat \ {0} /\ whole \in 0..Len(left) BY <1>12
  <2>2. /\ front \in Seq(Nat) /\ Len(front) = (IF 1 <= whole THEN whole - 1 + 1 ELSE 0)
        /\ \A i \in 1..(whole - 1 + 1) : front[i] = left[1 + i - 1]
    BY <1>11, <2>1, SubSeqType
  <2> HIDE DEF front
  <2>3. \A i \in 1..whole : 1 + i - 1 = i /\ i \in 1..(whole - 1 + 1) /\ i \in 1..(n - take)
    BY <1>11, <1>12
  <2> QED BY <1>11, <1>12, <2>2, <2>3
<1>14. /\ rest \in Seq(Nat) /\ Len(rest) = Len(left) - whole
       /\ \A i \in 1..Len(rest) : rest[i] = bytes + take + whole + i
  <2>1. whole + 1 \in Nat \ {0} /\ Len(left) \in 0..Len(left) BY <1>12
  <2>2. /\ rest \in Seq(Nat)
        /\ Len(rest) = (IF whole + 1 <= Len(left) THEN Len(left) - (whole + 1) + 1 ELSE 0)
        /\ \A i \in 1..(Len(left) - (whole + 1) + 1) : rest[i] = left[whole + 1 + i - 1]
    <3> DEFINE l == Len(left)
    <3>1. whole + 1 \in Nat \ {0} /\ l \in 0..Len(left) /\ left \in Seq(Nat) BY <1>11, <2>1
    <3> HIDE DEF l
    <3>2. /\ SubSeq(left, whole + 1, l) \in Seq(Nat)
          /\ Len(SubSeq(left, whole + 1, l)) = (IF whole + 1 <= l THEN l - (whole + 1) + 1 ELSE 0)
          /\ \A i \in 1..(l - (whole + 1) + 1) :
               SubSeq(left, whole + 1, l)[i] = left[whole + 1 + i - 1]
      BY <3>1, SubSeqType, SMTT(30)
    <3> QED BY <3>2 DEF l
  <2> HIDE DEF rest
  <2>3. Len(rest) = Len(left) - whole BY <1>12, <2>2
  <2> DEFINE l == Len(left)
  <2>4. l \in Nat /\ l = n - take /\ n \in Nat /\ take \in Nat /\ whole \in Nat /\ bytes \in Nat
    BY <1>1, <1>2, <1>6, <1>11, <1>12
  <2>5. ASSUME NEW i \in 1..Len(rest) PROVE rest[i] = bytes + take + whole + i
    <3> HIDE DEF l
    <3>1. i \in 1..(l - whole) BY <2>3 DEF l
    <3>2. /\ i \in 1..(l - (whole + 1) + 1) /\ whole + 1 + i - 1 = whole + i
          /\ whole + i \in 1..(n - take)
      BY <2>4, <3>1
    <3>3. rest[i] = left[whole + i] BY <2>2, <3>2 DEF l
    <3>4. left[whole + i] = bytes + take + (whole + i) BY <1>11, <3>2
    <3> QED BY <2>4, <3>1, <3>3, <3>4
  <2> QED BY <2>2, <2>3, <2>5
<1>15. /\ mid \in Seq(Cell) /\ (full => Len(mid) = Block) /\ (~full => Len(mid) = 0)
       /\ \A i \in 1..Len(mid) : mid[i] = base + i
  <2>1. CASE full
    <3>1. mid = filled /\ len + take = Block BY <1>7, <2>1
    <3>2. filled \in Seq(Cell) /\ Len(filled) = Block BY <1>1, <1>10
    <3> QED BY <1>10, <2>1, <3>1, <3>2
  <2>2. CASE ~full
    <3>1. mid = <<>> BY <2>2
    <3> QED BY <2>2, <3>1
  <2> QED BY <2>1, <2>2
<1> HIDE DEF front, rest, mid
<1> DEFINE m == Len(mid)
<1>16. m \in {0, Block} /\ m \in Nat BY <1>1, <1>15
<1>17. Len(left) > 0 => bytes + take = base + m
  <2> SUFFICES ASSUME Len(left) > 0 PROVE bytes + take = base + m OBVIOUS
  <2>1. CASE len = 0
    <3>1. take = 0 /\ ~full BY <1>6, <1>7, <2>1
    <3> QED BY <1>2, <1>4, <1>15, <2>1, <3>1
  <2>2. CASE len > 0
    <3>1. full BY <1>1, <1>6, <1>11, <2>2
    <3> QED BY <1>2, <1>4, <1>7, <1>15, <3>1, <1>6
  <2> QED BY <1>2, <2>1, <2>2
<1>18. /\ state' \in Seq(Cell) /\ Len(state') = base + m + whole
       /\ \A i \in 1..(base + m + whole) : state'[i] = i
  <2> DEFINE sm == state \o mid
  <2>1. /\ sm \in Seq(Cell) /\ Len(sm) = base + m
        /\ \A i \in 1..(base + m) : sm[i] = IF i <= base THEN state[i] ELSE mid[i - base]
    BY <1>2, <1>15, ConcatProperties DEF base
  <2> HIDE DEF sm
  <2>2. front \in Seq(Cell) BY <1>13, Cells, SeqMonotonic
  <2>3. /\ sm \o front \in Seq(Cell) /\ Len(sm \o front) = Len(sm) + Len(front)
        /\ \A i \in 1..(Len(sm) + Len(front)) :
             (sm \o front)[i] = IF i <= Len(sm) THEN sm[i] ELSE front[i - Len(sm)]
    BY <2>1, <2>2, ConcatProperties
  <2>4. state' = sm \o front BY <1>1 DEF sm
  <2>5. ASSUME NEW i \in 1..(base + m + whole) PROVE state'[i] = i
    <3>1. CASE i <= base
      <4>1. i \in 1..base /\ i \in 1..(base + m) /\ i <= base + m BY <1>4, <1>12, <1>16, <3>1
      <4>2. i \in 1..(Len(sm) + Len(front)) /\ i <= Len(sm)
        BY <1>13, <2>1, <1>12, <1>16, <4>1, <1>4
      <4>3. state'[i] = sm[i] BY <2>3, <2>4, <4>2
      <4>4. sm[i] = state[i] BY <2>1, <4>1
      <4> QED BY <1>2, <4>1, <4>3, <4>4
    <3>2. CASE base < i /\ i <= base + m
      <4>1. /\ i \in 1..(base + m) /\ ~(i <= base) /\ i - base \in 1..m
            /\ base + (i - base) = i
        BY <1>4, <1>16, <3>2
      <4>2. state'[i] = sm[i] BY <1>13, <2>1, <2>3, <2>4, <3>2
      <4>3. sm[i] = mid[i - base] BY <2>1, <4>1
      <4>4. mid[i - base] = base + (i - base) BY <1>15, <4>1
      <4> QED BY <4>1, <4>2, <4>3, <4>4
    <3>3. CASE base + m < i
      <4>1. /\ ~(i <= base + m) /\ i - (base + m) \in 1..whole
            /\ Len(left) > 0
        BY <1>4, <1>12, <1>16, <3>3
      <4>2. state'[i] = front[i - (base + m)] BY <1>13, <2>1, <2>3, <2>4, <4>1
      <4>3. front[i - (base + m)] = bytes + take + (i - (base + m)) BY <1>13, <4>1
      <4>4. bytes + take = base + m BY <1>17, <4>1
      <4> QED BY <1>4, <1>16, <4>2, <4>3, <4>4
    <3> QED BY <1>4, <1>16, <3>1, <3>2, <3>3
  <2> QED BY <1>13, <2>1, <2>3, <2>4, <2>5
<1>19. \E r \in Nat : base + m + whole = r * Block
  <2> HIDE DEF m
  <2>1. \E r \in Nat : q * Block + m + w * Block = r * Block BY <1>12, <1>16, Blocks
  <2> QED BY <1>3, <1>12, <2>1
<1>20. /\ buffer' \in [1..Block -> Cell] /\ len' \in 0..Block /\ len' < Block /\ bytes' \in Nat
  <2>1. ASSUME NEW i \in 1..Block
        PROVE  (IF i <= Len(rest) THEN rest[i] ELSE filled[i]) \in Cell
    <3>1. CASE i <= Len(rest)
      <4>1. i \in 1..Len(rest) BY <1>12, <1>14, <3>1
      <4>2. rest[i] \in Nat BY <1>14, <4>1, ElementOfSeq
      <4> QED BY <3>1, <4>2, Cells
    <3>2. CASE ~(i <= Len(rest)) BY <1>10, <3>2
    <3> QED BY <3>1, <3>2
  <2>2. buffer' \in [1..Block -> Cell] BY <1>1, <2>1
  <2>3. Len(rest) \in Nat /\ Len(rest) < Block BY <1>12, <1>14
  <2>4. ~full => len + take < Block BY <1>1, <1>2, <1>6, <1>7
  <2>5. len' \in 0..Block /\ len' < Block BY <1>1, <1>2, <1>6, <2>3, <2>4
  <2>6. bytes' \in Nat BY <1>1, <1>2, <1>5
  <2> QED BY <2>2, <2>5, <2>6
<1>21. bytes' = Len(state') + len' /\ \A i \in 1..len' : buffer'[i] = Len(state') + i
  <2>0. /\ bytes' = bytes + n /\ bytes = base + len /\ Len(state') = base + m + whole
        /\ Len(left) = n - take /\ Len(rest) = Len(left) - whole /\ bytes \in Nat
        /\ base \in Nat /\ len \in Nat /\ n \in Nat /\ take \in Nat /\ whole \in Nat /\ m \in Nat
    BY <1>1, <1>2, <1>4, <1>5, <1>6, <1>11, <1>12, <1>14, <1>16, <1>18
  <2> HIDE DEF m
  <2>1. CASE rest # <<>>
    <3>1. Len(rest) # 0 /\ len' = Len(rest) BY <1>1, <1>14, <2>1, EmptySeq
    <3>2. Len(left) > 0 /\ Len(rest) \in Nat BY <1>12, <1>14, <3>1
    <3>3. bytes + take = base + m BY <1>17, <3>2
    <3>4. bytes' = Len(state') + len'
      BY <2>0, <3>1, <3>3
    <3>5. ASSUME NEW i \in 1..len' PROVE buffer'[i] = Len(state') + i
      <4>1. i \in 1..Block /\ i <= Len(rest) /\ i \in 1..Len(rest)
        BY <1>1, <1>20, <3>1, <3>2
      <4>2. buffer'[i] = rest[i] BY <1>1, <4>1
      <4>3. rest[i] = bytes + take + whole + i BY <1>14, <4>1
      <4> QED BY <1>18, <3>3, <4>2, <4>3
    <3> QED BY <3>4, <3>5
  <2>2. CASE rest = <<>> /\ full
    <3>1. Len(rest) = 0 /\ len' = 0 BY <1>1, <2>2
    <3>2. bytes + take = base + Block /\ m = Block BY <1>7, <1>15, <2>0, <2>2 DEF m
    <3>3. n - take = whole BY <1>11, <1>12, <1>14, <3>1
    <3>4. bytes' = Len(state') + len'
      BY <1>1, <2>0, <3>1, <3>2, <3>3
    <3> QED BY <3>1, <3>4
  <2>3. CASE rest = <<>> /\ ~full
    <3>1. Len(rest) = 0 /\ len' = len + take BY <1>1, <2>3
    <3>2. n - take = whole /\ m = 0 BY <1>15, <2>0, <2>3, <3>1 DEF m
    <3>3. bytes' = Len(state') + len'
      <4>1. CASE len = 0
        <5>1. take = 0 BY <1>6, <4>1
        <5> QED BY <2>0, <3>1, <3>2, <4>1, <5>1
      <4>2. CASE len > 0
        <5>1. take = n BY <1>6, <2>3, <4>2
        <5> QED BY <2>0, <3>1, <3>2, <5>1
      <4> QED BY <1>2, <4>1, <4>2
    <3>4. whole = 0 \/ len' = 0
      <4>1. CASE len = 0 BY <1>6, <3>1, <4>1
      <4>2. CASE len > 0
        <5>1. take = n BY <1>6, <2>3, <4>2
        <5> QED BY <1>1, <3>2, <5>1
      <4> QED BY <1>2, <4>1, <4>2
    <3>5. ASSUME NEW i \in 1..len' PROVE buffer'[i] = Len(state') + i
      <4>1. i \in 1..(len + take) /\ i \in 1..Block /\ ~(i <= Len(rest))
        BY <1>1, <1>20, <3>1
      <4>2. buffer'[i] = filled[i] BY <1>1, <4>1
      <4>3. filled[i] = base + i BY <1>10, <4>1
      <4>4. whole = 0 BY <3>4, <1>20
      <4>5. Len(state') = base BY <1>4, <1>18, <3>2, <4>4
      <4> QED BY <4>2, <4>3, <4>5
    <3> QED BY <3>3, <3>5
  <2> QED BY <2>1, <2>2, <2>3
<1>22. Buffered' BY <1>18, <1>19, <1>20, <1>21 DEF Buffered
<1>23. HashTypeOK'
  <2>1. digest' \in Seq(Cell) BY <1>1, <1>2
  <2> QED BY <1>18, <1>20, <2>1 DEF HashTypeOK, Cell
<1>24. DigestOfMessage' BY <1>1 DEF DigestOfMessage
<1> QED BY <1>22, <1>23, <1>24 DEF HashInv

LEMMA PaddedShape ==
  ASSUME NEW n \in Nat, NEW z \in 0..(Block - 1), (n + 1 + z + Length) % Block = 0
  PROVE  /\ Padded(n) \in Seq(Cell) /\ Len(Padded(n)) = n + 1 + z + Length
         /\ \A i \in 1..(n + 1 + z + Length) :
              Padded(n)[i] = IF i <= n THEN i
                             ELSE IF i = n + 1 THEN One
                             ELSE IF i <= n + 1 + z THEN Zero
                             ELSE LengthByte(n, i - (n + 1 + z))
<1> DEFINE zeros == CHOOSE k \in 0..(Block - 1) : (n + 1 + k + Length) % Block = 0
           a == [i \in 1..n |-> i]
           b == <<One>>
           c == [i \in 1..zeros |-> Zero]
           e == [i \in 1..Length |-> LengthByte(n, i)]
<1>1. Block \in Nat \ {0} /\ Length \in Nat BY HashConstants
<1>2. zeros \in 0..(Block - 1) /\ (n + 1 + zeros + Length) % Block = 0 OBVIOUS
<1> HIDE DEF zeros
<1>3. zeros = z
  <2> DEFINE x == n + 1 + zeros + Length
             y == n + 1 + z + Length
  <2>1. x \in Nat /\ y \in Nat /\ x < y + Block /\ y < x + Block BY <1>1, <1>2
  <2>2. x % Block = 0 /\ y % Block = 0 BY <1>2
  <2> HIDE DEF x, y
  <2>3. x = y BY <1>1, <2>1, <2>2, OneMultiple
  <2> QED BY <1>1, <1>2, <2>3 DEF x, y
<1>4. a \in Seq(Cell) /\ Len(a) = n /\ \A i \in 1..n : a[i] = i
  <2>1. \A i \in 1..n : i \in Cell BY Cells
  <2> QED BY <2>1
<1>5. b \in Seq(Cell) /\ Len(b) = 1 /\ b[1] = One BY Cells
<1>6. c \in Seq(Cell) /\ Len(c) = z /\ \A i \in 1..z : c[i] = Zero BY <1>3, Cells
<1>7. e \in Seq(Cell) /\ Len(e) = Length /\ \A i \in 1..Length : e[i] = LengthByte(n, i)
  BY <1>1, Cells
<1>8. Padded(n) = ((a \o b) \o c) \o e BY DEF Padded, zeros
<1> HIDE DEF a, b, c, e
<1>9. /\ a \o b \in Seq(Cell) /\ Len(a \o b) = n + 1
      /\ \A i \in 1..(n + 1) : (a \o b)[i] = IF i <= n THEN a[i] ELSE b[i - n]
  <2>1. /\ a \o b \in Seq(Cell) /\ Len(a \o b) = Len(a) + Len(b)
        /\ \A i \in 1..(Len(a) + Len(b)) :
             (a \o b)[i] = IF i <= Len(a) THEN a[i] ELSE b[i - Len(a)]
    BY <1>4, <1>5, ConcatProperties
  <2> QED BY <1>4, <1>5, <2>1
<1> DEFINE ab == a \o b
<1> HIDE DEF ab
<1>10. /\ ab \o c \in Seq(Cell) /\ Len(ab \o c) = n + 1 + z
       /\ \A i \in 1..(n + 1 + z) : (ab \o c)[i] = IF i <= n + 1 THEN ab[i] ELSE c[i - (n + 1)]
  <2>0. ab \in Seq(Cell) /\ Len(ab) = n + 1 BY <1>9 DEF ab
  <2>1. /\ ab \o c \in Seq(Cell) /\ Len(ab \o c) = Len(ab) + Len(c)
        /\ \A i \in 1..(Len(ab) + Len(c)) :
             (ab \o c)[i] = IF i <= Len(ab) THEN ab[i] ELSE c[i - Len(ab)]
    BY <1>6, <2>0, ConcatProperties
  <2> QED BY <1>6, <2>0, <2>1
<1> DEFINE abc == ab \o c
<1> HIDE DEF abc
<1>11. /\ abc \o e \in Seq(Cell) /\ Len(abc \o e) = n + 1 + z + Length
       /\ \A i \in 1..(n + 1 + z + Length) :
            (abc \o e)[i] = IF i <= n + 1 + z THEN abc[i] ELSE e[i - (n + 1 + z)]
  <2>0. abc \in Seq(Cell) /\ Len(abc) = n + 1 + z BY <1>10 DEF abc
  <2>1. /\ abc \o e \in Seq(Cell) /\ Len(abc \o e) = Len(abc) + Len(e)
        /\ \A i \in 1..(Len(abc) + Len(e)) :
             (abc \o e)[i] = IF i <= Len(abc) THEN abc[i] ELSE e[i - Len(abc)]
    BY <1>7, <2>0, ConcatProperties
  <2> QED BY <1>7, <2>0, <2>1
<1> DEFINE p == abc \o e
<1>12. Padded(n) = p BY <1>8 DEF p, abc, ab
<1>13. ASSUME NEW i \in 1..(n + 1 + z + Length)
       PROVE  p[i] = IF i <= n THEN i
                     ELSE IF i = n + 1 THEN One
                     ELSE IF i <= n + 1 + z THEN Zero
                     ELSE LengthByte(n, i - (n + 1 + z))
  <2> HIDE DEF p
  <2>1. CASE i <= n
    <3>1. i \in 1..n /\ i \in 1..(n + 1) /\ i <= n + 1 /\ i \in 1..(n + 1 + z) /\ i <= n + 1 + z
      BY <2>1
    <3>2. p[i] = abc[i] /\ abc[i] = ab[i] /\ ab[i] = a[i]
      BY <1>9, <1>10, <1>11, <3>1 DEF p, abc, ab
    <3> QED BY <1>4, <2>1, <3>1, <3>2
  <2>2. CASE i = n + 1
    <3>1. /\ i \in 1..(n + 1) /\ i <= n + 1 /\ i \in 1..(n + 1 + z) /\ i <= n + 1 + z
          /\ ~(i <= n) /\ i - n = 1
      BY <2>2
    <3>2. p[i] = abc[i] /\ abc[i] = ab[i] /\ ab[i] = b[1]
      BY <1>9, <1>10, <1>11, <3>1 DEF p, abc, ab
    <3> QED BY <1>5, <2>2, <3>1, <3>2
  <2>3. CASE n + 1 < i /\ i <= n + 1 + z
    <3>1. /\ i \in 1..(n + 1 + z) /\ ~(i <= n + 1) /\ i - (n + 1) \in 1..z
          /\ ~(i <= n) /\ i # n + 1
      BY <2>3
    <3>2. p[i] = abc[i] /\ abc[i] = c[i - (n + 1)] BY <1>10, <1>11, <2>3, <3>1 DEF p, abc
    <3> QED BY <1>6, <2>3, <3>1, <3>2
  <2>4. CASE n + 1 + z < i
    <3>1. /\ ~(i <= n + 1 + z) /\ i - (n + 1 + z) \in 1..Length
          /\ ~(i <= n) /\ i # n + 1
      BY <1>1, <2>4
    <3>2. p[i] = e[i - (n + 1 + z)] BY <1>11, <3>1 DEF p
    <3> QED BY <1>7, <3>1, <3>2
  <2> QED BY <2>1, <2>2, <2>3, <2>4
<1> QED BY <1>11, <1>12, <1>13

LEMMA FinalizeStep == HashInv /\ finalize => HashInv'
<1> SUFFICES ASSUME HashInv, finalize PROVE HashInv'
  OBVIOUS
<1> DEFINE extra == len + 1 > Block - Length
           ended == Copy(len, <<One>>)
           first == [i \in 1..Block |-> IF i <= len + 1 THEN ended[i] ELSE Zero]
           last == [i \in 1..Block |->
                      IF i > Block - Length THEN LengthByte(bytes, i - (Block - Length))
                      ELSE IF i <= len + 1 /\ ~extra THEN ended[i] ELSE Zero]
           base == Len(state)
           mid == IF extra THEN first ELSE <<>>
           x == IF extra THEN Block ELSE 0
           z == x + Block - Length - len - 1
<1>1. /\ digest = <<>> /\ state' = (state \o mid) \o last /\ digest' = state'
      /\ buffer' = last /\ len' = Block - Length /\ bytes' = bytes
  BY DEF finalize, FinalizeWith
<1>2. /\ Block \in Nat \ {0} /\ Length \in Nat /\ 0 < Length /\ Length < Block BY HashConstants
<1>3. /\ state \in Seq(Cell) /\ buffer \in [1..Block -> Cell] /\ len \in Nat /\ bytes \in Nat
      /\ len < Block /\ bytes = base + len
      /\ \A i \in 1..base : state[i] = i
      /\ \A i \in 1..len : buffer[i] = base + i
  BY <1>1, HashTypes DEF HashInv, Buffered
<1>4. PICK q \in Nat : base = q * Block BY <1>1 DEF HashInv, Buffered
<1>5. base \in Nat BY <1>3, LenProperties
<1> HIDE DEF base
<1>6. extra <=> len + 1 > Block - Length OBVIOUS
<1> HIDE DEF extra
<1>7. /\ x \in {0, Block} /\ x \in Nat /\ (extra => x = Block) /\ (~extra => x = 0)
      /\ z \in 0..(Block - 1) /\ bytes + 1 + z + Length = base + x + Block
  <2>1. CASE extra
    <3>1. z = Block + Block - Length - len - 1 BY <2>1
    <3>2. z \in 0..(Block - 1) BY <1>2, <1>3, <1>6, <2>1, <3>1
    <3> QED BY <1>2, <1>3, <1>5, <2>1, <3>1, <3>2
  <2>2. CASE ~extra
    <3>1. z = Block - Length - len - 1 BY <1>2, <1>3, <2>2
    <3>2. z \in 0..(Block - 1) BY <1>2, <1>3, <1>6, <2>2, <3>1
    <3> QED BY <1>2, <1>3, <1>5, <2>2, <3>1, <3>2
  <2> QED BY <2>1, <2>2
<1>8. ASSUME NEW i \in 1..Block, i <= len + 1
      PROVE  ended[i] = IF i <= len THEN base + i ELSE One
  <2>1. ended[i] = IF i > len /\ i <= len + 1 THEN <<One>>[i - len] ELSE buffer[i]
    BY DEF Copy
  <2>2. CASE i <= len
    <3>1. i \in 1..len /\ ~(i > len) BY <1>3, <2>2
    <3>2. ended[i] = buffer[i] BY <2>1, <3>1
    <3> QED BY <1>3, <2>2, <3>1, <3>2
  <2>3. CASE ~(i <= len)
    <3>1. i > len /\ i - len = 1 BY <1>3, <1>8, <2>3
    <3>2. ended[i] = <<One>>[1] BY <1>8, <2>1, <3>1
    <3> QED BY <2>3, <3>2
  <2> QED BY <2>2, <2>3
<1>9. ASSUME NEW i \in 1..Block, i <= len + 1 PROVE ended[i] \in Cell
  <2>1. base + i \in Nat BY <1>5
  <2> QED BY <1>8, <1>9, <2>1, Cells
<1> HIDE DEF ended
<1>10. first \in Seq(Cell) /\ Len(first) = Block
       /\ \A i \in 1..Block : first[i] = IF i <= len + 1 THEN ended[i] ELSE Zero
  <2>1. \A i \in 1..Block : (IF i <= len + 1 THEN ended[i] ELSE Zero) \in Cell
    BY <1>9, Cells
  <2>2. first \in [1..Block -> Cell] BY <2>1
  <2> QED BY <1>2, <2>2
<1>11. last \in Seq(Cell) /\ Len(last) = Block /\ last \in [1..Block -> Cell]
       /\ \A i \in 1..Block :
            last[i] = IF i > Block - Length THEN LengthByte(bytes, i - (Block - Length))
                      ELSE IF i <= len + 1 /\ ~extra THEN ended[i] ELSE Zero
  <2>1. ASSUME NEW i \in 1..Block
        PROVE  (IF i > Block - Length THEN LengthByte(bytes, i - (Block - Length))
                ELSE IF i <= len + 1 /\ ~extra THEN ended[i] ELSE Zero) \in Cell
    <3>1. i > Block - Length => i - (Block - Length) \in 1..Length BY <1>2
    <3> QED BY <1>3, <1>9, <3>1, Cells
  <2>2. last \in [1..Block -> Cell] BY <2>1
  <2>3. last \in Seq(Cell) /\ Len(last) = Block
    <3> HIDE DEF last
    <3> QED BY <1>2, <2>2
  <2> QED BY <2>2, <2>3
<1> HIDE DEF first, last
<1>12. mid \in Seq(Cell) /\ Len(mid) = x
  <2>1. CASE extra BY <1>7, <1>10, <2>1
  <2>2. CASE ~extra BY <1>7, <2>2, EmptySeq
  <2> QED BY <2>1, <2>2
<1>13. extra => mid = first OBVIOUS
<1> HIDE DEF mid, x, z
<1> DEFINE sm == state \o mid
<1>14. /\ sm \in Seq(Cell) /\ Len(sm) = base + x
       /\ \A i \in 1..(base + x) : sm[i] = IF i <= base THEN state[i] ELSE mid[i - base]
  <2>1. /\ state \o mid \in Seq(Cell) /\ Len(state \o mid) = Len(state) + Len(mid)
        /\ \A i \in 1..(Len(state) + Len(mid)) :
             (state \o mid)[i] = IF i <= Len(state) THEN state[i] ELSE mid[i - Len(state)]
    BY <1>3, <1>12, ConcatProperties
  <2> QED BY <1>12, <2>1 DEF base
<1> HIDE DEF sm
<1>15. /\ state' \in Seq(Cell) /\ Len(state') = base + x + Block
       /\ \A i \in 1..(base + x + Block) :
            state'[i] = IF i <= base + x THEN sm[i] ELSE last[i - (base + x)]
  <2>1. state' = sm \o last BY <1>1 DEF sm
  <2>2. /\ sm \o last \in Seq(Cell) /\ Len(sm \o last) = Len(sm) + Len(last)
        /\ \A i \in 1..(Len(sm) + Len(last)) :
             (sm \o last)[i] = IF i <= Len(sm) THEN sm[i] ELSE last[i - Len(sm)]
    BY <1>11, <1>14, ConcatProperties
  <2> QED BY <1>11, <1>14, <2>1, <2>2
<1>16. (bytes + 1 + z + Length) % Block = 0
  <2> DEFINE w == 1
  <2>0. w \in Nat /\ w * Block = Block BY <1>2
  <2> HIDE DEF w
  <2>1. \E r \in Nat : q * Block + x + w * Block = r * Block BY <1>7, <2>0, Blocks
  <2>2. PICK r \in Nat : base + x + Block = r * Block BY <1>4, <2>0, <2>1
  <2> QED BY <1>2, <1>7, <2>2, Multiple
<1> DEFINE p == Padded(bytes)
<1>17. /\ p \in Seq(Cell) /\ Len(p) = base + x + Block
       /\ \A i \in 1..(base + x + Block) :
            p[i] = IF i <= bytes THEN i
                   ELSE IF i = bytes + 1 THEN One
                   ELSE IF i <= bytes + 1 + z THEN Zero
                   ELSE LengthByte(bytes, i - (bytes + 1 + z))
  BY <1>3, <1>7, <1>16, PaddedShape
<1> HIDE DEF p
<1>18. z \in Nat /\ bytes + 1 + z = base + x + Block - Length BY <1>2, <1>3, <1>5, <1>7
<1>19. ASSUME NEW i \in 1..(base + x + Block) PROVE state'[i] = p[i]
  <2>1. CASE i <= base
    <3>1. i \in 1..base /\ i \in 1..(base + x) /\ i <= base + x /\ i <= bytes
      BY <1>3, <1>5, <1>7, <2>1
    <3>2. state'[i] = sm[i] /\ sm[i] = state[i] BY <1>14, <1>15, <2>1, <3>1
    <3>3. p[i] = i BY <1>17, <3>1
    <3> QED BY <1>3, <3>1, <3>2, <3>3
  <2>2. CASE extra /\ base < i /\ i <= base + Block
    <3> DEFINE j == i - base
    <3>0. x = Block /\ i \in 1..(base + x) /\ ~(i <= base) /\ i <= base + x
      BY <1>2, <1>5, <1>7, <2>2
    <3>1. j \in 1..Block /\ i = base + j BY <1>2, <1>5, <2>2
    <3>2. state'[i] = sm[i] /\ sm[i] = mid[j] /\ mid[j] = first[j]
      BY <1>13, <1>14, <1>15, <2>2, <3>0
    <3> HIDE DEF j
    <3>3. CASE j <= len
      <4>1. i <= bytes /\ j <= len + 1 BY <1>3, <1>5, <3>1, <3>3
      <4>2. first[j] = base + j BY <1>8, <1>10, <3>1, <3>3, <4>1
      <4>3. p[i] = i BY <1>17, <4>1
      <4> QED BY <3>1, <3>2, <4>2, <4>3
    <3>4. CASE j = len + 1
      <4>1. i = bytes + 1 /\ ~(i <= bytes) /\ j <= len + 1 /\ ~(j <= len)
        BY <1>3, <1>5, <3>1, <3>4
      <4>2. first[j] = One BY <1>8, <1>10, <3>1, <4>1
      <4>3. p[i] = One BY <1>17, <4>1
      <4> QED BY <3>2, <4>2, <4>3
    <3>5. CASE len + 1 < j
      <4>1. /\ ~(i <= bytes) /\ i # bytes + 1 /\ i <= bytes + 1 + z /\ ~(j <= len + 1)
        BY <1>2, <1>3, <1>5, <1>18, <3>0, <3>1, <3>5
      <4>2. first[j] = Zero BY <1>10, <3>1, <4>1
      <4>3. p[i] = Zero BY <1>17, <4>1
      <4> QED BY <3>2, <4>2, <4>3
    <3> QED BY <1>3, <3>1, <3>3, <3>4, <3>5
  <2>3. CASE base + x < i
    <3> DEFINE j == i - (base + x)
    <3>1. j \in 1..Block /\ i = base + x + j /\ ~(i <= base + x) BY <1>2, <1>5, <1>7, <2>3
    <3>2. state'[i] = last[j] BY <1>15, <3>1
    <3> HIDE DEF j
    <3>3. CASE j > Block - Length
      <4>1. /\ i - (bytes + 1 + z) = j - (Block - Length) /\ ~(i <= bytes + 1 + z)
            /\ ~(i <= bytes) /\ i # bytes + 1
        BY <1>2, <1>3, <1>5, <1>7, <1>18, <3>1, <3>3
      <4>2. last[j] = LengthByte(bytes, j - (Block - Length)) BY <1>11, <3>1, <3>3
      <4>3. p[i] = LengthByte(bytes, i - (bytes + 1 + z)) BY <1>17, <4>1
      <4> QED BY <3>2, <4>1, <4>2, <4>3
    <3>4. CASE ~(j > Block - Length) /\ extra
      <4>1. x = Block /\ ~(i <= bytes) /\ i # bytes + 1 /\ i <= bytes + 1 + z
        BY <1>2, <1>3, <1>5, <1>7, <1>18, <3>1, <3>4
      <4>2. last[j] = Zero BY <1>11, <3>1, <3>4
      <4>3. p[i] = Zero BY <1>17, <4>1
      <4> QED BY <3>2, <4>2, <4>3
    <3>5. CASE ~(j > Block - Length) /\ ~extra
      <4>0. x = 0 /\ i = base + j BY <1>5, <1>7, <3>1, <3>5
      <4>1. last[j] = IF j <= len + 1 THEN ended[j] ELSE Zero BY <1>11, <3>1, <3>5
      <4>2. CASE j <= len
        <5>1. i <= bytes /\ j <= len + 1 BY <1>3, <1>5, <3>1, <4>0, <4>2
        <5>2. last[j] = base + j BY <1>8, <3>1, <4>1, <4>2, <5>1
        <5>3. p[i] = i BY <1>17, <5>1
        <5> QED BY <3>2, <4>0, <5>2, <5>3
      <4>3. CASE j = len + 1
        <5>1. i = bytes + 1 /\ ~(i <= bytes) /\ j <= len + 1 /\ ~(j <= len)
          BY <1>3, <1>5, <3>1, <4>0, <4>3
        <5>2. last[j] = One BY <1>8, <3>1, <4>1, <5>1
        <5>3. p[i] = One BY <1>17, <5>1
        <5> QED BY <3>2, <5>2, <5>3
      <4>4. CASE len + 1 < j
        <5>1. /\ ~(i <= bytes) /\ i # bytes + 1 /\ i <= bytes + 1 + z /\ ~(j <= len + 1)
          BY <1>2, <1>3, <1>5, <1>18, <3>1, <3>5, <4>0, <4>4
        <5>2. last[j] = Zero BY <4>1, <5>1
        <5>3. p[i] = Zero BY <1>17, <5>1
        <5> QED BY <3>2, <5>2, <5>3
      <4> QED BY <1>3, <3>1, <4>2, <4>3, <4>4
    <3> QED BY <3>3, <3>4, <3>5
  <2>4. i <= base \/ (extra /\ base < i /\ i <= base + Block) \/ base + x < i
    BY <1>2, <1>5, <1>7
  <2> QED BY <2>1, <2>2, <2>3, <2>4
<1>20. state' = p BY <1>15, <1>17, <1>19, SeqEqual
<1>21. DigestOfMessage' BY <1>1, <1>20 DEF DigestOfMessage, p, Padded
<1>22. digest' # <<>>
  <2>1. Len(state') # 0 BY <1>2, <1>5, <1>7, <1>15
  <2> QED BY <1>1, <2>1
<1>23. HashTypeOK'
  <2>1. len' \in 0..Block BY <1>1, <1>2
  <2> QED BY <1>1, <1>3, <1>11, <1>15, <2>1 DEF HashTypeOK, Cell
<1> QED BY <1>21, <1>22, <1>23 DEF HashInv

LEMMA HashInvStep == HashInv /\ [HashNext]_hashVars => HashInv'
<1> SUFFICES ASSUME HashInv, [HashNext]_hashVars PROVE HashInv'
  OBVIOUS
<1>1. CASE finalize BY <1>1, FinalizeStep
<1>2. ASSUME NEW n \in Chunks, Updates(n) PROVE HashInv' BY <1>2, UpdatesStep
<1>3. CASE UNCHANGED hashVars
  <2>1. HashTypeOK' BY <1>3 DEF HashInv, HashTypeOK
  <2>2. (digest = <<>> => Buffered)' BY <1>3 DEF HashInv, Buffered
  <2>3. DigestOfMessage' BY <1>3 DEF HashInv, DigestOfMessage, Padded
  <2> QED BY <2>1, <2>2, <2>3 DEF HashInv
<1> QED BY <1>1, <1>2, <1>3 DEF HashNext

\* m_buffer_len stays within the buffer, and what the buffer and the blocks hold
\* is of the message, its padding or what was there before.
THEOREM BufferTyped == HashSpec => []HashTypeOK
<1>1. HashInv => HashTypeOK BY DEF HashInv
<1> QED BY <1>1, HashInvInit, HashInvStep, PTL DEF HashSpec

\* However the message is cut into calls of update() and whatever m_buffer held
\* before, finalize() compresses the message padded as FIPS 180-4 has it.
THEOREM DigestIsOfMessage == HashSpec => []DigestOfMessage
<1>1. HashInv => DigestOfMessage BY DEF HashInv
<1> QED BY <1>1, HashInvInit, HashInvStep, PTL DEF HashSpec
-----------------------------------------------------------------------------
(* The base64 text                                                         *)

Octet == 0..255

\* What the digits of a group take of an octet are runs of its bits.
LEMMA BitsOfOctet ==
  ASSUME NEW a \in Octet
  PROVE  /\ a \div 4 = 32 * ((a \div 128) % 2) + 16 * ((a \div 64) % 2) + 8 * ((a \div 32) % 2)
                       + 4 * ((a \div 16) % 2) + 2 * ((a \div 8) % 2) + ((a \div 4) % 2)
         /\ a % 4 = 2 * ((a \div 2) % 2) + (a % 2)
         /\ a \div 16 = 8 * ((a \div 128) % 2) + 4 * ((a \div 64) % 2) + 2 * ((a \div 32) % 2)
                        + ((a \div 16) % 2)
         /\ a % 16 = 8 * ((a \div 8) % 2) + 4 * ((a \div 4) % 2) + 2 * ((a \div 2) % 2) + (a % 2)
         /\ a \div 64 = 2 * ((a \div 128) % 2) + ((a \div 64) % 2)
         /\ a % 64 = 32 * ((a \div 32) % 2) + 16 * ((a \div 16) % 2) + 8 * ((a \div 8) % 2)
                     + 4 * ((a \div 4) % 2) + 2 * ((a \div 2) % 2) + (a % 2)
<1>1. a \in Nat /\ a <= 255 BY DEF Octet
<1>2. a \div 4 = 32 * ((a \div 128) % 2) + 16 * ((a \div 64) % 2) + 8 * ((a \div 32) % 2)
                 + 4 * ((a \div 16) % 2) + 2 * ((a \div 8) % 2) + ((a \div 4) % 2)
  BY <1>1
<1>3. a % 4 = 2 * ((a \div 2) % 2) + (a % 2)
  BY <1>1
<1>4. a \div 16 = 8 * ((a \div 128) % 2) + 4 * ((a \div 64) % 2) + 2 * ((a \div 32) % 2)
                  + ((a \div 16) % 2)
  BY <1>1
<1>5. a % 16 = 8 * ((a \div 8) % 2) + 4 * ((a \div 4) % 2) + 2 * ((a \div 2) % 2) + (a % 2)
  BY <1>1
<1>6. a \div 64 = 2 * ((a \div 128) % 2) + ((a \div 64) % 2)
  BY <1>1
<1>7. a % 64 = 32 * ((a \div 32) % 2) + 16 * ((a \div 16) % 2) + 8 * ((a \div 8) % 2)
               + 4 * ((a \div 4) % 2) + 2 * ((a \div 2) % 2) + (a % 2)
  BY <1>1
<1> QED BY <1>2, <1>3, <1>4, <1>5, <1>6, <1>7, Zenon

LEMMA SextetsAreDigits ==
  ASSUME NEW a \in [1..3 -> Octet]
  PROVE  sextets(a) \in [1..4 -> Digits]
<1>1. a[1] \in Octet /\ a[2] \in Octet /\ a[3] \in Octet OBVIOUS
<1> DEFINE x == a[1]
           y == a[2]
           z == a[3]
<1>2. x \in Octet /\ y \in Octet /\ z \in Octet BY <1>1
<1>3. /\ x \div 4 \in Digits /\ ((x % 4) * 16) + (y \div 16) \in Digits
      /\ ((y % 16) * 4) + (z \div 64) \in Digits /\ z % 64 \in Digits
  <2> HIDE DEF x, y, z
  <2> QED BY <1>2 DEF Octet, Digits
<1> QED BY <1>3 DEF sextets

\* Three octets come back from their digits; the first of them from the first
\* two digits, the first two from the first three.
LEMMA OctetsOfSextets ==
  ASSUME NEW a \in [1..3 -> Octet], NEW c
  PROVE  /\ c[1] = sextets(a)[1] /\ c[2] = sextets(a)[2] => octets(c)[1] = a[1]
         /\ c[1] = sextets(a)[1] /\ c[2] = sextets(a)[2] /\ c[3] = sextets(a)[3]
              => octets(c)[2] = a[2]
         /\ c[3] = sextets(a)[3] /\ c[4] = sextets(a)[4] => octets(c)[3] = a[3]
<1> DEFINE x == a[1]
           y == a[2]
           z == a[3]
<1>1. x \in Octet /\ y \in Octet /\ z \in Octet OBVIOUS
<1>2. /\ sextets(a)[1] = x \div 4 /\ sextets(a)[2] = ((x % 4) * 16) + (y \div 16)
      /\ sextets(a)[3] = ((y % 16) * 4) + (z \div 64) /\ sextets(a)[4] = z % 64
  BY DEF sextets
<1>3. /\ octets(c)[1] = ((c[1] * 4) + ((c[2] \div 16) % 4)) % 256
      /\ octets(c)[2] = (((c[2] % 16) * 16) + ((c[3] \div 4) % 16)) % 256
      /\ octets(c)[3] = (((c[3] % 4) * 64) + c[4]) % 256
  BY DEF octets
<1>4. /\ (((x \div 4) * 4) + (((((x % 4) * 16) + (y \div 16)) \div 16) % 4)) % 256 = x
      /\ ((((((x % 4) * 16) + (y \div 16)) % 16) * 16)
           + (((((y % 16) * 4) + (z \div 64)) \div 4) % 16)) % 256 = y
      /\ (((((y % 16) * 4) + (z \div 64)) % 4) * 64 + (z % 64)) % 256 = z
  <2> HIDE DEF x, y, z
  <2>1. (((x \div 4) * 4) + (((((x % 4) * 16) + (y \div 16)) \div 16) % 4)) % 256 = x
    BY <1>1 DEF Octet
  <2>2. ((((((x % 4) * 16) + (y \div 16)) % 16) * 16)
           + (((((y % 16) * 4) + (z \div 64)) \div 4) % 16)) % 256 = y
    BY <1>1 DEF Octet
  <2>3. (((((y % 16) * 4) + (z \div 64)) % 4) * 64 + (z % 64)) % 256 = z
    BY <1>1 DEF Octet
  <2> QED BY <2>1, <2>2, <2>3
<1> QED BY <1>2, <1>3, <1>4

Weight == <<128, 64, 32, 16, 8, 4, 2, 1>>

LEMMA WeightsAre ==
  /\ Weight[0 + 1] = 128 /\ Weight[1 + 1] = 64 /\ Weight[2 + 1] = 32 /\ Weight[3 + 1] = 16
  /\ Weight[4 + 1] = 8 /\ Weight[5 + 1] = 4 /\ Weight[6 + 1] = 2 /\ Weight[7 + 1] = 1
  /\ \A r \in 0..7 : Weight[r + 1] \in Nat \ {0}
<1>1. /\ Weight[0 + 1] = 128 /\ Weight[1 + 1] = 64 /\ Weight[2 + 1] = 32 /\ Weight[3 + 1] = 16
      /\ Weight[4 + 1] = 8 /\ Weight[5 + 1] = 4 /\ Weight[6 + 1] = 2 /\ Weight[7 + 1] = 1
  BY DEF Weight
<1>2. \A r \in 0..7 : r = 0 \/ r = 1 \/ r = 2 \/ r = 3 \/ r = 4 \/ r = 5 \/ r = 6 \/ r = 7
  OBVIOUS
<1> QED BY <1>1, <1>2

LEMMA BitIs ==
  ASSUME NEW d, NEW n
  PROVE  Bit(d, n) = IF n >= 8 * Len(d) THEN 0
                     ELSE (d[n \div 8 + 1] \div Weight[(n % 8) + 1]) % 2
BY Zenon DEF Bit, Weight

LEMMA GroupType ==
  ASSUME NEW S, NEW s \in Seq(S), NEW g \in Nat \ {0}, NEW size \in {3, 4}, NEW fill
  PROVE  /\ DOMAIN Group(s, g, size, fill) = 1..size
         /\ \A i \in 1..size :
              Group(s, g, size, fill)[i] = IF size * (g - 1) + i <= Len(s)
                                           THEN s[size * (g - 1) + i] ELSE fill
         /\ fill \in S => Group(s, g, size, fill) \in [1..size -> S]
<1>1. \A i \in 1..size : (g - 1) * size + i = size * (g - 1) + i /\ size * (g - 1) + i \in Nat \ {0}
  OBVIOUS
<1>2. \A k \in Nat \ {0} : k <= Len(s) => s[k] \in S
  <2>1. \A k \in 1..Len(s) : s[k] \in S BY ElementOfSeq
  <2>2. Len(s) \in Nat BY LenProperties
  <2> QED BY <2>1, <2>2
<1> QED BY <1>1, <1>2 DEF Group

\* The eight bits from bit e on are those of a.
BitsFrom(d, e, a) ==
  /\ Bit(d, e) = (a \div 128) % 2 /\ Bit(d, e + 1) = (a \div 64) % 2
  /\ Bit(d, e + 2) = (a \div 32) % 2 /\ Bit(d, e + 3) = (a \div 16) % 2
  /\ Bit(d, e + 4) = (a \div 8) % 2 /\ Bit(d, e + 5) = (a \div 4) % 2
  /\ Bit(d, e + 6) = (a \div 2) % 2 /\ Bit(d, e + 7) = a % 2

LEMMA OctetOfGroup ==
  ASSUME NEW d \in Seq(Octet), NEW g \in Nat \ {0}, NEW i \in 1..3
  PROVE  BitsFrom(d, 24 * (g - 1) + 8 * (i - 1), Group(d, g, 3, 0)[i])
<1> DEFINE a == Group(d, g, 3, 0)[i]
           e == 24 * (g - 1) + 8 * (i - 1)
           k == 3 * (g - 1) + i
           L == Len(d)
<1>1. L \in Nat /\ k \in Nat \ {0} /\ (g - 1) * 3 + i = k /\ e \in Nat /\ e = 8 * (k - 1)
  BY LenProperties
<1>2. a = IF k <= L THEN d[k] ELSE 0 BY <1>1 DEF Group
<1>3. ASSUME NEW r \in 0..7 PROVE Bit(d, e + r) = (a \div Weight[r + 1]) % 2
  <2> DEFINE w == Weight[r + 1]
  <2>1. (e + r) \div 8 + 1 = k /\ (e + r) % 8 = r /\ (e + r >= 8 * L <=> ~(k <= L))
    <3> HIDE DEF e, k, L
    <3> QED BY <1>1
  <2>2. Bit(d, e + r) = IF e + r >= 8 * L THEN 0 ELSE (d[k] \div w) % 2
    <3> HIDE DEF e, k
    <3> QED BY <2>1, BitIs
  <2>3. w \in Nat \ {0} BY WeightsAre
  <2> HIDE DEF a, e, k, L, w
  <2>4. (0 \div w) % 2 = 0
    <3>1. 0 \div w = 0 BY <2>3
    <3> QED BY <3>1
  <2>5. Bit(d, e + r) = (a \div w) % 2 BY <1>2, <2>1, <2>2, <2>4, Zenon
  <2> QED BY <2>5 DEF w
<1>4. e + 0 = e /\ a \div 1 = a
  <2>1. a \in Nat
    <3>1. 0 \in Octet BY DEF Octet
    <3>2. Group(d, g, 3, 0) \in [1..3 -> Octet] BY <3>1, GroupType
    <3>3. a \in Octet BY <3>2
    <3> HIDE DEF a
    <3> QED BY <3>3 DEF Octet
  <2> HIDE DEF a
  <2> QED BY <2>1
<1> HIDE DEF a, e, k, L
<1>5. BitsFrom(d, e, a)
  <2>1. \A r \in 0..7 : Bit(d, e + r) = (a \div Weight[r + 1]) % 2 BY <1>3
  <2>2. Bit(d, e + 0) = (a \div 128) % 2 BY <2>1, WeightsAre
  <2>3. Bit(d, e + 1) = (a \div 64) % 2 BY <2>1, WeightsAre
  <2>4. Bit(d, e + 2) = (a \div 32) % 2 BY <2>1, WeightsAre
  <2>5. Bit(d, e + 3) = (a \div 16) % 2 BY <2>1, WeightsAre
  <2>6. Bit(d, e + 4) = (a \div 8) % 2 BY <2>1, WeightsAre
  <2>7. Bit(d, e + 5) = (a \div 4) % 2 BY <2>1, WeightsAre
  <2>8. Bit(d, e + 6) = (a \div 2) % 2 BY <2>1, WeightsAre
  <2>9. Bit(d, e + 7) = (a \div 1) % 2 BY <2>1, WeightsAre
  <2> QED BY <2>2, <2>3, <2>4, <2>5, <2>6, <2>7, <2>8, <2>9, <1>4, Zenon DEF BitsFrom
<1> QED BY <1>5 DEF a, e

\* The digits of a group are the bits of the data, six at a time.
LEMMA DigitsOfGroup ==
  ASSUME NEW d \in Seq(Octet), NEW g \in Nat \ {0}, NEW c \in 1..4
  PROVE  Digit(d, 4 * (g - 1) + c) = sextets(Group(d, g, 3, 0))[c]
<1> DEFINE a == Group(d, g, 3, 0)
           x == a[1]
           y == a[2]
           z == a[3]
           e == 24 * (g - 1)
           B(n) == Bit(d, n)
<1>1. a \in [1..3 -> Octet]
  <2>1. 0 \in Octet BY DEF Octet
  <2> QED BY <2>1, GroupType
<1>2. /\ sextets(a)[1] = x \div 4 /\ sextets(a)[2] = ((x % 4) * 16) + (y \div 16)
      /\ sextets(a)[3] = ((y % 16) * 4) + (z \div 64) /\ sextets(a)[4] = z % 64
  BY DEF sextets
<1>3. x \in Octet /\ y \in Octet /\ z \in Octet
  <2> HIDE DEF a
  <2> QED BY <1>1
<1>4. /\ e + 8 * (1 - 1) = e /\ e + 8 * (2 - 1) = e + 8 /\ e + 8 * (3 - 1) = e + 16
      /\ 1 \in 1..3 /\ 2 \in 1..3 /\ 3 \in 1..3 /\ e \in Nat
  OBVIOUS
<1>5. BitsFrom(d, e, x) BY <1>4, OctetOfGroup, Zenon
<1>6. BitsFrom(d, e + 8, y) BY <1>4, OctetOfGroup, Zenon
<1>7. BitsFrom(d, e + 16, z) BY <1>4, OctetOfGroup, Zenon
<1>8. /\ \A j \in 0..5 : /\ 6 * ((4 * (g - 1) + 1) - 1) + j = e + j
                         /\ 6 * ((4 * (g - 1) + 2) - 1) + j = e + 6 + j
                         /\ 6 * ((4 * (g - 1) + 3) - 1) + j = e + 12 + j
                         /\ 6 * ((4 * (g - 1) + 4) - 1) + j = e + 18 + j
  OBVIOUS
<1>9. /\ Digit(d, 4 * (g - 1) + 1) = 32 * B(e) + 16 * B(e + 1) + 8 * B(e + 2)
                                     + 4 * B(e + 3) + 2 * B(e + 4) + B(e + 5)
      /\ Digit(d, 4 * (g - 1) + 2) = 32 * B(e + 6) + 16 * B(e + 7) + 8 * B(e + 8)
                                     + 4 * B(e + 8 + 1) + 2 * B(e + 8 + 2) + B(e + 8 + 3)
      /\ Digit(d, 4 * (g - 1) + 3) = 32 * B(e + 8 + 4) + 16 * B(e + 8 + 5) + 8 * B(e + 8 + 6)
                                     + 4 * B(e + 8 + 7) + 2 * B(e + 16) + B(e + 16 + 1)
      /\ Digit(d, 4 * (g - 1) + 4) = 32 * B(e + 16 + 2) + 16 * B(e + 16 + 3) + 8 * B(e + 16 + 4)
                                     + 4 * B(e + 16 + 5) + 2 * B(e + 16 + 6) + B(e + 16 + 7)
  BY DEF Digit
<1> HIDE DEF a, x, y, z, e, B
<1>10. /\ Digit(d, 4 * (g - 1) + 1) = sextets(a)[1]
       /\ Digit(d, 4 * (g - 1) + 2) = sextets(a)[2]
       /\ Digit(d, 4 * (g - 1) + 3) = sextets(a)[3]
       /\ Digit(d, 4 * (g - 1) + 4) = sextets(a)[4]
  <2>1. x \in Nat /\ y \in Nat /\ z \in Nat BY <1>3 DEF Octet
  <2>2. Digit(d, 4 * (g - 1) + 1) = sextets(a)[1]
    BY <1>2, <1>3, <1>5, <1>9, BitsOfOctet DEF BitsFrom, B
  <2>3. Digit(d, 4 * (g - 1) + 2) = sextets(a)[2]
    <3>1. /\ B(e + 6) = (x \div 2) % 2 /\ B(e + 7) = x % 2
          /\ B(e + 8) = (y \div 128) % 2 /\ B(e + 8 + 1) = (y \div 64) % 2
          /\ B(e + 8 + 2) = (y \div 32) % 2 /\ B(e + 8 + 3) = (y \div 16) % 2
      BY <1>5, <1>6, Zenon DEF BitsFrom, B
    <3>2. /\ x % 4 = 2 * ((x \div 2) % 2) + (x % 2)
          /\ y \div 16 = 8 * ((y \div 128) % 2) + 4 * ((y \div 64) % 2)
                         + 2 * ((y \div 32) % 2) + ((y \div 16) % 2)
      BY <1>3, BitsOfOctet
    <3>3. sextets(a)[2] = ((x % 4) * 16) + (y \div 16) BY <1>2
    <3>4. Digit(d, 4 * (g - 1) + 2) = 32 * B(e + 6) + 16 * B(e + 7) + 8 * B(e + 8)
                                      + 4 * B(e + 8 + 1) + 2 * B(e + 8 + 2) + B(e + 8 + 3)
      BY <1>9
    <3> DEFINE p0 == (x \div 2) % 2
               p1 == x % 2
               p2 == (y \div 128) % 2
               p3 == (y \div 64) % 2
               p4 == (y \div 32) % 2
               p5 == (y \div 16) % 2
    <3>5. p0 \in Nat /\ p1 \in Nat /\ p2 \in Nat /\ p3 \in Nat /\ p4 \in Nat /\ p5 \in Nat
      BY <2>1
    <3>6. /\ B(e + 6) = p0 /\ B(e + 7) = p1 /\ B(e + 8) = p2
          /\ B(e + 8 + 1) = p3 /\ B(e + 8 + 2) = p4 /\ B(e + 8 + 3) = p5
          /\ x % 4 = 2 * p0 + p1 /\ y \div 16 = 8 * p2 + 4 * p3 + 2 * p4 + p5
      BY <3>1, <3>2
    <3> HIDE DEF B, p0, p1, p2, p3, p4, p5
    <3>7. (((2 * p0) + p1) * 16) + (8 * p2 + 4 * p3 + 2 * p4 + p5)
            = 32 * p0 + 16 * p1 + 8 * p2 + 4 * p3 + 2 * p4 + p5
      BY <3>5
    <3> QED BY <3>3, <3>4, <3>6, <3>7, Zenon
  <2>4. Digit(d, 4 * (g - 1) + 3) = sextets(a)[3]
    <3>1. /\ B(e + 8 + 4) = (y \div 8) % 2 /\ B(e + 8 + 5) = (y \div 4) % 2
          /\ B(e + 8 + 6) = (y \div 2) % 2 /\ B(e + 8 + 7) = y % 2
          /\ B(e + 16) = (z \div 128) % 2 /\ B(e + 16 + 1) = (z \div 64) % 2
      BY <1>6, <1>7, Zenon DEF BitsFrom, B
    <3>2. /\ y % 16 = 8 * ((y \div 8) % 2) + 4 * ((y \div 4) % 2) + 2 * ((y \div 2) % 2) + (y % 2)
          /\ z \div 64 = 2 * ((z \div 128) % 2) + ((z \div 64) % 2)
      BY <1>3, BitsOfOctet
    <3>3. sextets(a)[3] = ((y % 16) * 4) + (z \div 64) BY <1>2
    <3>4. Digit(d, 4 * (g - 1) + 3) = 32 * B(e + 8 + 4) + 16 * B(e + 8 + 5) + 8 * B(e + 8 + 6)
                                      + 4 * B(e + 8 + 7) + 2 * B(e + 16) + B(e + 16 + 1)
      BY <1>9
    <3> DEFINE p0 == (y \div 8) % 2
               p1 == (y \div 4) % 2
               p2 == (y \div 2) % 2
               p3 == y % 2
               p4 == (z \div 128) % 2
               p5 == (z \div 64) % 2
    <3>5. p0 \in Nat /\ p1 \in Nat /\ p2 \in Nat /\ p3 \in Nat /\ p4 \in Nat /\ p5 \in Nat
      BY <2>1
    <3>6. /\ B(e + 8 + 4) = p0 /\ B(e + 8 + 5) = p1 /\ B(e + 8 + 6) = p2
          /\ B(e + 8 + 7) = p3 /\ B(e + 16) = p4 /\ B(e + 16 + 1) = p5
          /\ y % 16 = 8 * p0 + 4 * p1 + 2 * p2 + p3 /\ z \div 64 = 2 * p4 + p5
      BY <3>1, <3>2
    <3> HIDE DEF B, p0, p1, p2, p3, p4, p5
    <3>7. ((8 * p0 + 4 * p1 + 2 * p2 + p3) * 4) + (2 * p4 + p5)
            = 32 * p0 + 16 * p1 + 8 * p2 + 4 * p3 + 2 * p4 + p5
      BY <3>5
    <3> QED BY <3>3, <3>4, <3>6, <3>7, Zenon
  <2>5. Digit(d, 4 * (g - 1) + 4) = sextets(a)[4]
    <3>1. /\ B(e + 16 + 2) = (z \div 32) % 2 /\ B(e + 16 + 3) = (z \div 16) % 2
          /\ B(e + 16 + 4) = (z \div 8) % 2 /\ B(e + 16 + 5) = (z \div 4) % 2
          /\ B(e + 16 + 6) = (z \div 2) % 2 /\ B(e + 16 + 7) = z % 2
      BY <1>7, Zenon DEF BitsFrom, B
    <3>2. z % 64 = 32 * ((z \div 32) % 2) + 16 * ((z \div 16) % 2) + 8 * ((z \div 8) % 2)
                   + 4 * ((z \div 4) % 2) + 2 * ((z \div 2) % 2) + (z % 2)
      BY <1>3, BitsOfOctet
    <3>3. sextets(a)[4] = z % 64 BY <1>2
    <3>4. Digit(d, 4 * (g - 1) + 4) = 32 * B(e + 16 + 2) + 16 * B(e + 16 + 3) + 8 * B(e + 16 + 4)
                                      + 4 * B(e + 16 + 5) + 2 * B(e + 16 + 6) + B(e + 16 + 7)
      BY <1>9
    <3> HIDE DEF B
    <3> QED BY <2>1, <3>1, <3>2, <3>3, <3>4
  <2> QED BY <2>2, <2>3, <2>4, <2>5
<1>11. c = 1 \/ c = 2 \/ c = 3 \/ c = 4 OBVIOUS
<1> QED BY <1>10, <1>11 DEF a

\* The first n elements.
LEMMA Beginning ==
  ASSUME NEW S, NEW s \in Seq(S), NEW n \in 0..Len(s)
  PROVE  /\ SubSeq(s, 1, n) \in Seq(S) /\ Len(SubSeq(s, 1, n)) = n
         /\ \A i \in 1..n : SubSeq(s, 1, n)[i] = s[i]
<1>1. 1 \in Nat \ {0} /\ n \in Nat /\ n - 1 + 1 = n /\ (1 <= n \/ n = 0)
      /\ \A i \in 1..n : 1 + i - 1 = i
  BY LenProperties
<1> DEFINE t == SubSeq(s, 1, n)
<1>2. /\ t \in Seq(S) /\ Len(t) = (IF 1 <= n THEN n - 1 + 1 ELSE 0)
      /\ \A i \in 1..(n - 1 + 1) : t[i] = s[1 + i - 1]
  BY <1>1, SubSeqType
<1> HIDE DEF t
<1>3. t \in Seq(S) /\ Len(t) = n /\ \A i \in 1..n : t[i] = s[i] BY <1>1, <1>2
<1> QED BY <1>3 DEF t

LEMMA LeastNat ==
  ASSUME NEW T, T \subseteq Nat, T # {}
  PROVE  \E m \in T : \A y \in T : m <= y
<1> DEFINE Less == {ss \in Nat \X Nat : ss[1] < ss[2]}
<1>1. IsWellFoundedOn(Less, Nat) BY NatLessThanWellFounded DEF OpToRel
<1> HIDE DEF Less
<1>2. PICK x \in T : \A y \in T : ~ (<<y, x>> \in Less) BY <1>1, WFMin
<1>3. \A y \in T : ~(y < x) BY <1>2 DEF Less
<1> QED BY <1>3

\* f[i] is the first i elements of s joined.
Joins(f, s, n) ==
  /\ DOMAIN f = 1..n /\ f[1] = s[1]
  /\ \A i \in 2..n : f[i] = f[i - 1] \o s[i]

\* FlattenSeq() joins all of them: a function that does exists, and the
\* recursive definition is one.
LEMMA FlattenJoins ==
  ASSUME NEW s, Len(s) \in Nat, Len(s) # 0
  PROVE  \E f : Joins(f, s, Len(s)) /\ FlattenSeq(s) = f[Len(s)]
<1> DEFINE L == Len(s)
           Solves(f) == f = [i \in 1..L |-> IF i = 1 THEN s[i] ELSE f[i - 1] \o s[i]]
           bad == {n \in Nat : n # 0 /\ n <= L /\ ~\E f : Joins(f, s, n)}
<1>1. \E f : Joins(f, s, L)
  <2>1. CASE bad = {} BY <2>1
  <2>2. CASE bad # {}
    <3>1. PICK m \in bad : \A y \in bad : m <= y
      <4> HIDE DEF bad
      <4>1. bad \subseteq Nat BY DEF bad
      <4> QED BY <2>2, <4>1, LeastNat
    <3>2. CASE m = 1
      <4> DEFINE f == [k \in 1..1 |-> s[1]]
      <4>1. f[1] = s[1] /\ DOMAIN f = 1..1 /\ 2..1 = {} OBVIOUS
      <4> HIDE DEF f
      <4>2. Joins(f, s, 1) BY <4>1 DEF Joins
      <4> QED BY <3>1, <3>2, <4>2
    <3>3. CASE m # 1
      <4>1. m \in Nat /\ m >= 2 /\ m <= L BY <3>1, <3>3
      <4>2. m - 1 \in Nat /\ m - 1 # 0 /\ m - 1 <= L /\ ~(m <= m - 1) BY <4>1
      <4>3. PICK g : Joins(g, s, m - 1) BY <3>1, <4>2
      <4> DEFINE f == [k \in 1..m |-> IF k = m THEN g[m - 1] \o s[m] ELSE g[k]]
      <4>4. /\ f[1] = g[1] /\ f[m] = g[m - 1] \o s[m]
            /\ \A k \in 1..(m - 1) : f[k] = g[k]
        <5>1. /\ 1 \in 1..m /\ m \in 1..m /\ 1 # m
              /\ \A k \in 1..(m - 1) : k \in 1..m /\ k # m
          BY <4>1
        <5> QED BY <5>1
      <4>5. DOMAIN f = 1..m OBVIOUS
      <4> HIDE DEF f
      <4>6. ASSUME NEW k \in 2..m PROVE f[k] = f[k - 1] \o s[k]
        <5>1. k - 1 \in 1..(m - 1) /\ (k = m \/ (k \in 2..(m - 1) /\ k \in 1..(m - 1))) BY <4>1
        <5>2. CASE k = m BY <4>4, <5>1, <5>2
        <5>3. CASE k \in 2..(m - 1) /\ k \in 1..(m - 1)
          <6>1. g[k] = g[k - 1] \o s[k] BY <4>3, <5>3 DEF Joins
          <6> QED BY <4>4, <5>1, <5>3, <6>1
        <5> QED BY <5>1, <5>2, <5>3
      <4>7. Joins(f, s, m) BY <4>3, <4>4, <4>5, <4>6 DEF Joins
      <4> QED BY <3>1, <4>7
    <3> QED BY <3>2, <3>3
  <2> QED BY <2>1, <2>2
<1>2. PICK f : Joins(f, s, L) BY <1>1
<1>3. \E g : Solves(g)
  <2> DEFINE g == [i \in 1..L |-> f[i]]
  <2>1. ASSUME NEW i \in 1..L PROVE g[i] = IF i = 1 THEN s[i] ELSE g[i - 1] \o s[i]
    <3>1. CASE i = 1 BY <1>2, <3>1 DEF Joins
    <3>2. CASE i # 1
      <4>1. i \in 2..L /\ i - 1 \in 1..L BY <3>2
      <4>2. f[i] = f[i - 1] \o s[i] BY <1>2, <4>1 DEF Joins
      <4> QED BY <3>2, <4>1, <4>2
    <3> QED BY <3>1, <3>2
  <2>2. Solves(g) BY <2>1
  <2> QED BY <2>2
<1>4. PICK g : Solves(g) /\ FlattenSeq(s) = g[L]
  <2>1. FlattenSeq(s) = (CHOOSE g : Solves(g))[L] BY DEF FlattenSeq
  <2> HIDE DEF Solves
  <2>2. Solves(CHOOSE g : Solves(g)) BY <1>3
  <2> QED BY <2>1, <2>2
<1>5. Joins(g, s, L)
  <2>1. DOMAIN g = 1..L BY <1>4
  <2>2. \A i \in 1..L : g[i] = IF i = 1 THEN s[i] ELSE g[i - 1] \o s[i] BY <1>4
  <2>3. 1 \in 1..L /\ \A i \in 2..L : i \in 1..L /\ i # 1 OBVIOUS
  <2> QED BY <2>1, <2>2, <2>3 DEF Joins
<1> QED BY <1>4, <1>5

\* Where the elements of a sequence of groups of one size lie.
Flattened(S, size, s) ==
  /\ FlattenSeq(s) \in Seq(S) /\ Len(FlattenSeq(s)) = size * Len(s)
  /\ \A i \in 1..Len(s), j \in 1..size : FlattenSeq(s)[size * (i - 1) + j] = s[i][j]

LEMMA FlattenGroups ==
  ASSUME NEW S, NEW size \in {3, 4}, NEW s \in Seq(Seq(S)),
         \A i \in 1..Len(s) : Len(s[i]) = size
  PROVE  Flattened(S, size, s)
<1> DEFINE L == Len(s)
           OK(t, n) == /\ t \in Seq(S) /\ Len(t) = size * n
                       /\ \A i \in 1..n, j \in 1..size : t[size * (i - 1) + j] = s[i][j]
<1>1. L \in Nat /\ size \in Nat /\ \A i \in 1..L : s[i] \in Seq(S) /\ Len(s[i]) = size
  <2>1. L \in Nat /\ \A i \in 1..L : s[i] \in Seq(S) BY LenProperties, ElementOfSeq
  <2> QED BY <2>1
<1>2. CASE L = 0
  <2>1. s = <<>> BY <1>2, EmptySeq
  <2>2. FlattenSeq(s) = s BY <1>2 DEF FlattenSeq
  <2>3. s \in Seq(S) /\ size * L = 0 /\ 1..L = {} BY <1>1, <1>2, <2>1
  <2> QED BY <1>2, <2>2, <2>3 DEF Flattened
<1>3. CASE L # 0
  <2>1. PICK f : Joins(f, s, L) /\ FlattenSeq(s) = f[L] BY <1>1, <1>3, FlattenJoins
  <2> DEFINE bad == {n \in Nat : n # 0 /\ n <= L /\ ~OK(f[n], n)}
  <2>2. CASE bad = {}
    <3>1. OK(f[L], L)
      <4> HIDE DEF OK
      <4>1. L \notin bad BY <2>2
      <4> QED BY <1>1, <1>3, <4>1
    <3> QED BY <2>1, <3>1 DEF Flattened
  <2>3. CASE bad # {}
    <3>1. PICK m \in bad : \A y \in bad : m <= y
      <4> HIDE DEF bad
      <4>1. bad \subseteq Nat BY DEF bad
      <4> QED BY <2>3, <4>1, LeastNat
    <3>2. m \in Nat /\ m # 0 /\ m <= L /\ ~OK(f[m], m) BY <3>1
    <3>3. m # 1
      <4>1. f[1] = s[1] BY <2>1 DEF Joins
      <4>2. 1 \in 1..L /\ size * 1 = size /\ \A j \in 1..size : size * (1 - 1) + j = j
        BY <1>1, <1>3
      <4>3. f[1] \in Seq(S) /\ Len(f[1]) = size * 1 BY <1>1, <4>1, <4>2
      <4>4. \A i \in 1..1, j \in 1..size : f[1][size * (i - 1) + j] = s[i][j] BY <4>1, <4>2
      <4>5. OK(f[1], 1) BY <4>3, <4>4
      <4> HIDE DEF OK
      <4> QED BY <3>2, <4>5
    <3>4. m - 1 \in Nat /\ m - 1 # 0 /\ m - 1 <= L /\ ~(m <= m - 1) /\ m \in 2..L /\ m \in 1..L
      BY <1>1, <3>2, <3>3
    <3>5. OK(f[m - 1], m - 1)
      <4> HIDE DEF OK
      <4> QED BY <3>1, <3>4
    <3> DEFINE a == f[m - 1]
               b == s[m]
    <3>6. f[m] = a \o b BY <2>1, <3>4 DEF Joins
    <3>7. a \in Seq(S) /\ b \in Seq(S) /\ Len(a) = size * (m - 1) /\ Len(b) = size
      BY <1>1, <3>4, <3>5
    <3> DEFINE q == size * (m - 1)
               t == a \o b
    <3>8. /\ t \in Seq(S) /\ Len(t) = Len(a) + Len(b)
          /\ \A k \in 1..(Len(a) + Len(b)) : t[k] = IF k <= Len(a) THEN a[k] ELSE b[k - Len(a)]
      <4>1. a \in Seq(S) /\ b \in Seq(S) BY <3>7
      <4> HIDE DEF a, b
      <4> QED BY <4>1, ConcatProperties
    <3>9. q \in Nat /\ q + size = size * m BY <1>1, <3>2
    <3> HIDE DEF t
    <3>10. ASSUME NEW i \in 1..m, NEW j \in 1..size PROVE t[size * (i - 1) + j] = s[i][j]
      <4> DEFINE p == size * (i - 1) + j
      <4>1. \A k \in 1..(q + size) : t[k] = IF k <= q THEN a[k] ELSE b[k - q]
        <5> HIDE DEF a, b
        <5> QED BY <3>7, <3>8
      <4>2. CASE i = m
        <5>1. p = q + j /\ j \in Nat /\ 1 <= j /\ j <= size BY <1>1, <4>2
        <5> HIDE DEF a, p, q
        <5>2. p \in 1..(q + size) /\ ~(p <= q) /\ p - q = j BY <1>1, <3>9, <5>1
        <5>3. t[p] = b[j] BY <4>1, <5>2
        <5> QED BY <4>2, <5>3 DEF p
      <4>3. CASE i \in 1..(m - 1)
        <5>1. p \in 1..(q + size) /\ p <= q
          <6>1. size = 3 \/ size = 4 OBVIOUS
          <6>2. i \in Nat /\ j \in Nat /\ 1 <= i /\ 1 <= j /\ i <= m - 1 /\ j <= size
            BY <1>1, <3>2, <4>3
          <6>3. CASE size = 3 BY <3>2, <6>2, <6>3
          <6>4. CASE size = 4 BY <3>2, <6>2, <6>4
          <6> QED BY <6>1, <6>3, <6>4
        <5>2. a[p] = s[i][j] BY <3>5, <4>3
        <5> HIDE DEF a, b, p, q
        <5>3. t[p] = a[p] BY <4>1, <5>1
        <5> QED BY <5>2, <5>3 DEF p
      <4>4. i = m \/ i \in 1..(m - 1) BY <3>2
      <4> QED BY <4>2, <4>3, <4>4
    <3>11. f[m] = t BY <3>6 DEF t
    <3>12. Len(t) = size * m
      <4> HIDE DEF a, b, q
      <4>1. Len(a) = q /\ Len(b) = size BY <3>7 DEF q
      <4> QED BY <3>8, <3>9, <4>1
    <3>13. OK(f[m], m) BY <3>8, <3>10, <3>11, <3>12
    <3> HIDE DEF OK
    <3> QED BY <3>2, <3>13
  <2> QED BY <2>2, <2>3
<1> QED BY <1>2, <1>3

LEMMA GroupTypes ==
  ASSUME NEW d \in Seq(Octet), NEW g \in Nat \ {0}
  PROVE  /\ Group(d, g, 3, 0) \in [1..3 -> Octet]
         /\ sextets(Group(d, g, 3, 0)) \in Seq(Digits) /\ Len(sextets(Group(d, g, 3, 0))) = 4
<1>1. Group(d, g, 3, 0) \in [1..3 -> Octet]
  <2>1. 0 \in Octet BY DEF Octet
  <2> QED BY <2>1, GroupType
<1> DEFINE a == Group(d, g, 3, 0)
<1>2. sextets(a) \in [1..4 -> Digits]
  <2> HIDE DEF a
  <2> QED BY <1>1, SextetsAreDigits DEF a
<1>3. sextets(a) \in Seq(Digits) /\ Len(sextets(a)) = 4
  <2> DEFINE t == sextets(a)
  <2> HIDE DEF t
  <2>1. t \in [1..4 -> Digits] BY <1>2 DEF t
  <2>2. t \in Seq(Digits)
    <3>1. 4 \in Nat OBVIOUS
    <3> QED BY <2>1, <3>1, SeqDef
  <2>3. Len(t) = 4 BY <2>1, <2>2, LenProperties
  <2> QED BY <2>2, <2>3 DEF t
<1> QED BY <1>1, <1>3

\* Digit k is digit c of group g.
LEMMA Places ==
  ASSUME NEW k \in Nat \ {0}
  PROVE  \E g \in Nat \ {0}, c \in 1..4 : k = 4 * (g - 1) + c /\ g = (k - 1) \div 4 + 1
<1> DEFINE g == (k - 1) \div 4 + 1
           c == ((k - 1) % 4) + 1
<1>1. g \in Nat \ {0} /\ c \in 1..4 /\ k = 4 * (g - 1) + c OBVIOUS
<1> QED BY <1>1

LEMMA DigitType ==
  ASSUME NEW d \in Seq(Octet), NEW k \in Nat \ {0}
  PROVE  Digit(d, k) \in Digits
<1>1. PICK g \in Nat \ {0}, c \in 1..4 : k = 4 * (g - 1) + c BY Places
<1>2. Digit(d, 4 * (g - 1) + c) = sextets(Group(d, g, 3, 0))[c] BY DigitsOfGroup
<1>3. \A i \in 1..4 : sextets(Group(d, g, 3, 0))[i] \in Digits BY GroupTypes, ElementOfSeq
<1> QED BY <1>1, <1>2, <1>3

\* The whole groups of the data as digits.
LEMMA WholeGroups ==
  ASSUME NEW d \in Seq(Octet), NEW W \in Nat
  PROVE  LET whole == FlattenSeq([n \in 1..W |-> sextets(Group(d, n, 3, 0))])
         IN /\ whole \in Seq(Digits) /\ Len(whole) = 4 * W
            /\ \A k \in 1..(4 * W) : whole[k] = Digit(d, k)
<1> DEFINE s == [n \in 1..W |-> sextets(Group(d, n, 3, 0))]
           whole == FlattenSeq(s)
<1>1. \A n \in 1..W : /\ s[n] = sextets(Group(d, n, 3, 0))
                      /\ s[n] \in Seq(Digits) /\ Len(s[n]) = 4
  <2>1. \A n \in 1..W : n \in Nat \ {0} OBVIOUS
  <2> QED BY <2>1, GroupTypes
<1>2. s \in Seq(Seq(Digits)) /\ Len(s) = W
  <2>1. s \in [1..W -> Seq(Digits)] BY <1>1
  <2> HIDE DEF s
  <2>2. s \in Seq(Seq(Digits)) BY <2>1
  <2>3. DOMAIN s = 1..W BY <2>1
  <2> QED BY <2>2, <2>3, LenProperties
<1>3. /\ whole \in Seq(Digits) /\ Len(whole) = 4 * W
      /\ \A i \in 1..W, j \in 1..4 : whole[4 * (i - 1) + j] = s[i][j]
  <2> HIDE DEF s
  <2>1. 4 \in {3, 4} OBVIOUS
  <2>2. \A i \in 1..Len(s) : Len(s[i]) = 4 BY <1>1, <1>2
  <2>3. Flattened(Digits, 4, s) BY <1>2, <2>1, <2>2, FlattenGroups
  <2> QED BY <1>2, <2>3 DEF Flattened
<1>4. ASSUME NEW k \in 1..(4 * W) PROVE whole[k] = Digit(d, k)
  <2>1. k \in Nat \ {0} OBVIOUS
  <2>2. PICK g \in Nat \ {0}, c \in 1..4 : k = 4 * (g - 1) + c BY <2>1, Places
  <2>3. g \in 1..W BY <2>2
  <2> HIDE DEF whole
  <2>4. whole[4 * (g - 1) + c] = s[g][c] BY <1>3, <2>3
  <2>5. Digit(d, 4 * (g - 1) + c) = sextets(Group(d, g, 3, 0))[c] BY DigitsOfGroup
  <2> QED BY <1>1, <2>2, <2>3, <2>4, <2>5
<1> QED BY <1>3, <1>4

\* The digits of the data and the text they make.
DigitsOf(d) == (8 * Len(d) + 5) \div 6
TextOf(d) == [k \in 1..(4 * ((Len(d) + 2) \div 3)) |->
                IF k <= DigitsOf(d) THEN Digit(d, k) ELSE Pad]

LEMMA Lengths ==
  ASSUME NEW d \in Seq(Octet)
  PROVE  LET W == Len(d) \div 3
             R == Len(d) % 3
         IN /\ Len(d) \in Nat /\ W \in Nat /\ R \in 0..2 /\ Len(d) = 3 * W + R
            /\ DigitsOf(d) = 4 * W + (IF R = 0 THEN 0 ELSE R + 1)
            /\ 4 * ((Len(d) + 2) \div 3) = 4 * W + (IF R = 0 THEN 0 ELSE 4)
<1> DEFINE L == Len(d)
           W == L \div 3
           R == L % 3
<1>1. L \in Nat BY LenProperties
<1> HIDE DEF L
<1>2. W \in Nat /\ R \in 0..2 /\ L = 3 * W + R BY <1>1
<1>3. /\ (8 * L + 5) \div 6 = 4 * W + (IF R = 0 THEN 0 ELSE R + 1)
      /\ 4 * ((L + 2) \div 3) = 4 * W + (IF R = 0 THEN 0 ELSE 4)
  <2> HIDE DEF W, R
  <2>1. R = 0 \/ R = 1 \/ R = 2 BY <1>2
  <2>2. CASE R = 0 BY <1>2, <2>2
  <2>3. CASE R = 1 BY <1>2, <2>3
  <2>4. CASE R = 2 BY <1>2, <2>4
  <2> QED BY <2>1, <2>2, <2>3, <2>4
<1> QED BY <1>1, <1>2, <1>3 DEF L, DigitsOf

LEMMA SameSeq ==
  ASSUME NEW S, NEW s \in Seq(S), NEW f, NEW n \in Nat, DOMAIN f = 1..n, f = [k \in 1..n |-> f[k]],
         Len(s) = n, \A k \in 1..n : s[k] = f[k]
  PROVE  s = f
<1>1. DOMAIN s = 1..n /\ s = [k \in DOMAIN s |-> s[k]] BY LenProperties
<1> QED BY <1>1

\* base64Encode() writes the digits and pads them to whole groups.
LEMMA EncodeIs ==
  ASSUME NEW d \in Seq(Octet)
  PROVE  base64Encode(d) = TextOf(d)
<1> DEFINE L == Len(d)
           W == L \div 3
           R == L % 3
           N == 4 * ((L + 2) \div 3)
           whole == FlattenSeq([n \in 1..W |-> sextets(Group(d, n, 3, 0))])
           tail == sextets(Group(d, W + 1, 3, 0))
           u == SubSeq(tail, 1, R + 1)
           v == [i \in 1..(3 - R) |-> Pad]
           f == TextOf(d)
<1>1. /\ L \in Nat /\ W \in Nat /\ R \in 0..2
      /\ DigitsOf(d) = 4 * W + (IF R = 0 THEN 0 ELSE R + 1)
      /\ N = 4 * W + (IF R = 0 THEN 0 ELSE 4)
  BY Lengths
<1>2. DOMAIN f = 1..N /\ f = [k \in 1..N |-> f[k]]
      /\ \A k \in 1..N : f[k] = IF k <= DigitsOf(d) THEN Digit(d, k) ELSE Pad
  BY DEF TextOf
<1>3. /\ whole \in Seq(Digits) /\ Len(whole) = 4 * W
      /\ \A k \in 1..(4 * W) : whole[k] = Digit(d, k)
  <2> HIDE DEF W
  <2> QED BY <1>1, WholeGroups
<1>4. base64Encode(d) = IF R = 0 THEN whole ELSE (whole \o u) \o v
  BY DEF base64Encode
<1> HIDE DEF f, whole
<1>5. CASE R = 0
  <2>1. N = 4 * W /\ DigitsOf(d) = 4 * W /\ 4 * W \in Nat BY <1>1, <1>5
  <2> HIDE DEF N, W, R, L
  <2>2. \A k \in 1..N : k <= DigitsOf(d) BY <2>1
  <2>3. \A k \in 1..N : whole[k] = f[k] BY <1>2, <1>3, <2>1, <2>2
  <2>4. whole = f BY <1>2, <1>3, <2>1, <2>3, SameSeq
  <2> QED BY <1>4, <1>5, <2>4 DEF f
<1>6. CASE R # 0
  <2>1. /\ R \in 1..2 /\ N = 4 * W + 4 /\ DigitsOf(d) = 4 * W + R + 1
        /\ W + 1 \in Nat \ {0} /\ 4 * W \in Nat /\ (W + 1) - 1 = W
    <3> HIDE DEF N, W, R, L
    <3> QED BY <1>1, <1>6
  <2>2. tail \in Seq(Digits) /\ Len(tail) = 4
    <3> HIDE DEF W
    <3> QED BY <2>1, GroupTypes
  <2>3. \A c \in 1..4 : tail[c] = Digit(d, 4 * W + c)
    <3>1. \A c \in 1..4 : tail[c] = Digit(d, 4 * ((W + 1) - 1) + c)
      <4> DEFINE g == W + 1
      <4> HIDE DEF g
      <4>1. g \in Nat \ {0} BY <2>1 DEF g
      <4>2. \A c \in 1..4 : sextets(Group(d, g, 3, 0))[c] = Digit(d, 4 * (g - 1) + c)
        BY <4>1, DigitsOfGroup
      <4> QED BY <4>2 DEF g
    <3> HIDE DEF W, tail
    <3> QED BY <2>1, <3>1
  <2> DEFINE M == 4 * W
  <2>4. /\ R \in Nat /\ 1 <= R /\ R <= 2 /\ M \in Nat
        /\ N = M + 4 /\ DigitsOf(d) = M + R + 1
    <3> HIDE DEF N, W, R, L
    <3> QED BY <1>1, <2>1
  <2>5. /\ Len(whole) = M /\ \A k \in 1..M : whole[k] = Digit(d, k)
        /\ \A c \in 1..4 : tail[c] = Digit(d, M + c)
    BY <1>3, <2>3
  <2> HIDE DEF N, W, R, L, tail, M
  <2>6. /\ u \in Seq(Digits) /\ Len(u) = R + 1
        /\ \A c \in 1..(R + 1) : u[c] = tail[c]
    <3> DEFINE n == R + 1
    <3>1. n \in 0..Len(tail) BY <2>2, <2>4
    <3> HIDE DEF n
    <3>2. /\ SubSeq(tail, 1, n) \in Seq(Digits) /\ Len(SubSeq(tail, 1, n)) = n
          /\ \A c \in 1..n : SubSeq(tail, 1, n)[c] = tail[c]
      BY <2>2, <3>1, Beginning
    <3> QED BY <3>2 DEF n
  <2>7. /\ v \in Seq(Nat) /\ Len(v) = 3 - R
        /\ \A c \in 1..(3 - R) : v[c] = Pad
    <3>1. 3 - R \in Nat /\ Pad \in Nat BY <2>1 DEF Pad
    <3> QED BY <3>1
  <2> HIDE DEF u, v
  <2>8. whole \in Seq(Nat) /\ u \in Seq(Nat)
    <3>1. Digits \subseteq Nat BY DEF Digits
    <3> QED BY <1>3, <2>6, <3>1, SeqMonotonic
  <2> DEFINE a == whole \o u
             b == a \o v
  <2>9. /\ a \in Seq(Nat) /\ Len(a) = Len(whole) + Len(u)
        /\ \A k \in 1..(Len(whole) + Len(u)) :
             a[k] = IF k <= Len(whole) THEN whole[k] ELSE u[k - Len(whole)]
    BY <2>8, ConcatProperties
  <2> HIDE DEF a
  <2>10. /\ b \in Seq(Nat) /\ Len(b) = Len(a) + Len(v)
         /\ \A k \in 1..(Len(a) + Len(v)) : b[k] = IF k <= Len(a) THEN a[k] ELSE v[k - Len(a)]
    <3>1. a \in Seq(Nat) /\ v \in Seq(Nat) BY <2>7, <2>9
    <3> QED BY <3>1, ConcatProperties
  <2> HIDE DEF b
  <2>11. Len(a) = M + R + 1 /\ Len(b) = N /\ N \in Nat BY <2>4, <2>5, <2>6, <2>7, <2>9, <2>10
  <2>12. ASSUME NEW k \in 1..N PROVE b[k] = f[k]
    <3>1. CASE k <= M
      <4>1. /\ k \in 1..(M) /\ k <= Len(a) /\ k <= DigitsOf(d) /\ k \in 1..(Len(a) + Len(v))
            /\ k \in 1..(Len(whole) + Len(u)) /\ k <= Len(whole)
        <5>1. /\ Len(a) = M + R + 1 /\ Len(v) = 3 - R /\ Len(u) = R + 1 /\ Len(whole) = M
          BY <2>5, <2>6, <2>7, <2>11
        <5>2. k \in Nat /\ 1 <= k BY <2>11
        <5> QED BY <2>4, <3>1, <5>1, <5>2
      <4>2. b[k] = whole[k] BY <2>9, <2>10, <4>1
      <4> QED BY <1>2, <2>5, <4>1, <4>2
    <3>2. CASE k > M /\ k <= M + R + 1
      <4> DEFINE c == k - M
      <4>1. /\ k <= Len(a) /\ k <= DigitsOf(d) /\ k \in 1..(Len(a) + Len(v))
            /\ k \in 1..(Len(whole) + Len(u)) /\ ~(k <= Len(whole)) /\ k - Len(whole) = c
            /\ c \in 1..(R + 1) /\ c \in 1..4 /\ M + c = k
        BY <2>4, <2>5, <2>6, <2>7, <2>11, <3>2
      <4>2. b[k] = u[c] BY <2>9, <2>10, <4>1
      <4> HIDE DEF c
      <4>3. u[c] = tail[c] BY <2>6, <4>1
      <4>4. tail[c] = Digit(d, M + c) BY <2>5, <4>1, Zenon
      <4> QED BY <1>2, <4>1, <4>2, <4>3, <4>4
    <3>3. CASE k > M + R + 1
      <4> DEFINE c == k - Len(a)
      <4>1. /\ ~(k <= Len(a)) /\ ~(k <= DigitsOf(d)) /\ k \in 1..(Len(a) + Len(v))
            /\ c \in 1..(3 - R)
        BY <2>4, <2>7, <2>11, <3>3
      <4>2. b[k] = v[c] BY <2>10, <4>1
      <4> QED BY <1>2, <2>7, <4>1, <4>2
    <3> QED BY <2>4, <3>1, <3>2, <3>3
  <2>13. b = f BY <1>2, <2>10, <2>11, <2>12, SameSeq
  <2> QED BY <1>4, <1>6, <2>13 DEF a, b, f
<1> QED BY <1>5, <1>6

\* What base64Decode() makes of the digits it has read.
Decoded(read) ==
  LET rest == Len(read) % 4
      whole == FlattenSeq([n \in 1..(Len(read) \div 4) |-> octets(Group(read, n, 4, 0))])
      tail == octets(Group(read, Len(read) \div 4 + 1, 4, Terminator))
  IN IF rest = 0 THEN whole ELSE whole \o SubSeq(tail, 1, rest - 1)

\* It reads up to the first character that is no digit.
LEMMA ReadsDigits ==
  ASSUME NEW text \in Seq(Nat), NEW m \in 0..Len(text),
         \A i \in 1..m : text[i] \in Digits,
         m < Len(text) => text[m + 1] \notin Digits
  PROVE  base64Decode(text) = Decoded(SubSeq(text, 1, m))
<1> DEFINE I == {i \in 1..Len(text) : text[i] \notin Digits}
           stop == IF I # {} THEN Min(I) ELSE 0
           read == IF stop = 0 THEN text ELSE SubSeq(text, 1, stop - 1)
<1>1. base64Decode(text) = Decoded(read)
  BY DEF base64Decode, Decoded, SelectInSeq
<1>2. Len(text) \in Nat BY LenProperties
<1>3. CASE m = Len(text)
  <2>1. I = {} BY <1>3
  <2>2. read = text BY <2>1
  <2>3. SubSeq(text, 1, Len(text)) = text BY SubSeqFull
  <2> QED BY <1>1, <1>3, <2>2, <2>3
<1>4. CASE m < Len(text)
  <2>1. m + 1 \in I BY <1>2, <1>4
  <2>2. \A i \in I : m + 1 <= i
    <3>1. ASSUME NEW i \in I, i <= m PROVE FALSE BY <3>1
    <3>2. I \subseteq Nat OBVIOUS
    <3> HIDE DEF I
    <3> QED BY <1>2, <3>1, <3>2
  <2>3. Min(I) = m + 1
    <3>1. I \subseteq Nat OBVIOUS
    <3> HIDE DEF I
    <3>2. \E x \in I : \A y \in I : x <= y BY <2>1, <2>2
    <3>3. Min(I) \in I /\ \A y \in I : Min(I) <= y BY <3>2 DEF Min
    <3>4. Min(I) \in Nat /\ m + 1 <= Min(I) /\ Min(I) <= m + 1 BY <2>1, <2>2, <3>1, <3>3
    <3> QED BY <1>2, <3>4
  <2>4. stop = m + 1 BY <2>1, <2>3
  <2> HIDE DEF stop, I
  <2>5. stop # 0 /\ stop - 1 = m BY <2>4
  <2>6. read = SubSeq(text, 1, m) BY <2>5
  <2> QED BY <1>1, <2>6
<1> QED BY <1>2, <1>3, <1>4

\* What the digits of a group decode to, whatever stands for a missing one.
LEMMA OctetsAre ==
  ASSUME NEW d \in Seq(Octet), NEW g \in Nat \ {0}, NEW c
  PROVE  LET a == Group(d, g, 3, 0)
         IN /\ c[1] = Digit(d, 4 * (g - 1) + 1) /\ c[2] = Digit(d, 4 * (g - 1) + 2)
                 => octets(c)[1] = a[1]
            /\ c[1] = Digit(d, 4 * (g - 1) + 1) /\ c[2] = Digit(d, 4 * (g - 1) + 2)
                 /\ c[3] = Digit(d, 4 * (g - 1) + 3) => octets(c)[2] = a[2]
            /\ c[3] = Digit(d, 4 * (g - 1) + 3) /\ c[4] = Digit(d, 4 * (g - 1) + 4)
                 => octets(c)[3] = a[3]
<1> DEFINE a == Group(d, g, 3, 0)
<1>1. a \in [1..3 -> Octet] BY GroupTypes
<1>2. /\ 1 \in 1..4 /\ 2 \in 1..4 /\ 3 \in 1..4 /\ 4 \in 1..4 OBVIOUS
<1>3. /\ Digit(d, 4 * (g - 1) + 1) = sextets(a)[1] /\ Digit(d, 4 * (g - 1) + 2) = sextets(a)[2]
      /\ Digit(d, 4 * (g - 1) + 3) = sextets(a)[3] /\ Digit(d, 4 * (g - 1) + 4) = sextets(a)[4]
  BY <1>2, DigitsOfGroup, Zenon
<1> HIDE DEF a
<1>4. /\ c[1] = sextets(a)[1] /\ c[2] = sextets(a)[2] => octets(c)[1] = a[1]
      /\ c[1] = sextets(a)[1] /\ c[2] = sextets(a)[2] /\ c[3] = sextets(a)[3]
           => octets(c)[2] = a[2]
      /\ c[3] = sextets(a)[3] /\ c[4] = sextets(a)[4] => octets(c)[3] = a[3]
  BY <1>1, OctetsOfSextets
<1> QED BY <1>3, <1>4 DEF a

\* octets() makes three bytes of any four numbers.
LEMMA OctetsType ==
  ASSUME NEW c, c[1] \in Nat, c[2] \in Nat, c[3] \in Nat, c[4] \in Nat
  PROVE  octets(c) \in Seq(Octet) /\ Len(octets(c)) = 3
<1> DEFINE x == ((c[1] * 4) + ((c[2] \div 16) % 4)) % 256
           y == (((c[2] % 16) * 16) + ((c[3] \div 4) % 16)) % 256
           z == (((c[3] % 4) * 64) + c[4]) % 256
<1>1. x \in Octet /\ y \in Octet /\ z \in Octet
  <2> DEFINE p == (c[1] * 4) + ((c[2] \div 16) % 4)
             q == ((c[2] % 16) * 16) + ((c[3] \div 4) % 16)
             r == ((c[3] % 4) * 64) + c[4]
  <2>1. p \in Nat OBVIOUS
  <2>2. q \in Nat OBVIOUS
  <2>3. r \in Nat OBVIOUS
  <2> HIDE DEF p, q, r
  <2>4. p % 256 \in Octet /\ q % 256 \in Octet /\ r % 256 \in Octet
    BY <2>1, <2>2, <2>3 DEF Octet
  <2> QED BY <2>4 DEF p, q, r
<1>2. octets(c) = <<x, y, z>> BY DEF octets
<1> HIDE DEF x, y, z
<1> QED BY <1>1, <1>2

\* Group g of the digits read.
LEMMA ReadGroup ==
  ASSUME NEW d \in Seq(Octet), NEW m \in Nat, NEW g \in Nat \ {0}, NEW fill \in Nat,
         NEW read, read = [i \in 1..m |-> Digit(d, i)]
  PROVE  /\ \A j \in 1..4 : 4 * (g - 1) + j <= m =>
              Group(read, g, 4, fill)[j] = Digit(d, 4 * (g - 1) + j)
         /\ octets(Group(read, g, 4, fill)) \in Seq(Octet)
         /\ Len(octets(Group(read, g, 4, fill))) = 3
<1> DEFINE c == Group(read, g, 4, fill)
<1>1. \A i \in 1..m : read[i] = Digit(d, i) /\ read[i] \in Nat
  <2>1. \A i \in 1..m : i \in Nat \ {0} OBVIOUS
  <2>2. \A i \in 1..m : Digit(d, i) \in Nat
    <3>1. \A i \in 1..m : Digit(d, i) \in Digits BY <2>1, DigitType
    <3>2. Digits \subseteq Nat BY DEF Digits
    <3> QED BY <3>1, <3>2
  <2> QED BY <2>2
<1>2. read \in Seq(Nat) /\ Len(read) = m
  <2>1. \A i \in 1..m : Digit(d, i) \in Nat BY <1>1
  <2> QED BY <2>1
<1>3. \A j \in 1..4 : c[j] = IF 4 * (g - 1) + j <= m THEN read[4 * (g - 1) + j] ELSE fill
  <2>1. 4 \in {3, 4} OBVIOUS
  <2>2. \A j \in 1..4 : c[j] = IF 4 * (g - 1) + j <= Len(read) THEN read[4 * (g - 1) + j] ELSE fill
    <3>1. \A j \in 1..4 : (g - 1) * 4 + j = 4 * (g - 1) + j OBVIOUS
    <3> QED BY <3>1 DEF Group
  <2> QED BY <1>2, <2>2
<1>4. \A j \in 1..4 : 4 * (g - 1) + j <= m => 4 * (g - 1) + j \in 1..m OBVIOUS
<1>5. \A j \in 1..4 : /\ c[j] \in Nat
                      /\ 4 * (g - 1) + j <= m => c[j] = Digit(d, 4 * (g - 1) + j)
  <2> HIDE DEF c
  <2> QED BY <1>1, <1>3, <1>4
<1>6. octets(c) \in Seq(Octet) /\ Len(octets(c)) = 3
  <2>1. 1 \in 1..4 /\ 2 \in 1..4 /\ 3 \in 1..4 /\ 4 \in 1..4 OBVIOUS
  <2>2. c[1] \in Nat /\ c[2] \in Nat /\ c[3] \in Nat /\ c[4] \in Nat BY <1>5, <2>1
  <2> HIDE DEF c
  <2> QED BY <2>2, OctetsType
<1> QED BY <1>5, <1>6

\* The first m digits decode to the bytes they hold all bits of.
LEMMA DecodedIs ==
  ASSUME NEW d \in Seq(Octet), NEW m \in Nat, m <= DigitsOf(d)
  PROVE  Decoded([i \in 1..m |-> Digit(d, i)]) = SubSeq(d, 1, (6 * m) \div 8)
<1> DEFINE read == [i \in 1..m |-> Digit(d, i)]
           U == m \div 4
           r == m % 4
           L == Len(d)
           n == (6 * m) \div 8
           s == [g \in 1..U |-> octets(Group(read, g, 4, 0))]
           whole == FlattenSeq(s)
           tail == octets(Group(read, U + 1, 4, Terminator))
           f == SubSeq(d, 1, n)
<1>1. /\ U \in Nat /\ r \in 0..3 /\ m = 4 * U + r /\ L \in Nat
      /\ n = 3 * U + (IF r = 0 THEN 0 ELSE r - 1) /\ n <= L /\ n \in Nat
  <2>1. L \in Nat BY LenProperties
  <2>2. m <= (8 * L + 5) \div 6 BY DEF DigitsOf
  <2> HIDE DEF L
  <2>3. U \in Nat /\ r \in 0..3 /\ m = 4 * U + r OBVIOUS
  <2> HIDE DEF U, r
  <2>4. r = 0 \/ r = 1 \/ r = 2 \/ r = 3 BY <2>3
  <2>5. n = 3 * U + (IF r = 0 THEN 0 ELSE r - 1)
    <3>1. CASE r = 0 BY <2>3, <3>1
    <3>2. CASE r = 1 BY <2>3, <3>2
    <3>3. CASE r = 2 BY <2>3, <3>3
    <3>4. CASE r = 3 BY <2>3, <3>4
    <3> QED BY <2>4, <3>1, <3>2, <3>3, <3>4
  <2>6. n <= L /\ n \in Nat BY <2>1, <2>2
  <2> HIDE DEF n
  <2> QED BY <2>1, <2>3, <2>5, <2>6
<1>2. Len(read) = m
  <2>1. \A i \in 1..m : Digit(d, i) \in Digits
    <3>1. \A i \in 1..m : i \in Nat \ {0} OBVIOUS
    <3> QED BY <3>1, DigitType
  <2> QED BY <2>1
<1>3. Decoded(read) = IF r = 0 THEN whole ELSE whole \o SubSeq(tail, 1, r - 1)
  <2> HIDE DEF read
  <2> QED BY <1>2 DEF Decoded
<1>4. /\ f \in Seq(Octet) /\ Len(f) = n
      /\ \A i \in 1..n : f[i] = d[i]
  <2> HIDE DEF n, L
  <2>1. n \in 0..L BY <1>1
  <2> QED BY <2>1, Beginning DEF L
<1>5. ASSUME NEW g \in Nat \ {0}, NEW j \in 1..3, 3 * (g - 1) + j <= n
      PROVE  Group(d, g, 3, 0)[j] = d[3 * (g - 1) + j]
  <2>1. 3 * (g - 1) + j <= L
    <3> HIDE DEF n, L
    <3> QED BY <1>1, <1>5
  <2>2. 3 \in {3, 4} OBVIOUS
  <2>3. Group(d, g, 3, 0)[j] = IF 3 * (g - 1) + j <= Len(d) THEN d[3 * (g - 1) + j] ELSE 0
    BY <2>2, GroupType
  <2> QED BY <2>1, <2>3
<1>6. ASSUME NEW g \in Nat \ {0}, NEW fill \in Nat
      PROVE  LET c == Group(read, g, 4, fill)
             IN /\ octets(c) \in Seq(Octet) /\ Len(octets(c)) = 3
                /\ \A j \in 1..4 : 4 * (g - 1) + j <= m => c[j] = Digit(d, 4 * (g - 1) + j)
  <2>1. read = [i \in 1..m |-> Digit(d, i)] OBVIOUS
  <2> HIDE DEF read
  <2> QED BY <2>1, ReadGroup
<1>7. /\ whole \in Seq(Octet) /\ Len(whole) = 3 * U
      /\ \A i \in 1..(3 * U) : whole[i] = d[i]
  <2> HIDE DEF read, U, n, L
  <2>1. \A g \in 1..U : g \in Nat \ {0} BY <1>1
  <2>2. \A g \in 1..U : s[g] \in Seq(Octet) /\ Len(s[g]) = 3
    <3>1. 0 \in Nat OBVIOUS
    <3> QED BY <1>6, <2>1, <3>1
  <2>3. s \in Seq(Seq(Octet)) /\ Len(s) = U
    <3>1. s \in [1..U -> Seq(Octet)] BY <2>2
    <3> HIDE DEF s
    <3>2. s \in Seq(Seq(Octet)) BY <1>1, <3>1
    <3>3. DOMAIN s = 1..U BY <3>1
    <3> QED BY <1>1, <3>2, <3>3, LenProperties
  <2>4. ASSUME NEW g \in 1..U, NEW j \in 1..3 PROVE s[g][j] = d[3 * (g - 1) + j]
    <3> DEFINE c == Group(read, g, 4, 0)
    <3>1. s[g] = octets(c) OBVIOUS
    <3>2. \A i \in 1..4 : c[i] = Digit(d, 4 * (g - 1) + i)
      <4>1. \A i \in 1..4 : 4 * (g - 1) + i <= m BY <1>1
      <4>2. 0 \in Nat OBVIOUS
      <4> QED BY <1>6, <2>1, <4>1, <4>2
    <3>3. octets(c)[j] = Group(d, g, 3, 0)[j]
      <4>1. j = 1 \/ j = 2 \/ j = 3 OBVIOUS
      <4>2. 1 \in 1..4 /\ 2 \in 1..4 /\ 3 \in 1..4 /\ 4 \in 1..4 OBVIOUS
      <4> HIDE DEF c
      <4>3. /\ octets(c)[1] = Group(d, g, 3, 0)[1]
            /\ octets(c)[2] = Group(d, g, 3, 0)[2]
            /\ octets(c)[3] = Group(d, g, 3, 0)[3]
        BY <2>1, <3>2, <4>2, OctetsAre
      <4> QED BY <4>1, <4>3
    <3>4. 3 * (g - 1) + j <= n BY <1>1
    <3> HIDE DEF c, s
    <3> QED BY <1>5, <2>1, <3>1, <3>3, <3>4
  <2> HIDE DEF s
  <2>5. Flattened(Octet, 3, s)
    <3>1. 3 \in {3, 4} OBVIOUS
    <3>2. \A g \in 1..Len(s) : Len(s[g]) = 3 BY <2>2, <2>3
    <3> QED BY <2>3, <3>1, <3>2, FlattenGroups
  <2>6. ASSUME NEW i \in 1..(3 * U) PROVE whole[i] = d[i]
    <3> DEFINE g == ((i - 1) \div 3) + 1
               j == ((i - 1) % 3) + 1
    <3>1. g \in 1..U /\ j \in 1..3 /\ i = 3 * (g - 1) + j BY <1>1
    <3> HIDE DEF g, j, whole
    <3>2. whole[3 * (g - 1) + j] = s[g][j] BY <2>3, <2>5, <3>1 DEF Flattened, whole
    <3>3. s[g][j] = d[3 * (g - 1) + j] BY <2>4, <3>1
    <3> QED BY <3>1, <3>2, <3>3
  <2> QED BY <2>3, <2>5, <2>6 DEF Flattened
<1>8. CASE r = 0
  <2>1. n = 3 * U /\ 3 * U \in Nat BY <1>1, <1>8
  <2> HIDE DEF n, U, r, L, whole, read, f
  <2>2. whole = f
    <3>1. Len(whole) = Len(f) /\ \A i \in 1..Len(whole) : whole[i] = f[i]
      BY <1>4, <1>7, <2>1
    <3> QED BY <1>4, <1>7, <3>1, SeqEqual
  <2> QED BY <1>3, <1>8, <2>2 DEF read, f, n
<1>9. CASE r # 0
  <2> DEFINE g == U + 1
             c == Group(read, g, 4, Terminator)
             M == 3 * U
             u == SubSeq(tail, 1, r - 1)
             t == whole \o u
  <2>1. /\ g \in Nat \ {0} /\ Terminator \in Nat /\ r \in Nat /\ 1 <= r /\ r <= 3
        /\ r - 1 \in Nat /\ M \in Nat /\ n = M + (r - 1) /\ g - 1 = U
    <3> HIDE DEF U, r, n, L
    <3> QED BY <1>1, <1>9 DEF Terminator
  <2>2. tail = octets(c) /\ tail \in Seq(Octet) /\ Len(tail) = 3
    <3> HIDE DEF read, g
    <3>1. octets(c) \in Seq(Octet) /\ Len(octets(c)) = 3 BY <1>6, <2>1
    <3> QED BY <3>1 DEF g
  <2>3. \A j \in 1..r : c[j] = Digit(d, 4 * (g - 1) + j)
    <3>1. \A j \in 1..r : j \in 1..4 /\ 4 * (g - 1) + j <= m
      <4> HIDE DEF U, r, n, L
      <4> QED BY <1>1, <2>1
    <3> HIDE DEF read, g, r
    <3> QED BY <1>6, <2>1, <3>1
  <2>4. ASSUME NEW j \in 1..(r - 1) PROVE tail[j] = d[M + j]
    <3>1. (j = 1 /\ r >= 2) \/ (j = 2 /\ r = 3)
      <4> HIDE DEF r
      <4> QED BY <2>1
    <3>2. octets(c)[j] = Group(d, g, 3, 0)[j]
      <4>1. CASE j = 1 /\ r >= 2
        <5>1. 1 \in 1..r /\ 2 \in 1..r
          <6> HIDE DEF r
          <6> QED BY <2>1, <4>1
        <5> HIDE DEF c, g, r
        <5>2. c[1] = Digit(d, 4 * (g - 1) + 1) /\ c[2] = Digit(d, 4 * (g - 1) + 2)
          BY <2>3, <5>1
        <5> QED BY <2>1, <4>1, <5>2, OctetsAre
      <4>2. CASE j = 2 /\ r = 3
        <5>1. 1 \in 1..r /\ 2 \in 1..r /\ 3 \in 1..r
          <6> HIDE DEF r
          <6> QED BY <4>2
        <5> HIDE DEF c, g, r
        <5>2. /\ c[1] = Digit(d, 4 * (g - 1) + 1) /\ c[2] = Digit(d, 4 * (g - 1) + 2)
              /\ c[3] = Digit(d, 4 * (g - 1) + 3)
          BY <2>3, <5>1
        <5> QED BY <2>1, <4>2, <5>2, OctetsAre
      <4> QED BY <3>1, <4>1, <4>2
    <3>3. 3 * (g - 1) + j = M + j /\ j \in 1..3 /\ M + j <= n
      <4>1. r = 1 \/ r = 2 \/ r = 3
        <5> HIDE DEF r
        <5> QED BY <2>1
      <4> HIDE DEF r, n, U
      <4> QED BY <1>1, <2>1, <4>1
    <3> HIDE DEF c, g, M, tail, n
    <3>4. Group(d, g, 3, 0)[j] = d[3 * (g - 1) + j] BY <1>5, <2>1, <3>3
    <3> QED BY <2>2, <3>2, <3>3, <3>4
  <2>5. /\ u \in Seq(Octet) /\ Len(u) = r - 1
        /\ \A j \in 1..(r - 1) : u[j] = tail[j]
    <3> DEFINE k == r - 1
    <3>1. k \in 0..Len(tail)
      <4>1. k \in Nat /\ k <= 3
        <5> HIDE DEF r
        <5> QED BY <2>1
      <4>2. Len(tail) = 3 BY <2>2
      <4> HIDE DEF k, tail
      <4> QED BY <4>1, <4>2
    <3> HIDE DEF k, tail
    <3>2. /\ SubSeq(tail, 1, k) \in Seq(Octet) /\ Len(SubSeq(tail, 1, k)) = k
          /\ \A j \in 1..k : SubSeq(tail, 1, k)[j] = tail[j]
      BY <2>2, <3>1, Beginning
    <3> QED BY <3>2 DEF k
  <2> HIDE DEF u, whole, f
  <2>6. /\ t \in Seq(Octet) /\ Len(t) = Len(whole) + Len(u)
        /\ \A i \in 1..(Len(whole) + Len(u)) :
             t[i] = IF i <= Len(whole) THEN whole[i] ELSE u[i - Len(whole)]
    BY <1>7, <2>5, ConcatProperties
  <2> HIDE DEF t, U, r, n, M, L, tail, c, g, read
  <2>7. Len(whole) = M /\ \A i \in 1..M : whole[i] = d[i] BY <1>7 DEF M
  <2>8. Len(t) = n /\ Len(u) = r - 1 BY <2>1, <2>5, <2>6, <2>7
  <2>9. ASSUME NEW i \in 1..n PROVE t[i] = d[i]
    <3>1. i \in Nat /\ 1 <= i /\ i <= M + (r - 1) BY <2>1
    <3>2. CASE i <= M
      <4>1. i \in 1..M /\ i \in 1..(Len(whole) + Len(u)) /\ i <= Len(whole)
        BY <2>1, <2>7, <2>8, <3>1, <3>2
      <4> QED BY <2>6, <2>7, <4>1
    <3>3. CASE ~(i <= M)
      <4> DEFINE j == i - M
      <4>1. /\ i \in 1..(Len(whole) + Len(u)) /\ ~(i <= Len(whole)) /\ i - Len(whole) = j
            /\ j \in 1..(r - 1) /\ M + j = i
        BY <2>1, <2>7, <2>8, <3>1, <3>3
      <4> HIDE DEF j
      <4>2. t[i] = u[j] BY <2>6, <4>1
      <4> QED BY <2>4, <2>5, <4>1, <4>2
    <3> QED BY <3>2, <3>3
  <2>10. t = f
    <3>1. Len(t) = Len(f) /\ \A i \in 1..Len(t) : t[i] = f[i] BY <1>4, <2>8, <2>9
    <3> QED BY <1>4, <2>6, <3>1, SeqEqual
  <2> QED BY <1>3, <1>9, <2>10 DEF t, u, read, f, n
<1> QED BY <1>8, <1>9

\* Any beginning of the text decodes to the bytes it holds all bits of.
LEMMA DecodeIs ==
  ASSUME NEW d \in Seq(Octet), NEW k \in 0..Len(TextOf(d)), NEW text, text = TextOf(d)
  PROVE  LET n == (6 * k) \div 8
         IN base64Decode(SubSeq(text, 1, k)) = SubSeq(d, 1, IF n < Len(d) THEN n ELSE Len(d))
<1> DEFINE N == 4 * ((Len(d) + 2) \div 3)
           D == DigitsOf(d)
           L == Len(d)
           m == IF k <= D THEN k ELSE D
           n == (6 * k) \div 8
           t == SubSeq(text, 1, k)
           read == [i \in 1..m |-> Digit(d, i)]
<1>1. L \in Nat /\ N \in Nat /\ D \in Nat /\ D = (8 * L + 5) \div 6 /\ D <= N
  <2>1. L \in Nat BY LenProperties
  <2>2. D = (8 * L + 5) \div 6 BY DEF DigitsOf
  <2> HIDE DEF D, L
  <2> QED BY <2>1, <2>2 DEF L
<1>2. /\ text \in Seq(Nat) /\ Len(text) = N
      /\ \A i \in 1..N : /\ i <= D => text[i] = Digit(d, i) /\ text[i] \in Digits
                         /\ ~(i <= D) => text[i] = Pad
  <2>1. \A i \in 1..N : i \in Nat \ {0} OBVIOUS
  <2>2. \A i \in 1..N : Digit(d, i) \in Digits BY <2>1, DigitType
  <2>3. text = [i \in 1..N |-> IF i <= D THEN Digit(d, i) ELSE Pad] BY DEF TextOf
  <2>4. \A i \in 1..N : text[i] = IF i <= D THEN Digit(d, i) ELSE Pad BY <2>3
  <2>5. text \in Seq(Nat) /\ Len(text) = N
    <3>1. Digits \subseteq Nat /\ Pad \in Nat BY DEF Digits, Pad
    <3> HIDE DEF N, D
    <3>2. \A i \in 1..N : (IF i <= D THEN Digit(d, i) ELSE Pad) \in Nat BY <2>2, <3>1
    <3> QED BY <1>1, <2>3, <3>2
  <2> QED BY <2>2, <2>4, <2>5
<1>3. k \in Nat /\ k <= N BY <1>1, <1>2
<1> HIDE DEF N, D, L
<1>4. m \in Nat /\ m <= k /\ m <= D /\ (m < k => m = D) BY <1>1, <1>3
<1>5. (IF n < L THEN n ELSE L) = (6 * m) \div 8
  <2>1. CASE k <= D
    <3>1. n <= L /\ m = k BY <1>1, <1>3, <2>1
    <3> QED BY <1>1, <1>3, <3>1
  <2>2. CASE ~(k <= D)
    <3>1. m = D /\ (6 * D) \div 8 = L /\ ~(n < L) BY <1>1, <1>3, <2>2
    <3> QED BY <3>1
  <2> QED BY <2>1, <2>2
<1> HIDE DEF m, n
<1>6. t \in Seq(Nat) /\ Len(t) = k /\ \A i \in 1..k : t[i] = text[i]
  <2>1. k \in 0..Len(text) BY <1>1, <1>2, <1>3
  <2> QED BY <1>2, <2>1, Beginning
<1> HIDE DEF t
<1>7. m \in 0..Len(t) /\ \A i \in 1..m : i \in 1..k /\ i \in 1..N /\ i <= D
  BY <1>1, <1>3, <1>4, <1>6
<1>8. \A i \in 1..m : t[i] = Digit(d, i) /\ t[i] \in Digits BY <1>2, <1>6, <1>7
<1>9. m < Len(t) => t[m + 1] \notin Digits
  <2>1. SUFFICES ASSUME m < Len(t) PROVE t[m + 1] \notin Digits OBVIOUS
  <2>2. m + 1 \in 1..k /\ m + 1 \in 1..N /\ ~(m + 1 <= D)
    <3>1. m < k BY <1>6, <2>1
    <3>2. m \in Nat /\ k \in Nat /\ N \in Nat /\ k <= N /\ m = D BY <1>1, <1>3, <1>4, <3>1
    <3> QED BY <3>1, <3>2
  <2>3. Pad \notin Digits BY DEF Pad, Digits
  <2> QED BY <1>2, <1>6, <2>2, <2>3
<1>10. base64Decode(t) = Decoded(SubSeq(t, 1, m)) BY <1>6, <1>7, <1>8, <1>9, ReadsDigits
<1>11. SubSeq(t, 1, m) = read
  <2> DEFINE u == SubSeq(t, 1, m)
  <2>1. u \in Seq(Nat) /\ Len(u) = m /\ \A i \in 1..m : u[i] = t[i]
    BY <1>6, <1>7, Beginning
  <2> HIDE DEF u
  <2>2. \A i \in 1..m : u[i] = read[i] BY <1>8, <2>1
  <2>3. DOMAIN read = 1..m /\ read = [i \in 1..m |-> read[i]] OBVIOUS
  <2> HIDE DEF read
  <2>4. u = read BY <1>4, <2>1, <2>2, <2>3, SameSeq
  <2> QED BY <2>4 DEF u
<1>12. Decoded(read) = SubSeq(d, 1, (6 * m) \div 8) BY <1>4, DecodedIs DEF D
<1> QED BY <1>5, <1>10, <1>11, <1>12 DEF n, L, t

\* base64: the text is the bits of the data six at a time, and any beginning
\* of it decodes to the bytes it holds all bits of, for data of any length.
THEOREM TextIsExact == Base64Spec => []Base64Exact
<1> DEFINE Inv == data \in Seq(Octet)
<1>1. Base64Init => Inv BY DEF Base64Init
<1>2. Inv /\ [Base64Next]_data => Inv'
  <2> SUFFICES ASSUME Inv, [Base64Next]_data PROVE Inv' OBVIOUS
  <2>1. CASE Base64Next
    <3>1. PICK b \in Octets : data' = Append(data, b) BY <2>1 DEF Base64Next
    <3>2. b \in Octet BY Base64Constants DEF Octet
    <3> QED BY <3>1, <3>2, AppendProperties
  <2>2. CASE UNCHANGED data BY <2>2
  <2> QED BY <2>1, <2>2
<1>3. Inv => Base64Exact
  <2> SUFFICES ASSUME Inv PROVE Base64Exact OBVIOUS
  <2>1. base64Encode(data) = TextOf(data) BY EncodeIs
  <2> DEFINE text == base64Encode(data)
  <2>2. ASSUME NEW k \in 0..Len(text)
        PROVE  LET n == (6 * k) \div 8
               IN base64Decode(SubSeq(text, 1, k)) =
                    SubSeq(data, 1, IF n < Len(data) THEN n ELSE Len(data))
    <3>1. k \in 0..Len(TextOf(data)) BY <2>1
    <3> HIDE DEF text
    <3> QED BY <2>1, <3>1, DecodeIs DEF text
  <2>3. text = [k \in 1..(4 * ((Len(data) + 2) \div 3)) |->
                  IF k <= (8 * Len(data) + 5) \div 6 THEN Digit(data, k) ELSE Pad]
    BY <2>1 DEF TextOf, DigitsOf
  <2> QED BY <2>2, <2>3 DEF Base64Exact
<1> QED BY <1>1, <1>2, <1>3, PTL DEF Base64Spec
=============================================================================

------------------------------- MODULE Sha256 -------------------------------
(***************************************************************************)
(* The block buffer of Sha256Context.  A message is the sequence of its    *)
(* positions, so that no two of its bytes can be mistaken for each other.  *)
(* The compression is a function of all the blocks so far: m_state is      *)
(* their concatenation.  sha256() refuses what has 2^61 bytes or more, so  *)
(* that m_bitlen does not wrap.                                            *)
(***************************************************************************)
EXTENDS Naturals, Sequences

CONSTANTS
  Block,     \* bytes of a block: 64
  Length,    \* bytes of the length at the end: 8
  Chunks,    \* sizes update() is called with
  MaxBytes   \* bound: length of the message

ASSUME HashConstants ==
  /\ Block \in Nat /\ Length \in Nat /\ 0 < Length /\ Length < Block
  /\ Chunks \subseteq Nat /\ MaxBytes \in Nat

VARIABLES
  state,   \* m_state
  buffer,  \* m_buffer, which is not initialised and never cleared
  len,     \* m_buffer_len
  bytes,   \* m_bitlen / 8
  digest   \* what finalize() returned, <<>> before

hashVars == <<state, buffer, len, bytes, digest>>

Stale == "stale"   \* what m_buffer holds at first
One   == "80"      \* the byte 0x80
Zero  == "00"
LengthByte(n, i) == <<"length", n, i>>   \* byte i of the bit length of n bytes

HashInit ==
  /\ state = <<>> /\ len = 0 /\ bytes = 0 /\ digest = <<>>
  /\ buffer = [i \in 1..Block |-> Stale]

\* memcpy of src to position at.
Copy(at, src) ==
  [i \in 1..Block |-> IF i > at /\ i <= at + Len(src) THEN src[i - at] ELSE buffer[i]]
Least(a, b) == IF a < b THEN a ELSE b

update(data) ==
  LET take == IF len > 0 THEN Least(Len(data), Block - len) ELSE 0
      full == len > 0 /\ len + take = Block
      filled == Copy(len, SubSeq(data, 1, take))
      left == SubSeq(data, take + 1, Len(data))
      whole == (Len(left) \div Block) * Block
      rest == SubSeq(left, whole + 1, Len(left))
  IN /\ bytes' = bytes + Len(data)
     /\ state' = state \o (IF full THEN filled ELSE <<>>) \o SubSeq(left, 1, whole)
     /\ buffer' = [i \in 1..Block |-> IF i <= Len(rest) THEN rest[i] ELSE filled[i]]
     /\ len' = IF rest # <<>> THEN Len(rest) ELSE IF full THEN 0 ELSE len + take
     /\ UNCHANGED digest

\* update() with the next n bytes of the message.
Updates(n) ==
  /\ digest = <<>> /\ bytes + n <= MaxBytes
  /\ update([i \in 1..n |-> bytes + i])

\* The one bit; a block of its own when extra; zeros; the length.  The code
\* leaves m_buffer_len at Block - Length.
FinalizeWith(extra) ==
  LET ended == Copy(len, <<One>>)
      first == [i \in 1..Block |-> IF i <= len + 1 THEN ended[i] ELSE Zero]
      last == [i \in 1..Block |->
                 IF i > Block - Length THEN LengthByte(bytes, i - (Block - Length))
                 ELSE IF i <= len + 1 /\ ~extra THEN ended[i] ELSE Zero]
  IN /\ digest = <<>>
     /\ state' = state \o (IF extra THEN first ELSE <<>>) \o last
     /\ buffer' = last /\ len' = Block - Length /\ digest' = state'
     /\ UNCHANGED bytes

\* Mutant: off by one, a block that just has room for the length is not used.
finalizeEarly == FinalizeWith(len + 1 >= Block - Length)

finalize == FinalizeWith(len + 1 > Block - Length)

HashNext == finalize \/ \E n \in Chunks : Updates(n)

HashSpec == HashInit /\ [][HashNext]_hashVars
-----------------------------------------------------------------------------
HashTypeOK ==
  LET Bytes == Nat \cup {Stale, One, Zero} \cup ({"length"} \X Nat \X (1..Length))
  IN /\ state \in Seq(Bytes) /\ buffer \in [1..Block -> Bytes]
     /\ len \in 0..Block /\ bytes \in Nat /\ digest \in Seq(Bytes)

\* FIPS 180-4, 5.1.1: the message, a one bit, the fewest zeros that leave
\* Length bytes at the end of a block, and the length.
Padded(n) ==
  LET zeros == CHOOSE k \in 0..(Block - 1) : (n + 1 + k + Length) % Block = 0
  IN [i \in 1..n |-> i] \o <<One>> \o [i \in 1..zeros |-> Zero]
       \o [i \in 1..Length |-> LengthByte(n, i)]

\* The digest is that of the padded message, however the message was cut and
\* whatever the buffer held before.
DigestOfMessage == digest # <<>> => digest = Padded(bytes)
=============================================================================

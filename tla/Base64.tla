------------------------------- MODULE Base64 -------------------------------
(***************************************************************************)
(* Protocol::base64Encode and base64Decode.  A character of the text is    *)
(* the index of a digit in kBase64Chars, Pad for '=' or Other for what is  *)
(* neither; a byte is a number.                                            *)
(***************************************************************************)
EXTENDS Naturals, Sequences, SequencesExt

CONSTANTS
  Octets,    \* the bytes data is made of
  MaxOctets  \* bound: length of data

ASSUME Base64Constants == Octets \subseteq 0..255 /\ MaxOctets \in Nat

VARIABLE data

Digits == 0..63
Pad == 64      \* '='
Other == 65    \* any other character

\* char_array_4 of a char_array_3, and back; the last octet of a pair is cut to
\* eight bits by its type.
sextets(a) == <<a[1] \div 4, ((a[1] % 4) * 16) + (a[2] \div 16),
                ((a[2] % 16) * 4) + (a[3] \div 64), a[3] % 64>>

octets(c) == <<((c[1] * 4) + ((c[2] \div 16) % 4)) % 256,
               (((c[2] % 16) * 16) + ((c[3] \div 4) % 16)) % 256,
               (((c[3] % 4) * 64) + c[4]) % 256>>

\* The n-th group of size elements of s, filled up with fill.
Group(s, n, size, fill) ==
  [i \in 1..size |-> IF (n - 1) * size + i <= Len(s) THEN s[(n - 1) * size + i]
                     ELSE fill]

\* Mutant: a rest of two bytes keeps only two characters.
base64EncodeShort(d) ==
  LET rest == Len(d) % 3
      whole == FlattenSeq([n \in 1..(Len(d) \div 3) |-> sextets(Group(d, n, 3, 0))])
      tail == sextets(Group(d, Len(d) \div 3 + 1, 3, 0))
  IN IF rest = 0 THEN whole
     ELSE whole \o SubSeq(tail, 1, 2) \o <<Pad, Pad>>

base64Encode(d) ==
  LET rest == Len(d) % 3
      whole == FlattenSeq([n \in 1..(Len(d) \div 3) |-> sextets(Group(d, n, 3, 0))])
      tail == sextets(Group(d, Len(d) \div 3 + 1, 3, 0))
  IN IF rest = 0 THEN whole
     ELSE whole \o SubSeq(tail, 1, rest + 1) \o [i \in 1..(3 - rest) |-> Pad]

\* Index strchr() finds for the NUL that fills up the last group: that of the
\* terminator of the table.
Terminator == 64

\* Reading stops at the first character that is no digit, whatever follows.
base64Decode(text) ==
  LET stop == SelectInSeq(text, LAMBDA c : c \notin Digits)
      read == IF stop = 0 THEN text ELSE SubSeq(text, 1, stop - 1)
      rest == Len(read) % 4
      whole == FlattenSeq([n \in 1..(Len(read) \div 4) |-> octets(Group(read, n, 4, 0))])
      tail == octets(Group(read, Len(read) \div 4 + 1, 4, Terminator))
  IN IF rest = 0 THEN whole ELSE whole \o SubSeq(tail, 1, rest - 1)

Base64Init == data = <<>>

Base64Next ==
  Len(data) < MaxOctets /\ \E b \in Octets : data' = Append(data, b)

Base64Spec == Base64Init /\ [][Base64Next]_data
-----------------------------------------------------------------------------
\* Bit n, from 0, of d and the zeros behind it; the digit made of six of them.
Bit(d, n) == IF n >= 8 * Len(d) THEN 0
             ELSE (d[n \div 8 + 1] \div <<128, 64, 32, 16, 8, 4, 2, 1>>[(n % 8) + 1]) % 2
Digit(d, k) == LET B(j) == Bit(d, 6 * (k - 1) + j)
               IN 32 * B(0) + 16 * B(1) + 8 * B(2) + 4 * B(3) + 2 * B(4) + B(5)

\* The text is the bits of the data six at a time, padded to whole groups
\* (as the legacy encoder's, test_ipc_compatibility.cpp:225), and any beginning
\* of it decodes to the bytes it holds all bits of.
Base64Exact ==
  LET text == base64Encode(data)
      digits == (8 * Len(data) + 5) \div 6
  IN /\ text = [k \in 1..(4 * ((Len(data) + 2) \div 3)) |->
                  IF k <= digits THEN Digit(data, k) ELSE Pad]
     /\ \A k \in 0..Len(text) :
          LET n == (6 * k) \div 8
          IN base64Decode(SubSeq(text, 1, k)) =
               SubSeq(data, 1, IF n < Len(data) THEN n ELSE Len(data))
=============================================================================

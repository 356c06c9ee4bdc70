----------------------- MODULE RollingFileSinkProofs -----------------------
(***************************************************************************)
(* Safety of the rolling log files, for any limit of files and of lines    *)
(* per file, any number of runs of the process and of threads that flush.  *)
(***************************************************************************)
EXTENDS RollingFileSink, SequenceTheorems, FiniteSetTheorems, WellFoundedInduction, TLAPS

USE DEF sinkVars, flushVars, NoFile

\* m_file is closed when no process runs, and when one opens the next file.
Closed ==
  /\ ~alive => wpc = "idle" /\ handle = NoFile
  /\ wpc \in {"make", "open"} => handle = NoFile
  /\ alive => lives # 0

\* What was accepted before has a smaller number than the next line.
Numbered ==
  /\ Elems(told) \subseteq 1..(next - 1)
  /\ \A f \in Flushers : due[f] \subseteq 1..(next - 1)

\* Once the FILE that flush() has looked up is closed, and once flush() has
\* returned, nothing it stands for is buffered.
Flushed ==
  \A f \in Flushers :
    fpc[f] = "done" \/ (fpc[f] = "flush" /\ target[f] # handle)
      => due[f] \cap Elems(buffer) = {}

\* There is room for the file that is about to be opened.
Limit == Max({MaxFiles, 1}) + Max({lives, 1}) - 1
Roomy ==
  /\ IsFiniteSet(DOMAIN files) /\ (lives = 0 => DOMAIN files = {})
  /\ wpc \in {"make", "close", "open"} => Cardinality(DOMAIN files) < Limit

IInv == TypeOK /\ Closed /\ Numbered /\ Flushed /\ Roomy /\ FilesWithinLimit
-----------------------------------------------------------------------------
(* Numbers, sequences of lines and sets of indices                         *)

LEMMA LeastNat ==
  ASSUME NEW T, T \subseteq Nat, T # {}
  PROVE  \E x \in T : \A y \in T : x <= y
<1> DEFINE Less == {ss \in Nat \X Nat : ss[1] < ss[2]}
<1>1. IsWellFoundedOn(Less, Nat) BY NatLessThanWellFounded DEF OpToRel
<1> HIDE DEF Less
<1>2. PICK x \in T : \A y \in T : ~ (<<y, x>> \in Less) BY <1>1, WFMin
<1>3. \A y \in T : ~(y < x) BY <1>2 DEF Less
<1> QED BY <1>3

LEMMA MinIsLeast ==
  ASSUME NEW T, T \subseteq Nat, T # {}
  PROVE  Min(T) \in T
BY LeastNat DEF Min

LEMMA MaxOfTwo ==
  ASSUME NEW a \in Nat, NEW b \in Nat
  PROVE  Max({a, b}) = IF a >= b THEN a ELSE b
<1>1. \E x \in {a, b} : \A y \in {a, b} : x >= y OBVIOUS
<1>2. Max({a, b}) \in {a, b} /\ \A y \in {a, b} : Max({a, b}) >= y BY <1>1 DEF Max
<1> QED BY <1>2

\* A run, after the first, makes the limit larger by one file.
LEMMA Limits ==
  ASSUME TypeOK
  PROVE  /\ Limit \in Nat \ {0}
         /\ lives = 0 => Limit >= 1
         /\ lives # 0 => Limit >= MaxFiles /\ Limit = Max({MaxFiles, 1}) + lives - 1
         /\ lives' = lives + 1 =>
              Limit' = IF lives = 0 THEN Limit ELSE Limit + 1
         /\ lives' = lives => Limit' = Limit
<1> USE SinkConstants
<1>1. lives \in Nat /\ MaxFiles \in Nat BY DEF TypeOK
<1>2. Max({MaxFiles, 1}) = (IF MaxFiles >= 1 THEN MaxFiles ELSE 1)
      /\ Max({lives, 1}) = (IF lives >= 1 THEN lives ELSE 1)
  BY <1>1, MaxOfTwo
<1>3. CASE lives' = lives + 1
  <2>1. Max({lives + 1, 1}) = IF lives + 1 >= 1 THEN lives + 1 ELSE 1 BY <1>1, MaxOfTwo
  <2> QED BY <1>1, <1>2, <1>3, <2>1 DEF Limit
<1>4. CASE lives' # lives + 1 BY <1>1, <1>2, <1>4 DEF Limit
<1> QED BY <1>3, <1>4

LEMMA Wider ==
  ASSUME NEW n \in Nat, NEW l \in Nat, NEW f \in Nat, n - l >= f - 1
  PROVE  (n + 1) - l >= f - 1
OBVIOUS

LEMMA ElemsAppend ==
  ASSUME NEW q \in Seq(1..Lines), NEW x \in 1..Lines
  PROVE  Append(q, x) \in Seq(1..Lines) /\ Elems(Append(q, x)) \subseteq Elems(q) \cup {x}
<1>1. /\ Append(q, x) \in Seq(1..Lines) /\ Len(q) \in Nat
      /\ DOMAIN q = 1..Len(q) /\ DOMAIN Append(q, x) = 1..(Len(q) + 1)
      /\ \A i \in 1..Len(q) : Append(q, x)[i] = q[i]
      /\ Append(q, x)[Len(q) + 1] = x
  BY AppendProperties, LenProperties
<1> QED BY <1>1 DEF Elems

LEMMA ElemsTail ==
  ASSUME NEW q \in Seq(1..Lines), q # <<>>
  PROVE  /\ Tail(q) \in Seq(1..Lines) /\ Head(q) \in 1..Lines
         /\ Elems(Tail(q)) \subseteq Elems(q)
<1>1. /\ Tail(q) \in Seq(1..Lines) /\ Head(q) \in 1..Lines /\ Len(q) \in Nat \ {0}
      /\ DOMAIN q = 1..Len(q) /\ DOMAIN Tail(q) = 1..(Len(q) - 1)
      /\ \A i \in 1..(Len(q) - 1) : Tail(q)[i] = q[i + 1]
  BY HeadTailProperties, LenProperties, EmptySeq, ZenonT(60)
<1>2. \A i \in 1..(Len(q) - 1) : i + 1 \in 1..Len(q) BY <1>1
<1> QED BY <1>1, <1>2 DEF Elems

LEMMA ElemsFront ==
  ASSUME NEW q \in Seq(1..Lines), NEW m \in Int, m <= Len(q)
  PROVE  SubSeq(q, 1, m) \in Seq(1..Lines) /\ Elems(SubSeq(q, 1, m)) \subseteq Elems(q)
<1>0. Len(q) \in Nat /\ DOMAIN q = 1..Len(q) /\ \A i \in 1..Len(q) : q[i] \in 1..Lines
  BY LenProperties, ElementOfSeq
<1>1. \A i \in 1..m : i \in 1..Len(q) /\ q[i] \in 1..Lines BY <1>0
<1>2. /\ SubSeq(q, 1, m) \in Seq(1..Lines)
      /\ Len(SubSeq(q, 1, m)) = (IF 1 <= m THEN m - 1 + 1 ELSE 0)
      /\ \A i \in 1..(m - 1 + 1) : SubSeq(q, 1, m)[i] = q[1 + i - 1]
  BY <1>1, SubSeqProperties
<1>3. DOMAIN SubSeq(q, 1, m) = 1..m BY <1>2, LenProperties
<1>4. \A i \in 1..m : SubSeq(q, 1, m)[i] = q[i] BY <1>2
<1> QED BY <1>0, <1>1, <1>2, <1>3, <1>4 DEF Elems
-----------------------------------------------------------------------------
(* Types                                                                   *)

\* The files of a directory keep their type when one gets what m_file has.
LEMMA StoredType ==
  ASSUME TypeOK
  PROVE  /\ DOMAIN Stored = DOMAIN files
         /\ \A i \in DOMAIN Stored : Stored[i] \in Seq(1..Lines)
<1>1. CASE handle \notin DOMAIN files BY <1>1 DEF Stored, TypeOK
<1>2. CASE handle \in DOMAIN files
  <2>1. Stored = [files EXCEPT ![handle] = files[handle] \o buffer] BY <1>2 DEF Stored
  <2>2. files[handle] \o buffer \in Seq(1..Lines) BY <1>2, ConcatProperties DEF TypeOK
  <2> QED BY <1>2, <2>1, <2>2 DEF TypeOK
<1> QED BY <1>1, <1>2

\* The directory that each step leaves.
LEMMA FilesType ==
  ASSUME TypeOK, [Next]_vars
  PROVE  DOMAIN files' \subseteq Nat /\ \A i \in DOMAIN files' : files'[i] \in Seq(1..Lines)
<1>0. DOMAIN files \subseteq Nat /\ \A i \in DOMAIN files : files[i] \in Seq(1..Lines)
  BY DEF TypeOK
<1>1. CASE files' = files BY <1>0, <1>1
<1>2. CASE files' = Stored BY <1>0, <1>2, StoredType
<1>3. CASE \E i : files' = Without(i) BY <1>0, <1>3 DEF Without, Restrict
<1>4. CASE Spills
  <2>1. CASE handle \in DOMAIN files
    <3>1. files' = [files EXCEPT ![handle] = Append(files[handle], Head(buffer))]
      BY <1>4, <2>1 DEF Spills
    <3>2. Append(files[handle], Head(buffer)) \in Seq(1..Lines)
      BY <1>4, <2>1, ElemsTail, ElemsAppend DEF Spills, TypeOK
    <3> QED BY <1>0, <3>1, <3>2
  <2>2. CASE handle \notin DOMAIN files BY <1>0, <1>4, <2>2 DEF Spills
  <2> QED BY <2>1, <2>2
<1>5. CASE Opens
  <2>1. <<>> \in Seq(1..Lines) /\ index \in Nat BY EmptySeq DEF TypeOK
  <2> QED BY <1>0, <1>5, <2>1 DEF Opens
<1> QED
  BY <1>1, <1>2, <1>3, <1>4, <1>5 DEF Next, vars, Starts, Exits, Killed, Writes, WriteFails,
     Begins, Refuses, MakesRoom, Room, Closes, OpenFails, FlushReads, FlushRuns

LEMMA TypeInit == Init => TypeOK
<1> USE SinkConstants
<1> SUFFICES ASSUME Init PROVE TypeOK OBVIOUS
<1>1. DOMAIN files = {} BY DEF Init
<1>2. buffer \in Seq(1..Lines) /\ told \in Seq(1..Lines) /\ buffer = <<>> BY EmptySeq DEF Init
<1>3. /\ fpc \in [Flushers -> {"idle", "flush", "done"}]
      /\ target \in [Flushers -> Nat \cup {NoFile}]
      /\ due \in [Flushers -> SUBSET (1..Lines)]
  BY DEF Init
<1>4. /\ lives \in 0..MaxLives /\ next \in 1..(Lines + 1) /\ handle \in Nat \cup {NoFile}
      /\ index \in Nat /\ size \in Nat
  BY DEF Init
<1>5. alive \in BOOLEAN /\ available \in BOOLEAN /\ inherited \in BOOLEAN /\ wpc = "idle"
  BY DEF Init
<1> QED BY <1>1, <1>2, <1>3, <1>4, <1>5 DEF TypeOK

LEMMA TypeStep == TypeOK /\ Closed /\ Numbered /\ [Next]_vars => TypeOK'
<1> USE SinkConstants
<1> SUFFICES ASSUME TypeOK, Closed, Numbered, [Next]_vars PROVE TypeOK' OBVIOUS
<1>0. DOMAIN files' \subseteq Nat /\ \A i \in DOMAIN files' : files'[i] \in Seq(1..Lines)
  BY FilesType
<1>1. buffer' \in Seq(1..Lines) /\ told' \in Seq(1..Lines)
  <2>0. buffer \in Seq(1..Lines) /\ told \in Seq(1..Lines) /\ <<>> \in Seq(1..Lines)
    BY EmptySeq DEF TypeOK
  <2>1. CASE Writes
    <3>1. next \in 1..Lines BY <2>1 DEF Writes, Begins, TypeOK
    <3> QED BY <2>0, <2>1, <3>1, ElemsAppend DEF Writes
  <2>2. CASE Killed
    <3>1. Len(told) - Len(buffer) \in Int /\ Len(told) - Len(buffer) <= Len(told)
      BY <2>0, LenProperties
    <3> QED BY <2>0, <2>2, <3>1, ElemsFront DEF Killed
  <2>3. CASE Spills BY <2>0, <2>3, ElemsTail DEF Spills
  <2>4. CASE told' = told /\ buffer' \in {buffer, <<>>} BY <2>0, <2>4
  <2> QED
    BY <2>1, <2>2, <2>3, <2>4 DEF Next, vars, Starts, Exits, WriteFails, Refuses, MakesRoom,
       Room, Closes, Opens, OpenFails, FlushReads, FlushRuns
<1>2. next' \in 1..(Lines + 1)
  <2>1. next \in 1..(Lines + 1) BY DEF TypeOK
  <2>2. CASE Begins BY <2>1, <2>2 DEF Begins
  <2>3. CASE next' = next BY <2>1, <2>3
  <2> QED
    BY <2>2, <2>3 DEF Next, vars, Starts, Exits, Killed, Spills, Writes, WriteFails,
       Refuses, MakesRoom, Room, Closes, Opens, OpenFails, FlushReads, FlushRuns
<1>3. lives' \in 0..MaxLives
  <2>1. lives \in 0..MaxLives BY DEF TypeOK
  <2>2. CASE Starts BY <2>1, <2>2 DEF Starts
  <2>3. CASE lives' = lives BY <2>1, <2>3
  <2> QED
    BY <2>2, <2>3 DEF Next, vars, Exits, Killed, Spills, Writes, WriteFails, Begins,
       Refuses, MakesRoom, Room, Closes, Opens, OpenFails, FlushReads, FlushRuns
<1>4. size' \in Nat /\ index' \in Nat
  <2>1. size \in Nat /\ index \in Nat BY DEF TypeOK
  <2>2. CASE Opens
    <3>1. index \in DOMAIN files' BY <2>2 DEF Opens
    <3> QED BY <1>0, <2>1, <2>2, <3>1, LenProperties DEF Opens
  <2>3. size' \in {size, size + 1, 0} /\ index' \in {index, index + 1, 0} => size' \in Nat /\ index' \in Nat
    BY <2>1
  <2> QED
    BY <2>2, <2>3 DEF Next, vars, Starts, Exits, Killed, Spills, Writes, WriteFails, Begins,
       Refuses, MakesRoom, Room, Closes, OpenFails, FlushReads, FlushRuns
<1>5. handle' \in Nat \cup {NoFile} /\ (handle' = NoFile => buffer' = <<>>)
  <2>1. handle \in Nat \cup {NoFile} /\ index \in Nat /\ (handle = NoFile => buffer = <<>>)
    BY DEF TypeOK
  <2>2. CASE Spills BY <2>1, <2>2 DEF Spills
  <2>3. CASE Writes BY <2>1, <2>3 DEF Writes
  <2>4. CASE Opens BY <2>1, <2>4 DEF Opens
  <2>5. CASE handle' \in {handle, NoFile} /\ buffer' = <<>> BY <2>1, <2>5
  <2>6. CASE UNCHANGED <<handle, buffer>> BY <2>1, <2>6
  <2> QED
    BY <2>2, <2>3, <2>4, <2>5, <2>6 DEF Next, vars, Starts, Exits, Killed, WriteFails,
       Refuses, MakesRoom, Room, Closes, OpenFails, FlushReads, FlushRuns
<1>6. /\ alive' \in BOOLEAN /\ available' \in BOOLEAN
      /\ wpc' \in {"idle", "make", "room", "close", "open"}
  BY DEF TypeOK, Next, vars, Starts, Exits, Killed, Spills, Writes, WriteFails, Begins,
     Refuses, MakesRoom, Room, Closes, Opens, OpenFails, FlushReads, FlushRuns
<1>7. inherited' \in BOOLEAN
  <2>1. inherited \in BOOLEAN BY DEF TypeOK
  <2>2. CASE inherited' = inherited BY <2>1, <2>2
  <2>3. CASE Starts BY <2>3 DEF Starts
  <2> QED
    BY <2>2, <2>3 DEF Next, vars, Exits, Killed, Spills, Writes, WriteFails, Begins,
     Refuses, MakesRoom, Room, Closes, Opens, OpenFails, FlushReads, FlushRuns
<1>8. /\ fpc' \in [Flushers -> {"idle", "flush", "done"}]
      /\ target' \in [Flushers -> Nat \cup {NoFile}]
      /\ due' \in [Flushers -> SUBSET (1..Lines)]
  <2>1. /\ fpc \in [Flushers -> {"idle", "flush", "done"}]
        /\ target \in [Flushers -> Nat \cup {NoFile}] /\ handle \in Nat \cup {NoFile}
        /\ due \in [Flushers -> SUBSET (1..Lines)]
    BY DEF TypeOK
  <2>2. CASE UNCHANGED flushVars BY <2>1, <2>2
  <2>3. CASE Starts BY <2>1, <2>3 DEF Starts
  <2>4. ASSUME NEW f \in Flushers, FlushReads(f)
        PROVE  /\ fpc' \in [Flushers -> {"idle", "flush", "done"}]
               /\ target' \in [Flushers -> Nat \cup {NoFile}]
               /\ due' \in [Flushers -> SUBSET (1..Lines)]
    <3>1. Elems(told) \in SUBSET (1..Lines)
      <4>1. \A x \in 1..(next - 1) : x \in 1..Lines BY DEF TypeOK
      <4> QED BY <4>1 DEF Numbered
    <3> QED BY <2>1, <2>4, <3>1 DEF FlushReads
  <2>5. ASSUME NEW f \in Flushers, FlushRuns(f)
        PROVE  /\ fpc' \in [Flushers -> {"idle", "flush", "done"}]
               /\ target' \in [Flushers -> Nat \cup {NoFile}]
               /\ due' \in [Flushers -> SUBSET (1..Lines)]
    BY <2>1, <2>5 DEF FlushRuns
  <2> QED
    BY <2>2, <2>3, <2>4, <2>5 DEF Next, vars, Exits, Killed, Spills, Writes, WriteFails,
     Refuses, MakesRoom, Room, Closes, Opens, OpenFails
<1> QED BY <1>0, <1>1, <1>2, <1>3, <1>4, <1>5, <1>6, <1>7, <1>8 DEF TypeOK
-----------------------------------------------------------------------------
(* flush() and the limit                                                   *)

LEMMA ClosedStep == TypeOK /\ Closed /\ [Next]_vars => Closed'
<1> SUFFICES ASSUME TypeOK, Closed, [Next]_vars PROVE Closed' OBVIOUS
<1>1. CASE Starts BY <1>1 DEF Starts, Closed, TypeOK
<1>2. CASE ~Starts
  <2>1. lives' = lives
    BY <1>2 DEF Next, vars, Exits, Killed, Spills, Writes, WriteFails, Begins,
     Refuses, MakesRoom, Room, Closes, Opens, OpenFails, FlushReads, FlushRuns
  <2>2. CASE UNCHANGED <<alive, wpc, handle>> BY <2>1, <2>2 DEF Closed
  <2>3. CASE ~alive' /\ handle' = NoFile /\ wpc' = "idle" BY <2>1, <2>3 DEF Closed
  <2>4. CASE Writes \/ WriteFails \/ Refuses BY <2>1, <2>4 DEF Writes, WriteFails, Refuses, Begins, Closed
  <2>5. CASE MakesRoom \/ Closes \/ Opens \/ OpenFails
    BY <2>1, <2>5 DEF MakesRoom, Room, Closes, Opens, OpenFails, Closed
  <2> QED
    BY <1>2, <2>2, <2>3, <2>4, <2>5 DEF Next, vars, Exits, Killed, Spills, FlushReads, FlushRuns
<1> QED BY <1>1, <1>2

LEMMA Widens ==
  ASSUME NEW a \in Int, NEW b \in Int, a <= b
  PROVE  1..(a - 1) \subseteq 1..(b - 1)
OBVIOUS

LEMMA NumberedStep == TypeOK /\ Numbered /\ [Next]_vars => Numbered'
<1> USE SinkConstants
<1> SUFFICES ASSUME TypeOK, Numbered, [Next]_vars PROVE Numbered' OBVIOUS
<1>0. /\ next \in 1..(Lines + 1) /\ told \in Seq(1..Lines) /\ buffer \in Seq(1..Lines)
      /\ due \in [Flushers -> SUBSET (1..Lines)]
  BY DEF TypeOK
<1>1. next' \in {next, next + 1} /\ 1..(next - 1) \subseteq 1..(next' - 1)
  <2>1. next' \in {next, next + 1}
    BY DEF Next, vars, Starts, Exits, Killed, Spills, Writes, WriteFails, Begins,
       Refuses, MakesRoom, Room, Closes, Opens, OpenFails, FlushReads, FlushRuns
  <2>2. next \in Int /\ next' \in Int /\ next <= next' BY <1>0, <2>1
  <2> QED BY <2>1, <2>2, Widens
<1>2. Elems(told') \subseteq 1..(next' - 1)
  <2>1. CASE told' = told BY <1>1, <2>1 DEF Numbered
  <2>2. CASE Writes
    <3>1. next \in 1..Lines /\ next' = next + 1 BY <1>0, <2>2 DEF Writes, Begins
    <3>2. Elems(told') \subseteq Elems(told) \cup {next} BY <1>0, <2>2, <3>1, ElemsAppend DEF Writes
    <3>3. next \in 1..(next' - 1) BY <1>0, <3>1
    <3> QED BY <1>1, <3>2, <3>3 DEF Numbered
  <2>3. CASE Killed
    <3>1. Len(told) - Len(buffer) \in Int /\ Len(told) - Len(buffer) <= Len(told)
      BY <1>0, LenProperties
    <3>2. Elems(told') \subseteq Elems(told) BY <1>0, <2>3, <3>1, ElemsFront DEF Killed
    <3> QED BY <1>1, <3>2 DEF Numbered
  <2> QED
    BY <2>1, <2>2, <2>3 DEF Next, vars, Starts, Exits, Spills, WriteFails, Refuses, MakesRoom,
       Room, Closes, Opens, OpenFails, FlushReads, FlushRuns
<1>3. ASSUME NEW f \in Flushers PROVE due'[f] \subseteq 1..(next' - 1)
  <2>1. due'[f] = due[f] \/ due'[f] = Elems(told)
    BY <1>0 DEF Next, vars, Starts, Exits, Killed, Spills, Writes, WriteFails,
       Refuses, MakesRoom, Room, Closes, Opens, OpenFails, FlushReads, FlushRuns
  <2> QED BY <1>1, <2>1 DEF Numbered
<1> QED BY <1>2, <1>3 DEF Numbered

LEMMA FlushedStep == TypeOK /\ Closed /\ Numbered /\ Flushed /\ [Next]_vars => Flushed'
<1> USE SinkConstants
<1> SUFFICES ASSUME TypeOK, Closed, Numbered, Flushed, [Next]_vars PROVE Flushed' OBVIOUS
<1>0. /\ fpc \in [Flushers -> {"idle", "flush", "done"}] /\ buffer \in Seq(1..Lines)
      /\ target \in [Flushers -> Nat \cup {NoFile}] /\ next \in 1..(Lines + 1)
      /\ due \in [Flushers -> SUBSET (1..Lines)] /\ (handle = NoFile => buffer = <<>>)
  BY DEF TypeOK
<1>1. CASE buffer' = <<>> BY <1>1 DEF Flushed, Elems
<1>2. CASE Elems(buffer') \subseteq Elems(buffer) /\ UNCHANGED <<flushVars, handle>>
  BY <1>2 DEF Flushed
<1>3. CASE Spills
  <2>1. Elems(buffer') \subseteq Elems(buffer) BY <1>0, <1>3, ElemsTail DEF Spills
  <2> QED BY <1>2, <1>3, <2>1 DEF Spills
<1>4. CASE Writes
  <2>1. next \in 1..Lines /\ UNCHANGED <<flushVars, handle>>
    BY <1>0, <1>4 DEF Writes, Begins
  <2>2. Elems(buffer') \subseteq Elems(buffer) \cup {next}
    BY <1>0, <1>4, <2>1, ElemsAppend DEF Writes
  <2>3. \A f \in Flushers : next \notin due[f]
    <3>1. next \notin 1..(next - 1) BY <1>0
    <3> QED BY <3>1 DEF Numbered
  <2> QED BY <2>1, <2>2, <2>3 DEF Flushed
<1>5. CASE Starts BY <1>5 DEF Starts, Flushed
<1>6. CASE Opens
  <2>1. buffer' = <<>> BY <1>0, <1>6 DEF Opens, Closed
  <2> QED BY <1>1, <2>1
<1>7. ASSUME NEW f \in Flushers, FlushReads(f) PROVE Flushed'
  <2>1. /\ UNCHANGED <<handle, buffer>>
        /\ \A g \in Flushers : g # f => fpc'[g] = fpc[g] /\ target'[g] = target[g] /\ due'[g] = due[g]
        /\ target'[f] = handle /\ fpc'[f] = (IF handle = NoFile THEN "done" ELSE "flush")
    BY <1>0, <1>7 DEF FlushReads
  <2>2. handle = NoFile => Elems(buffer) = {} BY <1>0 DEF Elems
  <2> QED BY <2>1, <2>2 DEF Flushed
<1>8. ASSUME NEW f \in Flushers, FlushRuns(f) PROVE Flushed'
  <2>1. CASE target[f] = handle BY <1>1, <1>8, <2>1 DEF FlushRuns
  <2>2. CASE target[f] # handle
    <3>1. /\ UNCHANGED <<handle, buffer, target, due>> /\ fpc[f] = "flush"
          /\ \A g \in Flushers : g # f => fpc'[g] = fpc[g]
      BY <1>0, <1>8, <2>2 DEF FlushRuns
    <3> QED BY <2>2, <3>1 DEF Flushed
  <2> QED BY <2>1, <2>2
<1>9. CASE Exits \/ Killed \/ Closes BY <1>1, <1>9 DEF Exits, Killed, Closes
<1>10. CASE WriteFails \/ Refuses \/ MakesRoom \/ OpenFails \/ UNCHANGED vars
  BY <1>2, <1>10 DEF WriteFails, Refuses, MakesRoom, Room, OpenFails, vars
<1> QED BY <1>3, <1>4, <1>5, <1>6, <1>7, <1>8, <1>9, <1>10 DEF Next

LEMMA RoomyStep ==
  TypeOK /\ Closed /\ Roomy /\ FilesWithinLimit /\ [Next]_vars
    => Roomy' /\ FilesWithinLimit'
<1> USE SinkConstants
<1> SUFFICES ASSUME TypeOK, Closed, Roomy, FilesWithinLimit, [Next]_vars
             PROVE  Roomy' /\ FilesWithinLimit' OBVIOUS
<1> DEFINE n == Cardinality(DOMAIN files)
<1>0. /\ IsFiniteSet(DOMAIN files) /\ DOMAIN files \subseteq Nat /\ n \in Nat /\ n <= Limit
      /\ lives \in Nat /\ Limit \in Nat \ {0} /\ (lives = 0 => n = 0)
  BY Limits, FS_CardinalityType, FS_EmptySet DEF TypeOK, Roomy, FilesWithinLimit, Limit
<1>1. CASE Starts
  <2>1. UNCHANGED files /\ wpc' = "make" /\ lives' = lives + 1 BY <1>1 DEF Starts
  <2>2. Limit' = (IF lives = 0 THEN Limit ELSE Limit + 1) BY <2>1, Limits
  <2>3. n < Limit' BY <1>0, <2>2
  <2> QED BY <1>0, <2>1, <2>2, <2>3 DEF Roomy, FilesWithinLimit, Limit
<1>2. CASE MakesRoom
  <2>1. wpc' = "close" /\ lives' = lives /\ alive BY <1>2 DEF MakesRoom, Room, Closed
  <2>2. Limit' = Limit /\ lives # 0 /\ Limit >= MaxFiles BY <2>1, Limits DEF Closed
  <2>3. CASE n >= MaxFiles /\ DOMAIN files # {}
    <3>1. files # <<>> BY <2>3
    <3>2. DOMAIN files' = DOMAIN files \ {Min(DOMAIN files)}
      BY <1>2, <2>3, <3>1 DEF MakesRoom, Room, Without, Restrict
    <3>3. Min(DOMAIN files) \in DOMAIN files BY <1>0, <2>3, MinIsLeast
    <3>4. IsFiniteSet(DOMAIN files') /\ Cardinality(DOMAIN files') = n - 1
      BY <1>0, <3>2, <3>3, FS_RemoveElement
    <3>5. Cardinality(DOMAIN files') < Limit BY <1>0, <3>4
    <3> QED BY <1>0, <2>1, <2>2, <3>4, <3>5 DEF Roomy, FilesWithinLimit, Limit
  <2>4. CASE ~(n >= MaxFiles) /\ DOMAIN files # {}
    <3>1. files' = files BY <1>2, <2>4 DEF MakesRoom, Room
    <3>2. n < Limit BY <1>0, <2>2, <2>4
    <3> QED BY <1>0, <2>1, <2>2, <3>1, <3>2 DEF Roomy, FilesWithinLimit, Limit
  <2>5. CASE DOMAIN files = {}
    <3>1. DOMAIN files' = {} BY <1>2, <2>5 DEF MakesRoom, Room, Without, Restrict
    <3>2. n = 0 BY <2>5, FS_EmptySet
    <3> QED BY <1>0, <2>1, <2>2, <2>5, <3>1, <3>2 DEF Roomy, FilesWithinLimit, Limit
  <2> QED BY <2>3, <2>4, <2>5
<1>3. CASE Opens
  <2>1. /\ DOMAIN files' = DOMAIN files \cup {index} /\ wpc' = "idle" /\ lives' = lives
        /\ wpc \in {"make", "open"}
    BY <1>3 DEF Opens
  <2>2. n < Limit /\ Limit' = Limit /\ lives # 0
    BY <2>1, Limits DEF Roomy, Closed
  <2>3. IsFiniteSet(DOMAIN files') /\ Cardinality(DOMAIN files') \in {n, n + 1}
    BY <1>0, <2>1, FS_AddElement
  <2>4. Cardinality(DOMAIN files') <= Limit BY <1>0, <2>2, <2>3
  <2> QED BY <2>1, <2>2, <2>3, <2>4 DEF Roomy, FilesWithinLimit, Limit
<1>4. CASE /\ DOMAIN files' = DOMAIN files /\ lives' = lives
           /\ \/ wpc' \in {wpc, "idle", "room"}
              \/ wpc = "close" /\ wpc' = "open"
  <2>1. Limit' = Limit BY <1>4, Limits
  <2>2. wpc' \in {"make", "close", "open"} => n < Limit BY <1>4 DEF Roomy
  <2> QED BY <1>0, <1>4, <2>1, <2>2 DEF Roomy, FilesWithinLimit, Limit
<1>5. DOMAIN Stored = DOMAIN files BY StoredType
<1>6. CASE ~(Starts \/ MakesRoom \/ Opens)
  BY <1>4, <1>5, <1>6 DEF Next, vars, Exits, Killed, Spills, Writes, WriteFails, Begins,
     Refuses, Closes, OpenFails, FlushReads, FlushRuns
<1> QED BY <1>1, <1>2, <1>3, <1>6
-----------------------------------------------------------------------------
(* What the files keep of the lines accepted                               *)

\* The sequence s is what t holds after its first p lines.
Holds(t, s, p) ==
  p + Len(s) <= Len(t) /\ \A k \in 1..Len(s) : s[k] = t[p + k]

LEMMA HoldsEmpty ==
  ASSUME NEW t \in Seq(1..Lines), NEW p \in Nat, p <= Len(t)
  PROVE  Holds(t, <<>>, p)
<1>1. Len(<<>>) = 0 /\ Len(t) \in Nat BY EmptySeq, LenProperties
<1> QED BY <1>1 DEF Holds

LEMMA HoldsJoin ==
  ASSUME NEW t \in Seq(1..Lines), NEW a \in Seq(1..Lines), NEW b \in Seq(1..Lines),
         NEW p \in Nat, Holds(t, a, p), Holds(t, b, p + Len(a))
  PROVE  /\ a \o b \in Seq(1..Lines) /\ Len(a \o b) = Len(a) + Len(b)
         /\ Holds(t, a \o b, p)
<1> DEFINE m == Len(a) n == Len(b) l == Len(t) c == a \o b
<1>1. m \in Nat /\ n \in Nat /\ l \in Nat BY LenProperties
<1>2. /\ c \in Seq(1..Lines) /\ Len(c) = m + n
      /\ \A i \in 1..(m + n) : c[i] = IF i <= m THEN a[i] ELSE b[i - m]
  BY ConcatProperties
<1>3. /\ p + m <= l /\ \A k \in 1..m : a[k] = t[p + k]
      /\ p + m + n <= l /\ \A k \in 1..n : b[k] = t[p + m + k]
  BY DEF Holds
<1> HIDE DEF m, n, l, c
<1>4. ASSUME NEW k \in 1..(m + n) PROVE c[k] = t[p + k]
  <2>1. CASE k <= m
    <3>1. k \in 1..m /\ c[k] = a[k] BY <1>1, <1>2, <2>1
    <3> QED BY <1>3, <3>1
  <2>2. CASE k > m
    <3>1. k - m \in 1..n /\ p + m + (k - m) = p + k BY <1>1, <2>2
    <3>2. b[k - m] = t[p + m + (k - m)] BY <1>3, <3>1
    <3>3. c[k] = b[k - m] BY <1>1, <1>2, <2>2
    <3> QED BY <3>1, <3>2, <3>3
  <2> QED BY <1>1, <2>1, <2>2
<1>5. p + (m + n) <= l BY <1>1, <1>3
<1>6. Holds(t, c, p) BY <1>2, <1>4, <1>5 DEF Holds, l
<1> QED BY <1>2, <1>6 DEF c, m, n

LEMMA HoldsSuffix ==
  ASSUME NEW t \in Seq(1..Lines), NEW p \in Nat, p <= Len(t)
  PROVE  /\ SubSeq(t, p + 1, Len(t)) \in Seq(1..Lines)
         /\ Len(SubSeq(t, p + 1, Len(t))) = Len(t) - p
         /\ Holds(t, SubSeq(t, p + 1, Len(t)), p)
<1> DEFINE l == Len(t) s == SubSeq(t, p + 1, l)
<1>1. l \in Nat /\ \A i \in 1..l : t[i] \in 1..Lines BY LenProperties, ElementOfSeq
<1>2. \A i \in (p + 1)..l : t[i] \in 1..Lines BY <1>1
<1>3. /\ s \in Seq(1..Lines)
      /\ Len(s) = (IF p + 1 <= l THEN l - (p + 1) + 1 ELSE 0)
      /\ \A i \in 1..(l - (p + 1) + 1) : s[i] = t[p + 1 + i - 1]
  BY <1>1, <1>2, SubSeqProperties
<1>4. p <= l OBVIOUS
<1> HIDE DEF l, s
<1>5. Len(s) = l - p /\ l - (p + 1) + 1 = l - p BY <1>1, <1>3, <1>4
<1>6. ASSUME NEW k \in 1..(l - p) PROVE s[k] = t[p + k]
  <2>1. p + 1 + k - 1 = p + k OBVIOUS
  <2> QED BY <1>3, <1>5, <2>1
<1>7. p + Len(s) <= l BY <1>1, <1>5
<1> QED BY <1>3, <1>5, <1>6, <1>7 DEF Holds, l, s

\* What reaches to the end of t is the rest of t.
LEMMA HoldsAll ==
  ASSUME NEW t \in Seq(1..Lines), NEW s \in Seq(1..Lines), NEW p \in Nat,
         Holds(t, s, p), p + Len(s) = Len(t)
  PROVE  s = SubSeq(t, p + 1, Len(t))
<1> DEFINE r == SubSeq(t, p + 1, Len(t))
<1>1. Len(t) \in Nat /\ Len(s) \in Nat BY LenProperties
<1>2. p <= Len(t) BY <1>1
<1>3. r \in Seq(1..Lines) /\ Len(r) = Len(t) - p /\ Holds(t, r, p) BY <1>2, HoldsSuffix
<1> HIDE DEF r
<1>4. Len(r) = Len(s) BY <1>1, <1>3
<1>5. \A k \in 1..Len(s) : s[k] = r[k] BY <1>3, <1>4 DEF Holds
<1>6. s = r BY <1>3, <1>4, <1>5, SeqEqual
<1> QED BY <1>6 DEF r

LEMMA HoldsGrown ==
  ASSUME NEW t \in Seq(1..Lines), NEW x \in 1..Lines, NEW s \in Seq(1..Lines),
         NEW p \in Nat, Holds(t, s, p)
  PROVE  Holds(Append(t, x), s, p)
<1>1. /\ Len(t) \in Nat /\ Len(s) \in Nat /\ Len(Append(t, x)) = Len(t) + 1
      /\ \A i \in 1..Len(t) : Append(t, x)[i] = t[i]
  BY AppendProperties, LenProperties
<1> DEFINE u == Append(t, x) l == Len(t) m == Len(s)
<1>2. p + m <= l /\ \A k \in 1..m : s[k] = t[p + k] BY DEF Holds
<1>3. l \in Nat /\ m \in Nat /\ Len(u) = l + 1 /\ \A i \in 1..l : u[i] = t[i] BY <1>1
<1> HIDE DEF u, l, m
<1>4. ASSUME NEW k \in 1..m PROVE s[k] = u[p + k]
  <2>1. p + k \in 1..l BY <1>2, <1>3
  <2> QED BY <1>2, <1>3, <2>1
<1>5. p + m <= Len(u) BY <1>2, <1>3
<1> QED BY <1>4, <1>5 DEF Holds, u, m

\* What a kill takes off the end of t leaves the sequences before it.
LEMMA HoldsCut ==
  ASSUME NEW t \in Seq(1..Lines), NEW s \in Seq(1..Lines), NEW p \in Nat,
         NEW m \in Nat, m <= Len(t), Holds(t, s, p), p + Len(s) <= m
  PROVE  Len(SubSeq(t, 1, m)) = m /\ Holds(SubSeq(t, 1, m), s, p)
<1> DEFINE u == SubSeq(t, 1, m) l == Len(t) n == Len(s)
<1>1. l \in Nat /\ n \in Nat /\ \A i \in 1..l : t[i] \in 1..Lines BY LenProperties, ElementOfSeq
<1>2. \A i \in 1..m : t[i] \in 1..Lines BY <1>1
<1>3. /\ Len(u) = (IF 1 <= m THEN m - 1 + 1 ELSE 0)
      /\ \A i \in 1..(m - 1 + 1) : u[i] = t[1 + i - 1]
  BY <1>2, SubSeqProperties
<1>4. p + n <= m /\ \A k \in 1..n : s[k] = t[p + k] BY DEF Holds
<1> HIDE DEF u, l, n
<1>5. Len(u) = m BY <1>3
<1>6. ASSUME NEW k \in 1..n PROVE s[k] = u[p + k]
  <2>1. p + k \in 1..(m - 1 + 1) /\ 1 + (p + k) - 1 = p + k BY <1>1, <1>4
  <2>2. u[p + k] = t[1 + (p + k) - 1] BY <1>3, <2>1
  <2> QED BY <1>4, <2>1, <2>2
<1>7. p + n <= Len(u) BY <1>4, <1>5
<1> QED BY <1>5, <1>6, <1>7 DEF Holds, u, n

LEMMA HeadSpills ==
  ASSUME NEW q \in Seq(1..Lines), q # <<>>
  PROVE  q = <<Head(q)>> \o Tail(q)
<1>0. /\ Tail(q) \in Seq(1..Lines) /\ Head(q) \in 1..Lines /\ Len(q) \in Nat \ {0}
      /\ Len(Tail(q)) = Len(q) - 1
      /\ \A i \in 1..(Len(q) - 1) : Tail(q)[i] = q[i + 1]
  BY HeadTailProperties, LenProperties, EmptySeq, ZenonT(60)
<1>1. /\ Tail(q) \in Seq(1..Lines) /\ Head(q) \in 1..Lines /\ Len(q) \in Nat \ {0}
      /\ Len(Tail(q)) = Len(q) - 1 /\ Head(q) = q[1]
      /\ \A i \in 1..(Len(q) - 1) : Tail(q)[i] = q[i + 1]
  BY <1>0
<1> DEFINE h == <<Head(q)>> l == Len(q)
<1>2. h \in Seq(1..Lines) /\ Len(h) = 1 /\ h[1] = q[1] BY <1>1
<1> HIDE DEF h
<1>3. /\ h \o Tail(q) \in Seq(1..Lines)
      /\ Len(h \o Tail(q)) = Len(h) + Len(Tail(q))
      /\ \A i \in 1..(Len(h) + Len(Tail(q))) :
           (h \o Tail(q))[i] = IF i <= Len(h) THEN h[i] ELSE Tail(q)[i - Len(h)]
  BY <1>1, <1>2, ConcatProperties
<1>4. Len(h) + Len(Tail(q)) = l /\ l \in Nat BY <1>1, <1>2
<1>5. ASSUME NEW i \in 1..l PROVE (h \o Tail(q))[i] = q[i]
  <2>1. CASE i = 1 BY <1>2, <1>3, <1>4, <2>1
  <2>2. CASE i # 1
    <3>1. i - 1 \in 1..(l - 1) /\ ~(i <= 1) /\ i - 1 + 1 = i BY <1>4, <2>2
    <3> QED BY <1>1, <1>2, <1>3, <1>4, <3>1
  <2> QED BY <2>1, <2>2
<1>6. Len(h \o Tail(q)) = Len(q) BY <1>3, <1>4
<1>7. h \o Tail(q) = q BY <1>3, <1>5, <1>6, SeqEqual
<1> QED BY <1>7 DEF h

\* How many of the accepted lines have left m_file's buffer.
Settled == Len(told) - Len(buffer)

\* The buffer is the end of what was accepted.
Tailed ==
  /\ Settled \in Nat /\ Holds(told, buffer, Settled)
  /\ lives = 0 => told = <<>>

\* m_file is the file of the current index, and m_currentSize what it holds.
Held ==
  /\ handle # NoFile => handle = index
  /\ wpc \in {"room", "close"} => handle # NoFile
  /\ wpc \in {"idle", "room"} /\ handle # NoFile => handle \in DOMAIN files
  /\ wpc = "idle" /\ handle # NoFile => size = Len(files[handle]) + Len(buffer)

\* No file has an index above the current one, and when m_file's file was removed
\* it was the only one.
Placed ==
  /\ DOMAIN files \subseteq 0..index
  /\ handle # NoFile /\ handle \notin DOMAIN files => DOMAIN files = {}

\* The files hold consecutive parts of what was accepted, in the order of their
\* indices: at[i] lines came before the file of index i.
Laid(at) ==
  /\ \A i \in Nat : at[i] <= Settled
  /\ \A i \in Nat : (\A j \in DOMAIN files : j < i) => at[i] = Settled
  /\ \A i \in DOMAIN files :
       Holds(told, files[i], at[i]) /\ at[i + 1] = at[i] + Len(files[i])
  /\ \A i \in Nat \ DOMAIN files : at[i] = at[i + 1]

\* In the first run no index is skipped, every file but the last is full, and
\* files are removed only where max_files - 1 full ones remain.
Rotating == wpc \in {"room", "close"}
Top == IF Rotating THEN index + 1 ELSE index
Full(at, lo) ==
  /\ lo <= index + 1 /\ lo..(index - 1) \subseteq DOMAIN files /\ DOMAIN files \subseteq lo..index
  /\ lo = index + 1 \/ (wpc = "close" /\ handle \notin DOMAIN files)
       => lo = index + 1 /\ wpc = "close" /\ MaxFiles <= 1 /\ DOMAIN files = {}
  /\ at[0] = at[lo]
  /\ at[lo] = 0 \/ Top - lo >= MaxFiles - 1
  /\ \A i \in lo..index : at[index] - at[i] >= (index - i) * FileMax
  /\ Rotating => lo = index + 1 \/ Len(told) - at[index] >= FileMax

Kept ==
  ~inherited =>
    /\ Placed
    /\ \E at \in [Nat -> Nat] :
         /\ Laid(at)
         /\ lives = 1 /\ alive => \E lo \in Nat : Full(at, lo)

KInv == IInv /\ Tailed /\ Held /\ Kept

\* Content is what was accepted from the first file on.
LEMMA ContentIs ==
  ASSUME TypeOK, Tailed, Placed, NEW at \in [Nat -> Nat], Laid(at)
  PROVE  Content = SubSeq(told, at[0] + 1, Len(told)) /\ at[0] <= Len(told)
<1> DEFINE D == 0..(index + 1)
           File(i) == IF i \in DOMAIN files THEN files[i] ELSE <<>>
           Rest(f, i) == IF i > index THEN buffer ELSE File(i) \o f[i + 1]
           Solves(f) == f = [i \in D |-> Rest(f, i)]
           g == [i \in D |-> SubSeq(told, at[i] + 1, Len(told))]
           Good(s, i) == s \in Seq(1..Lines) /\ Holds(told, s, at[i]) /\ at[i] + Len(s) = Len(told)
<1>0. /\ index \in Nat /\ told \in Seq(1..Lines) /\ buffer \in Seq(1..Lines)
      /\ <<>> \in Seq(1..Lines) /\ Len(<<>>) = 0 /\ Len(told) \in Nat /\ Len(buffer) \in Nat
      /\ \A i \in DOMAIN files : files[i] \in Seq(1..Lines)
      /\ Settled \in Nat /\ Settled <= Len(told) /\ Settled + Len(buffer) = Len(told)
  BY EmptySeq, LenProperties DEF TypeOK, Tailed, Settled
<1>1. \A i \in Nat : at[i] \in Nat /\ at[i] <= Len(told)
  <2> TAKE i \in Nat
  <2>1. at[i] \in Nat /\ at[i] <= Settled BY DEF Laid
  <2> QED BY <1>0, <2>1
\* the last part
<1>2. Good(buffer, index + 1)
  <2>1. at[index + 1] = Settled
    <3>1. index + 1 \in Nat /\ \A j \in DOMAIN files : j < index + 1 BY <1>0 DEF Placed
    <3> QED BY <3>1 DEF Laid
  <2> QED BY <1>0, <2>1 DEF Tailed
\* one file and what comes after it
<1>3. ASSUME NEW i \in Nat, i <= index, NEW s, Good(s, i + 1)
      PROVE  Good(File(i) \o s, i)
  <2>1. /\ File(i) \in Seq(1..Lines) /\ Holds(told, File(i), at[i])
        /\ at[i + 1] = at[i] + Len(File(i))
    <3>1. CASE i \in DOMAIN files BY <1>0, <3>1 DEF Laid
    <3>2. CASE i \notin DOMAIN files
      <4>1. at[i + 1] = at[i] /\ at[i] \in Nat BY <1>1, <3>2 DEF Laid
      <4>2. Holds(told, <<>>, at[i]) BY <1>0, <1>1, HoldsEmpty
      <4> QED BY <1>0, <3>2, <4>1, <4>2
    <3> QED BY <3>1, <3>2
  <2> HIDE DEF File
  <2>2. /\ File(i) \o s \in Seq(1..Lines) /\ Len(File(i) \o s) = Len(File(i)) + Len(s)
        /\ Holds(told, File(i) \o s, at[i])
    <3>1. Holds(told, s, at[i] + Len(File(i))) /\ s \in Seq(1..Lines) BY <1>3, <2>1
    <3>2. told \in Seq(1..Lines) /\ at[i] \in Nat BY <1>0, <1>1
    <3> QED BY <2>1, <3>1, <3>2, HoldsJoin
  <2>3. Len(File(i)) \in Nat /\ Len(s) \in Nat /\ at[i] \in Nat BY <1>1, <1>3, <2>1, LenProperties
  <2>4. at[i] + Len(File(i) \o s) = Len(told)
    <3> DEFINE x == at[i] y == Len(File(i)) z == Len(s) w == Len(told) u == at[i + 1]
    <3>1. u = x + y /\ u + z = w BY <1>3, <2>1
    <3>2. x \in Nat /\ y \in Nat /\ z \in Nat /\ w \in Nat BY <1>0, <2>3
    <3>3. Len(File(i) \o s) = y + z BY <2>2
    <3> HIDE DEF x, y, z, w, u
    <3>4. x + (y + z) = w BY <3>1, <3>2
    <3> QED BY <3>3, <3>4 DEF x, w
  <2> QED BY <2>2, <2>4
<1>4. \A i \in Nat : \A s : Good(s, i) => s = SubSeq(told, at[i] + 1, Len(told))
  BY <1>0, <1>1, HoldsAll
<1>5. \A i \in Nat : Good(SubSeq(told, at[i] + 1, Len(told)), i)
  <2> TAKE i \in Nat
  <2>1. at[i] \in Nat /\ at[i] <= Len(told) BY <1>1
  <2>2. /\ SubSeq(told, at[i] + 1, Len(told)) \in Seq(1..Lines)
        /\ Len(SubSeq(told, at[i] + 1, Len(told))) = Len(told) - at[i]
        /\ Holds(told, SubSeq(told, at[i] + 1, Len(told)), at[i])
    BY <1>0, <2>1, HoldsSuffix
  <2>3. \A x, w \in Nat : x + (w - x) = w OBVIOUS
  <2>4. at[i] + (Len(told) - at[i]) = Len(told) BY <1>0, <2>1, <2>3
  <2> QED BY <2>2, <2>4
<1> HIDE DEF File, Good
\* the function exists
<1>6. Solves(g)
  <2>1. ASSUME NEW i \in D PROVE g[i] = Rest(g, i)
    <3>0. i \in Nat BY <1>0
    <3>1. i \in Nat /\ g[i] = SubSeq(told, at[i] + 1, Len(told)) BY <3>0
    <3>2. CASE i > index
      <4>1. i = index + 1 BY <1>0, <3>2
      <4> QED BY <1>2, <1>4, <3>1, <3>2, <4>1
    <3>3. CASE ~(i > index)
      <4>1. i <= index /\ i + 1 \in D /\ i + 1 \in Nat BY <1>0, <3>1, <3>3
      <4>2. Good(g[i + 1], i + 1) BY <1>5, <4>1
      <4>3. Good(File(i) \o g[i + 1], i) BY <1>3, <3>1, <4>1, <4>2
      <4> QED BY <1>4, <3>1, <3>3, <4>3
    <3> QED BY <3>2, <3>3
  <2> QED BY <2>1
\* and every solution is what was accepted
<1>7. ASSUME NEW f, Solves(f) PROVE Good(f[0], 0)
  <2>0. \A i \in D : f[i] = Rest(f, i) BY <1>7
  <2> DEFINE T == {m \in 0..(index + 1) : ~Good(f[index + 1 - m], index + 1 - m)}
  <2>1. CASE T = {}
    <3>1. index + 1 \in 0..(index + 1) /\ index + 1 - (index + 1) = 0 BY <1>0
    <3> QED BY <2>1, <3>1
  <2>2. CASE T # {}
    <3>0. T \subseteq Nat BY <1>0
    <3> HIDE DEF T
    <3>1. PICK m \in T : \A y \in T : m <= y BY <2>2, <3>0, LeastNat
    <3> DEFINE i == index + 1 - m
    <3>2. m \in Nat /\ m <= index + 1 /\ i \in D /\ ~Good(f[i], i) BY <1>0 DEF T
    <3>3. CASE m = 0
      <4>1. i = index + 1 /\ i > index BY <1>0, <3>3
      <4>2. f[i] = buffer BY <2>0, <3>2, <4>1
      <4> QED BY <1>2, <3>2, <4>1, <4>2
    <3>4. CASE m # 0
      <4>0. m - 1 \in 0..(index + 1) /\ ~(m <= m - 1) BY <1>0, <3>2, <3>4
      <4>1. m - 1 \in 0..(index + 1) /\ m - 1 \notin T BY <3>1, <4>0
      <4>2. index + 1 - (m - 1) = i + 1 /\ i \in Nat /\ i <= index /\ ~(i > index)
        BY <1>0, <3>2, <3>4
      <4>3. Good(f[i + 1], i + 1) BY <4>1, <4>2 DEF T
      <4>4. f[i] = File(i) \o f[i + 1] BY <2>0, <3>2, <4>2
      <4> QED BY <1>3, <3>2, <4>2, <4>3, <4>4
    <3> QED BY <3>3, <3>4
  <2> QED BY <2>1, <2>2
<1>8. Content = (CHOOSE f : Solves(f))[0] BY DEF Content, File
<1> HIDE DEF Solves, g
<1>9. Solves(CHOOSE f : Solves(f)) BY <1>6
<1>10. Good(Content, 0) BY <1>7, <1>8, <1>9
<1> QED BY <1>1, <1>4, <1>10

LEMMA Lengths ==
  ASSUME TypeOK
  PROVE  /\ told \in Seq(1..Lines) /\ buffer \in Seq(1..Lines)
         /\ Len(told) \in Nat /\ Len(buffer) \in Nat /\ Settled \in Int
         /\ Settled + Len(buffer) = Len(told) /\ (handle = NoFile => Len(buffer) = 0)
         /\ \A i \in DOMAIN files : files[i] \in Seq(1..Lines) /\ Len(files[i]) \in Nat
         /\ <<>> \in Seq(1..Lines) /\ Len(<<>>) = 0
<1>1. /\ told \in Seq(1..Lines) /\ buffer \in Seq(1..Lines)
      /\ (handle = NoFile => buffer = <<>>)
      /\ \A i \in DOMAIN files : files[i] \in Seq(1..Lines)
  BY DEF TypeOK
<1>2. <<>> \in Seq(1..Lines) /\ Len(<<>>) = 0 BY EmptySeq
<1> QED BY <1>1, <1>2, LenProperties DEF Settled

\* The part of a buffer that a step writes to the file and the part it leaves.
LEMMA Poured ==
  ASSUME TypeOK, Tailed, NEW a \in Seq(1..Lines), NEW b \in Seq(1..Lines), buffer = a \o b
  PROVE  /\ Len(a) \in Nat /\ Len(b) \in Nat /\ Len(buffer) = Len(a) + Len(b)
         /\ Holds(told, a, Settled) /\ Holds(told, b, Settled + Len(a))
<1>1. Settled \in Nat /\ Len(told) \in Nat /\ Settled + Len(buffer) = Len(told)
  BY Lengths DEF Tailed
<1>2. /\ Len(a) \in Nat /\ Len(b) \in Nat /\ Len(buffer) = Len(a) + Len(b)
      /\ \A i \in 1..(Len(a) + Len(b)) :
           buffer[i] = IF i <= Len(a) THEN a[i] ELSE b[i - Len(a)]
  BY ConcatProperties, LenProperties
<1>3. \A k \in 1..Len(buffer) : buffer[k] = told[Settled + k] BY DEF Tailed, Holds
<1> DEFINE m == Len(a) n == Len(b) l == Len(told) d == Settled
<1>4. /\ d \in Nat /\ l \in Nat /\ m \in Nat /\ n \in Nat /\ d + (m + n) = l
      /\ \A i \in 1..(m + n) : buffer[i] = IF i <= m THEN a[i] ELSE b[i - m]
      /\ \A k \in 1..(m + n) : buffer[k] = told[d + k]
  BY <1>1, <1>2, <1>3
<1> HIDE DEF m, n, l, d
<1>5. \A k \in 1..m : a[k] = told[d + k]
  <2> TAKE k \in 1..m
  <2>1. k \in 1..(m + n) /\ k <= m BY <1>4
  <2> QED BY <1>4, <2>1
<1>6. \A k \in 1..n : b[k] = told[d + m + k]
  <2> TAKE k \in 1..n
  <2>1. m + k \in 1..(m + n) /\ ~(m + k <= m) /\ m + k - m = k /\ d + (m + k) = d + m + k BY <1>4
  <2> DEFINE j == m + k
  <2>2. buffer[j] = IF j <= m THEN a[j] ELSE b[j - m]
    <3>1. j \in 1..(m + n) BY <2>1
    <3>2. \A i \in 1..(m + n) : buffer[i] = IF i <= m THEN a[i] ELSE b[i - m] BY <1>4
    <3> HIDE DEF j
    <3> QED BY <3>1, <3>2, Zenon
  <2>3. j - m = k /\ ~(j <= m) /\ j \in 1..(m + n) /\ d + j = d + m + k BY <1>4, <2>1
  <2>4. buffer[j] = told[d + j]
    <3> HIDE DEF j
    <3> QED BY <1>4, <2>3
  <2> QED BY <2>2, <2>3, <2>4
<1>7. d + m <= l /\ d + m + n <= l BY <1>4
<1> QED BY <1>2, <1>5, <1>6, <1>7 DEF Holds, m, n, l, d

LEMMA TailedStep ==
  TypeOK /\ Closed /\ Tailed /\ [Next]_vars => Tailed'
<1> SUFFICES ASSUME TypeOK, Closed, Tailed, [Next]_vars PROVE Tailed' OBVIOUS
<1>0. /\ told \in Seq(1..Lines) /\ buffer \in Seq(1..Lines) /\ Settled \in Nat
      /\ Len(told) \in Nat /\ Len(buffer) \in Nat /\ Settled + Len(buffer) = Len(told)
      /\ (handle = NoFile => buffer = <<>>)
      /\ <<>> \in Seq(1..Lines) /\ Len(<<>>) = 0 /\ lives \in Nat
      /\ Holds(told, buffer, Settled) /\ (lives = 0 => told = <<>>)
  BY Lengths DEF Tailed, TypeOK
\* nothing is accepted, and the buffer is written or not
<1>1. CASE UNCHANGED <<told, lives>> /\ buffer' \in {buffer, <<>>}
  <2>1. CASE buffer' = buffer BY <1>0, <1>1, <2>1 DEF Tailed, Settled
  <2>2. CASE buffer' = <<>>
    <3>1. Settled' = Len(told) BY <1>0, <1>1, <2>2 DEF Settled
    <3>2. Holds(told, <<>>, Len(told)) BY <1>0, HoldsEmpty
    <3> QED BY <1>0, <1>1, <2>2, <3>1, <3>2 DEF Tailed
  <2> QED BY <1>1, <2>1, <2>2
<1>2. CASE Starts
  <2>1. UNCHANGED <<told, buffer>> /\ lives' # 0 BY <1>0, <1>2 DEF Starts
  <2> QED BY <1>0, <2>1 DEF Tailed, Settled
<1>3. CASE Killed
  <2>1. Settled <= Len(told) BY <1>0
  <2>2. told' = SubSeq(told, 1, Settled) /\ buffer' = <<>> /\ lives' = lives /\ lives # 0
    BY <1>3 DEF Killed, Settled, Closed
  <2>3. Len(told') = Settled
    <3>1. Holds(told, <<>>, 0) BY <1>0, HoldsEmpty
    <3>2. 0 + Len(<<>>) <= Settled BY <1>0
    <3> QED BY <1>0, <2>1, <2>2, <3>1, <3>2, HoldsCut
  <2>4. told' \in Seq(1..Lines) BY <1>0, <2>1, <2>2, ElemsFront
  <2>5. Settled' = Settled BY <1>0, <2>2, <2>3 DEF Settled
  <2>6. Holds(told', <<>>, Settled) BY <1>0, <2>3, <2>4, HoldsEmpty
  <2> QED BY <1>0, <2>2, <2>5, <2>6 DEF Tailed
<1>4. CASE Spills
  <2>1. UNCHANGED <<told, lives>> /\ buffer # <<>> /\ buffer' = Tail(buffer) BY <1>4 DEF Spills
  <2>2. Head(buffer) \in 1..Lines /\ Tail(buffer) \in Seq(1..Lines) BY <1>0, <2>1, ElemsTail
  <2>3. <<Head(buffer)>> \in Seq(1..Lines) /\ Len(<<Head(buffer)>>) = 1 BY <2>2
  <2>4. buffer = <<Head(buffer)>> \o Tail(buffer) BY <1>0, <2>1, <2>2, HeadSpills
  <2>5. Len(buffer) = 1 + Len(Tail(buffer)) /\ Len(Tail(buffer)) \in Nat
        /\ Holds(told, Tail(buffer), Settled + 1)
    BY <2>2, <2>3, <2>4, Poured
  <2>6. Settled' = Settled + 1 BY <1>0, <2>1, <2>5 DEF Settled
  <2> QED BY <1>0, <2>1, <2>5, <2>6 DEF Tailed
<1>5. CASE Writes
  <2>1. next \in 1..Lines /\ lives' = lives /\ lives # 0
    BY <1>5 DEF Writes, Begins, TypeOK, Closed
  <2>2. told' = Append(told, next) /\ buffer' = Append(buffer, next) BY <1>5 DEF Writes
  <2>3. /\ Len(told') = Len(told) + 1 /\ Len(buffer') = Len(buffer) + 1
        /\ told' \in Seq(1..Lines) /\ buffer' \in Seq(1..Lines)
        /\ told'[Len(told) + 1] = next /\ buffer'[Len(buffer) + 1] = next
        /\ \A k \in 1..Len(buffer) : buffer'[k] = buffer[k]
    BY <1>0, <2>1, <2>2, AppendProperties
  <2>4. Settled' = Settled BY <1>0, <2>3 DEF Settled
  <2>5. Holds(told', buffer, Settled) BY <1>0, <2>1, <2>2, HoldsGrown
  <2>6. ASSUME NEW k \in 1..(Len(buffer) + 1) PROVE buffer'[k] = told'[Settled + k]
    <3>1. CASE k = Len(buffer) + 1
      <4>1. Settled + k = Len(told) + 1 BY <1>0, <3>1
      <4> QED BY <2>3, <3>1, <4>1
    <3>2. CASE k # Len(buffer) + 1
      <4>1. k \in 1..Len(buffer) BY <1>0, <3>2
      <4> QED BY <2>3, <2>5, <4>1 DEF Holds
    <3> QED BY <3>1, <3>2
  <2>7. Settled + Len(buffer') <= Len(told') BY <1>0, <2>3
  <2>8. Holds(told', buffer', Settled') BY <2>3, <2>4, <2>6, <2>7 DEF Holds
  <2> QED BY <1>0, <2>1, <2>4, <2>8 DEF Tailed
<1> QED
  BY <1>0, <1>1, <1>2, <1>3, <1>4, <1>5 DEF Next, vars, Exits, WriteFails, Refuses, MakesRoom, Room,
     Closes, Opens, OpenFails, FlushReads, FlushRuns

LEMMA HeldStep ==
  TypeOK /\ Closed /\ Held /\ [Next]_vars => Held'
<1> SUFFICES ASSUME TypeOK, Closed, Held, [Next]_vars PROVE Held' OBVIOUS
<1>0. /\ told \in Seq(1..Lines) /\ buffer \in Seq(1..Lines) /\ Len(buffer) \in Nat
      /\ handle \in Nat \cup {NoFile} /\ (handle = NoFile => buffer = <<>>)
      /\ \A i \in DOMAIN files : files[i] \in Seq(1..Lines) /\ Len(files[i]) \in Nat
      /\ <<>> \in Seq(1..Lines) /\ Len(<<>>) = 0 /\ index \in Nat /\ size \in Nat
  BY Lengths DEF TypeOK
<1>1. CASE Spills
  <2>1. handle # NoFile /\ buffer # <<>> BY <1>0, <1>1 DEF Spills
  <2>2. /\ Head(buffer) \in 1..Lines /\ buffer' = Tail(buffer)
        /\ buffer' \in Seq(1..Lines) /\ Len(buffer') = Len(buffer) - 1
    BY <1>0, <1>1, <2>1, ElemsTail, HeadTailProperties DEF Spills
  <2>3. CASE handle \in DOMAIN files
    <3>1. files' = [files EXCEPT ![handle] = Append(files[handle], Head(buffer))]
      BY <1>1, <2>3 DEF Spills
    <3>2. /\ DOMAIN files' = DOMAIN files
          /\ files'[handle] = Append(files[handle], Head(buffer)) BY <2>3, <3>1
    <3>3. Len(files'[handle]) = Len(files[handle]) + 1
      BY <1>0, <2>2, <2>3, <3>2, AppendProperties
    <3>4. /\ Len(files[handle]) \in Nat /\ Len(buffer) \in Nat
          /\ UNCHANGED <<handle, wpc, index, size>>
      BY <1>0, <1>1, <2>3 DEF Spills
    <3>5. Len(files'[handle]) + Len(buffer') = Len(files[handle]) + Len(buffer)
      BY <2>2, <3>3, <3>4
    <3> QED BY <3>2, <3>4, <3>5 DEF Held
  <2>4. CASE handle \notin DOMAIN files
    <3>1. wpc \notin {"idle", "room"} /\ UNCHANGED <<handle, wpc, index>>
      BY <1>1, <2>1, <2>4 DEF Held, Spills
    <3> QED BY <3>1 DEF Held
  <2> QED BY <2>3, <2>4
<1>2. ASSUME files' = Stored, buffer' = <<>>, UNCHANGED <<handle, index, wpc, size>> PROVE Held'
  <2>1. CASE handle \in DOMAIN files
    <3>1. files' = [files EXCEPT ![handle] = files[handle] \o buffer]
      BY <1>2, <2>1 DEF Stored
    <3>2. DOMAIN files' = DOMAIN files /\ files'[handle] = files[handle] \o buffer
      BY <2>1, <3>1
    <3>3. Len(files'[handle]) = Len(files[handle]) + Len(buffer)
      BY <1>0, <2>1, <3>2, ConcatProperties
    <3>4. Len(files'[handle]) + Len(buffer') = Len(files[handle]) + Len(buffer)
      BY <1>0, <1>2, <2>1, <3>3
    <3> QED BY <1>2, <3>2, <3>4 DEF Held
  <2>2. CASE handle \notin DOMAIN files
    <3>1. files' = files BY <1>2, <2>2 DEF Stored
    <3> QED BY <1>2, <2>2, <3>1 DEF Held
  <2> QED BY <2>1, <2>2
<1>3. CASE Writes
  <2>1. next \in 1..Lines /\ handle # NoFile /\ wpc = "idle" BY <1>3 DEF Writes, Begins, TypeOK
  <2>2. /\ Len(buffer') = Len(buffer) + 1 /\ size' = size + 1
        /\ UNCHANGED <<files, handle, index>> /\ wpc' \in {"idle", "room"}
    BY <1>0, <1>3, <2>1, AppendProperties DEF Writes
  <2>3. handle \in DOMAIN files /\ size = Len(files[handle]) + Len(buffer) /\ handle = index
    BY <2>1 DEF Held
  <2>4. size' = Len(files[handle]) + Len(buffer') BY <1>0, <2>2, <2>3
  <2> QED BY <2>1, <2>2, <2>3, <2>4 DEF Held
<1>4. CASE Opens
  <2>1. handle' = index /\ index' = index /\ index \in DOMAIN files' /\ size' = Len(files'[index])
        /\ buffer' = <<>> /\ wpc' = "idle"
    BY <1>0, <1>4 DEF Opens, Closed
  <2>2. size' \in Nat
    <3>1. files'[index] \in Seq(1..Lines)
      BY <1>0, <1>4 DEF Opens
    <3> QED BY <2>1, <3>1, LenProperties
  <2> QED BY <1>0, <2>1, <2>2 DEF Held
<1>5. CASE handle' = NoFile /\ wpc' \in {"idle", "make", "open"} BY <1>5 DEF Held
<1>6. CASE Starts \/ OpenFails BY <1>5, <1>6 DEF Starts, OpenFails, Closed
<1>7. CASE Exits \/ Killed \/ Closes BY <1>5, <1>7 DEF Exits, Killed, Closes
<1>8. CASE MakesRoom BY <1>8 DEF MakesRoom, Room, Held
<1>9. CASE UNCHANGED <<files, handle, buffer, index, size, wpc>> BY <1>9 DEF Held
<1>10. ASSUME NEW f \in Flushers, FlushRuns(f) PROVE Held'
  BY <1>2, <1>9, <1>10 DEF FlushRuns
<1> QED
  BY <1>1, <1>3, <1>4, <1>6, <1>7, <1>8, <1>9, <1>10
  DEF Next, vars, WriteFails, Refuses, Begins, FlushReads

\* Lines are accepted, or those that are only buffered are lost.
Retells ==
  /\ UNCHANGED files /\ Settled' = Settled
  /\ \/ told' = told
     \/ \E x \in 1..Lines : told' = Append(told, x)
     \/ told' = SubSeq(told, 1, Settled)

\* The first part of the buffer is written, to nowhere when m_file's file was removed.
Pours(a, b) ==
  /\ a \in Seq(1..Lines) /\ b \in Seq(1..Lines) /\ buffer = a \o b
  /\ handle # NoFile /\ buffer' = b /\ told' = told
  /\ files' = IF handle \in DOMAIN files
              THEN [files EXCEPT ![handle] = files[handle] \o a] ELSE files

LEMMA Indices ==
  ASSUME TypeOK, Placed
  PROVE  /\ index \in Nat /\ index + 1 \in Nat
         /\ \A i \in DOMAIN files : i \in Nat /\ i + 1 \in Nat /\ i <= index /\ i < index + 1
<1>1. index \in Nat BY DEF TypeOK
<1>2. DOMAIN files \subseteq 0..index BY DEF Placed
<1> QED BY <1>1, <1>2

\* The files stay where they are, and lines are accepted or cut off behind them.
LEMMA LaidUnmoved ==
  ASSUME TypeOK, Tailed, NEW at \in [Nat -> Nat], Laid(at), Retells
  PROVE  Laid(at)'
<1>0. /\ told \in Seq(1..Lines) /\ Len(told) \in Nat /\ Settled \in Nat /\ Settled <= Len(told)
      /\ \A i \in DOMAIN files : files[i] \in Seq(1..Lines) /\ Len(files[i]) \in Nat
  <2>1. Len(buffer) \in Nat /\ Settled + Len(buffer) = Len(told) /\ Settled \in Nat
    BY Lengths DEF Tailed
  <2>2. Len(told) \in Nat BY Lengths
  <2>3. Settled <= Len(told) BY <2>1, <2>2
  <2> QED BY <2>1, <2>2, <2>3, Lengths
<1>1. ASSUME NEW i \in DOMAIN files PROVE Holds(told', files[i], at[i])
  <2>0. i \in Nat BY DEF TypeOK
  <2>1. /\ Holds(told, files[i], at[i]) /\ at[i] \in Nat /\ files[i] \in Seq(1..Lines)
        /\ at[i + 1] = at[i] + Len(files[i]) /\ i + 1 \in Nat
    <3>1. i + 1 \in Nat /\ at[i] \in Nat BY <2>0
    <3> QED BY <1>0, <3>1 DEF Laid
  <2>2. at[i] + Len(files[i]) <= Settled BY <2>1 DEF Laid
  <2>3. CASE told' = told BY <2>1, <2>3
  <2>6. told' = told \/ (\E x \in 1..Lines : told' = Append(told, x))
        \/ told' = SubSeq(told, 1, Settled)
    BY DEF Retells
  <2>4. CASE \E x \in 1..Lines : told' = Append(told, x) BY <1>0, <2>1, <2>4, HoldsGrown
  <2>5. CASE told' = SubSeq(told, 1, Settled) BY <1>0, <2>1, <2>2, <2>5, HoldsCut
  <2> QED BY <2>3, <2>4, <2>5, <2>6
<1> QED BY <1>1 DEF Laid, Retells

\* A part of the buffer gets into m_file's file, or nowhere when that was removed.
LEMMA LaidPoured ==
  ASSUME TypeOK, Tailed, Held, Placed, NEW at \in [Nat -> Nat], Laid(at),
         NEW a, NEW b, Pours(a, b)
  PROVE  \E at2 \in [Nat -> Nat] :
           /\ Laid(at2)'
           /\ \A i \in Nat :
                at2[i] = IF handle \in DOMAIN files /\ i <= index THEN at[i] ELSE Settled'
<1>0. /\ told \in Seq(1..Lines) /\ Len(told) \in Nat /\ Settled \in Nat /\ Len(a) \in Nat
      /\ Len(b) \in Nat /\ Holds(told, a, Settled) /\ index \in Nat
      /\ Settled + (Len(a) + Len(b)) = Len(told)
      /\ \A i \in DOMAIN files : files[i] \in Seq(1..Lines) /\ Len(files[i]) \in Nat
  <2>1. Len(buffer) = Len(a) + Len(b) /\ Len(a) \in Nat /\ Len(b) \in Nat /\ Holds(told, a, Settled)
    BY Poured DEF Pours
  <2> QED BY <2>1, Lengths DEF Tailed, TypeOK
<1>n. index \in Nat /\ \A i \in DOMAIN files : i \in Nat BY DEF TypeOK
<1>h. handle = index /\ told' = told /\ a \in Seq(1..Lines) BY DEF Held, Pours
<1>1. Settled' = Settled + Len(a) /\ Settled' \in Nat
  <2>1. Settled' = Len(told) - Len(b) BY DEF Settled, Pours
  <2> QED BY <1>0, <2>1
<1>s. Settled \in Nat /\ Settled' \in Nat /\ Settled <= Settled' BY <1>0, <1>1
<1> DEFINE Moved(i) == IF handle \in DOMAIN files /\ i <= index THEN at[i] ELSE Settled'
<1>2. PICK at2 : at2 = [i \in Nat |-> Moved(i)] OBVIOUS
<1>3. at2 \in [Nat -> Nat] /\ \A i \in Nat : at2[i] = Moved(i) BY <1>1, <1>2
<1>4. CASE handle \notin DOMAIN files
  <2>1. DOMAIN files' = {} /\ \A i \in Nat : at2[i] = Settled'
    BY <1>3, <1>4 DEF Placed, Pours
  <2>2. \A i \in Nat : at2[i] <= Settled' /\ at2[i] = at2[i + 1]
    <3> TAKE i \in Nat
    <3>1. i + 1 \in Nat OBVIOUS
    <3>2. at2[i] = Settled' /\ at2[i + 1] = Settled' BY <2>1, <3>1
    <3> QED BY <1>s, <3>2
  <2>3. Laid(at2)' BY <2>1, <2>2 DEF Laid
  <2> QED BY <1>3, <2>3
<1>5. CASE handle \in DOMAIN files
  <2>0. DOMAIN files' = DOMAIN files /\ files'[index] = files[index] \o a
        /\ \A i \in DOMAIN files : i # index => files'[i] = files[i]
    <3>1. files' = [files EXCEPT ![index] = files[index] \o a] BY <1>h, <1>5 DEF Pours
    <3> QED BY <1>h, <1>5, <3>1
  <2>1. at[index + 1] = Settled
    <3>1. index + 1 \in Nat /\ \A j \in DOMAIN files : j < index + 1 BY <1>n DEF Placed
    <3> QED BY <3>1 DEF Laid
  <2>2. \A i \in Nat : at2[i] = IF i <= index THEN at[i] ELSE Settled' BY <1>3, <1>5
  <2>3. \A i \in Nat : at2[i] <= Settled'
    <3> TAKE i \in Nat
    <3>1. at[i] \in Nat /\ at[i] <= Settled BY DEF Laid
    <3>2. at2[i] = at[i] \/ at2[i] = Settled' BY <2>2
    <3> QED BY <1>s, <3>1, <3>2
  <2>4. \A i \in Nat : (\A j \in DOMAIN files : j < i) => at2[i] = Settled'
    <3> TAKE i \in Nat
    <3>1. (\A j \in DOMAIN files : j < i) => index < i BY <1>h, <1>5
    <3> QED BY <1>n, <2>2, <3>1
  <2>5. ASSUME NEW i \in DOMAIN files
        PROVE  Holds(told, files'[i], at2[i]) /\ at2[i + 1] = at2[i] + Len(files'[i])
    <3>n. i \in Nat /\ i <= index /\ i + 1 \in Nat BY Indices
    <3>0. /\ i \in Nat /\ i <= index /\ i + 1 \in Nat /\ at2[i] = at[i] /\ at[i] \in Nat
          /\ Holds(told, files[i], at[i]) /\ at[i + 1] = at[i] + Len(files[i])
      BY <2>2, <3>n DEF Laid
    <3>1. CASE i = index
      <4>1. Holds(told, a, at[i] + Len(files[i])) BY <1>0, <2>1, <3>0, <3>1
      <4>2. /\ Len(files[i] \o a) = Len(files[i]) + Len(a)
            /\ Holds(told, files[i] \o a, at[i])
        BY <1>0, <1>h, <3>0, <4>1, HoldsJoin
      <4>3. at2[i + 1] = Settled'
        <5>1. i + 1 \in Nat /\ ~(i + 1 <= index) BY <1>n, <3>1
        <5> QED BY <2>2, <5>1
      <4>4. Settled = at[i] + Len(files[i]) BY <2>1, <3>0, <3>1
      <4>5. Settled + Len(a) = at[i] + (Len(files[i]) + Len(a))
        <5> DEFINE x == at[i] y == Len(files[i]) z == Len(a)
        <5>1. x \in Nat /\ y \in Nat /\ z \in Nat /\ Settled = x + y BY <1>0, <3>0, <4>4
        <5> HIDE DEF x, y, z
        <5>2. Settled + z = x + (y + z) BY <5>1
        <5> QED BY <5>2 DEF x, y, z
      <4> QED BY <1>1, <2>0, <3>0, <3>1, <4>2, <4>3, <4>5
    <3>2. CASE i # index
      <4>1. i + 1 <= index BY <1>n, <3>n, <3>2
      <4> QED BY <2>0, <2>2, <3>0, <3>2, <4>1
    <3> QED BY <3>1, <3>2
  <2>6. ASSUME NEW i \in Nat \ DOMAIN files PROVE at2[i] = at2[i + 1]
    <3>1. i + 1 \in Nat /\ at[i] = at[i + 1] /\ i # index BY <1>h, <1>5 DEF Laid
    <3>2. i <= index <=> i + 1 <= index BY <1>n, <3>1
    <3> QED BY <2>2, <3>1, <3>2
  <2>7. Laid(at2)' BY <1>h, <2>0, <2>3, <2>4, <2>5, <2>6 DEF Laid
  <2> QED BY <1>3, <2>7
<1> QED BY <1>4, <1>5

LEMMA AppendJoins ==
  ASSUME NEW q \in Seq(1..Lines), NEW x \in 1..Lines
  PROVE  <<x>> \in Seq(1..Lines) /\ Append(q, x) = q \o <<x>>
<1> DEFINE h == <<x>> l == Len(q)
<1>1. h \in Seq(1..Lines) /\ Len(h) = 1 /\ h[1] = x /\ l \in Nat BY LenProperties
<1> HIDE DEF h
<1>2. /\ q \o h \in Seq(1..Lines) /\ Len(q \o h) = l + Len(h)
      /\ \A i \in 1..(l + Len(h)) : (q \o h)[i] = IF i <= l THEN q[i] ELSE h[i - l]
  BY <1>1, ConcatProperties
<1>3. /\ Append(q, x) \in Seq(1..Lines) /\ Len(Append(q, x)) = l + 1
      /\ \A i \in 1..l : Append(q, x)[i] = q[i]
      /\ Append(q, x)[l + 1] = x
  BY AppendProperties
<1> HIDE DEF l
<1>4. ASSUME NEW i \in 1..(l + 1) PROVE Append(q, x)[i] = (q \o h)[i]
  <2>1. CASE i <= l
    <3>1. i \in 1..l BY <1>1, <2>1
    <3> QED BY <1>1, <1>2, <1>3, <2>1, <3>1
  <2>2. CASE ~(i <= l)
    <3>1. i = l + 1 /\ i - l = 1 BY <1>1, <2>2
    <3> QED BY <1>1, <1>2, <1>3, <2>2, <3>1
  <2> QED BY <2>1, <2>2
<1>5. Append(q, x) = q \o h BY <1>1, <1>2, <1>3, <1>4, SeqEqual
<1> QED BY <1>1, <1>5 DEF h

\* Whatever is written goes to the file m_file has open.
LEMMA SpillsPour ==
  ASSUME TypeOK, Spills
  PROVE  Pours(<<Head(buffer)>>, Tail(buffer))
<1>1. buffer \in Seq(1..Lines) /\ buffer # <<>> /\ handle # NoFile
  BY DEF TypeOK, Spills
<1>2. Head(buffer) \in 1..Lines /\ Tail(buffer) \in Seq(1..Lines) BY <1>1, ElemsTail
<1>3. <<Head(buffer)>> \in Seq(1..Lines) /\ buffer = <<Head(buffer)>> \o Tail(buffer)
  BY <1>1, <1>2, HeadSpills
<1>4. files' = IF handle \in DOMAIN files
               THEN [files EXCEPT ![handle] = files[handle] \o <<Head(buffer)>>] ELSE files
  <2>1. CASE handle \in DOMAIN files
    <3>1. files' = [files EXCEPT ![handle] = Append(files[handle], Head(buffer))]
      BY <2>1 DEF Spills
    <3>2. files[handle] \in Seq(1..Lines) BY <2>1 DEF TypeOK
    <3>3. Append(files[handle], Head(buffer)) = files[handle] \o <<Head(buffer)>>
      BY <1>2, <3>2, AppendJoins
    <3> QED BY <2>1, <3>1, <3>3
  <2>2. CASE handle \notin DOMAIN files BY <2>2 DEF Spills
  <2> QED BY <2>1, <2>2
<1> QED BY <1>1, <1>2, <1>3, <1>4 DEF Pours, Spills

LEMMA StoresPour ==
  ASSUME TypeOK, handle # NoFile, files' = Stored, buffer' = <<>>, told' = told
  PROVE  Pours(buffer, <<>>)
<1>1. buffer \in Seq(1..Lines) /\ <<>> \in Seq(1..Lines) /\ buffer = buffer \o <<>>
  BY EmptySeq, ConcatEmptySeq DEF TypeOK
<1> QED BY <1>1 DEF Pours, Stored

LEMMA StoresNothing ==
  ASSUME TypeOK, handle = NoFile, files' = Stored, buffer' = <<>>, told' = told
  PROVE  Retells /\ UNCHANGED buffer
<1>1. buffer = <<>> /\ handle \notin DOMAIN files BY DEF TypeOK
<1> QED BY <1>1 DEF Retells, Stored, Settled

LEMMA FullStays ==
  ASSUME NEW at, NEW at2, NEW lo \in Nat, index \in Nat, Full(at, lo), lo <= index,
         \A i \in 0..index : at2[i] = at[i],
         DOMAIN files' = DOMAIN files, UNCHANGED <<index, handle, wpc, told>>
  PROVE  Full(at2, lo)'
<1>1. at2[0] = at[0] /\ at2[lo] = at[lo] /\ at2[index] = at[index] OBVIOUS
<1>2. \A i \in lo..index : at2[i] = at[i] OBVIOUS
<1> QED BY <1>1, <1>2 DEF Full, Rotating, Top

\* What must be known of a state to see what a step makes of its files.
Known == TypeOK /\ Closed /\ Roomy /\ Tailed /\ Held /\ Kept

LEMMA KeptStarts == Known /\ Starts => Kept'
<1> SUFFICES ASSUME Known, Starts, ~inherited' PROVE Kept' BY DEF Kept
<1>0. TypeOK /\ Closed /\ Roomy /\ Tailed /\ Kept BY DEF Known
<1>n. ~inherited /\ DOMAIN files \ {0} = {} BY Zenon DEF Starts
<1>1. /\ ~inherited /\ DOMAIN files \subseteq {0} /\ handle = NoFile /\ handle' = NoFile
      /\ index' = 0 /\ lives' = lives + 1 /\ wpc' = "make"
      /\ UNCHANGED <<files, told, buffer>> /\ lives \in Nat
  <2>1. DOMAIN files \subseteq {0} BY <1>n
  <2> QED BY <1>0, <1>n, <2>1 DEF Starts, Closed, TypeOK
<1>2. PICK at \in [Nat -> Nat] : Laid(at) BY <1>0, <1>1 DEF Kept
<1>3. Laid(at)' BY <1>1, <1>2 DEF Laid, Settled
<1>4. Placed' BY <1>1 DEF Placed
<1>5. ASSUME lives' = 1 PROVE Full(at, 0)'
  <2>1. lives = 0 /\ DOMAIN files = {} /\ told = <<>> BY <1>0, <1>1, <1>5 DEF Roomy, Tailed
  <2>2. Settled = 0 BY <1>0, <1>1, <2>1, Lengths DEF Settled
  <2>3. at[0] = 0 BY <1>2, <2>1, <2>2 DEF Laid
  <2>4. 0 - 0 >= (0 - 0) * FileMax BY SinkConstants
  <2>5. \A i \in 0..0 : i = 0 OBVIOUS
  <2>6. ~Rotating' /\ Top' = 0 BY <1>1 DEF Rotating, Top
  <2> QED BY <1>1, <2>1, <2>3, <2>4, <2>5, <2>6 DEF Full
<1> QED BY <1>3, <1>4, <1>5 DEF Kept

\* What is written stays where it belongs, in a run and at its end.
LEMMA KeptPoured ==
  ASSUME Known, NEW a, NEW b, Pours(a, b), UNCHANGED <<index, lives, inherited>>,
         UNCHANGED <<handle, wpc, alive>> \/ (~alive' /\ handle' = NoFile)
  PROVE  Kept'
<1> SUFFICES ASSUME ~inherited PROVE Kept' BY DEF Kept
<1>0. TypeOK /\ Closed /\ Tailed /\ Held /\ Placed /\ handle # NoFile
  BY DEF Known, Kept, Pours
<1>1. PICK at \in [Nat -> Nat] :
        Laid(at) /\ (lives = 1 /\ alive => \E lo \in Nat : Full(at, lo))
  BY DEF Known, Kept
<1>2. PICK at2 \in [Nat -> Nat] :
        /\ Laid(at2)'
        /\ \A i \in Nat :
             at2[i] = IF handle \in DOMAIN files /\ i <= index THEN at[i] ELSE Settled'
  BY <1>0, <1>1, LaidPoured
<1>3. DOMAIN files' = DOMAIN files BY DEF Pours
<1>4. Placed' BY <1>0, <1>3 DEF Placed
<1>5. ASSUME lives' = 1, alive' PROVE \E lo \in Nat : Full(at2, lo)'
  <2>0. /\ UNCHANGED <<handle, wpc, alive, index, lives, told>> /\ lives = 1 /\ alive
        /\ index \in Nat
    BY <1>0, <1>5 DEF Pours, TypeOK
  <2>1. PICK lo \in Nat : Full(at, lo) BY <1>1, <2>0
  <2>2. CASE handle \in DOMAIN files
    <3>1. lo <= index BY <2>0, <2>1, <2>2 DEF Full
    <3>2. \A i \in 0..index : at2[i] = at[i] BY <1>2, <2>2
    <3>3. Full(at2, lo)' BY <1>3, <2>0, <2>1, <3>1, <3>2, FullStays
    <3> QED BY <3>3
  <2>3. CASE handle \notin DOMAIN files
    <3>1. wpc = "close" BY <1>0, <2>3 DEF Held, Closed, TypeOK
    <3>2. lo = index + 1 /\ MaxFiles <= 1 /\ DOMAIN files = {} BY <2>1, <2>3, <3>1 DEF Full
    <3>3. \A i \in Nat : at2[i] = Settled' BY <1>2, <2>3
    <3>4. at2[0] = at2[lo] BY <3>3
    <3>5. Top' = index + 1 /\ Rotating' BY <2>0, <3>1 DEF Top, Rotating
    <3>6. (index + 1) - lo >= MaxFiles - 1 BY <2>0, <3>2, SinkConstants
    <3>7. \A i \in lo..index : FALSE BY <2>0, <3>2
    <3>8. lo <= index + 1 /\ lo..(index - 1) = {} BY <2>0, <3>2
    <3>9. Full(at2, lo)'
      BY <1>3, <2>0, <3>1, <3>2, <3>4, <3>5, <3>6, <3>7, <3>8 DEF Full
    <3> QED BY <3>9
  <2> QED BY <2>2, <2>3
<1> QED BY <1>2, <1>4, <1>5 DEF Kept

\* The buffer grows by the line accepted; a line that fills the file starts rotation.
LEMMA KeptWrites == Known /\ Writes => Kept'
<1> SUFFICES ASSUME Known, Writes, ~inherited' PROVE Kept' BY DEF Kept
<1>0. TypeOK /\ Closed /\ Roomy /\ Tailed /\ Held /\ Kept BY DEF Known
<1>1. /\ ~inherited /\ handle # NoFile /\ wpc = "idle" /\ wpc' \in {"idle", "room"}
      /\ UNCHANGED <<files, handle, index, alive, lives>>
      /\ told' = Append(told, next) /\ buffer' = Append(buffer, next) /\ size' = size + 1
  BY DEF Writes, Begins
<1>2. next \in 1..Lines BY <1>0 DEF Writes, Begins, TypeOK
<1>3. /\ told \in Seq(1..Lines) /\ buffer \in Seq(1..Lines)
      /\ Len(told) \in Nat /\ Len(buffer) \in Nat /\ Settled + Len(buffer) = Len(told)
      /\ Settled \in Nat
  BY <1>0, Lengths DEF Tailed
<1>4. Len(told') = Len(told) + 1 /\ Len(buffer') = Len(buffer) + 1
  BY <1>1, <1>2, <1>3, AppendProperties
<1>5. Settled' = Settled BY <1>3, <1>4 DEF Settled
<1>6. Retells BY <1>1, <1>2, <1>5 DEF Retells
<1>7. PICK at \in [Nat -> Nat] :
        Laid(at) /\ (lives = 1 /\ alive => \E lo \in Nat : Full(at, lo))
  BY <1>0, <1>1 DEF Kept
<1>8. Laid(at)' BY <1>0, <1>6, <1>7, LaidUnmoved
<1>9. Placed' BY <1>0, <1>1 DEF Kept, Placed
<1>10. ASSUME lives' = 1, alive' PROVE \E lo \in Nat : Full(at, lo)'
  <2>1. PICK lo \in Nat : Full(at, lo) BY <1>1, <1>7, <1>10
  <2>2. /\ handle = index /\ index \in DOMAIN files /\ index \in Nat
        /\ size = Len(files[index]) + Len(buffer) /\ files[index] \in Seq(1..Lines)
    BY <1>0, <1>1 DEF Held, TypeOK
  <2>3. Len(told') - at[index] = size'
    <3>1. at[index + 1] = Settled
      <4>1. \A j \in DOMAIN files : j < index + 1 BY <1>0, <1>1, Indices DEF Kept
      <4>2. index + 1 \in Nat BY <1>0, <1>1, Indices DEF Kept
      <4> QED BY <1>7, <4>1, <4>2 DEF Laid
    <3>2. at[index + 1] = at[index] + Len(files[index]) BY <1>7, <2>2 DEF Laid
    <3>3. at[index] \in Nat /\ Len(files[index]) \in Nat BY <2>2, LenProperties
    <3> DEFINE x == at[index] y == Len(files[index]) z == Len(buffer) w == Len(told)
    <3>4. /\ Settled = x + y /\ Settled + z = w
          /\ x \in Nat /\ y \in Nat /\ z \in Nat /\ w \in Nat
      BY <1>3, <3>1, <3>2, <3>3
    <3>6. Len(told') = w + 1 /\ size' = (y + z) + 1 BY <1>1, <1>4, <2>2
    <3> HIDE DEF x, y, z, w
    <3>5. (w + 1) - x = (y + z) + 1 BY <3>4
    <3> QED BY <3>5, <3>6 DEF x
  <2>4. lo <= index /\ lo # index + 1 BY <2>1, <2>2 DEF Full
  <2>5. Rotating' => Len(told') - at[index] >= FileMax
    <3>1. wpc' = "room" => ~(size' < FileMax) BY DEF Writes
    <3>2. size' \in Nat BY <1>0, <1>1 DEF TypeOK
    <3>3. size' >= FileMax \/ size' < FileMax BY <3>2, SinkConstants
    <3> QED BY <1>1, <2>3, <3>1, <3>3 DEF Rotating
  <2>6. Top = index /\ Top' \in {index, index + 1} BY <1>1 DEF Top, Rotating
  <2>7. at[lo] = 0 \/ Top' - lo >= MaxFiles - 1
    <3>1. at[lo] = 0 \/ index - lo >= MaxFiles - 1 BY <2>1, <2>6 DEF Full
    <3>2. index \in Nat /\ MaxFiles \in Nat BY <2>2, SinkConstants
    <3>3. (index - lo >= MaxFiles - 1) => ((index + 1) - lo >= MaxFiles - 1) BY <3>2, Wider
    <3>4. CASE Top' = index BY <3>1, <3>4
    <3>5. CASE Top' = index + 1 BY <3>1, <3>3, <3>5
    <3> QED BY <2>6, <3>4, <3>5
  <2>8. Full(at, lo)'
    <3>1. /\ lo <= index + 1 /\ lo..(index - 1) \subseteq DOMAIN files
          /\ DOMAIN files \subseteq lo..index /\ at[0] = at[lo]
          /\ \A i \in lo..index : at[index] - at[i] >= (index - i) * FileMax
      BY <2>1 DEF Full
    <3>2. wpc' # "close" BY <1>1
    <3> QED BY <1>1, <2>4, <2>5, <2>7, <3>1, <3>2 DEF Full
  <2> QED BY <2>8
<1> QED BY <1>1, <1>8, <1>9, <1>10 DEF Kept

LEMMA KeptKilled == Known /\ Killed => Kept'
<1> SUFFICES ASSUME Known, Killed, ~inherited' PROVE Kept' BY DEF Kept
<1>0. TypeOK /\ Tailed /\ Kept BY DEF Known
<1>1. /\ ~inherited /\ handle' = NoFile /\ ~alive' /\ buffer' = <<>>
      /\ UNCHANGED <<files, index>> /\ told' = SubSeq(told, 1, Settled)
  BY DEF Killed, Settled
<1>2. /\ told \in Seq(1..Lines) /\ Len(told) \in Nat /\ Len(buffer) \in Nat
      /\ Settled \in Nat /\ Settled + Len(buffer) = Len(told)
      /\ <<>> \in Seq(1..Lines) /\ Len(<<>>) = 0
  BY <1>0, Lengths DEF Tailed
<1>3. Settled' = Settled
  <2>1. Settled <= Len(told) /\ 0 + Len(<<>>) <= Settled BY <1>2
  <2>2. Holds(told, <<>>, 0) BY <1>2, HoldsEmpty
  <2>3. Len(told') = Settled BY <1>1, <1>2, <2>1, <2>2, HoldsCut
  <2> QED BY <1>1, <1>2, <2>3 DEF Settled
<1>4. Retells BY <1>1, <1>3 DEF Retells
<1>5. PICK at \in [Nat -> Nat] : Laid(at) BY <1>0, <1>1 DEF Kept
<1>6. Laid(at)' BY <1>0, <1>4, <1>5, LaidUnmoved
<1>7. Placed' BY <1>0, <1>1 DEF Kept, Placed
<1> QED BY <1>1, <1>6, <1>7 DEF Kept

\* The oldest file goes, when max_files of them are there.
LEMMA LaidWithout ==
  ASSUME TypeOK, NEW at \in [Nat -> Nat], Laid(at), NEW m \in DOMAIN files,
         \A j \in DOMAIN files : m <= j,
         files' = Without(m), UNCHANGED <<told, buffer>>
  PROVE  \E at2 \in [Nat -> Nat] :
           Laid(at2)' /\ \A i \in Nat : at2[i] = IF i <= m THEN at[m + 1] ELSE at[i]
<1> DEFINE Moved(i) == IF i <= m THEN at[m + 1] ELSE at[i]
<1>1. PICK at2 : at2 = [i \in Nat |-> Moved(i)] OBVIOUS
<1>d. DOMAIN files \subseteq Nat BY DEF TypeOK
<1>2. m \in Nat /\ m + 1 \in Nat /\ \A i \in DOMAIN files : i \in Nat BY <1>d
<1>3. at2 \in [Nat -> Nat] /\ \A i \in Nat : at2[i] = Moved(i) BY <1>1, <1>2
<1>4. /\ DOMAIN files' = DOMAIN files \ {m}
      /\ \A i \in DOMAIN files' : files'[i] = files[i]
  BY DEF Without, Restrict
<1>5. UNCHANGED <<told, Settled>> BY DEF Settled
<1>6. \A i \in Nat : at2[i] <= Settled BY <1>2, <1>3 DEF Laid
<1>7. ASSUME NEW i \in Nat, \A j \in DOMAIN files' : j < i PROVE at2[i] = Settled
  <2>1. CASE i <= m
    <3>1. \A j \in DOMAIN files : j < m + 1
      <4> TAKE j \in DOMAIN files
      <4>1. CASE j = m BY <1>2, <4>1
      <4>2. CASE j # m
        <5>1. j \in Nat /\ m <= j /\ j < i BY <1>2, <1>4, <1>7, <4>2
        <5> QED BY <1>2, <2>1, <5>1
      <4> QED BY <4>1, <4>2
    <3>2. at[m + 1] = Settled BY <1>2, <3>1 DEF Laid
    <3> QED BY <1>3, <2>1, <3>2
  <2>2. CASE ~(i <= m)
    <3>1. \A j \in DOMAIN files : j < i BY <1>2, <1>4, <1>7, <2>2
    <3> QED BY <1>3, <2>2, <3>1 DEF Laid
  <2> QED BY <2>1, <2>2
<1>8. ASSUME NEW i \in DOMAIN files'
      PROVE  Holds(told, files'[i], at2[i]) /\ at2[i + 1] = at2[i] + Len(files'[i])
  <2>1. i \in DOMAIN files /\ i # m /\ files'[i] = files[i] BY <1>4
  <2>2. i \in Nat /\ i + 1 \in Nat /\ ~(i <= m) /\ ~(i + 1 <= m) BY <1>2, <2>1
  <2> QED BY <1>3, <2>1, <2>2 DEF Laid
<1>9. ASSUME NEW i \in Nat \ DOMAIN files' PROVE at2[i] = at2[i + 1]
  <2>1. i \in Nat /\ i + 1 \in Nat OBVIOUS
  <2>2. CASE i = m
    <3>1. i <= m /\ ~(i + 1 <= m) BY <1>2, <2>2
    <3> QED BY <1>3, <2>1, <2>2, <3>1
  <2>3. CASE i < m
    <3>1. i <= m /\ i + 1 <= m BY <1>2, <2>3
    <3> QED BY <1>3, <2>1, <3>1
  <2>4. CASE i > m
    <3>1. ~(i <= m) /\ ~(i + 1 <= m) BY <1>2, <2>4
    <3>2. i \notin DOMAIN files BY <1>2, <1>4, <2>4
    <3>3. at[i] = at[i + 1] BY <3>2 DEF Laid
    <3> QED BY <1>3, <2>1, <3>1, <3>3
  <2> QED BY <1>2, <2>2, <2>3, <2>4
<1>10. Laid(at2)' BY <1>5, <1>6, <1>7, <1>8, <1>9 DEF Laid
<1> QED BY <1>3, <1>10

LEMMA KeptMakesRoom == Known /\ MakesRoom => Kept'
<1> SUFFICES ASSUME Known, MakesRoom, ~inherited' PROVE Kept' BY DEF Kept
<1>0. TypeOK /\ Closed /\ Roomy /\ Tailed /\ Held /\ Kept BY DEF Known
<1>1. /\ ~inherited /\ wpc = "room" /\ wpc' = "close"
      /\ UNCHANGED <<handle, index, alive, lives, told, buffer>>
  BY DEF MakesRoom, Room
<1>2. handle = index /\ index \in DOMAIN files BY <1>0, <1>1 DEF Held
<1>3. PICK at \in [Nat -> Nat] :
        Laid(at) /\ (lives = 1 /\ alive => \E lo \in Nat : Full(at, lo))
  BY <1>0, <1>1 DEF Kept
<1>4. Placed /\ DOMAIN files \subseteq 0..index BY <1>0, <1>1 DEF Kept, Placed
<1> DEFINE m == Min(DOMAIN files)
<1>5. m \in DOMAIN files /\ \A j \in DOMAIN files : m <= j
  <2>1. DOMAIN files \subseteq Nat /\ DOMAIN files # {} BY <1>0, <1>2 DEF TypeOK
  <2> QED BY <2>1, LeastNat DEF Min
<1>6. DOMAIN files # {} /\ files # <<>> BY <1>2
<1> HIDE DEF m
<1>7. CASE ~(Cardinality(DOMAIN files) >= MaxFiles)
  <2>1. files' = files BY <1>7 DEF MakesRoom, Room
  <2>2. Laid(at)' BY <1>1, <1>3, <2>1 DEF Laid, Settled
  <2>3. Placed' BY <1>1, <1>4, <2>1 DEF Placed
  <2>4. ASSUME NEW lo \in Nat, Full(at, lo) PROVE Full(at, lo)'
    <3>1. lo # index + 1 BY <1>1, <2>4 DEF Full
    <3> QED BY <1>1, <1>2, <2>1, <2>4, <3>1 DEF Full, Rotating, Top
  <2> QED BY <1>1, <1>3, <2>2, <2>3, <2>4 DEF Kept
<1>8. CASE Cardinality(DOMAIN files) >= MaxFiles
  <2>1. files' = Without(m) BY <1>6, <1>8 DEF MakesRoom, Room, m
  <2>2. PICK at2 \in [Nat -> Nat] :
          Laid(at2)' /\ \A i \in Nat : at2[i] = IF i <= m THEN at[m + 1] ELSE at[i]
    BY <1>0, <1>1, <1>3, <1>5, <2>1, LaidWithout
  <2>3. DOMAIN files' = DOMAIN files \ {m} BY <2>1 DEF Without, Restrict
  <2>n. m \in Nat /\ m + 1 \in Nat /\ index \in Nat BY <1>0, <1>4, <1>5, Indices
  <2>4. index \notin DOMAIN files' => DOMAIN files' = {}
    <3> SUFFICES ASSUME index = m, NEW j \in DOMAIN files' PROVE FALSE BY <1>2, <2>3
    <3>1. j \in Nat /\ j <= index BY <1>0, <1>4, <2>3, Indices
    <3>2. m <= j /\ j # m BY <1>5, <2>3
    <3> QED BY <2>n, <3>1, <3>2
  <2>5. Placed' BY <1>1, <1>2, <1>4, <2>3, <2>4 DEF Placed
  <2>6. ASSUME NEW lo \in Nat, Full(at, lo) PROVE Full(at2, lo + 1)'
    <3>1. /\ lo <= index /\ lo..(index - 1) \subseteq DOMAIN files
          /\ DOMAIN files \subseteq lo..index
          /\ \A i \in lo..index : at[index] - at[i] >= (index - i) * FileMax
          /\ (lo = index + 1 \/ Len(told) - at[index] >= FileMax)
      <4>1. lo <= index + 1 /\ lo # index + 1 BY <1>1, <2>6 DEF Full
      <4>2. lo <= index BY <2>n, <4>1
      <4> QED BY <1>1, <2>6, <4>2 DEF Full, Rotating
    <3>2. DOMAIN files = lo..index
      <4>1. \A i \in lo..index : i = index \/ i \in lo..(index - 1) BY <2>n
      <4> QED BY <1>2, <3>1, <4>1
    <3>3. m = lo
      <4>1. lo \in DOMAIN files /\ m \in lo..index BY <1>5, <2>n, <3>1, <3>2
      <4>2. m <= lo BY <1>5, <4>1
      <4> QED BY <2>n, <4>1, <4>2
    <3>4. Cardinality(DOMAIN files) = (index - lo) + 1
      <4>1. ~(lo > index) BY <2>n, <3>1
      <4> QED BY <2>n, <3>2, <4>1, FS_Interval
    <3>5. (index + 1) - (lo + 1) >= MaxFiles - 1
      <4>1. (index - lo) + 1 >= MaxFiles /\ MaxFiles \in Nat BY <1>8, <3>4, SinkConstants
      <4> QED BY <2>n, <4>1
    <3>6. DOMAIN files' = (lo + 1)..index
      <4>1. \A i : i \in lo..index /\ i # lo <=> i \in (lo + 1)..index BY <2>n
      <4> QED BY <2>3, <3>2, <3>3, <4>1
    <3>7. at2[0] = at2[lo + 1]
      <4>1. 0 <= m /\ ~(lo + 1 <= m) /\ lo + 1 \in Nat BY <2>n, <3>3
      <4> QED BY <2>2, <3>3, <4>1
    <3>8. /\ lo + 1 \in Nat /\ lo + 1 <= index + 1
          /\ (lo + 1)..(index - 1) \subseteq (lo + 1)..index
      BY <2>n, <3>1
    <3>9. CASE lo = index
      <4>1. MaxFiles <= 1
        <5>1. (index - lo) + 1 = 1 BY <2>n, <3>9
        <5>2. 1 >= MaxFiles BY <1>8, <3>4, <5>1
        <5> QED BY <5>2, SinkConstants
      <4>2. (lo + 1)..index = {} BY <2>n, <3>9
      <4> QED
        BY <1>1, <2>3, <3>5, <3>6, <3>7, <3>8, <3>9, <4>1, <4>2 DEF Full, Rotating, Top
    <3>10. CASE lo # index
      <4>1. lo + 1 # index + 1 /\ index \in (lo + 1)..index BY <2>n, <3>1, <3>10
      <4>2. \A i \in (lo + 1)..index : i \in lo..index /\ i \in Nat /\ ~(i <= m)
        BY <2>n, <3>3
      <4>3. \A i \in (lo + 1)..index : at2[i] = at[i] BY <2>2, <4>2
      <4>4. at2[index] = at[index] BY <4>1, <4>3
      <4>5. \A i \in (lo + 1)..index : at2[index] - at2[i] >= (index - i) * FileMax
        BY <3>1, <4>2, <4>3, <4>4
      <4>6. Len(told) - at2[index] >= FileMax
        <5>1. lo # index + 1 BY <2>n, <3>1
        <5> QED BY <3>1, <4>4, <5>1
      <4>7. index \in DOMAIN files' BY <3>6, <4>1
      <4> QED
        BY <1>1, <1>2, <3>5, <3>6, <3>7, <3>8, <4>1, <4>5, <4>6, <4>7 DEF Full, Rotating, Top
    <3> QED BY <3>9, <3>10
  <2>7. ASSUME lives' = 1, alive' PROVE \E lo \in Nat : Full(at2, lo)'
    <3>1. PICK lo \in Nat : Full(at, lo) BY <1>1, <1>3, <2>7
    <3>2. lo + 1 \in Nat OBVIOUS
    <3> QED BY <2>6, <3>1, <3>2
  <2> QED BY <1>1, <2>2, <2>5, <2>7 DEF Kept
<1> QED BY <1>7, <1>8

LEMMA OneMoreFull ==
  ASSUME NEW a \in Nat, NEW b \in Nat, NEW c \in Nat, NEW f \in Nat,
         NEW n \in Nat, NEW i \in Nat, b - a >= (n - i) * f, c - b >= f
  PROVE  c - a >= ((n + 1) - i) * f
<1> DEFINE d == n - i p == d * f
<1>1. d \in Int /\ (n + 1) - i = d + 1 OBVIOUS
<1> HIDE DEF d
<1>2. (d + 1) * f = p + f /\ p \in Int BY <1>1
<1>3. b - a >= p BY DEF d
<1> HIDE DEF p
<1>4. c - a >= p + f BY <1>2, <1>3
<1> QED BY <1>1, <1>2, <1>4

LEMMA KeptCloses == Known /\ Closes => Kept'
<1> SUFFICES ASSUME Known, Closes, ~inherited' PROVE Kept' BY DEF Kept
<1>0. TypeOK /\ Closed /\ Tailed /\ Held /\ Kept BY DEF Known
<1>1. /\ ~inherited /\ wpc = "close" /\ wpc' = "open" /\ handle' = NoFile
      /\ index' = index + 1 /\ UNCHANGED <<alive, lives, told>>
      /\ files' = Stored /\ buffer' = <<>>
  BY DEF Closes
<1>2. handle # NoFile /\ handle = index BY <1>0, <1>1 DEF Held
<1>3. Placed BY <1>0, <1>1 DEF Kept
<1>4. PICK at \in [Nat -> Nat] :
        Laid(at) /\ (lives = 1 /\ alive => \E lo \in Nat : Full(at, lo))
  BY <1>0, <1>1 DEF Kept
<1>5. Pours(buffer, <<>>) BY <1>0, <1>1, <1>2, StoresPour
<1>6. PICK at2 \in [Nat -> Nat] :
        /\ Laid(at2)'
        /\ \A i \in Nat :
             at2[i] = IF handle \in DOMAIN files /\ i <= index THEN at[i] ELSE Settled'
  BY <1>0, <1>2, <1>3, <1>4, <1>5, LaidPoured
<1>7. DOMAIN files' = DOMAIN files BY <1>5 DEF Pours
<1>n. index \in Nat /\ index + 1 \in Nat /\ Len(told) \in Nat /\ MaxFiles \in Nat /\ FileMax \in Nat
  BY <1>0, <1>3, Indices, Lengths, SinkConstants
<1>8. Placed'
  <2>1. \A i \in 0..index : i \in 0..(index + 1) BY <1>n
  <2> QED BY <1>1, <1>3, <1>7, <2>1 DEF Placed
<1>9. Settled' = Len(told)
  <2>1. Len(<<>>) = 0 BY EmptySeq
  <2> QED BY <1>1, <1>n, <2>1 DEF Settled
<1>t. ~Rotating' /\ Top' = index + 1 /\ Top = index + 1 /\ Rotating
  BY <1>1 DEF Rotating, Top
<1>10. ASSUME lives' = 1, alive', handle \in DOMAIN files PROVE \E lo \in Nat : Full(at2, lo)'
  <2>1. PICK lo \in Nat : Full(at, lo) BY <1>1, <1>4, <1>10
  <2>2. /\ lo <= index + 1 /\ lo # index + 1
        /\ lo..(index - 1) \subseteq DOMAIN files /\ DOMAIN files \subseteq lo..index
        /\ at[0] = at[lo] /\ (at[lo] = 0 \/ (index + 1) - lo >= MaxFiles - 1)
        /\ \A i \in lo..index : at[index] - at[i] >= (index - i) * FileMax
        /\ Len(told) - at[index] >= FileMax
    BY <1>t, <1>10, <2>1 DEF Full
  <2>3. lo <= index BY <1>n, <2>2
  <2>4. at2[0] = at2[lo] /\ at2[lo] = at[lo] /\ at2[index + 1] = Len(told)
    <3>1. 0 <= index /\ ~(index + 1 <= index) BY <1>n
    <3> QED BY <1>6, <1>9, <1>10, <1>n, <2>2, <2>3, <3>1
  <2>5. lo..index \subseteq DOMAIN files /\ DOMAIN files \subseteq lo..(index + 1)
    <3>1. \A i \in lo..index : i = index \/ i \in lo..(index - 1) BY <1>n
    <3>2. \A i \in lo..index : i \in lo..(index + 1) BY <1>n
    <3> QED BY <1>2, <1>10, <2>2, <3>1, <3>2
  <2>6. ASSUME NEW i \in lo..(index + 1)
        PROVE  at2[index + 1] - at2[i] >= ((index + 1) - i) * FileMax
    <3>1. CASE i = index + 1
      <4>1. at2[i] = Len(told) BY <2>4, <3>1
      <4>2. Len(told) - Len(told) >= 0 /\ (index + 1) - i = 0 BY <1>n, <3>1
      <4>3. 0 * FileMax = 0 BY <1>n
      <4> QED BY <2>4, <4>1, <4>2, <4>3
    <3>2. CASE i # index + 1
      <4>1. i \in lo..index /\ i \in Nat /\ i <= index BY <1>n, <3>2
      <4>2. at2[i] = at[i] /\ at[i] \in Nat /\ at[index] \in Nat BY <1>6, <1>10, <1>n, <4>1
      <4>3. at[index] - at[i] >= (index - i) * FileMax /\ Len(told) - at[index] >= FileMax
        BY <2>2, <4>1
      <4>4. Len(told) - at[i] >= ((index + 1) - i) * FileMax
        BY <1>n, <4>1, <4>2, <4>3, OneMoreFull
      <4> QED BY <2>4, <4>2, <4>4
    <3> QED BY <3>1, <3>2
  <2>7. /\ lo <= (index + 1) + 1 /\ lo # (index + 1) + 1 /\ (index + 1) - 1 = index BY <1>n, <2>3
  <2>8. Full(at2, lo)'
    BY <1>1, <1>7, <1>t, <2>2, <2>4, <2>5, <2>6, <2>7 DEF Full
  <2> QED BY <2>8
<1>11. ASSUME lives' = 1, alive', handle \notin DOMAIN files PROVE \E lo \in Nat : Full(at2, lo)'
  <2>1. PICK lo \in Nat : Full(at, lo) BY <1>1, <1>4, <1>11
  <2>2. lo = index + 1 /\ MaxFiles <= 1 /\ DOMAIN files = {} BY <1>1, <1>11, <2>1 DEF Full
  <2>3. \A i \in Nat : at2[i] = Len(told) BY <1>6, <1>9, <1>11
  <2>4. at2[0] = at2[lo] BY <2>3
  <2>5. ASSUME NEW i \in lo..(index + 1)
        PROVE  at2[index + 1] - at2[i] >= ((index + 1) - i) * FileMax
    <3>1. i = index + 1 /\ i \in Nat BY <1>n, <2>2
    <3>2. at2[i] = Len(told) /\ at2[index + 1] = Len(told) BY <2>3, <3>1
    <3>3. Len(told) - Len(told) >= 0 /\ (index + 1) - i = 0 BY <1>n, <3>1
    <3>4. 0 * FileMax = 0 BY <1>n
    <3> QED BY <3>2, <3>3, <3>4
  <2>6. /\ lo <= (index + 1) + 1 /\ lo # (index + 1) + 1 /\ lo..((index + 1) - 1) = {}
        /\ (index + 1) - lo >= MaxFiles - 1
    BY <1>n, <2>2
  <2>7. Full(at2, lo)'
    BY <1>1, <1>7, <1>t, <2>2, <2>4, <2>5, <2>6 DEF Full
  <2> QED BY <2>7
<1> QED BY <1>1, <1>6, <1>8, <1>10, <1>11 DEF Kept

LEMMA KeptOpens == Known /\ Opens => Kept'
<1> SUFFICES ASSUME Known, Opens, ~inherited' PROVE Kept' BY DEF Kept
<1>0. TypeOK /\ Closed /\ Tailed /\ Held /\ Kept BY DEF Known
<1>1. /\ ~inherited /\ wpc \in {"make", "open"} /\ wpc' = "idle" /\ handle' = index
      /\ UNCHANGED <<alive, lives, told, buffer, index>>
      /\ DOMAIN files' = DOMAIN files \cup {index}
      /\ \A i \in DOMAIN files' : files'[i] = IF i \in DOMAIN files THEN files[i] ELSE <<>>
  BY DEF Opens
<1>3. Placed BY <1>0, <1>1 DEF Kept
<1>4. PICK at \in [Nat -> Nat] :
        Laid(at) /\ (lives = 1 /\ alive => \E lo \in Nat : Full(at, lo))
  BY <1>0, <1>1 DEF Kept
<1>n. index \in Nat /\ index + 1 \in Nat /\ Settled' = Settled /\ 0 <= index
  BY <1>0, <1>1, <1>3, Indices DEF Settled
<1>5. Laid(at)'
  <2>1. ASSUME NEW i \in DOMAIN files'
        PROVE  Holds(told, files'[i], at[i]) /\ at[i + 1] = at[i] + Len(files'[i])
    <3>1. CASE i \in DOMAIN files BY <1>1, <1>4, <3>1 DEF Laid
    <3>2. CASE i \notin DOMAIN files
      <4>1. i = index /\ files'[i] = <<>> /\ at[i] = at[i + 1] BY <1>1, <1>4, <1>n, <3>2 DEF Laid
      <4>2. at[i] \in Nat /\ at[i] <= Settled BY <1>4, <1>n, <4>1 DEF Laid
      <4>3. /\ Settled \in Nat /\ Len(told) \in Nat /\ Len(buffer) \in Nat
            /\ Settled + Len(buffer) = Len(told) /\ told \in Seq(1..Lines) /\ Len(<<>>) = 0
        BY <1>0, Lengths DEF Tailed
      <4>4. at[i] <= Len(told) /\ at[i] = at[i] + 0
        <5> DEFINE p == at[i] d == Settled l == Len(told) n == Len(buffer)
        <5>1. p \in Nat /\ d \in Nat /\ l \in Nat /\ n \in Nat /\ p <= d /\ d + n = l
          BY <4>2, <4>3
        <5> HIDE DEF p, d, l, n
        <5>2. p <= l /\ p = p + 0 BY <5>1
        <5> QED BY <5>2 DEF p, l
      <4>5. Holds(told, <<>>, at[i]) BY <4>2, <4>3, <4>4, HoldsEmpty
      <4>6. Len(files'[i]) = 0 BY <4>1, <4>3
      <4> QED BY <4>1, <4>4, <4>5, <4>6
    <3> QED BY <3>1, <3>2
  <2> QED BY <1>1, <1>4, <1>n, <2>1 DEF Laid
<1>6. Placed'
  <2>1. index \in 0..index BY <1>n
  <2> QED BY <1>1, <1>3, <2>1 DEF Placed
<1>7. ASSUME NEW lo \in Nat, Full(at, lo) PROVE Full(at, lo)'
  <2>1. lo <= index + 1 /\ lo # index + 1 BY <1>1, <1>7 DEF Full
  <2>2. lo <= index BY <1>n, <2>1
  <2>5. index \in lo..index BY <1>n, <2>2
  <2>3. Top = index /\ Top' = index /\ ~Rotating' BY <1>1 DEF Top, Rotating
  <2>4. lo..(index - 1) \subseteq DOMAIN files' /\ DOMAIN files' \subseteq lo..index
    <3>1. lo..(index - 1) \subseteq DOMAIN files /\ DOMAIN files \subseteq lo..index
      BY <1>7 DEF Full
    <3> QED BY <1>1, <2>5, <3>1
  <2> QED BY <1>1, <1>7, <2>1, <2>3, <2>4 DEF Full
<1> QED BY <1>1, <1>4, <1>5, <1>6, <1>7 DEF Kept

LEMMA KeptUnmoved ==
  ASSUME Known, UNCHANGED <<files, handle, buffer, index, alive, lives, told, inherited>>,
         UNCHANGED wpc \/ (wpc \in {"make", "open"} /\ wpc' = "idle")
  PROVE  Kept'
<1> SUFFICES ASSUME ~inherited PROVE Kept' BY DEF Kept
<1>1. Placed /\ Placed' BY DEF Known, Kept, Placed
<1>2. PICK at \in [Nat -> Nat] :
        Laid(at) /\ (lives = 1 /\ alive => \E lo \in Nat : Full(at, lo))
  BY DEF Known, Kept
<1>3. Laid(at)' BY <1>2 DEF Laid, Settled
<1>4. ASSUME NEW lo \in Nat, Full(at, lo) PROVE Full(at, lo)'
  BY <1>4 DEF Full, Rotating, Top
<1> QED BY <1>1, <1>2, <1>3, <1>4 DEF Kept

LEMMA KeptStep == Known /\ [Next]_vars => Kept'
<1> SUFFICES ASSUME Known, [Next]_vars PROVE Kept' OBVIOUS
<1>0. TypeOK /\ Closed BY DEF Known
\* what m_file has buffered is stored
<1>1. ASSUME files' = Stored, buffer' = <<>>, UNCHANGED <<told, index, lives, inherited>>,
             UNCHANGED <<handle, wpc, alive>> \/ (~alive' /\ handle' = NoFile /\ wpc' = wpc)
      PROVE  Kept'
  <2>1. CASE handle # NoFile
    <3>1. Pours(buffer, <<>>) BY <1>0, <1>1, <2>1, StoresPour
    <3> QED BY <1>1, <3>1, KeptPoured
  <2>2. CASE handle = NoFile
    <3>1. UNCHANGED <<files, buffer, handle, wpc>> BY <1>0, <1>1, <2>2, StoresNothing DEF Retells
    <3>2. CASE alive' = alive BY <1>1, <3>1, <3>2, KeptUnmoved
    <3>3. CASE ~alive'
      <4> SUFFICES ASSUME ~inherited PROVE Kept' BY <1>1 DEF Kept
      <4>1. PICK at \in [Nat -> Nat] : Laid(at) BY DEF Known, Kept
      <4>2. Laid(at)' BY <1>1, <3>1, <4>1 DEF Laid, Settled
      <4>3. Placed' BY <1>1, <3>1 DEF Known, Kept, Placed
      <4> QED BY <3>3, <4>2, <4>3 DEF Kept
    <3> QED BY <1>1, <3>2, <3>3
  <2> QED BY <2>1, <2>2
<1>2. CASE Exits BY <1>1, <1>2 DEF Exits
<1>3. CASE Spills
  <2>1. Pours(<<Head(buffer)>>, Tail(buffer)) BY <1>0, <1>3, SpillsPour
  <2>2. UNCHANGED <<index, lives, inherited, handle, wpc, alive>> BY <1>3 DEF Spills
  <2> QED BY <2>1, <2>2, KeptPoured
<1>4. ASSUME NEW f \in Flushers, FlushRuns(f) PROVE Kept'
  <2>1. UNCHANGED <<told, index, lives, inherited, handle, wpc, alive>> BY <1>4 DEF FlushRuns
  <2>2. CASE target[f] = handle BY <1>1, <1>4, <2>1, <2>2 DEF FlushRuns
  <2>3. CASE target[f] # handle
    <3>1. UNCHANGED <<files, buffer>> BY <1>4, <2>3 DEF FlushRuns
    <3> QED BY <2>1, <3>1, KeptUnmoved
  <2> QED BY <2>2, <2>3
<1>5. CASE WriteFails \/ Refuses BY <1>5, KeptUnmoved DEF WriteFails, Refuses
<1>6. CASE OpenFails BY <1>6, KeptUnmoved DEF OpenFails
<1>7. ASSUME NEW f \in Flushers, FlushReads(f) PROVE Kept'
  BY <1>7, KeptUnmoved DEF FlushReads
<1>8. CASE UNCHANGED vars BY <1>8, KeptUnmoved DEF vars
<1> QED
  BY <1>2, <1>3, <1>4, <1>5, <1>6, <1>7, <1>8, KeptStarts, KeptKilled, KeptWrites, KeptMakesRoom,
     KeptCloses, KeptOpens DEF Next
-----------------------------------------------------------------------------
(* The theorems                                                            *)

LEMMA InitIInv == Init => IInv
<1> USE SinkConstants
<1> SUFFICES ASSUME Init PROVE IInv OBVIOUS
<1>1. TypeOK BY TypeInit
<1>2. DOMAIN files = {} /\ lives = 0 BY DEF Init
<1>3. Closed /\ Flushed BY DEF Init, Closed, Flushed
<1>4. Numbered BY DEF Init, Numbered, Elems
<1>5. IsFiniteSet(DOMAIN files) /\ Cardinality(DOMAIN files) = 0 BY <1>2, FS_EmptySet
<1>6. Limit \in Nat \ {0} BY <1>1, Limits
<1>7. Roomy /\ FilesWithinLimit BY <1>2, <1>5, <1>6 DEF Init, Roomy, FilesWithinLimit, Limit
<1> QED BY <1>1, <1>3, <1>4, <1>7 DEF IInv

LEMMA Inductive == IInv /\ [Next]_vars => IInv'
BY TypeStep, ClosedStep, NumberedStep, FlushedStep, RoomyStep DEF IInv

LEMMA Invariance == Spec => []IInv
BY InitIInv, Inductive, PTL DEF Spec

\* The sink's state keeps its types through rotations, runs that end in order,
\* kills and flushes; above all nothing is buffered when no file is open.
THEOREM TypeCorrect == Spec => []TypeOK
<1>1. IInv => TypeOK BY DEF IInv
<1> QED BY <1>1, Invariance, PTL

\* A first run never keeps more than max_files files (nor fewer than the one it
\* writes), and every later run, which starts again at index 0, adds at most one,
\* although rotateIfNeeded() removes a single file and a kill may come before,
\* during or after any rotation.
THEOREM LimitIsKept == Spec => []FilesWithinLimit
<1>1. IInv => FilesWithinLimit BY DEF IInv
<1> QED BY <1>1, Invariance, PTL

\* When flush(), which takes no lock, returns, no line that had been accepted
\* before it began is still buffered, even when a rotation has closed the FILE it
\* looked up and opened another.
THEOREM FlushIsDurable == Spec => []FlushReachesDisk
<1>1. IInv => FlushReachesDisk BY DEF IInv, Flushed, FlushReachesDisk
<1> QED BY <1>1, Invariance, PTL

LEMMA InitKept == Init => Tailed /\ Held /\ Kept
<1> SUFFICES ASSUME Init PROVE Tailed /\ Held /\ Kept OBVIOUS
<1>0. TypeOK BY TypeInit
<1>1. /\ told = <<>> /\ buffer = <<>> /\ handle = NoFile /\ DOMAIN files = {}
      /\ lives = 0 /\ wpc = "idle" /\ index = 0
  BY DEF Init
<1>2. Len(<<>>) = 0 /\ told \in Seq(1..Lines) BY <1>0, Lengths
<1>3. Settled = 0 BY <1>1, <1>2 DEF Settled
<1>4. Holds(told, <<>>, 0)
  <2>1. 0 <= Len(told) BY <1>1, <1>2
  <2> QED BY <1>2, <2>1, HoldsEmpty
<1>5. Tailed BY <1>1, <1>3, <1>4 DEF Tailed
<1>6. Held BY <1>1 DEF Held
<1>7. PICK at : at = [i \in Nat |-> 0] OBVIOUS
<1>8. at \in [Nat -> Nat] /\ \A i \in Nat : at[i] = 0 BY <1>7
<1>9. Laid(at)
  <2>1. \A i \in Nat : at[i] <= 0 /\ at[i] = at[i + 1] BY <1>8
  <2> QED BY <1>1, <1>3, <1>8, <2>1 DEF Laid
<1>10. Placed BY <1>1 DEF Placed
<1>11. Kept BY <1>1, <1>8, <1>9, <1>10 DEF Kept
<1> QED BY <1>5, <1>6, <1>11

LEMMA NoFewer ==
  ASSUME NEW d \in Nat, NEW k \in Int, NEW f \in Nat, d >= k
  PROVE  d * f >= k * f
OBVIOUS

\* What the first run has of full files is as much as the limit lets it keep.
LEMMA EnoughKept ==
  ASSUME TypeOK, Tailed, Placed, NEW at \in [Nat -> Nat], Laid(at), NEW lo \in Nat, Full(at, lo),
         at[0] # 0
  PROVE  Len(told) - at[0] >= (MaxFiles - 1) * FileMax
<1>n. /\ index \in Nat /\ Len(told) \in Nat /\ MaxFiles \in Nat /\ FileMax \in Nat
      /\ Len(buffer) \in Nat /\ Settled \in Nat /\ Settled + Len(buffer) = Len(told)
  BY Indices, Lengths, SinkConstants DEF Tailed
<1>1. /\ lo <= index + 1 /\ at[0] = at[lo]
      /\ lo = index + 1 => MaxFiles <= 1
      /\ Top - lo >= MaxFiles - 1
      /\ \A i \in lo..index : at[index] - at[i] >= (index - i) * FileMax
      /\ Rotating => lo = index + 1 \/ Len(told) - at[index] >= FileMax
  BY DEF Full
<1> DEFINE a == at[lo] b == at[index] w == Len(told) f == FileMax k == MaxFiles - 1
<1>2. a \in Nat /\ b \in Nat /\ w \in Nat /\ f \in Nat /\ k \in Int /\ a <= w /\ b <= w
  <2>1. at[lo] \in Nat /\ at[index] \in Nat /\ at[lo] <= Settled /\ at[index] <= Settled
    BY <1>n DEF Laid
  <2> DEFINE n == Len(buffer) d == Settled
  <2>2. a \in Nat /\ b \in Nat /\ w \in Nat /\ n \in Nat /\ d \in Nat /\ d + n = w /\ a <= d /\ b <= d
    BY <1>n, <2>1
  <2>3. f \in Nat /\ k \in Int BY <1>n
  <2> HIDE DEF a, b, w, n, d, f, k
  <2> QED BY <2>2, <2>3
<1>3. CASE lo = index + 1
  <2>1. k <= 0 BY <1>n, <1>1, <1>3
  <2> HIDE DEF a, b, w, f, k
  <2>2. 0 * f >= k * f BY <1>2, <2>1, NoFewer
  <2>3. 0 * f = 0 BY <1>2
  <2>4. k * f \in Int BY <1>2
  <2>5. w - a >= k * f BY <1>2, <2>2, <2>3, <2>4
  <2> QED BY <1>1, <2>5 DEF a, w, f, k
<1>4. CASE lo # index + 1
  <2>1. lo <= index BY <1>n, <1>1, <1>4
  <2>2. b - a >= (index - lo) * f BY <1>1, <1>n, <2>1
  <2>3. CASE ~Rotating
    <3>1. index - lo >= k /\ index - lo \in Nat BY <1>1, <1>n, <2>1, <2>3 DEF Top
    <3> DEFINE d == index - lo
    <3>2. d * f >= k * f BY <1>2, <3>1, NoFewer
    <3>3. b - a >= d * f /\ d \in Nat BY <2>2, <3>1
    <3> HIDE DEF a, b, w, f, k, d
    <3>4. d * f \in Int /\ k * f \in Int BY <1>2, <3>3
    <3> DEFINE p == d * f q == k * f
    <3>5. p \in Int /\ q \in Int /\ p >= q /\ b - a >= p BY <3>2, <3>3, <3>4
    <3> HIDE DEF p, q
    <3>6. w - a >= q BY <1>2, <3>5
    <3> QED BY <1>1, <3>6 DEF a, w, f, k, q
  <2>4. CASE Rotating
    <3>1. (index + 1) - lo >= k /\ (index + 1) - lo \in Nat BY <1>1, <1>n, <2>1, <2>4 DEF Top
    <3> DEFINE d == (index + 1) - lo
    <3>2. d * f >= k * f BY <1>2, <3>1, NoFewer
    <3>3. w - b >= f BY <1>1, <1>4, <2>4
    <3>4. w - a >= d * f BY <1>n, <1>2, <2>2, <3>3, OneMoreFull
    <3>8. d \in Nat BY <3>1
    <3> HIDE DEF a, b, w, f, k, d
    <3>5. d * f \in Int /\ k * f \in Int BY <1>2, <3>8
    <3> DEFINE p == d * f q == k * f
    <3>6. p \in Int /\ q \in Int /\ p >= q /\ w - a >= p BY <3>2, <3>4, <3>5
    <3> HIDE DEF p, q
    <3>7. w - a >= q BY <1>2, <3>6
    <3> QED BY <1>1, <3>7 DEF a, w, f, k, q
  <2> QED BY <2>3, <2>4
<1> QED BY <1>3, <1>4

LEMMA KeptNewest == TypeOK /\ Tailed /\ Kept => NewestKept
<1> SUFFICES ASSUME TypeOK, Tailed, Kept, ~inherited PROVE NewestKept BY DEF NewestKept
<1>1. Placed BY DEF Kept
<1>2. PICK at \in [Nat -> Nat] :
        Laid(at) /\ (lives = 1 /\ alive => \E lo \in Nat : Full(at, lo))
  BY DEF Kept
<1> DEFINE p == at[0] l == Len(told)
<1>3. Content = SubSeq(told, p + 1, l) /\ p <= l BY <1>1, <1>2, ContentIs
<1>4. p \in Nat /\ l \in Nat /\ told \in Seq(1..Lines) BY Lengths
<1>5. Len(Content) = l - p BY <1>3, <1>4, HoldsSuffix
<1>6. Len(Content) <= l /\ (l - Len(Content)) + 1 = p + 1
  <2> HIDE DEF p, l
  <2>1. \A c : c = l - p => c <= l /\ (l - c) + 1 = p + 1 BY <1>3, <1>4
  <2> QED BY <1>5, <2>1
<1>7. Content = SubSeq(told, Len(told) - Len(Content) + 1, Len(told)) BY <1>3, <1>6
<1>8. ASSUME lives = 1, alive
      PROVE  Content = told \/ Len(Content) >= (MaxFiles - 1) * FileMax
  <2>1. CASE p = 0
    <3>1. Holds(told, told, 0)
      <4>1. 0 + l <= l /\ \A k \in 1..l : 0 + k = k BY <1>4
      <4> QED BY <4>1 DEF Holds
    <3>3. 0 + l = l BY <1>4
    <3>2. told = SubSeq(told, 0 + 1, l) BY <1>4, <3>1, <3>3, HoldsAll
    <3> QED BY <1>3, <2>1, <3>2
  <2>2. CASE p # 0
    <3>1. PICK lo \in Nat : Full(at, lo) BY <1>2, <1>8
    <3>2. l - p >= (MaxFiles - 1) * FileMax BY <1>1, <1>2, <2>2, <3>1, EnoughKept
    <3> QED BY <1>5, <3>2
  <2> QED BY <2>1, <2>2
<1> HIDE DEF p, l
<1> QED BY <1>6, <1>7, <1>8 DEF NewestKept, l

LEMMA KeptInvariance == Spec => []KInv
<1>1. Init => KInv BY InitIInv, InitKept DEF KInv
<1>2. KInv /\ [Next]_vars => KInv'
  BY Inductive, TailedStep, HeldStep, KeptStep DEF KInv, IInv, Known
<1> QED BY <1>1, <1>2, PTL DEF Spec

\* Rotation takes away old lines only: until a run finds files of an earlier
\* rotation, the files and the buffer are the newest of the accepted lines
\* without a gap, whenever the process is killed and wherever rotation is; and in
\* the first run what is gone never leaves less than max_files - 1 full files.
THEOREM NewestAreKept == Spec => []NewestKept
<1>1. KInv => NewestKept BY KeptNewest DEF KInv, IInv
<1> QED BY <1>1, KeptInvariance, PTL
=============================================================================

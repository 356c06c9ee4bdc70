--------------------------- MODULE RollingFileSink ---------------------------
(***************************************************************************)
(* The log files of one service: RollingFileSink behind SinkManager, over  *)
(* runs of the process that end in order or are killed.                    *)
(*                                                                         *)
(* SinkManager::write holds a mutex, so one thread writes at a time; flush *)
(* takes none.  A line is a number and one unit of size.  What m_file has  *)
(* buffered reaches the file when it is flushed or closed, or sooner.      *)
(***************************************************************************)
EXTENDS Integers, Sequences, FiniteSets, FiniteSetsExt, Functions

CONSTANTS
  Flushers,  \* threads that call Logger::flush
  MaxFiles,  \* m_config.max_files
  FileMax,   \* m_config.max_file_size_mb, in lines
  Lines,     \* bound: lines written over all runs
  MaxLives   \* bound: runs of the process

ASSUME SinkConstants ==
  /\ MaxFiles \in Nat /\ FileMax \in Nat /\ Lines \in Nat /\ MaxLives \in Nat

VARIABLES
  files,      \* the directory: index -> what the file of that index holds
  alive, lives,  \* the process runs; how many runs there have been
  handle,     \* m_file: the index of the file it has open, or NoFile
  buffer,     \* what m_file has buffered
  index, size, available,  \* m_currentIndex, m_currentSize, m_available
  wpc,        \* the constructor, or the thread that holds the mutex
  next,       \* the next line
  fpc, target,  \* a thread in flush(), the FILE it has looked up
  due,        \* ghost: lines accepted before flush() began
  told,       \* ghost: lines write() accepted, without what a kill took
  inherited   \* ghost: a run found other files than that of index 0

sinkVars  == <<handle, buffer, index, size, available>>
flushVars == <<fpc, target, due>>
vars == <<files, alive, lives, sinkVars, wpc, next, flushVars, told, inherited>>

NoFile == -1  \* nullptr

Elems(s) == {s[i] : i \in DOMAIN s}

\* The files once m_file is flushed: a file that was removed is written in vain.
Stored ==
  IF handle \in DOMAIN files THEN [files EXCEPT ![handle] = @ \o buffer] ELSE files

Init ==
  /\ files = <<>> /\ alive = FALSE /\ lives = 0
  /\ handle = NoFile /\ buffer = <<>> /\ index = 0 /\ size = 0 /\ available = FALSE
  /\ wpc = "idle" /\ next = 1
  /\ fpc = [f \in Flushers |-> "idle"] /\ target = [f \in Flushers |-> NoFile]
  /\ due = [f \in Flushers |-> {}] /\ told = <<>> /\ inherited = FALSE
-----------------------------------------------------------------------------
(* Constructor, destructor, and the end of a process                       *)

Starts ==
  /\ ~alive /\ lives < MaxLives
  /\ alive' = TRUE /\ lives' = lives + 1 /\ wpc' = "make" /\ index' = 0 /\ size' = 0
  /\ inherited' = (inherited \/ DOMAIN files \ {0} # {})
  /\ fpc' = [f \in Flushers |-> "idle"]
  /\ UNCHANGED <<files, handle, buffer, available, next, target, due, told>>

Exits ==
  /\ alive /\ wpc = "idle" /\ \A f \in Flushers : fpc[f] # "flush"
  /\ alive' = FALSE /\ files' = Stored /\ buffer' = <<>> /\ handle' = NoFile
  /\ UNCHANGED <<lives, index, size, available, wpc, next, flushVars, told, inherited>>

\* Also what a flush() of a closed FILE may end in.
Killed ==
  /\ alive /\ alive' = FALSE /\ wpc' = "idle" /\ handle' = NoFile /\ buffer' = <<>>
  /\ told' = SubSeq(told, 1, Len(told) - Len(buffer))
  /\ UNCHANGED <<files, lives, index, size, available, next, flushVars, inherited>>

\* stdio writes what it has buffered whenever it likes.
Spills ==
  /\ buffer # <<>> /\ buffer' = Tail(buffer)
  /\ files' = IF handle \in DOMAIN files
              THEN [files EXCEPT ![handle] = Append(@, Head(buffer))] ELSE files
  /\ UNCHANGED <<alive, lives, handle, index, size, available, wpc, next, flushVars,
                 told, inherited>>
-----------------------------------------------------------------------------
(* SinkManager::write and RollingFileSink::write                           *)

Begins == alive /\ wpc = "idle" /\ next <= Lines /\ next' = next + 1

Writes ==
  /\ Begins /\ available /\ handle # NoFile
  /\ buffer' = Append(buffer, next) /\ told' = Append(told, next) /\ size' = size + 1
  /\ wpc' = IF size' < FileMax THEN "idle" ELSE "room"
  /\ UNCHANGED <<files, alive, lives, handle, index, available, flushVars, inherited>>

\* fwrite() fails: the sink is given up.
WriteFails ==
  /\ Begins /\ available /\ handle # NoFile /\ available' = FALSE
  /\ UNCHANGED <<files, alive, lives, handle, buffer, index, size, wpc, flushVars,
                 told, inherited>>

\* The line goes to stderr.
Refuses ==
  /\ Begins /\ (~available \/ handle = NoFile)
  /\ UNCHANGED <<files, alive, lives, sinkVars, wpc, flushVars, told, inherited>>

Without(i) == Restrict(files, DOMAIN files \ {i})
Room(crowded, victim) ==
  /\ wpc = "room" /\ wpc' = "close"
  /\ files' = IF crowded /\ files # <<>> THEN Without(victim) ELSE files
  /\ UNCHANGED <<alive, lives, sinkVars, next, flushVars, told, inherited>>

\* Mutants: the files are counted once too few, and the wrong one is removed.
MakesRoomLate  == Room(Cardinality(DOMAIN files) > MaxFiles, Min(DOMAIN files))
MakesRoomAtTheEnd == Room(Cardinality(DOMAIN files) >= MaxFiles, Max(DOMAIN files))

MakesRoom == Room(Cardinality(DOMAIN files) >= MaxFiles, Min(DOMAIN files))

\* Mutant: the buffer is taken along to the next file.
ClosesUnflushed ==
  /\ wpc = "close" /\ wpc' = "open" /\ handle' = NoFile /\ index' = index + 1
  /\ UNCHANGED <<files, alive, lives, buffer, size, available, next, flushVars, told,
                 inherited>>

Closes ==
  /\ wpc = "close" /\ wpc' = "open" /\ handle' = NoFile /\ index' = index + 1
  /\ files' = Stored /\ buffer' = <<>>
  /\ UNCHANGED <<alive, lives, size, available, next, flushVars, told, inherited>>

\* fopen(..., "a") and stat().
Opens ==
  /\ wpc \in {"make", "open"} /\ wpc' = "idle" /\ handle' = index
  /\ available' = (wpc = "make" \/ available)
  /\ files' = [i \in DOMAIN files \cup {index} |->
                 IF i \in DOMAIN files THEN files[i] ELSE <<>>]
  /\ size' = Len(files'[index])
  /\ UNCHANGED <<alive, lives, buffer, index, next, flushVars, told, inherited>>

\* Only the constructor makes m_available of it.
OpenFails ==
  /\ wpc \in {"make", "open"} /\ wpc' = "idle"
  /\ available' = (wpc # "make" /\ available)
  /\ UNCHANGED <<files, alive, lives, handle, buffer, index, size, next, flushVars,
                 told, inherited>>
-----------------------------------------------------------------------------
(* flush                                                                   *)

FlushReads(f) ==
  /\ alive /\ wpc # "make" /\ fpc[f] = "idle"
  /\ fpc' = [fpc EXCEPT ![f] = IF handle = NoFile THEN "done" ELSE "flush"]
  /\ target' = [target EXCEPT ![f] = handle]
  /\ due' = [due EXCEPT ![f] = Elems(told)]
  /\ UNCHANGED <<files, alive, lives, sinkVars, wpc, next, told, inherited>>

\* A FILE that was closed meanwhile is not the program's any more.
FlushRuns(f) ==
  /\ alive /\ fpc[f] = "flush" /\ fpc' = [fpc EXCEPT ![f] = "done"]
  /\ IF target[f] = handle THEN files' = Stored /\ buffer' = <<>>
                           ELSE UNCHANGED <<files, buffer>>
  /\ UNCHANGED <<alive, lives, handle, index, size, available, wpc, next, target, due,
                 told, inherited>>

Next ==
  \/ Starts \/ Exits \/ Killed \/ Spills
  \/ Writes \/ WriteFails \/ Refuses \/ MakesRoom \/ Closes \/ Opens \/ OpenFails
  \/ \E f \in Flushers : FlushReads(f) \/ FlushRuns(f)

Spec == Init /\ [][Next]_vars
-----------------------------------------------------------------------------
TypeOK ==
  /\ DOMAIN files \subseteq Nat /\ \A i \in DOMAIN files : files[i] \in Seq(1..Lines)
  /\ alive \in BOOLEAN /\ lives \in 0..MaxLives /\ next \in 1..(Lines + 1)
  /\ handle \in Nat \cup {NoFile} /\ buffer \in Seq(1..Lines)
  /\ handle = NoFile => buffer = <<>>
  /\ index \in Nat /\ size \in Nat /\ available \in BOOLEAN
  /\ wpc \in {"idle", "make", "room", "close", "open"}
  /\ fpc \in [Flushers -> {"idle", "flush", "done"}]
  /\ target \in [Flushers -> Nat \cup {NoFile}]
  /\ due \in [Flushers -> SUBSET (1..Lines)]
  /\ told \in Seq(1..Lines) /\ inherited \in BOOLEAN

\* All the files hold, in the order of their indices, then what is buffered.
Content ==
  LET After[i \in 0..(index + 1)] ==
        IF i > index THEN buffer
        ELSE (IF i \in DOMAIN files THEN files[i] ELSE <<>>) \o After[i + 1]
  IN After[0]

\* Rotation takes away old lines only: as long as no run found files of an
\* earlier rotation, the files hold the newest accepted lines without a gap,
\* whenever a run ends and wherever rotation is; and in the first run it takes no
\* more than the limit demands.
NewestKept ==
  ~inherited => LET c == Content IN
    /\ Len(c) <= Len(told) /\ c = SubSeq(told, Len(told) - Len(c) + 1, Len(told))
    /\ lives = 1 /\ alive => c = told \/ Len(c) >= (MaxFiles - 1) * FileMax

\* max_files is kept by the first run, and each later one, which starts again at
\* index 0 whatever files there are, exceeds it by at most one file more.
FilesWithinLimit ==
  Cardinality(DOMAIN files) <= Max({MaxFiles, 1}) + Max({lives, 1}) - 1

\* When flush() returns, what had been accepted before it is not buffered any
\* more, although a rotation may close the FILE it has looked up.
FlushReachesDisk ==
  \A f \in Flushers : (alive /\ fpc[f] = "done") => due[f] \cap Elems(buffer) = {}
=============================================================================

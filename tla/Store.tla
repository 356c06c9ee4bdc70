------------------------------- MODULE Store -------------------------------
(***************************************************************************)
(* The persistent store, for one key: the advisory lock of FileLock, the   *)
(* write-temp, fsync, rename, fsync-directory sequence of AtomicWriter and *)
(* the readers, which take no lock; over a file system with inodes, a      *)
(* directory and a disk that lags behind both.  Threads of one process     *)
(* share its Store object; processes share the directory.  A process may   *)
(* be killed, and the power may fail, between any two system calls.        *)
(***************************************************************************)
EXTENDS Naturals, FiniteSets

CONSTANTS
  Threads, Procs,
  Placements,        \* how the threads may be spread over the processes
  Operations,        \* what the program calls: some of save, remove, load, cleanup
  Values,            \* values saved, each of them some bytes long
  NoValue,           \* the key is absent
  Locks, Inodes,     \* inodes of the lock file and of the data files
  None,              \* no inode, no thread
  MaxOps,            \* bound: operations begun
  MaxFaults          \* bound: kills, power losses and failing system calls

Empty == "empty"   \* a file of no bytes
Torn  == "torn"    \* part of a value, or parts of two
Contents == Values \cup {Empty, Torn}

ASSUME StoreConstants ==
  /\ Placements \subseteq [Threads -> Procs]
  /\ Operations \subseteq {"save", "remove", "load", "cleanup"}
  /\ Locks \subseteq Nat /\ Inodes \subseteq Nat
  /\ None \notin Locks \cup Inodes \cup Threads
  /\ NoValue \notin Values /\ Values \cap {Empty, Torn} = {}
  /\ MaxOps \in Nat /\ MaxFaults \in Nat

VARIABLES
  ProcOf,   \* the process of each thread, which never changes
  mutex,    \* holder of FileLock::m_mutex of each process
  held,     \* m_lockFds: the inode whose lock the process holds open
  lockPath, \* the inode "<key>.lock" names
  pc, op, val, cand,  \* a thread: program counter, operation, the value to
                      \* save, the lock file it has just opened
  wfd,      \* the data inode it has opened (to write, or to read)
  res,      \* result of its last operation
  temp, final,  \* the inodes "<key>.tmp" and "<key>" name
  data,     \* what each data inode holds
  disk,     \* what of it has reached the disk
  names,    \* the inodes "<key>" may name after a power loss
  dir,      \* the directory exists
  ready,    \* m_ready of the Store object of each process
  list,     \* a thread in cleanup(): the entries readdir() will still return
  ops, faults,
  crossed   \* the lock has let two threads in at once

lockVars == <<mutex, held, lockPath, cand>>
dirVars == <<dir, ready, list>>
fileVars == <<temp, final, data, disk, names, dirVars>>
stepVars == <<lockVars, pc, op, val, wfd, res, fileVars, ops, faults>>
vars == <<stepVars, ProcOf, crossed>>

Visible == IF final = None THEN NoValue ELSE data[final]
OnDisk(n) == IF n = None THEN NoValue ELSE disk[n]

Init ==
  /\ ProcOf \in Placements
  /\ mutex = [p \in Procs |-> None] /\ held = [p \in Procs |-> None]
  /\ lockPath = None /\ cand = [t \in Threads |-> None]
  /\ pc = [t \in Threads |-> "idle"] /\ op = [t \in Threads |-> "none"]
  /\ val = [t \in Threads |-> NoValue] /\ wfd = [t \in Threads |-> None]
  /\ res = [t \in Threads |-> "none"]
  /\ temp = None /\ final = None
  /\ data = [i \in Inodes |-> Empty] /\ disk = [i \in Inodes |-> Empty]
  /\ names = {None}
  /\ dir = TRUE /\ ready = [p \in Procs |-> TRUE]
  /\ list = [t \in Threads |-> {}]
  /\ ops = 0 /\ faults = 0 /\ crossed = FALSE

\* A call that returns to "idle" leaves its arguments behind.
Goto(t, from, to) ==
  /\ pc[t] = from /\ pc' = [pc EXCEPT ![t] = to]
  /\ op' = [op EXCEPT ![t] = IF to = "idle" THEN "none" ELSE @]
  /\ val' = [val EXCEPT ![t] = IF to = "idle" THEN NoValue ELSE @]
Result(t, r) == res' = [res EXCEPT ![t] = r]
Fault == faults < MaxFaults /\ faults' = faults + 1

\* Inodes no name and no open descriptor refers to; the lowest is taken next.
FreeLocks == {i \in Locks : /\ i # lockPath /\ \A p \in Procs : held[p] # i
                            /\ \A t \in Threads : cand[t] # i}
FreeInodes == {i \in Inodes : /\ i \notin {temp, final} \cup names
                              /\ \A t \in Threads : wfd[t] # i}
IsFirst(i, S) == i \in S /\ \A j \in S : i <= j
-----------------------------------------------------------------------------
(* Store::open, and the beginning of save, remove, load and cleanup; with  *)
(* m_ready false the first three throw and the last returns.               *)

\* ensureDirectory(); a new Store object, by a process that uses no other.
Opens(p) ==
  /\ ~ready[p] /\ \A t \in Threads : ProcOf[t] = p => pc[t] = "idle"
  /\ ready' = [ready EXCEPT ![p] = TRUE] /\ dir' = TRUE
  /\ UNCHANGED <<lockVars, pc, op, val, wfd, res, temp, final, data, disk,
                 names, list, ops, faults>>

Begins(t, o, v) ==
  /\ pc[t] = "idle" /\ ready[ProcOf[t]] /\ ops < MaxOps /\ ops' = ops + 1
  /\ (v = NoValue) <=> (o # "save")
  /\ op' = [op EXCEPT ![t] = o] /\ val' = [val EXCEPT ![t] = v]
  /\ pc' = [pc EXCEPT ![t] = CASE o = "load" -> "stat" [] o = "cleanup" -> "opendir"
                                [] OTHER -> "acquire"]
  /\ Result(t, "none")
  /\ UNCHANGED <<lockVars, wfd, fileVars, faults>>
-----------------------------------------------------------------------------
(* FileLock::acquire, with m_mutex held until it returns                   *)

Body(t) == IF op[t] = "save" THEN "trunc" ELSE "delete"

\* The process holds the lock already: acquire returns true.
AcquireShared(t) ==
  LET p == ProcOf[t] IN
  /\ mutex[p] = None /\ held[p] # None /\ Goto(t, "acquire", Body(t))
  /\ UNCHANGED <<lockVars, wfd, res, fileVars, ops, faults>>

AcquireBegins(t) ==
  LET p == ProcOf[t] IN
  /\ mutex[p] = None /\ held[p] = None /\ Goto(t, "acquire", "open")
  /\ mutex' = [mutex EXCEPT ![p] = t]
  /\ UNCHANGED <<held, lockPath, cand, wfd, res, fileVars, ops,
                 faults>>

\* open(O_CREAT)
LockOpens(t) ==
  /\ dir /\ Goto(t, "open", "flock")
  /\ \E i \in Locks : /\ IF lockPath = None THEN IsFirst(i, FreeLocks) ELSE i = lockPath
                      /\ lockPath' = i /\ cand' = [cand EXCEPT ![t] = i]
  /\ UNCHANGED <<mutex, held, wfd, res, fileVars, ops, faults>>

\* Mutant: a shared lock, LOCK_SH.
LockTakenShared(t) ==
  LET p == ProcOf[t] IN
  /\ held' = [held EXCEPT ![p] = cand[t]] /\ mutex' = [mutex EXCEPT ![p] = None]
  /\ cand' = [cand EXCEPT ![t] = None] /\ Goto(t, "flock", Body(t))
  /\ UNCHANGED <<lockPath, wfd, res, fileVars, ops, faults>>

\* flock(LOCK_EX | LOCK_NB) succeeds.
LockTaken(t) ==
  LET p == ProcOf[t] IN
  /\ \A q \in Procs : held[q] # cand[t]
  /\ held' = [held EXCEPT ![p] = cand[t]] /\ mutex' = [mutex EXCEPT ![p] = None]
  /\ cand' = [cand EXCEPT ![t] = None] /\ Goto(t, "flock", Body(t))
  /\ UNCHANGED <<lockPath, wfd, res, fileVars, ops, faults>>

\* Somebody has it: try again in 10 ms ...
LockBusy(t) ==
  /\ \E q \in Procs : held[q] = cand[t]
  /\ cand' = [cand EXCEPT ![t] = None] /\ Goto(t, "flock", "open")
  /\ UNCHANGED <<mutex, held, lockPath, wfd, res, fileVars, ops,
                 faults>>

\* ... or give up after a second.
LockTimesOut(t) ==
  /\ \E q \in Procs : held[q] = cand[t]
  /\ cand' = [cand EXCEPT ![t] = None] /\ Goto(t, "flock", "idle")
  /\ Result(t, "lock failed") /\ mutex' = [mutex EXCEPT ![ProcOf[t]] = None]
  /\ UNCHANGED <<held, lockPath, wfd, fileVars, ops, faults>>
-----------------------------------------------------------------------------
(* AtomicWriter::write and AtomicWriter::remove                            *)

\* The lock file cannot be opened for a second, or the temporary file cannot.
OpenFails(t) ==
  /\ IF dir THEN Fault ELSE UNCHANGED faults
  /\ \/ /\ Goto(t, "open", "idle") /\ Result(t, "lock failed")
        /\ mutex' = [mutex EXCEPT ![ProcOf[t]] = None]
     \/ /\ Goto(t, "trunc", "release") /\ Result(t, "failed")
        /\ UNCHANGED mutex
  /\ UNCHANGED <<held, lockPath, cand, wfd, fileVars, ops>>

\* Mutant: the value is written in place.
TruncatesInPlace(t) ==
  /\ dir /\ Goto(t, "trunc", "write")
  /\ \E i \in Inodes :
       /\ IF final = None THEN IsFirst(i, FreeInodes) ELSE i = final
       /\ temp' = i /\ wfd' = [wfd EXCEPT ![t] = i]
       /\ data' = [data EXCEPT ![i] = Empty] /\ disk' = [disk EXCEPT ![i] = Torn]
  /\ UNCHANGED <<lockVars, res, final, names, dirVars, ops, faults>>

\* open(O_CREAT | O_TRUNC) of the temporary file.
Truncates(t) ==
  /\ dir /\ Goto(t, "trunc", "write")
  /\ \E i \in Inodes :
       /\ IF temp = None THEN IsFirst(i, FreeInodes) ELSE i = temp
       /\ temp' = i /\ wfd' = [wfd EXCEPT ![t] = i]
       /\ data' = [data EXCEPT ![i] = Empty] /\ disk' = [disk EXCEPT ![i] = Torn]
  /\ UNCHANGED <<lockVars, res, final, names, dirVars, ops, faults>>

\* One write(): over what another writer put there it may leave a mixture.
Writes(t) ==
  LET i == wfd[t] IN
  /\ Goto(t, "write", "fsync")
  /\ \E c \in {val[t], Torn} : /\ data[i] = Empty => c = val[t]
                               /\ data' = [data EXCEPT ![i] = c]
  /\ disk' = [disk EXCEPT ![i] = Torn]
  /\ wfd' = [wfd EXCEPT ![t] = None]
  /\ UNCHANGED <<lockVars, res, temp, final, names, dirVars, ops, faults>>

\* Mutant: the result of write() is not looked at.
WriteFailsUnseen(t) ==
  LET i == wfd[t] IN
  /\ Fault /\ Goto(t, "write", "fsync")
  /\ data' = [data EXCEPT ![i] = Torn] /\ disk' = [disk EXCEPT ![i] = Torn]
  /\ wfd' = [wfd EXCEPT ![t] = None]
  /\ UNCHANGED <<lockVars, res, temp, final, names, dirVars, ops>>

\* A short write: write() fails, the temporary file stays behind.
WriteFails(t) ==
  LET i == wfd[t] IN
  /\ Fault /\ Goto(t, "write", "release") /\ Result(t, "failed")
  /\ data' = [data EXCEPT ![i] = Torn] /\ disk' = [disk EXCEPT ![i] = Torn]
  /\ wfd' = [wfd EXCEPT ![t] = None]
  /\ UNCHANGED <<lockVars, temp, final, names, dirVars, ops>>

\* fsync of whatever the temporary path names by now.
Syncs(t) ==
  /\ temp # None /\ Goto(t, "fsync", "rename")
  /\ disk' = [disk EXCEPT ![temp] = data[temp]]
  /\ UNCHANGED <<lockVars, wfd, res, temp, final, data, names,
                 dirVars, ops, faults>>

Renames(t) ==
  /\ temp # None /\ Goto(t, "rename", "dirsync")
  /\ final' = temp /\ temp' = None /\ names' = names \cup {temp}
  /\ UNCHANGED <<lockVars, wfd, res, data, disk, dirVars, ops, faults>>

\* The path is gone, or the call fails: the temporary file is removed.
SyncOrRenameFails(t) ==
  /\ pc[t] \in {"fsync", "rename"} /\ pc' = [pc EXCEPT ![t] = "release"]
  /\ IF temp = None THEN UNCHANGED faults ELSE Fault
  /\ temp' = None /\ Result(t, "failed")
  /\ UNCHANGED <<lockVars, op, val, wfd, final, data, disk, names, dirVars, ops>>

\* Mutant: the directory is not synced.
DirSyncsNothing(t) ==
  /\ Goto(t, "dirsync", "release") /\ Result(t, "ok")
  /\ UNCHANGED <<lockVars, wfd, fileVars, ops, faults>>

DirSyncs(t) ==
  /\ dir /\ Goto(t, "dirsync", "release") /\ names' = {final} /\ Result(t, "ok")
  /\ UNCHANGED <<lockVars, wfd, temp, final, data, disk, dirVars,
                 ops, faults>>

\* The new value is in place already.
DirSyncFails(t) ==
  /\ Goto(t, "dirsync", "release") /\ Result(t, "failed")
  /\ IF dir THEN Fault ELSE UNCHANGED faults
  /\ UNCHANGED <<lockVars, wfd, fileVars, ops>>

\* Store::remove neither looks at the result nor syncs the directory.
Deletes(t) ==
  /\ Goto(t, "delete", "release") /\ Result(t, "ok")
  /\ final' = None /\ names' = names \cup {None}
  /\ UNCHANGED <<lockVars, wfd, temp, data, disk, dirVars, ops, faults>>
-----------------------------------------------------------------------------
(* FileLock::release: unlock and close, forget the key, unlink the path    *)

ReleaseUnlocks(t) ==
  LET p == ProcOf[t] IN
  /\ mutex[p] = None
  /\ IF held[p] = None
     THEN Goto(t, "release", "idle") /\ UNCHANGED <<mutex, held>>
     ELSE /\ Goto(t, "release", "unlink") /\ mutex' = [mutex EXCEPT ![p] = t]
          /\ held' = [held EXCEPT ![p] = None]
  /\ UNCHANGED <<lockPath, cand, wfd, res, fileVars, ops, faults>>

\* Mutant: m_mutex stays locked when release() returns.
ReleaseUnlinksLocked(t) ==
  /\ Goto(t, "unlink", "idle") /\ lockPath' = None
  /\ UNCHANGED <<mutex, held, cand, wfd, res, fileVars, ops, faults>>

ReleaseUnlinks(t) ==
  /\ Goto(t, "unlink", "idle") /\ lockPath' = None
  /\ mutex' = [mutex EXCEPT ![ProcOf[t]] = None]
  /\ UNCHANGED <<held, cand, wfd, res, fileVars, ops, faults>>
-----------------------------------------------------------------------------
(* Store::load: stat, open and read, without a lock                        *)

Stats(t) ==
  /\ pc[t] = "stat"
  /\ IF final = None
     THEN Goto(t, "stat", "idle") /\ Result(t, "not found")
     ELSE Goto(t, "stat", "fopen") /\ UNCHANGED res
  /\ UNCHANGED <<lockVars, wfd, fileVars, ops, faults>>

\* A key removed since stat() makes load() throw kAtomicWriteFailed.
Fopens(t) ==
  /\ IF final = None
     THEN Goto(t, "fopen", "idle") /\ Result(t, "failed") /\ UNCHANGED wfd
     ELSE /\ Goto(t, "fopen", "read") /\ wfd' = [wfd EXCEPT ![t] = final]
          /\ UNCHANGED res
  /\ UNCHANGED <<lockVars, fileVars, ops, faults>>

Reads(t) ==
  /\ Goto(t, "read", "idle") /\ Result(t, data[wfd[t]])
  /\ wfd' = [wfd EXCEPT ![t] = None]
  /\ UNCHANGED <<lockVars, fileVars, ops, faults>>

-----------------------------------------------------------------------------
(* Store::cleanup, which takes no lock: readdir() returns what was there at *)
(* the beginning and may return what has been created since.               *)

Entries == {n \in {"key", "temp", "lock"} :
              CASE n = "key" -> final # None [] n = "temp" -> temp # None
                [] OTHER -> lockPath # None}

Opendirs(t) ==
  /\ IF dir THEN Goto(t, "opendir", "unlinks") ELSE Goto(t, "opendir", "idle")
  /\ list' = [list EXCEPT ![t] = Entries]
  /\ UNCHANGED <<lockVars, wfd, res, temp, final, data, disk, names, dir,
                 ready, ops, faults>>

CleanupUnlinks(t, n) ==
  /\ n \in list[t] \cup Entries /\ Goto(t, "unlinks", "unlinks")
  /\ list' = [list EXCEPT ![t] = @ \ {n}]
  /\ lockPath' = IF n = "lock" THEN None ELSE lockPath
  /\ temp' = IF n = "temp" THEN None ELSE temp
  /\ final' = IF n = "key" THEN None ELSE final
  /\ names' = IF n = "key" THEN names \cup {None} ELSE names
  /\ UNCHANGED <<mutex, held, cand, wfd, res, data, disk, dir, ready, ops,
                 faults>>

\* rmdir() fails on a directory that has entries again; m_ready goes anyway.
Rmdirs(t) ==
  /\ list[t] = {} /\ Goto(t, "unlinks", "idle")
  /\ dir' = (dir /\ Entries # {})
  /\ ready' = [ready EXCEPT ![ProcOf[t]] = FALSE]
  /\ UNCHANGED <<lockVars, wfd, res, temp, final, data, disk, names, list,
                 ops, faults>>

Runs(t) ==
  \/ Opendirs(t) \/ Rmdirs(t)
  \/ \E n \in {"key", "temp", "lock"} : CleanupUnlinks(t, n)
  \/ AcquireShared(t) \/ AcquireBegins(t) \/ LockOpens(t) \/ LockTaken(t)
  \/ LockBusy(t) \/ LockTimesOut(t) \/ OpenFails(t) \/ Truncates(t)
  \/ Writes(t) \/ WriteFails(t) \/ Syncs(t)
  \/ Renames(t) \/ SyncOrRenameFails(t) \/ DirSyncs(t) \/ DirSyncFails(t)
  \/ Deletes(t) \/ ReleaseUnlocks(t) \/ ReleaseUnlinks(t)
  \/ Stats(t) \/ Fopens(t) \/ Reads(t)
-----------------------------------------------------------------------------
(* Faults.  The kernel closes the descriptors of a killed process, and     *)
(* with them its lock; names and file contents stay.                       *)

Stop(P) ==
  LET gone == {t \in Threads : ProcOf[t] \in P} IN
  /\ pc' = [t \in Threads |-> IF t \in gone THEN "idle" ELSE pc[t]]
  /\ op' = [t \in Threads |-> IF t \in gone THEN "none" ELSE op[t]]
  /\ val' = [t \in Threads |-> IF t \in gone THEN NoValue ELSE val[t]]
  /\ res' = [t \in Threads |-> IF t \in gone THEN "none" ELSE res[t]]
  /\ wfd' = [t \in Threads |-> IF t \in gone THEN None ELSE wfd[t]]
  /\ cand' = [t \in Threads |-> IF t \in gone THEN None ELSE cand[t]]
  /\ mutex' = [p \in Procs |-> IF p \in P THEN None ELSE mutex[p]]
  /\ held' = [p \in Procs |-> IF p \in P THEN None ELSE held[p]]
  /\ ready' = [p \in Procs |-> p \notin P /\ ready[p]]
  /\ list' = [t \in Threads |-> IF t \in gone THEN {} ELSE list[t]]
  /\ UNCHANGED ops

Killed(p) == Fault /\ Stop({p}) /\ UNCHANGED <<lockPath, temp, final, data, disk, names, dir>>

\* Unsynced names and contents survive or not.
PowerFails ==
  /\ Fault /\ Stop(Procs)
  /\ lockPath' \in {lockPath, None} /\ temp' \in {temp, None}
  /\ \E n \in names : final' = n /\ names' = {n}
  /\ \E kept \in SUBSET {i \in {temp} \cup names : i # None /\ disk[i] # data[i]} :
       data' = [i \in Inodes |-> IF i \in kept THEN data[i] ELSE disk[i]]
  /\ disk' = data'
  /\ dir' \in {dir, TRUE} /\ (dir' \/ {lockPath', temp', final'} = {None})

\* History: a thread has come in with the lock of its process, which another
\* thread took and will release; or two processes hold locks, on two files that
\* had the same name; or cleanup() runs beside a writer.
Crosses ==
  \/ \E t \in Threads : /\ pc[t] = "acquire" /\ pc'[t] \in {"trunc", "delete"}
  \/ \E p, q \in Procs : None \notin {held'[p], held'[q]} /\ held'[p] # held'[q]
  \/ \E t, u \in Threads : op'[t] = "cleanup" /\ t # u
                            /\ op'[u] \in {"save", "remove", "cleanup"}

Next ==
  /\ \/ \E t \in Threads : Runs(t)
     \/ \E t \in Threads, o \in Operations, v \in Values \cup {NoValue} : Begins(t, o, v)
     \/ PowerFails \/ \E p \in Procs : Killed(p) \/ Opens(p)
  /\ crossed' = (crossed \/ Crosses) /\ UNCHANGED ProcOf

Spec == Init /\ [][Next]_vars

\* Threads run, and acquire polls for a second at most: a thread that finds the
\* lock busy again and again gives up.
FairSpec ==
  Spec /\ \A t \in Threads : WF_stepVars(Runs(t)) /\ SF_stepVars(LockTimesOut(t))
-----------------------------------------------------------------------------
TypeOK ==
  /\ ProcOf \in Placements
  /\ mutex \in [Procs -> Threads \cup {None}]
  /\ held \in [Procs -> Locks \cup {None}] /\ lockPath \in Locks \cup {None}
  /\ cand \in [Threads -> Locks \cup {None}]
  /\ pc \in [Threads -> {"idle", "acquire", "open", "flock", "trunc", "write",
                         "fsync", "rename", "dirsync", "delete", "release",
                         "unlink", "stat", "fopen", "read", "opendir", "unlinks"}]
  /\ op \in [Threads -> {"none"} \cup Operations]
  /\ val \in [Threads -> Values \cup {NoValue}]
  /\ wfd \in [Threads -> Inodes \cup {None}]
  /\ res \in [Threads -> Contents \cup {"none", "ok", "failed", "lock failed",
                                        "not found"}]
  /\ temp \in Inodes \cup {None} /\ final \in Inodes \cup {None}
  /\ data \in [Inodes -> Contents] /\ disk \in [Inodes -> Contents]
  /\ names \subseteq Inodes \cup {None} /\ names # {}
  /\ dir \in BOOLEAN /\ ready \in [Procs -> BOOLEAN]
  /\ list \in [Threads -> SUBSET {"key", "temp", "lock"}]
  /\ ops \in 0..MaxOps /\ faults \in 0..MaxFaults /\ crossed \in BOOLEAN

\* Store::save and Store::remove between acquire() and release().
Inside(t) == pc[t] \in {"trunc", "write", "fsync", "rename", "dirsync", "delete"}

\* Writers exclude each other, across threads and processes, kills and
\* timeouts, except in the ways of Crosses: the lock of a process counts for
\* all its threads (store_file_lock.cpp:26), a lock file that is unlinked while
\* another process waits for it locks nothing (:66), and cleanup() takes no lock.
LockExcludes ==
  crossed \/ \A t, u \in Threads : Inside(t) /\ Inside(u) => t = u

\* framework-store-guide.md:10 "a power loss at any moment leaves no damaged
\* or partial file": the key, and whatever it may be after a power loss, is
\* absent or a whole value.
NeverTorn ==
  /\ Visible \in Values \cup {NoValue}
  /\ \A n \in names : OnDisk(n) \in Values \cup {NoValue}

\* A save() that is about to return success has its value on the disk and in
\* the directory, and no power loss takes it back, while the lock excludes.
SavedIsDurable ==
  \A t \in Threads :
    pc[t] = "release" /\ op[t] = "save" /\ res[t] = "ok" /\ ~crossed
      => \A n \in names : OnDisk(n) = val[t]

\* No reader, of any process and without a lock, ever gets part of a value,
\* whatever it overlaps with, while the lock excludes.
ReadersSeeWholeValues == crossed \/ \A t \in Threads : res[t] \notin {Empty, Torn}

\* Every operation ends: nothing waits without a bound.
OperationsReturn == \A t \in Threads : []<>(pc[t] = "idle")

\* The store implements the register that changes in one step, for as long as
\* the lock excludes.
Register == INSTANCE StoreRegister
  WITH value <- Visible, stable <- {OnDisk(n) : n \in names}, void <- crossed
RegisterSpec == Register!Spec
=============================================================================

---------------------------- MODULE StoreProofs ----------------------------
(***************************************************************************)
(* Safety of the store, for any number of threads, processes, values,      *)
(* operations and faults, and that it implements StoreRegister.            *)
(***************************************************************************)
EXTENDS Store, TLAPS

USE DEF lockVars, dirVars, fileVars, stepVars

Stages == {"idle", "acquire", "open", "flock", "trunc", "write", "fsync",
           "rename", "dirsync", "delete", "release", "unlink", "stat", "fopen",
           "read", "opendir", "unlinks"}

\* Where a thread can be in each operation, and what it has open there.
Placed(t) ==
  /\ pc[t] = "idle" => op[t] = "none"
  /\ pc[t] \in {"acquire", "open", "flock", "release", "unlink"}
       => op[t] \in {"save", "remove"}
  /\ pc[t] \in {"trunc", "write", "fsync", "rename", "dirsync"} => op[t] = "save"
  /\ pc[t] = "delete" => op[t] = "remove"
  /\ pc[t] \in {"stat", "fopen", "read"} => op[t] = "load"
  /\ pc[t] \in {"opendir", "unlinks"} => op[t] = "cleanup"
  /\ op[t] = "save" => val[t] \in Values
  /\ pc[t] \in {"write", "read"} => wfd[t] \in Inodes
  /\ pc[t] = "flock" => cand[t] \in Locks
Control == \A t \in Threads : Placed(t)

\* m_mutex is held to acquire and to unlink, when the process has no lock.
Guarded ==
  /\ \A t \in Threads :
       pc[t] \in {"open", "flock", "unlink"} => mutex[ProcOf[t]] = t
  /\ \A p \in Procs : mutex[p] # None => held[p] = None

\* "<key>" may be what it is; "<key>.tmp" is no other file, and no reader's.
Named ==
  /\ final \in names /\ (temp # None => temp \notin names)
  /\ \A t \in Threads : pc[t] = "read" => wfd[t] # temp

\* Until the lock has let two threads in, the process of a writer holds the
\* lock and has no other writer, and cleanup() has the directory to itself.
Busy(t) == Inside(t) \/ pc[t] = "release"
Exclusive ==
  /\ \A t \in Threads : Busy(t) => held[ProcOf[t]] # None
  /\ \A t, u \in Threads : Busy(t) /\ Busy(u) => t = u
  /\ \A t, u \in Threads :
       op[t] = "cleanup" /\ t # u => op[u] \notin {"save", "remove", "cleanup"}

\* How far the file of a save() is, and what a reader has open.
Advances(t) ==
  /\ pc[t] = "write" => temp # None /\ wfd[t] = temp /\ data[temp] = Empty
  /\ pc[t] = "fsync" => temp # None /\ data[temp] = val[t]
  /\ pc[t] = "rename" => temp # None /\ data[temp] = val[t] /\ disk[temp] = val[t]
  /\ pc[t] = "dirsync" => final # None /\ disk[final] = val[t]
  /\ pc[t] = "release" /\ op[t] = "save" /\ res[t] = "ok"
       => \A n \in names : n # None /\ disk[n] = val[t]
  /\ pc[t] = "read" => data[wfd[t]] \in Values
Progress == \A t \in Threads : Advances(t)

\* Whatever the key may name is a whole value, on the disk as in memory.
Whole == \A n \in names : n # None => data[n] = disk[n] /\ disk[n] \in Values

\* What a call has returned.
Returned == \A t \in Threads : res[t] \notin {Empty, Torn}

IInv ==
  /\ TypeOK /\ Control /\ Guarded /\ Named
  /\ ~crossed => Exclusive /\ Progress /\ Whole /\ Returned
-----------------------------------------------------------------------------
(* Types                                                                   *)

\* What a step of thread t does to the program counters and the arguments.
LEMMA Moves ==
  ASSUME TypeOK, NEW t \in Threads, NEW from, NEW to \in Stages, Goto(t, from, to)
  PROVE  /\ pc[t] = from /\ pc' \in [Threads -> Stages]
         /\ op' \in [Threads -> {"none"} \cup Operations]
         /\ val' \in [Threads -> Values \cup {NoValue}]
         /\ pc'[t] = to
         /\ to # "idle" => op'[t] = op[t] /\ val'[t] = val[t]
         /\ to = "idle" => op'[t] = "none" /\ val'[t] = NoValue
         /\ \A u \in Threads \ {t} : pc'[u] = pc[u] /\ op'[u] = op[u] /\ val'[u] = val[u]
BY DEF Goto, TypeOK, Stages

\* The types of what Goto leaves alone.
RestOK ==
  /\ mutex \in [Procs -> Threads \cup {None}]
  /\ held \in [Procs -> Locks \cup {None}] /\ lockPath \in Locks \cup {None}
  /\ cand \in [Threads -> Locks \cup {None}]
  /\ wfd \in [Threads -> Inodes \cup {None}]
  /\ res \in [Threads -> Contents \cup {"none", "ok", "failed", "lock failed",
                                        "not found"}]
  /\ temp \in Inodes \cup {None} /\ final \in Inodes \cup {None}
  /\ data \in [Inodes -> Contents] /\ disk \in [Inodes -> Contents]
  /\ names \subseteq Inodes \cup {None} /\ names # {}
  /\ dir \in BOOLEAN /\ ready \in [Procs -> BOOLEAN]
  /\ list \in [Threads -> SUBSET {"key", "temp", "lock"}]
  /\ ops \in 0..MaxOps /\ faults \in 0..MaxFaults

LEMMA RunsTypes ==
  ASSUME IInv, NEW t \in Threads, Runs(t)
  PROVE  /\ RestOK' /\ pc' \in [Threads -> Stages]
         /\ op' \in [Threads -> {"none"} \cup Operations]
         /\ val' \in [Threads -> Values \cup {NoValue}]
<1> DEFINE Stepped == /\ RestOK' /\ pc' \in [Threads -> Stages]
                      /\ op' \in [Threads -> {"none"} \cup Operations]
                      /\ val' \in [Threads -> Values \cup {NoValue}]
<1>1. TypeOK /\ ProcOf[t] \in Procs
  <2>1. TypeOK /\ ProcOf \in [Threads -> Procs] BY StoreConstants DEF IInv, TypeOK
  <2> QED BY <2>1
<1>2. ASSUME NEW from, NEW to \in Stages, Goto(t, from, to)
      PROVE  /\ pc' \in [Threads -> Stages]
             /\ op' \in [Threads -> {"none"} \cup Operations]
             /\ val' \in [Threads -> Values \cup {NoValue}]
  BY <1>1, <1>2, Moves
<1>3. ASSUME Fault PROVE faults' \in 0..MaxFaults
  <2>1. MaxFaults \in Nat BY StoreConstants
  <2>2. faults \in 0..MaxFaults BY <1>1 DEF TypeOK
  <2> QED BY <1>3, <2>1, <2>2 DEF Fault
<1>4. ASSUME NEW r \in Contents \cup {"none", "ok", "failed", "lock failed", "not found"},
             Result(t, r)
      PROVE  res' \in [Threads -> Contents \cup {"none", "ok", "failed", "lock failed",
                                                 "not found"}]
  BY <1>1, <1>4 DEF Result, TypeOK
<1> HIDE DEF Stepped
<1>5. ASSUME Opendirs(t) PROVE Stepped
  BY <1>1, <1>2, <1>5 DEF Opendirs, Entries, TypeOK, RestOK, Stages, Stepped
<1>6. ASSUME Rmdirs(t) PROVE Stepped
  BY <1>1, <1>2, <1>6 DEF Rmdirs, TypeOK, RestOK, Stages, Stepped
<1>7. ASSUME NEW n \in {"key", "temp", "lock"}, CleanupUnlinks(t, n) PROVE Stepped
  BY <1>1, <1>2, <1>7 DEF CleanupUnlinks, TypeOK, RestOK, Stages, Stepped
<1>8. ASSUME AcquireShared(t) PROVE Stepped
  BY <1>1, <1>2, <1>8 DEF AcquireShared, Body, TypeOK, RestOK, Stages, Stepped
<1>9. ASSUME AcquireBegins(t) PROVE Stepped
  BY <1>1, <1>2, <1>9 DEF AcquireBegins, TypeOK, RestOK, Stages, Stepped
<1>10. ASSUME LockOpens(t) PROVE Stepped
  <2> PICK i \in Locks : lockPath' = i /\ cand' = [cand EXCEPT ![t] = i]
    BY <1>10 DEF LockOpens
  <2> QED BY <1>1, <1>2, <1>10 DEF LockOpens, TypeOK, RestOK, Stages, Stepped
<1>11. ASSUME LockTaken(t) PROVE Stepped
  BY <1>1, <1>2, <1>11 DEF LockTaken, Body, TypeOK, RestOK, Stages, Stepped
<1>12. ASSUME LockBusy(t) PROVE Stepped
  BY <1>1, <1>2, <1>12 DEF LockBusy, TypeOK, RestOK, Stages, Stepped
<1>13. ASSUME LockTimesOut(t) PROVE Stepped
  BY <1>1, <1>2, <1>4, <1>13 DEF LockTimesOut, TypeOK, RestOK, Stages, Stepped
<1>14. ASSUME OpenFails(t) PROVE Stepped
  <2>1. faults' \in 0..MaxFaults BY <1>1, <1>3, <1>14 DEF OpenFails, TypeOK
  <2> QED BY <1>1, <1>2, <1>4, <1>14, <2>1 DEF OpenFails, TypeOK, RestOK, Stages, Stepped
<1>15. ASSUME Truncates(t) PROVE Stepped
  <2> PICK i \in Inodes : /\ temp' = i /\ wfd' = [wfd EXCEPT ![t] = i]
                          /\ data' = [data EXCEPT ![i] = Empty]
                          /\ disk' = [disk EXCEPT ![i] = Torn]
    BY <1>15 DEF Truncates
  <2> QED BY <1>1, <1>2, <1>15 DEF Truncates, TypeOK, RestOK, Contents, Stages, Stepped
<1>16. ASSUME Writes(t) PROVE Stepped
  <2>1. val[t] \in Values BY <1>16 DEF Writes, Goto, IInv, Control, Placed
  <2>2. data' \in [Inodes -> Contents] BY <1>1, <1>16, <2>1 DEF Writes, TypeOK, Contents
  <2>3. /\ disk' \in [Inodes -> Contents] /\ wfd' \in [Threads -> Inodes \cup {None}]
        /\ UNCHANGED <<lockVars, res, temp, final, names, dirVars, ops, faults>>
    BY <1>1, <1>16 DEF Writes, TypeOK, Contents
  <2>4. /\ pc' \in [Threads -> Stages] /\ op' \in [Threads -> {"none"} \cup Operations]
        /\ val' \in [Threads -> Values \cup {NoValue}]
    BY <1>2, <1>16 DEF Writes, Stages
  <2> QED BY <1>1, <2>2, <2>3, <2>4 DEF TypeOK, RestOK, Stepped
<1>17. ASSUME WriteFails(t) PROVE Stepped
  BY <1>1, <1>2, <1>3, <1>4, <1>17
     DEF WriteFails, TypeOK, RestOK, Contents, Stages, Stepped
<1>18. ASSUME Syncs(t) PROVE Stepped
  BY <1>1, <1>2, <1>18 DEF Syncs, TypeOK, RestOK, Stages, Stepped
<1>19. ASSUME Renames(t) PROVE Stepped
  BY <1>1, <1>2, <1>19 DEF Renames, TypeOK, RestOK, Stages, Stepped
<1>20. ASSUME SyncOrRenameFails(t) PROVE Stepped
  <2>1. faults' \in 0..MaxFaults BY <1>1, <1>3, <1>20 DEF SyncOrRenameFails, TypeOK
  <2> QED BY <1>1, <1>4, <1>20, <2>1
          DEF SyncOrRenameFails, TypeOK, RestOK, Stages, Stepped
<1>21. ASSUME DirSyncs(t) PROVE Stepped
  BY <1>1, <1>2, <1>4, <1>21 DEF DirSyncs, TypeOK, RestOK, Stages, Stepped
<1>22. ASSUME DirSyncFails(t) PROVE Stepped
  <2>1. faults' \in 0..MaxFaults BY <1>1, <1>3, <1>22 DEF DirSyncFails, TypeOK
  <2> QED BY <1>1, <1>2, <1>4, <1>22, <2>1
          DEF DirSyncFails, TypeOK, RestOK, Stages, Stepped
<1>23. ASSUME Deletes(t) PROVE Stepped
  BY <1>1, <1>2, <1>4, <1>23 DEF Deletes, TypeOK, RestOK, Stages, Stepped
<1>24. ASSUME ReleaseUnlocks(t) PROVE Stepped
  <2>1. /\ pc' \in [Threads -> Stages] /\ op' \in [Threads -> {"none"} \cup Operations]
        /\ val' \in [Threads -> Values \cup {NoValue}]
    BY <1>2, <1>24 DEF ReleaseUnlocks, Stages
  <2>2. /\ mutex' = mutex \/ mutex' = [mutex EXCEPT ![ProcOf[t]] = t]
        /\ held' = held \/ held' = [held EXCEPT ![ProcOf[t]] = None]
    BY <1>24 DEF ReleaseUnlocks
  <2>3. mutex' \in [Procs -> Threads \cup {None}]
    <3>1. mutex \in [Procs -> Threads \cup {None}] BY <1>1 DEF TypeOK
    <3> QED BY <1>1, <2>2, <3>1
  <2>4. held' \in [Procs -> Locks \cup {None}]
    <3>1. held \in [Procs -> Locks \cup {None}] BY <1>1 DEF TypeOK
    <3> QED BY <1>1, <2>2, <3>1
  <2> QED BY <1>1, <1>24, <2>1, <2>3, <2>4 DEF ReleaseUnlocks, TypeOK, RestOK, Stepped
<1>25. ASSUME ReleaseUnlinks(t) PROVE Stepped
  BY <1>1, <1>2, <1>25 DEF ReleaseUnlinks, TypeOK, RestOK, Stages, Stepped
<1>26. ASSUME Stats(t) PROVE Stepped
  BY <1>1, <1>2, <1>4, <1>26 DEF Stats, TypeOK, RestOK, Stages, Stepped
<1>27. ASSUME Fopens(t) PROVE Stepped
  BY <1>1, <1>2, <1>4, <1>27, ZenonT(60) DEF Fopens, TypeOK, RestOK, Stages, Stepped
<1>28. ASSUME Reads(t) PROVE Stepped
  <2>1. data[wfd[t]] \in Contents BY <1>28 DEF Reads, Goto, IInv, TypeOK, Control, Placed
  <2> QED BY <1>1, <1>2, <1>4, <1>28, <2>1 DEF Reads, TypeOK, RestOK, Stages, Stepped
<1> QED
  BY <1>5, <1>6, <1>7, <1>8, <1>9, <1>10, <1>11, <1>12, <1>13, <1>14, <1>15, <1>16,
     <1>17, <1>18, <1>19, <1>20, <1>21, <1>22, <1>23, <1>24, <1>25, <1>26, <1>27, <1>28
  DEF Runs, Stepped

\* Killing the processes P resets their threads and releases their locks.
LEMMA StopTypes ==
  ASSUME TypeOK, NEW P \in SUBSET Procs, Stop(P)
  PROVE  /\ mutex' \in [Procs -> Threads \cup {None}]
         /\ held' \in [Procs -> Locks \cup {None}] /\ cand' \in [Threads -> Locks \cup {None}]
         /\ pc' \in [Threads -> Stages] /\ op' \in [Threads -> {"none"} \cup Operations]
         /\ val' \in [Threads -> Values \cup {NoValue}]
         /\ wfd' \in [Threads -> Inodes \cup {None}]
         /\ res' \in [Threads -> Contents \cup {"none", "ok", "failed", "lock failed",
                                                "not found"}]
         /\ ready' \in [Procs -> BOOLEAN]
         /\ list' \in [Threads -> SUBSET {"key", "temp", "lock"}]
         /\ ops' \in 0..MaxOps
<1>1. /\ mutex' \in [Procs -> Threads \cup {None}]
      /\ held' \in [Procs -> Locks \cup {None}] /\ cand' \in [Threads -> Locks \cup {None}]
      /\ pc' \in [Threads -> Stages] /\ op' \in [Threads -> {"none"} \cup Operations]
  BY DEF Stop, TypeOK, Stages
<1>2. /\ val' \in [Threads -> Values \cup {NoValue}]
      /\ wfd' \in [Threads -> Inodes \cup {None}]
      /\ res' \in [Threads -> Contents \cup {"none", "ok", "failed", "lock failed",
                                             "not found"}]
      /\ ops' \in 0..MaxOps
  BY DEF Stop, TypeOK
<1>3. ready' \in [Procs -> BOOLEAN] BY DEF Stop, TypeOK
<1>4. list' \in [Threads -> SUBSET {"key", "temp", "lock"}]
  BY DEF Stop, TypeOK
<1> QED BY <1>1, <1>2, <1>3, <1>4

LEMMA FaultCounted == ASSUME TypeOK, Fault PROVE faults' \in 0..MaxFaults
<1>1. MaxFaults \in Nat BY StoreConstants
<1>2. faults \in 0..MaxFaults BY DEF TypeOK
<1> QED BY <1>1, <1>2 DEF Fault

LEMMA TypeStep == IInv /\ [Next]_vars => TypeOK'
<1> SUFFICES ASSUME IInv, [Next]_vars PROVE TypeOK' OBVIOUS
<1>1. CASE UNCHANGED vars BY <1>1 DEF vars, IInv, TypeOK
<1>2. CASE Next
  <2>1. crossed' \in BOOLEAN /\ ProcOf' = ProcOf BY <1>2 DEF Next, IInv, TypeOK
  <2>2. TypeOK BY DEF IInv
  <2>3. ASSUME NEW t \in Threads, Runs(t) PROVE TypeOK'
    BY <2>1, <2>2, <2>3, RunsTypes DEF TypeOK, RestOK, Stages
  <2>4. ASSUME NEW t \in Threads, NEW o \in Operations, NEW v \in Values \cup {NoValue},
               Begins(t, o, v)
        PROVE  TypeOK'
    <3>1. ops' \in 0..MaxOps
      <4>1. MaxOps \in Nat BY StoreConstants
      <4>2. ops \in 0..MaxOps BY <2>2 DEF TypeOK
      <4> QED BY <2>4, <4>1, <4>2 DEF Begins
    <3>2. pc' \in [Threads -> Stages] BY <2>2, <2>4 DEF Begins, TypeOK, Stages
    <3>3. /\ op' \in [Threads -> {"none"} \cup Operations]
          /\ val' \in [Threads -> Values \cup {NoValue}]
          /\ res' \in [Threads -> Contents \cup {"none", "ok", "failed", "lock failed",
                                                 "not found"}]
      BY <2>2, <2>4 DEF Begins, Result, TypeOK
    <3> QED BY <2>1, <2>2, <2>4, <3>1, <3>2, <3>3 DEF Begins, TypeOK, Stages
  <2>5. ASSUME NEW p \in Procs, Opens(p) PROVE TypeOK'
    BY <2>1, <2>2, <2>5 DEF Opens, TypeOK
  <2>6. ASSUME NEW p \in Procs, Killed(p) PROVE TypeOK'
    BY <2>1, <2>2, <2>6, StopTypes, FaultCounted DEF Killed, TypeOK, Stages
  <2>7. CASE PowerFails
    <3>1. PICK n \in names : final' = n /\ names' = {n} BY <2>7 DEF PowerFails
    <3>2. data' \in [Inodes -> Contents] /\ disk' = data'
      BY <2>2, <2>7 DEF PowerFails, TypeOK
    <3>3. /\ lockPath' \in Locks \cup {None} /\ temp' \in Inodes \cup {None}
          /\ dir' \in BOOLEAN
      BY <2>2, <2>7 DEF PowerFails, TypeOK
    <3>4. Stop(Procs) /\ Fault BY <2>7 DEF PowerFails
    <3> QED BY <2>1, <2>2, <3>1, <3>2, <3>3, <3>4, StopTypes, FaultCounted, ZenonT(60)
            DEF TypeOK, Stages
  <2> QED BY <1>2, <2>3, <2>4, <2>5, <2>6, <2>7 DEF Next
<1> QED BY <1>1, <1>2
-----------------------------------------------------------------------------
(* Control, the mutex and the names                                        *)

\* A step of thread t leaves the other threads where they are.
Kept(t) ==
  \A u \in Threads \ {t} : pc'[u] = pc[u] /\ op'[u] = op[u] /\ val'[u] = val[u]
Others(t) ==
  /\ Kept(t)
  /\ \A u \in Threads \ {t} : wfd'[u] = wfd[u] /\ cand'[u] = cand[u] /\ res'[u] = res[u]

LEMMA RunsOthers == ASSUME TypeOK, NEW t \in Threads, Runs(t) PROVE Others(t)
<1>1. Kept(t)
  <2>1. ASSUME NEW from, NEW to, Goto(t, from, to) PROVE Kept(t)
    BY <2>1 DEF Goto, TypeOK, Kept
  <2>2. CASE SyncOrRenameFails(t) BY <2>2 DEF SyncOrRenameFails, TypeOK, Kept
  <2>3. CASE Opendirs(t) \/ Rmdirs(t) \/ \E n \in {"key", "temp", "lock"} : CleanupUnlinks(t, n)
    BY <2>1, <2>3 DEF Opendirs, Rmdirs, CleanupUnlinks
  <2>4. CASE \/ AcquireShared(t) \/ AcquireBegins(t) \/ LockOpens(t) \/ LockTaken(t)
             \/ LockBusy(t) \/ LockTimesOut(t) \/ ReleaseUnlocks(t) \/ ReleaseUnlinks(t)
    BY <2>1, <2>4 DEF AcquireShared, AcquireBegins, LockOpens, LockTaken, LockBusy,
       LockTimesOut, ReleaseUnlocks, ReleaseUnlinks
  <2>5. CASE \/ OpenFails(t) \/ Truncates(t) \/ Writes(t) \/ WriteFails(t) \/ Syncs(t)
             \/ Renames(t) \/ DirSyncs(t) \/ DirSyncFails(t) \/ Deletes(t)
    BY <2>1, <2>5 DEF OpenFails, Truncates, Writes, WriteFails, Syncs, Renames,
       DirSyncs, DirSyncFails, Deletes
  <2>6. CASE Stats(t) \/ Fopens(t) \/ Reads(t)
    BY <2>1, <2>6 DEF Stats, Fopens, Reads
  <2> QED BY <2>2, <2>3, <2>4, <2>5, <2>6 DEF Runs
<1>2. \A u \in Threads \ {t} : wfd'[u] = wfd[u]
  <2>1. CASE Truncates(t)
    <3> PICK i \in Inodes : wfd' = [wfd EXCEPT ![t] = i] BY <2>1 DEF Truncates
    <3> QED BY DEF TypeOK
  <2>2. CASE Writes(t) \/ WriteFails(t) \/ Fopens(t) \/ Reads(t)
    BY <2>2 DEF TypeOK, Writes, WriteFails, Fopens, Reads
  <2>3. CASE ~(Truncates(t) \/ Writes(t) \/ WriteFails(t) \/ Fopens(t) \/ Reads(t))
    <3>1. wfd' = wfd
      BY <2>3 DEF Runs, Opendirs, Rmdirs, CleanupUnlinks, AcquireShared, AcquireBegins,
         LockOpens, LockTaken, LockBusy, LockTimesOut, OpenFails, Syncs, Renames,
         SyncOrRenameFails, DirSyncs, DirSyncFails, Deletes, ReleaseUnlocks,
         ReleaseUnlinks, Stats
    <3> QED BY <3>1
  <2> QED BY <2>1, <2>2, <2>3
<1>3. \A u \in Threads \ {t} : cand'[u] = cand[u]
  BY DEF TypeOK, Runs, Opendirs, Rmdirs, CleanupUnlinks, AcquireShared, AcquireBegins, LockOpens,
     LockTaken, LockBusy, LockTimesOut, OpenFails, Truncates, Writes, WriteFails,
     Syncs, Renames, SyncOrRenameFails, DirSyncs, DirSyncFails, Deletes,
     ReleaseUnlocks, ReleaseUnlinks, Stats, Fopens, Reads
<1>4. \A u \in Threads \ {t} : res'[u] = res[u]
  BY ZenonT(60) DEF TypeOK, Result, Runs, Opendirs, Rmdirs, CleanupUnlinks, AcquireShared, AcquireBegins, LockOpens,
     LockTaken, LockBusy, LockTimesOut, OpenFails, Truncates, Writes, WriteFails,
     Syncs, Renames, SyncOrRenameFails, DirSyncs, DirSyncFails, Deletes,
     ReleaseUnlocks, ReleaseUnlinks, Stats, Fopens, Reads
<1> QED BY <1>1, <1>2, <1>3, <1>4 DEF Others

LEMMA RunsPlaced == ASSUME IInv, NEW t \in Threads, Runs(t) PROVE Placed(t)'
<1>1. TypeOK /\ RestOK' /\ Placed(t) BY RunsTypes DEF IInv, Control
<1>2. ASSUME NEW from, NEW to \in Stages, Goto(t, from, to)
      PROVE  /\ pc[t] = from /\ pc'[t] = to
             /\ to # "idle" => op'[t] = op[t] /\ val'[t] = val[t]
             /\ to = "idle" => op'[t] = "none"
  BY <1>1, <1>2, Moves
<1>3. CASE Opendirs(t) \/ Rmdirs(t) \/ \E n \in {"key", "temp", "lock"} : CleanupUnlinks(t, n)
  BY <1>1, <1>2, <1>3 DEF Opendirs, Rmdirs, CleanupUnlinks, Placed, Stages
<1>4. CASE \/ AcquireBegins(t) \/ LockBusy(t) \/ LockTimesOut(t) \/ ReleaseUnlocks(t)
           \/ ReleaseUnlinks(t)
  BY <1>1, <1>2, <1>4 DEF AcquireBegins, LockBusy, LockTimesOut, ReleaseUnlocks,
     ReleaseUnlinks, Placed, Stages
<1>5. CASE AcquireShared(t) \/ LockTaken(t)
  BY <1>1, <1>2, <1>5 DEF AcquireShared, LockTaken, Body, Placed, Stages
<1>6. CASE LockOpens(t)
  <2> PICK i \in Locks : cand' = [cand EXCEPT ![t] = i] BY <1>6 DEF LockOpens
  <2> QED BY <1>1, <1>2, <1>6 DEF LockOpens, TypeOK, Placed, Stages
<1>7. CASE Truncates(t)
  <2> PICK i \in Inodes : wfd' = [wfd EXCEPT ![t] = i] BY <1>7 DEF Truncates
  <2> QED BY <1>1, <1>2, <1>7 DEF Truncates, TypeOK, Placed, Stages
<1>8. CASE \/ OpenFails(t) \/ Writes(t) \/ WriteFails(t) \/ Syncs(t) \/ Renames(t)
           \/ DirSyncs(t) \/ DirSyncFails(t) \/ Deletes(t)
  BY <1>1, <1>2, <1>8 DEF OpenFails, Writes, WriteFails, Syncs, Renames, DirSyncs,
     DirSyncFails, Deletes, Placed, Stages
<1>9. CASE SyncOrRenameFails(t)
  BY <1>1, <1>9 DEF SyncOrRenameFails, TypeOK, Placed
<1>10. CASE Stats(t) \/ Reads(t)
  BY <1>1, <1>2, <1>10 DEF Stats, Reads, Placed, Stages
<1>11. CASE Fopens(t)
  BY <1>1, <1>2, <1>11 DEF Fopens, TypeOK, Placed, Stages
<1> QED BY <1>3, <1>4, <1>5, <1>6, <1>7, <1>8, <1>9, <1>10, <1>11 DEF Runs

LEMMA ControlStep == IInv /\ [Next]_vars => Control'
<1> SUFFICES ASSUME IInv, [Next]_vars PROVE Control' OBVIOUS
<1>1. TypeOK /\ \A t \in Threads : Placed(t) BY DEF IInv, Control
<1>2. CASE UNCHANGED vars BY <1>1, <1>2 DEF vars, Control, Placed
<1>3. ASSUME NEW t \in Threads, Runs(t) PROVE Control'
  <2>1. Placed(t)' BY <1>3, RunsPlaced
  <2>2. Others(t) BY <1>1, <1>3, RunsOthers
  <2>3. ASSUME NEW u \in Threads \ {t} PROVE Placed(u)'
    BY <1>1, <2>2 DEF Others, Kept, Placed
  <2> QED BY <2>1, <2>3 DEF Control
<1>4. ASSUME NEW t \in Threads, NEW o \in Operations, NEW v \in Values \cup {NoValue},
             Begins(t, o, v)
      PROVE  Control'
  <2> SUFFICES ASSUME NEW u \in Threads PROVE Placed(u)' BY DEF Control
  <2>1. o \in {"save", "remove", "load", "cleanup"} BY StoreConstants
  <2>2. CASE u = t BY <1>1, <1>4, <2>1, <2>2 DEF Begins, TypeOK, Placed
  <2>3. CASE u # t BY <1>1, <1>4, <2>3 DEF Begins, TypeOK, Placed
  <2> QED BY <2>2, <2>3
<1>5. ASSUME NEW p \in Procs, Opens(p) PROVE Control'
  BY <1>1, <1>5 DEF Opens, Control, Placed
<1>6. ASSUME NEW P \in SUBSET Procs, Stop(P) PROVE Control'
  <2> SUFFICES ASSUME NEW u \in Threads PROVE Placed(u)' BY DEF Control
  <2>1. \/ pc'[u] = "idle" /\ op'[u] = "none"
        \/ /\ pc'[u] = pc[u] /\ op'[u] = op[u] /\ val'[u] = val[u]
           /\ wfd'[u] = wfd[u] /\ cand'[u] = cand[u]
    BY <1>6 DEF Stop
  <2> QED BY <1>1, <2>1 DEF Placed
<1> QED BY <1>2, <1>3, <1>4, <1>5, <1>6 DEF Next, Killed, PowerFails

\* What a step does to the mutex and to the lock of the thread's process.
Locking(t) ==
  LET p == ProcOf[t]  M == {"open", "flock", "unlink"} IN
  \/ UNCHANGED <<mutex, held>> /\ (pc'[t] \in M => pc[t] \in M)
  \/ /\ mutex[p] = None /\ mutex' = [mutex EXCEPT ![p] = t]
     /\ held' \in {held, [held EXCEPT ![p] = None]} /\ held'[p] = None
  \/ /\ pc[t] \in M /\ pc'[t] \notin M /\ mutex' = [mutex EXCEPT ![p] = None]
     /\ held' \in {held, [held EXCEPT ![p] = cand[t]]}

LEMMA RunsLocking == ASSUME IInv, NEW t \in Threads, Runs(t) PROVE Locking(t)
<1>1. TypeOK /\ ProcOf[t] \in Procs
  <2>1. TypeOK /\ ProcOf \in [Threads -> Procs] BY StoreConstants DEF IInv, TypeOK
  <2> QED BY <2>1
<1>2. ASSUME NEW from, NEW to \in Stages, Goto(t, from, to)
      PROVE  pc[t] = from /\ pc'[t] = to
  BY <1>1, <1>2, Moves
<1>3. CASE Opendirs(t) \/ Rmdirs(t) \/ \E n \in {"key", "temp", "lock"} : CleanupUnlinks(t, n)
  BY <1>2, <1>3 DEF Opendirs, Rmdirs, CleanupUnlinks, Locking, Stages
<1>4. CASE \/ LockBusy(t) \/ LockTimesOut(t) \/ ReleaseUnlinks(t) \/ LockOpens(t)
  BY <1>2, <1>4 DEF LockBusy, LockTimesOut, ReleaseUnlinks, LockOpens, Locking, Stages
<1>5. CASE AcquireShared(t) \/ LockTaken(t)
  BY <1>2, <1>5 DEF AcquireShared, LockTaken, Body, Locking, Stages
<1>6. CASE AcquireBegins(t)
  BY <1>1, <1>2, <1>6 DEF AcquireBegins, Locking, Stages
<1>7. CASE ReleaseUnlocks(t)
  BY <1>1, <1>2, <1>7 DEF ReleaseUnlocks, TypeOK, Locking, Stages
<1>8. CASE \/ Truncates(t) \/ Writes(t) \/ WriteFails(t) \/ Syncs(t)
           \/ Renames(t) \/ DirSyncs(t) \/ DirSyncFails(t) \/ Deletes(t)
  BY <1>2, <1>8 DEF Truncates, Writes, WriteFails, Syncs, Renames, DirSyncs,
     DirSyncFails, Deletes, Locking, Stages
<1>9. CASE SyncOrRenameFails(t)
  BY <1>1, <1>9 DEF SyncOrRenameFails, TypeOK, Locking
<1>10. CASE Stats(t) \/ Fopens(t) \/ Reads(t)
  BY <1>2, <1>10 DEF Stats, Fopens, Reads, Locking, Stages
<1>11. CASE OpenFails(t)
  BY <1>2, <1>11 DEF OpenFails, Locking, Stages
<1> QED BY <1>3, <1>4, <1>5, <1>6, <1>7, <1>8, <1>9, <1>10, <1>11 DEF Runs

LEMMA GuardedStep == IInv /\ [Next]_vars => Guarded'
<1> SUFFICES ASSUME IInv, [Next]_vars PROVE Guarded' OBVIOUS
<1>1. TypeOK /\ Guarded /\ ProcOf \in [Threads -> Procs] /\ None \notin Threads
  BY StoreConstants DEF IInv, TypeOK
<1>2. CASE UNCHANGED vars BY <1>1, <1>2 DEF vars, Guarded
<1>3. CASE Next
  <2>1. ProcOf' = ProcOf BY <1>3 DEF Next
  <2>2. ASSUME NEW t \in Threads, Runs(t) PROVE Guarded'
    <3>1. Locking(t) /\ Kept(t) BY <1>1, <2>2, RunsLocking, RunsOthers DEF Others
    <3>2. ASSUME NEW u \in Threads, pc'[u] \in {"open", "flock", "unlink"}
          PROVE  mutex'[ProcOf[u]] = u
      <4>1. CASE u = t
        <5>1. \/ mutex' = mutex /\ pc[t] \in {"open", "flock", "unlink"}
              \/ mutex' = [mutex EXCEPT ![ProcOf[t]] = t]
          BY <3>1, <3>2, <4>1 DEF Locking
        <5>2. mutex \in [Procs -> Threads \cup {None}] /\ ProcOf[t] \in Procs
          BY <1>1 DEF TypeOK
        <5> QED BY <1>1, <4>1, <5>1, <5>2 DEF Guarded
      <4>2. CASE u # t
        <5>1. pc[u] \in {"open", "flock", "unlink"} /\ mutex[ProcOf[u]] = u
          BY <1>1, <3>1, <3>2, <4>2 DEF Kept, Guarded
        <5>2. mutex[ProcOf[t]] \in {None, t} \/ mutex' = mutex
          BY <1>1, <3>1 DEF Locking, Guarded
        <5>3. mutex' = mutex \/ \E m : mutex' = [mutex EXCEPT ![ProcOf[t]] = m]
          BY <3>1 DEF Locking
        <5>4. mutex \in [Procs -> Threads \cup {None}] /\ ProcOf[u] \in Procs
          BY <1>1 DEF TypeOK
        <5>5. CASE mutex' = mutex BY <5>1, <5>5
        <5>6. CASE mutex' # mutex
          <6>1. ProcOf[u] # ProcOf[t] BY <1>1, <4>2, <5>1, <5>2, <5>6
          <6> QED BY <5>1, <5>3, <5>4, <5>6, <6>1
        <5> QED BY <5>5, <5>6
      <4> QED BY <4>1, <4>2
    <3>3. ASSUME NEW p \in Procs, mutex'[p] # None PROVE held'[p] = None
      BY <1>1, <3>1, <3>3 DEF Locking, Guarded, TypeOK
    <3> QED BY <2>1, <3>2, <3>3 DEF Guarded
  <2>3. ASSUME NEW t \in Threads, NEW o \in Operations, NEW v \in Values \cup {NoValue},
               Begins(t, o, v)
        PROVE  Guarded'
    BY <1>1, <2>1, <2>3 DEF Begins, Guarded, TypeOK
  <2>4. ASSUME NEW p \in Procs, Opens(p) PROVE Guarded'
    BY <1>1, <2>1, <2>4 DEF Opens, Guarded
  <2>5. ASSUME NEW P \in SUBSET Procs, Stop(P) PROVE Guarded'
    BY <1>1, <2>1, <2>5 DEF Stop, Guarded
  <2> QED BY <1>3, <2>2, <2>3, <2>4, <2>5 DEF Next, Killed, PowerFails
<1> QED BY <1>2, <1>3
-----------------------------------------------------------------------------
(* Exclusion                                                               *)

\* Who gets in while the lock excludes comes through flock(), and who leaves
\* is past release().
LEMMA RunsBusy ==
  ASSUME IInv, NEW t \in Threads, Runs(t), ~crossed, ~Crosses
  PROVE  /\ Busy(t)' => Busy(t) \/ LockTaken(t)
         /\ LockTaken(t) \/ UNCHANGED held \/ (pc[t] = "release" /\ ~Busy(t)')
         /\ \A p \in Procs \ {ProcOf[t]} : held'[p] = held[p]
<1>1. TypeOK BY DEF IInv
<1>2. ASSUME NEW from, NEW to \in Stages, Goto(t, from, to)
      PROVE  pc[t] = from /\ pc'[t] = to
  BY <1>1, <1>2, Moves
<1>3. CASE Opendirs(t) \/ Rmdirs(t) \/ \E n \in {"key", "temp", "lock"} : CleanupUnlinks(t, n)
  BY <1>2, <1>3 DEF Opendirs, Rmdirs, CleanupUnlinks, Busy, Inside, Stages
<1>4. CASE \/ LockBusy(t) \/ LockTimesOut(t) \/ ReleaseUnlinks(t) \/ LockOpens(t)
           \/ AcquireBegins(t)
  BY <1>2, <1>4 DEF LockBusy, LockTimesOut, ReleaseUnlinks, LockOpens, AcquireBegins,
     Busy, Inside, Stages
<1>5. CASE AcquireShared(t)
  BY <1>2, <1>5 DEF AcquireShared, Body, Crosses, Stages
<1>6. CASE LockTaken(t)
  BY <1>1, <1>6 DEF LockTaken, TypeOK
<1>7. CASE ReleaseUnlocks(t)
  <2>1. pc[t] = "release" /\ pc'[t] \in {"idle", "unlink"}
    BY <1>2, <1>7 DEF ReleaseUnlocks, Stages
  <2>2. \A p \in Procs \ {ProcOf[t]} : held'[p] = held[p]
    BY <1>1, <1>7 DEF ReleaseUnlocks, TypeOK
  <2> QED BY <2>1, <2>2 DEF Busy, Inside
<1>8. CASE \/ Truncates(t) \/ Writes(t) \/ WriteFails(t) \/ Syncs(t)
           \/ Renames(t) \/ DirSyncs(t) \/ DirSyncFails(t) \/ Deletes(t)
  BY <1>2, <1>8 DEF Truncates, Writes, WriteFails, Syncs, Renames, DirSyncs,
     DirSyncFails, Deletes, Busy, Inside, Stages
<1>9. CASE SyncOrRenameFails(t)
  BY <1>1, <1>9 DEF SyncOrRenameFails, Busy, Inside
<1>10. CASE Stats(t) \/ Fopens(t) \/ Reads(t)
  BY <1>2, <1>10 DEF Stats, Fopens, Reads, Busy, Inside, Stages
<1>11. CASE OpenFails(t)
  BY <1>2, <1>11 DEF OpenFails, Busy, Inside, Stages
<1> QED BY <1>3, <1>4, <1>5, <1>6, <1>7, <1>8, <1>9, <1>10, <1>11 DEF Runs

LEMMA ExclusiveStep == IInv /\ [Next]_vars /\ ~crossed' => Exclusive'
<1> SUFFICES ASSUME IInv, [Next]_vars, ~crossed' PROVE Exclusive' OBVIOUS
<1>1. CASE UNCHANGED vars BY <1>1 DEF vars, IInv, Exclusive, Busy, Inside
<1>2. CASE Next
  <2>1. ProcOf' = ProcOf /\ ~crossed /\ ~Crosses /\ Exclusive
    BY <1>2 DEF Next, IInv
  <2>2. TypeOK /\ Control /\ Guarded /\ ProcOf \in [Threads -> Procs] /\ None \notin Locks
    BY StoreConstants DEF IInv, TypeOK
  <2>3. \A t, u \in Threads :
          op'[t] = "cleanup" /\ t # u => op'[u] \notin {"save", "remove", "cleanup"}
    BY <2>1 DEF Crosses
  <2>4. \A p, q \in Procs : held'[p] # None /\ held'[q] # None => held'[p] = held'[q]
    BY <2>1 DEF Crosses
  <2>5. ASSUME NEW t \in Threads, Runs(t) PROVE Exclusive'
    <3>1. Kept(t) BY <2>2, <2>5, RunsOthers DEF Others
    <3>2. /\ Busy(t)' => Busy(t) \/ LockTaken(t)
          /\ LockTaken(t) \/ UNCHANGED held \/ (pc[t] = "release" /\ ~Busy(t)')
          /\ \A p \in Procs \ {ProcOf[t]} : held'[p] = held[p]
      BY <2>1, <2>5, RunsBusy
    <3>3. \A u \in Threads \ {t} : Busy(u)' <=> Busy(u)
      BY <3>1 DEF Kept, Busy, Inside
    <3>4. CASE LockTaken(t)
      <4>1. /\ pc[t] = "flock" /\ cand[t] \in Locks
            /\ held' = [held EXCEPT ![ProcOf[t]] = cand[t]]
            /\ \A q \in Procs : held[q] # cand[t]
        BY <2>2, <3>4 DEF LockTaken, Goto, Control, Placed
      <4>2. held[ProcOf[t]] = None
        <5>1. mutex[ProcOf[t]] = t BY <2>2, <4>1 DEF Guarded
        <5> QED BY <2>2, <5>1, StoreConstants DEF Guarded
      <4>3. held'[ProcOf[t]] = cand[t] /\ held'[ProcOf[t]] # None
        BY <2>2, <4>1 DEF TypeOK
      <4>4. \A u \in Threads \ {t} : ~Busy(u)
        BY <2>1, <2>2, <2>4, <3>2, <4>1, <4>2, <4>3 DEF Exclusive
      <4> QED BY <2>1, <2>3, <3>3, <4>3, <4>4 DEF Exclusive
    <3>5. CASE ~LockTaken(t)
      <4>1. \A u \in Threads : Busy(u)' => Busy(u) BY <3>2, <3>3, <3>5
      <4>2. \A u, v \in Threads : Busy(u)' /\ Busy(v)' => u = v
        BY <2>1, <4>1 DEF Exclusive
      <4>3. ASSUME NEW u \in Threads, Busy(u)' PROVE held'[ProcOf[u]] # None
        <5>1. UNCHANGED held \/ (Busy(t) /\ ~Busy(t)') BY <3>2, <3>5 DEF Busy
        <5>2. UNCHANGED held BY <2>1, <4>1, <4>3, <5>1 DEF Exclusive
        <5> QED BY <2>1, <4>1, <4>3, <5>2 DEF Exclusive
      <4> QED BY <2>1, <2>3, <4>2, <4>3 DEF Exclusive
    <3> QED BY <3>4, <3>5
  <2>6. ASSUME NEW t \in Threads, NEW o \in Operations, NEW v \in Values \cup {NoValue},
               Begins(t, o, v)
        PROVE  Exclusive'
    <3>1. \A u \in Threads : Busy(u)' => Busy(u)
      BY <2>2, <2>6, StoreConstants DEF Begins, TypeOK, Busy, Inside
    <3>2. held' = held BY <2>6 DEF Begins
    <3> QED BY <2>1, <2>3, <3>1, <3>2 DEF Exclusive
  <2>7. ASSUME NEW p \in Procs, Opens(p) PROVE Exclusive'
    BY <2>1, <2>7 DEF Opens, Exclusive, Busy, Inside
  <2>8. ASSUME NEW P \in SUBSET Procs, Stop(P) PROVE Exclusive'
    <3>1. \A u \in Threads : Busy(u)' => Busy(u) /\ ProcOf[u] \notin P
      BY <2>8 DEF Stop, Busy, Inside
    <3>2. \A p \in Procs \ P : held'[p] = held[p] BY <2>8 DEF Stop
    <3> QED BY <2>1, <2>2, <2>3, <3>1, <3>2 DEF Exclusive
  <2> QED BY <1>2, <2>5, <2>6, <2>7, <2>8 DEF Next, Killed, PowerFails
<1> QED BY <1>1, <1>2
-----------------------------------------------------------------------------
(* The files                                                               *)

\* A step of thread t that touches no file: it is not in the middle of a save
\* afterwards, and reads the key if it reads.
Quiet(t) ==
  /\ UNCHANGED <<temp, final, data, disk, names>>
  /\ pc'[t] \notin {"write", "fsync", "rename", "dirsync"}
  /\ pc'[t] = "read" => final # None /\ wfd'[t] = final
  /\ pc'[t] = "release" => res'[t] # "ok"

LEMMA RunsQuiet ==
  ASSUME IInv, NEW t \in Threads, Runs(t)
  PROVE  \/ Quiet(t) \/ \E n \in {"key", "temp", "lock"} : CleanupUnlinks(t, n)
         \/ Truncates(t) \/ Writes(t) \/ WriteFails(t) \/ Syncs(t) \/ Renames(t)
         \/ SyncOrRenameFails(t) \/ DirSyncs(t) \/ Deletes(t)
<1>1. TypeOK BY DEF IInv
<1>2. ASSUME NEW from, NEW to \in Stages, Goto(t, from, to)
      PROVE  pc[t] = from /\ pc'[t] = to
  BY <1>1, <1>2, Moves
<1>3. CASE Opendirs(t) \/ Rmdirs(t)
  BY <1>2, <1>3 DEF Opendirs, Rmdirs, Quiet, Stages
<1>4. CASE \/ LockBusy(t) \/ LockTimesOut(t) \/ ReleaseUnlinks(t) \/ LockOpens(t)
           \/ AcquireBegins(t)
  BY <1>2, <1>4 DEF LockBusy, LockTimesOut, ReleaseUnlinks, LockOpens, AcquireBegins,
     Quiet, Stages
<1>5. CASE AcquireShared(t) \/ LockTaken(t)
  BY <1>2, <1>5 DEF AcquireShared, LockTaken, Body, Quiet, Stages
<1>6. CASE ReleaseUnlocks(t) BY <1>2, <1>6 DEF ReleaseUnlocks, Quiet, Stages
<1>7. CASE OpenFails(t) \/ DirSyncFails(t)
  <2>1. UNCHANGED <<temp, final, data, disk, names>> /\ pc'[t] \in {"idle", "release"}
    BY <1>2, <1>7 DEF OpenFails, DirSyncFails, Stages
  <2>2. res'[t] \in {"lock failed", "failed"}
    BY <1>1, <1>7 DEF OpenFails, DirSyncFails, Result, TypeOK
  <2> QED BY <2>1, <2>2 DEF Quiet
<1>8. CASE Stats(t) \/ Reads(t)
  BY <1>2, <1>8 DEF Stats, Reads, Quiet, Stages
<1>9. CASE Fopens(t) BY <1>1, <1>2, <1>9 DEF Fopens, TypeOK, Quiet, Stages
<1> QED BY <1>3, <1>4, <1>5, <1>6, <1>7, <1>8, <1>9 DEF Runs

\* A thread that has the files to itself.
LEMMA Alone ==
  ASSUME IInv, ~crossed, NEW t \in Threads, Busy(t) \/ op[t] = "cleanup",
         NEW u \in Threads \ {t}
  PROVE  ~Busy(u)
<1>1. Exclusive /\ Placed(u) BY DEF IInv, Control
<1>2. CASE Busy(t) BY <1>1, <1>2 DEF Exclusive
<1>3. CASE op[t] = "cleanup"
  BY <1>1, <1>3 DEF Exclusive, Placed, Busy, Inside
<1> QED BY <1>2, <1>3

\* The other threads are then at most readers, whose files stay as they are.
LEMMA ReadersAdvance ==
  ASSUME IInv, ~crossed, NEW t \in Threads, Busy(t) \/ op[t] = "cleanup", Others(t),
         \A i \in Inodes : (\E u \in Threads : pc[u] = "read" /\ wfd[u] = i)
                             => data'[i] = data[i]
  PROVE  \A u \in Threads \ {t} : Advances(u)'
<1> TAKE u \in Threads \ {t}
<1>1. ~Busy(u) BY Alone
<1>2. pc'[u] \notin {"write", "fsync", "rename", "dirsync", "release"}
  BY <1>1 DEF Busy, Inside, Others, Kept
<1>3. Placed(u) /\ Advances(u) BY DEF IInv, Control, Progress
<1>4. pc'[u] = "read" => data'[wfd'[u]] \in Values
  BY <1>3 DEF Others, Kept, Placed, Advances
<1> QED BY <1>2, <1>4 DEF Advances

Filed == Named' /\ (~crossed => Progress' /\ Whole')

LEMMA QuietStep ==
  ASSUME IInv, NEW t \in Threads, Others(t), Quiet(t)
  PROVE  Filed
<1>1. Named' BY DEF IInv, Named, Others, Kept, Quiet
<1>2. ASSUME ~crossed PROVE Progress' /\ Whole'
  <2>1. Progress /\ Whole BY <1>2 DEF IInv
  <2>2. Whole' BY <2>1 DEF Whole, Quiet
  <2>3. \A u \in Threads \ {t} : Advances(u)'
    BY <2>1 DEF Progress, Advances, Others, Kept, Quiet
  <2>4. Advances(t)' BY <2>1 DEF IInv, Named, Whole, Advances, Quiet
  <2> QED BY <2>2, <2>3, <2>4 DEF Progress
<1> QED BY <1>1, <1>2 DEF Filed

LEMMA RunsFiled == ASSUME IInv, NEW t \in Threads, Runs(t) PROVE Filed
<1>1. /\ TypeOK /\ Others(t) /\ Named /\ Placed(t)
      /\ None \notin Inodes /\ RestOK'
  BY RunsOthers, RunsTypes, StoreConstants DEF IInv, Control
<1>2. ASSUME NEW from, NEW to \in Stages, Goto(t, from, to)
      PROVE  /\ pc[t] = from /\ pc'[t] = to
             /\ to # "idle" => op'[t] = op[t] /\ val'[t] = val[t]
  BY <1>1, <1>2, Moves
<1>3. ~crossed => Progress /\ Whole /\ Advances(t) BY DEF IInv, Progress
<1>4. \A u \in Threads : pc[u] = "read" => wfd[u] \in Inodes /\ wfd[u] # temp
  BY <1>1 DEF IInv, Control, Placed, Named
<1>5. ASSUME NEW n \in {"key", "temp", "lock"}, CleanupUnlinks(t, n) PROVE Filed
  <2>1. pc'[t] = "unlinks" /\ pc[t] = "unlinks" BY <1>2, <1>5 DEF CleanupUnlinks, Stages
  <2>2. /\ temp' \in {temp, None} /\ UNCHANGED <<data, disk, wfd>>
        /\ \/ UNCHANGED <<final, names>>
           \/ final' = None /\ names' = names \cup {None}
    BY <1>5 DEF CleanupUnlinks
  <2>3. Named' BY <1>1, <1>4, <2>1, <2>2 DEF Named, Others, Kept
  <2>4. ASSUME ~crossed PROVE Progress' /\ Whole'
    <3>1. op[t] = "cleanup" BY <1>1, <2>1 DEF Placed
    <3>2. \A u \in Threads \ {t} : Advances(u)'
      BY <1>1, <2>2, <2>4, <3>1, ReadersAdvance
    <3>3. Advances(t)' BY <2>1 DEF Advances
    <3>4. Whole' BY <1>3, <2>2, <2>4 DEF Whole
    <3> QED BY <3>2, <3>3, <3>4 DEF Progress
  <2> QED BY <2>3, <2>4 DEF Filed
<1>6. CASE Truncates(t)
  <2> PICK i \in Inodes : /\ IF temp = None THEN IsFirst(i, FreeInodes) ELSE i = temp
                          /\ temp' = i /\ wfd' = [wfd EXCEPT ![t] = i]
                          /\ data' = [data EXCEPT ![i] = Empty]
                          /\ disk' = [disk EXCEPT ![i] = Torn]
    BY <1>6 DEF Truncates
  <2>1. pc[t] = "trunc" /\ pc'[t] = "write" BY <1>2, <1>6 DEF Truncates, Stages
  <2>2. i \notin names /\ \A u \in Threads : pc[u] = "read" => wfd[u] # i
    BY <1>1, <1>4 DEF Named, IsFirst, FreeInodes
  <2>3. UNCHANGED <<final, names>> BY <1>6 DEF Truncates
  <2>4. Named' BY <1>1, <2>1, <2>2, <2>3 DEF Named, Others, Kept
  <2>5. ASSUME ~crossed PROVE Progress' /\ Whole'
    <3>1. Busy(t) BY <2>1 DEF Busy, Inside
    <3>2. \A u \in Threads \ {t} : Advances(u)'
      BY <1>1, <2>2, <2>5, <3>1, ReadersAdvance DEF TypeOK
    <3>3. Advances(t)' BY <1>1, <2>1 DEF TypeOK, Advances
    <3>4. Whole' BY <1>1, <1>3, <2>2, <2>3, <2>5 DEF TypeOK, Whole
    <3> QED BY <3>2, <3>3, <3>4 DEF Progress
  <2> QED BY <2>4, <2>5 DEF Filed
<1>7. CASE Writes(t) \/ WriteFails(t)
  <2>1. /\ pc[t] = "write" /\ wfd[t] \in Inodes /\ UNCHANGED <<temp, final, names>>
        /\ \/ pc'[t] = "fsync" /\ val'[t] = val[t]
           \/ pc'[t] = "release" /\ res'[t] = "failed"
    <3>1. CASE Writes(t) BY <1>1, <1>2, <3>1 DEF Writes, Placed, Stages
    <3>2. CASE WriteFails(t)
      <4>1. res'[t] = "failed" BY <1>1, <3>2 DEF WriteFails, Result, TypeOK
      <4> QED BY <1>1, <1>2, <3>2, <4>1 DEF WriteFails, Placed, Stages
    <3> QED BY <1>7, <3>1, <3>2
  <2>2. Named' BY <1>1, <2>1 DEF Named, Others, Kept
  <2>3. ASSUME ~crossed PROVE Progress' /\ Whole'
    <3>1. Busy(t) BY <2>1 DEF Busy, Inside
    <3>2. temp # None /\ wfd[t] = temp /\ data[temp] = Empty
      BY <1>3, <2>1, <2>3 DEF Advances
    <3>3. PICK c : /\ data' = [data EXCEPT ![temp] = c]
                   /\ disk' = [disk EXCEPT ![temp] = Torn]
                   /\ pc'[t] = "fsync" => c = val[t]
      <4>1. CASE Writes(t) BY <3>2, <4>1 DEF Writes
      <4>2. CASE WriteFails(t)
        <5>1. pc'[t] # "fsync" BY <1>2, <4>2 DEF WriteFails, Stages
        <5> QED BY <3>2, <4>2, <5>1 DEF WriteFails
      <4> QED BY <1>7, <4>1, <4>2
    <3>4. \A u \in Threads \ {t} : Advances(u)'
      BY <1>1, <1>4, <2>3, <3>1, <3>3, ReadersAdvance DEF TypeOK
    <3>5. Advances(t)' BY <1>1, <2>1, <3>2, <3>3 DEF TypeOK, Advances
    <3>6. Whole' BY <1>1, <1>3, <2>1, <2>3, <3>2, <3>3 DEF TypeOK, Named, Whole
    <3> QED BY <3>4, <3>5, <3>6 DEF Progress
  <2> QED BY <2>2, <2>3 DEF Filed
<1>8. CASE Syncs(t)
  <2>1. /\ pc[t] = "fsync" /\ pc'[t] = "rename" /\ val'[t] = val[t]
        /\ temp # None /\ disk' = [disk EXCEPT ![temp] = data[temp]]
        /\ UNCHANGED <<temp, final, names, data>>
    BY <1>2, <1>8 DEF Syncs, Stages
  <2>2. Named' BY <1>1, <2>1 DEF Named, Others, Kept
  <2>3. ASSUME ~crossed PROVE Progress' /\ Whole'
    <3>1. Busy(t) BY <2>1 DEF Busy, Inside
    <3>2. \A u \in Threads \ {t} : Advances(u)'
      BY <1>1, <2>1, <2>3, <3>1, ReadersAdvance
    <3>3. Advances(t)' BY <1>1, <1>3, <2>1, <2>3 DEF TypeOK, Advances
    <3>4. Whole' BY <1>1, <1>3, <2>1, <2>3 DEF TypeOK, Named, Whole
    <3> QED BY <3>2, <3>3, <3>4 DEF Progress
  <2> QED BY <2>2, <2>3 DEF Filed
<1>9. CASE Renames(t)
  <2>1. /\ pc[t] = "rename" /\ pc'[t] = "dirsync" /\ val'[t] = val[t] /\ temp # None
        /\ final' = temp /\ temp' = None /\ names' = names \cup {temp}
        /\ UNCHANGED <<data, disk>>
    BY <1>2, <1>9 DEF Renames, Stages
  <2>2. Named' BY <1>1, <1>4, <2>1 DEF Named, Others, Kept
  <2>3. ASSUME ~crossed PROVE Progress' /\ Whole'
    <3>1. Busy(t) BY <2>1 DEF Busy, Inside
    <3>2. \A u \in Threads \ {t} : Advances(u)'
      BY <1>1, <2>1, <2>3, <3>1, ReadersAdvance
    <3>3. data[temp] = val[t] /\ disk[temp] = val[t] /\ val[t] \in Values
      BY <1>1, <1>3, <2>1, <2>3 DEF Advances, Placed
    <3>4. Advances(t)' BY <2>1, <3>3 DEF Advances
    <3>5. Whole' BY <1>3, <2>1, <2>3, <3>3 DEF Whole
    <3> QED BY <3>2, <3>4, <3>5 DEF Progress
  <2> QED BY <2>2, <2>3 DEF Filed
<1>10. CASE SyncOrRenameFails(t)
  <2>1. /\ pc[t] \in {"fsync", "rename"} /\ pc'[t] = "release" /\ res'[t] = "failed"
        /\ temp' = None /\ UNCHANGED <<final, names, data, disk>>
    BY <1>1, <1>10 DEF SyncOrRenameFails, Result, TypeOK
  <2>2. Named' BY <1>1, <1>4, <2>1 DEF Named, Others, Kept
  <2>3. ASSUME ~crossed PROVE Progress' /\ Whole'
    <3>1. Busy(t) BY <2>1 DEF Busy, Inside
    <3>2. \A u \in Threads \ {t} : Advances(u)'
      BY <1>1, <2>1, <2>3, <3>1, ReadersAdvance
    <3>3. Advances(t)' BY <2>1 DEF Advances
    <3>4. Whole' BY <1>3, <2>1, <2>3 DEF Whole
    <3> QED BY <3>2, <3>3, <3>4 DEF Progress
  <2> QED BY <2>2, <2>3 DEF Filed
<1>11. CASE DirSyncs(t)
  <2>1. /\ pc[t] = "dirsync" /\ pc'[t] = "release" /\ val'[t] = val[t]
        /\ names' = {final} /\ UNCHANGED <<temp, final, data, disk>>
    BY <1>2, <1>11 DEF DirSyncs, Stages
  <2>2. Named' BY <1>1, <2>1 DEF Named, Others, Kept
  <2>3. ASSUME ~crossed PROVE Progress' /\ Whole'
    <3>1. Busy(t) BY <2>1 DEF Busy, Inside
    <3>2. \A u \in Threads \ {t} : Advances(u)'
      BY <1>1, <2>1, <2>3, <3>1, ReadersAdvance
    <3>3. Advances(t)' BY <1>3, <2>1, <2>3 DEF Advances
    <3>4. Whole' BY <1>1, <1>3, <2>1, <2>3 DEF Named, Whole
    <3> QED BY <3>2, <3>3, <3>4 DEF Progress
  <2> QED BY <2>2, <2>3 DEF Filed
<1>12. CASE Deletes(t)
  <2>1. /\ pc[t] = "delete" /\ pc'[t] = "release" /\ op'[t] = op[t]
        /\ final' = None /\ names' = names \cup {None}
        /\ UNCHANGED <<temp, data, disk>>
    BY <1>2, <1>12 DEF Deletes, Stages
  <2>2. Named' BY <1>1, <2>1 DEF Named, Others, Kept
  <2>3. ASSUME ~crossed PROVE Progress' /\ Whole'
    <3>1. Busy(t) BY <2>1 DEF Busy, Inside
    <3>2. \A u \in Threads \ {t} : Advances(u)'
      BY <1>1, <2>1, <2>3, <3>1, ReadersAdvance
    <3>3. op'[t] = "remove" BY <1>1, <2>1 DEF Placed
    <3>4. Advances(t)' BY <2>1, <3>3 DEF Advances
    <3>5. Whole' BY <1>3, <2>1, <2>3 DEF Whole
    <3> QED BY <3>2, <3>4, <3>5 DEF Progress
  <2> QED BY <2>2, <2>3 DEF Filed
<1>13. CASE Quiet(t) BY <1>1, <1>13, QuietStep
<1> QED BY <1>5, <1>6, <1>7, <1>8, <1>9, <1>10, <1>11, <1>12, <1>13, RunsQuiet

LEMMA FilesStep == IInv /\ [Next]_vars => Named' /\ (~crossed' => Progress' /\ Whole')
<1> SUFFICES ASSUME IInv, [Next]_vars PROVE Named' /\ (~crossed' => Progress' /\ Whole')
  OBVIOUS
<1>1. CASE UNCHANGED vars
  <2>1. Named' BY <1>1 DEF vars, IInv, Named
  <2>2. ~crossed' => Progress' /\ Whole'
    BY <1>1 DEF vars, IInv, Progress, Advances, Whole
  <2> QED BY <2>1, <2>2
<1>2. CASE Next
  <2>1. ~crossed' => ~crossed BY <1>2 DEF Next
  <2>2. TypeOK /\ Named /\ (~crossed => Progress /\ Whole) BY DEF IInv
  <2>3. ASSUME NEW t \in Threads, Runs(t) PROVE Filed BY <2>3, RunsFiled
  <2>4. ASSUME NEW t \in Threads, NEW o \in Operations, NEW v \in Values \cup {NoValue},
               Begins(t, o, v)
        PROVE  Filed
    <3>1. \A u \in Threads \ {t} : /\ pc'[u] = pc[u] /\ op'[u] = op[u] /\ val'[u] = val[u]
                                   /\ res'[u] = res[u]
      BY <2>2, <2>4 DEF Begins, Result, TypeOK
    <3>2. UNCHANGED <<temp, final, data, disk, names, wfd, cand>> BY <2>4 DEF Begins
    <3>3. pc'[t] \in {"stat", "opendir", "acquire"} BY <2>2, <2>4 DEF Begins, TypeOK
    <3>4. Others(t) /\ Quiet(t) BY <3>1, <3>2, <3>3 DEF Others, Kept, Quiet
    <3> QED BY <3>4, QuietStep
  <2>5. ASSUME NEW p \in Procs, Opens(p) PROVE Filed
    <3>1. Named' BY <2>2, <2>5 DEF Opens, Named
    <3>2. ~crossed => Progress' /\ Whole'
      BY <2>2, <2>5 DEF Opens, Progress, Advances, Whole
    <3> QED BY <3>1, <3>2 DEF Filed
  <2>6. ASSUME NEW p \in Procs, Killed(p) PROVE Filed
    <3>1. \A u \in Threads : \/ pc'[u] = "idle"
                             \/ /\ pc'[u] = pc[u] /\ op'[u] = op[u] /\ val'[u] = val[u]
                                /\ wfd'[u] = wfd[u] /\ res'[u] = res[u]
      BY <2>6 DEF Killed, Stop
    <3>2. UNCHANGED <<temp, final, data, disk, names>> BY <2>6 DEF Killed
    <3>3. Named' BY <2>2, <3>1, <3>2 DEF Named
    <3>4. ~crossed => Progress' /\ Whole'
      BY <2>2, <3>1, <3>2 DEF Progress, Advances, Whole
    <3> QED BY <3>3, <3>4 DEF Filed
  <2>7. ASSUME PowerFails PROVE Filed
    <3>1. \A u \in Threads : pc'[u] = "idle"
      <4>1. \A u \in Threads : ProcOf[u] \in Procs
        <5>1. ProcOf \in [Threads -> Procs] BY <2>2, StoreConstants DEF TypeOK
        <5> QED BY <5>1
      <4> QED BY <2>7, <4>1 DEF PowerFails, Stop
    <3>2. PICK n \in names : final' = n /\ names' = {n} BY <2>7 DEF PowerFails
    <3>3. temp' \in {temp, None} BY <2>7 DEF PowerFails
    <3>4. Named' BY <2>2, <3>1, <3>2, <3>3 DEF Named
    <3>5. \A i \in Inodes : data'[i] \in {data[i], disk[i]} /\ disk'[i] = data'[i]
      BY <2>7 DEF PowerFails
    <3>6. ~crossed => Progress' /\ Whole'
      BY <2>2, <3>1, <3>2, <3>5, ZenonT(60) DEF TypeOK, Progress, Advances, Whole
    <3> QED BY <3>4, <3>6 DEF Filed
  <2>8. Filed BY <1>2, <2>3, <2>4, <2>5, <2>6, <2>7 DEF Next
  <2> QED BY <2>1, <2>8 DEF Filed
<1> QED BY <1>1, <1>2

\* What calls have returned.
LEMMA ReturnedStep == IInv /\ [Next]_vars /\ ~crossed' => Returned'
<1> SUFFICES ASSUME IInv, [Next]_vars, ~crossed' PROVE Returned' OBVIOUS
<1>1. CASE UNCHANGED vars BY <1>1 DEF vars, IInv, Returned
<1>2. CASE Next
  <2>1. ~crossed BY <1>2 DEF Next
  <2>2. TypeOK /\ Control /\ Progress /\ Returned BY <2>1 DEF IInv
  <2>3. \A r \in {"none", "ok", "failed", "lock failed", "not found"} :
          r \notin {Empty, Torn}
    BY DEF Empty, Torn
  <2>4. ASSUME NEW t \in Threads, NEW r, r \notin {Empty, Torn}, Result(t, r) PROVE Returned'
    BY <2>2, <2>4 DEF Result, TypeOK, Returned
  <2>5. ASSUME NEW t \in Threads, Runs(t) PROVE Returned'
    <3>1. CASE Reads(t)
      <4>1. data[wfd[t]] \in Values /\ Result(t, data[wfd[t]])
        BY <2>2, <3>1 DEF Reads, Goto, Progress, Advances
      <4> QED BY <2>4, <4>1, StoreConstants
    <3>2. CASE LockTimesOut(t) \/ OpenFails(t) \/ WriteFails(t) \/ SyncOrRenameFails(t)
      BY <2>3, <2>4, <3>2 DEF LockTimesOut, OpenFails, WriteFails, SyncOrRenameFails
    <3>3. CASE DirSyncs(t) \/ DirSyncFails(t) \/ Deletes(t)
      BY <2>3, <2>4, <3>3 DEF DirSyncs, DirSyncFails, Deletes
    <3>4. CASE Stats(t) \/ Fopens(t)
      BY <2>2, <2>3, <2>4, <3>4 DEF Stats, Fopens, Returned
    <3>5. CASE ~(\/ Reads(t) \/ LockTimesOut(t) \/ OpenFails(t) \/ WriteFails(t)
                 \/ SyncOrRenameFails(t) \/ DirSyncs(t) \/ DirSyncFails(t) \/ Deletes(t)
                 \/ Stats(t) \/ Fopens(t))
      <4>1. UNCHANGED res
        BY <2>5, <3>5 DEF Runs, Opendirs, Rmdirs, CleanupUnlinks, AcquireShared,
           AcquireBegins, LockOpens, LockTaken, LockBusy, Truncates, Writes, Syncs,
           Renames, ReleaseUnlocks, ReleaseUnlinks
      <4> QED BY <2>2, <4>1 DEF Returned
    <3> QED BY <3>1, <3>2, <3>3, <3>4, <3>5
  <2>6. ASSUME NEW t \in Threads, NEW o \in Operations, NEW v \in Values \cup {NoValue},
               Begins(t, o, v)
        PROVE  Returned'
    BY <2>3, <2>4, <2>6 DEF Begins
  <2>7. ASSUME NEW p \in Procs, Opens(p) PROVE Returned'
    BY <2>2, <2>7 DEF Opens, Returned
  <2>8. ASSUME NEW P \in SUBSET Procs, Stop(P) PROVE Returned'
    BY <2>2, <2>3, <2>8 DEF Stop, Returned
  <2> QED BY <1>2, <2>5, <2>6, <2>7, <2>8 DEF Next, Killed, PowerFails
<1> QED BY <1>1, <1>2
-----------------------------------------------------------------------------
(* The theorems                                                            *)

LEMMA InitIInv == Init => IInv
<1> SUFFICES ASSUME Init PROVE IInv OBVIOUS
<1>1. TypeOK
  <2>1. 0 \in 0..MaxOps /\ 0 \in 0..MaxFaults BY StoreConstants
  <2> QED BY <2>1 DEF Init, TypeOK, Contents
<1>2. \A t \in Threads : pc[t] = "idle" /\ op[t] = "none" /\ res[t] = "none"
  BY DEF Init
<1>3. Control BY <1>2 DEF Control, Placed
<1>4. Guarded BY <1>2 DEF Init, Guarded
<1>5. Named BY <1>2 DEF Init, Named
<1>6. Exclusive BY <1>2 DEF Exclusive, Busy, Inside
<1>7. Progress BY <1>2 DEF Progress, Advances
<1>8. Whole BY DEF Init, Whole
<1>9. Returned BY <1>2 DEF Returned, Empty, Torn
<1> QED BY <1>1, <1>3, <1>4, <1>5, <1>6, <1>7, <1>8, <1>9 DEF IInv

LEMMA Inductive == IInv /\ [Next]_vars => IInv'
BY TypeStep, ControlStep, GuardedStep, ExclusiveStep, FilesStep, ReturnedStep DEF IInv

\* The variables of the store keep their types.
THEOREM TypeCorrect == Spec => []TypeOK
<1>1. IInv => TypeOK BY DEF IInv
<1> QED BY <1>1, InitIInv, Inductive, PTL DEF Spec

\* FileLock keeps two writers apart, whatever processes are killed and whenever
\* the lock file is unlinked, until one of the ways of Crosses is taken.
THEOREM LockExcludesWriters == Spec => []LockExcludes
<1>1. IInv => LockExcludes BY DEF IInv, Exclusive, LockExcludes, Busy
<1> QED BY <1>1, InitIInv, Inductive, PTL DEF Spec

\* What AtomicWriter::write has reported as saved survives a power loss.
THEOREM SavesAreDurable == Spec => []SavedIsDurable
<1>1. IInv => SavedIsDurable
  BY DEF IInv, Progress, Advances, SavedIsDurable, OnDisk
<1> QED BY <1>1, InitIInv, Inductive, PTL DEF Spec

\* Store::load returns no part of a value, although it takes no lock.
THEOREM ReadsAreWhole == Spec => []ReadersSeeWholeValues
<1>1. IInv => ReadersSeeWholeValues BY DEF IInv, Returned, ReadersSeeWholeValues
<1> QED BY <1>1, InitIInv, Inductive, PTL DEF Spec
-----------------------------------------------------------------------------
(* The register                                                            *)

Stable == {OnDisk(n) : n \in names}

\* A step of a file system that leaves the named files alone is no step of the
\* register.
LEMMA Unseen ==
  ASSUME IInv, UNCHANGED <<final, names>>,
         \A n \in names : n # None => data'[n] = data[n] /\ disk'[n] = disk[n]
  PROVE  UNCHANGED <<Visible, Stable>>
<1>1. \A n \in names : OnDisk(n)' = OnDisk(n) BY DEF OnDisk
<1>2. Stable' = Stable BY <1>1 DEF Stable
<1>3. Visible' = Visible BY DEF IInv, Named, Visible
<1> QED BY <1>2, <1>3

\* While the lock excludes, each step of a thread is one of the register.
LEMMA RunsRegister ==
  ASSUME IInv, ~crossed, NEW t \in Threads, Runs(t)
  PROVE  UNCHANGED <<Visible, Stable>> \/ Register!Kept
<1> USE DEF Register!Kept, Register!Put, Register!Sync, Stable
<1>1. TypeOK /\ Named /\ Placed(t) /\ Advances(t) /\ Whole /\ None \notin Inodes
  BY StoreConstants DEF IInv, Control, Progress
<1>2. CASE Quiet(t)
  BY <1>2, Unseen DEF Quiet
<1>3. ASSUME NEW n \in {"key", "temp", "lock"}, CleanupUnlinks(t, n)
      PROVE  UNCHANGED <<Visible, Stable>> \/ Register!Kept
  <2>1. CASE n = "key"
    <3>1. final' = None /\ names' = names \cup {None} /\ UNCHANGED disk
      BY <1>3, <2>1 DEF CleanupUnlinks
    <3>2. Visible' = NoValue BY <3>1 DEF Visible
    <3>3. Stable' = Stable \cup {NoValue} BY <3>1 DEF OnDisk
    <3> QED BY <3>2, <3>3
  <2>2. CASE n # "key"
    <3>1. UNCHANGED <<final, names, data, disk>> BY <1>3, <2>2 DEF CleanupUnlinks
    <3> QED BY <3>1, Unseen
  <2> QED BY <2>1, <2>2
<1>4. CASE Truncates(t)
  <2> PICK i \in Inodes : /\ IF temp = None THEN IsFirst(i, FreeInodes) ELSE i = temp
                          /\ data' = [data EXCEPT ![i] = Empty]
                          /\ disk' = [disk EXCEPT ![i] = Torn]
    BY <1>4 DEF Truncates
  <2>1. i \notin names BY <1>1 DEF Named, IsFirst, FreeInodes
  <2>2. UNCHANGED <<final, names>> BY <1>4 DEF Truncates
  <2>3. \A n \in names : n # None => data'[n] = data[n] /\ disk'[n] = disk[n]
    BY <1>1, <2>1 DEF TypeOK
  <2> QED BY <2>2, <2>3, Unseen
<1>5. CASE Writes(t) \/ WriteFails(t)
  <2>1. temp # None /\ wfd[t] = temp BY <1>1, <1>5 DEF Writes, WriteFails, Goto, Advances
  <2>2. PICK c : /\ data' = [data EXCEPT ![temp] = c]
                 /\ disk' = [disk EXCEPT ![temp] = Torn]
    BY <1>5, <2>1 DEF Writes, WriteFails
  <2>3. UNCHANGED <<final, names>> BY <1>5 DEF Writes, WriteFails
  <2>4. \A n \in names : n # None => data'[n] = data[n] /\ disk'[n] = disk[n]
    BY <1>1, <2>1, <2>2 DEF TypeOK, Named
  <2> QED BY <2>3, <2>4, Unseen
<1>6. CASE Syncs(t)
  <2>1. /\ temp # None /\ disk' = [disk EXCEPT ![temp] = data[temp]]
        /\ UNCHANGED <<final, names, data>>
    BY <1>6 DEF Syncs
  <2>2. \A n \in names : n # None => disk'[n] = disk[n]
    BY <1>1, <2>1 DEF TypeOK, Named
  <2> QED BY <2>1, <2>2, Unseen
<1>7. CASE Renames(t)
  <2>1. /\ final' = temp /\ names' = names \cup {temp} /\ temp # None
        /\ UNCHANGED <<data, disk>>
    BY <1>7 DEF Renames
  <2>2. data[temp] = val[t] /\ disk[temp] = val[t] /\ val[t] \in Values
    BY <1>1, <1>7 DEF Renames, Goto, Advances, Placed
  <2>3. Visible' = val[t] BY <2>1, <2>2 DEF Visible
  <2>4. Stable' = Stable \cup {val[t]} BY <2>1, <2>2 DEF OnDisk
  <2> QED BY <2>2, <2>3, <2>4
<1>8. CASE SyncOrRenameFails(t)
  <2>1. UNCHANGED <<final, names, data, disk>> BY <1>8 DEF SyncOrRenameFails
  <2> QED BY <2>1, Unseen
<1>9. CASE DirSyncs(t)
  <2>1. names' = {final} /\ UNCHANGED <<final, data, disk>> BY <1>9 DEF DirSyncs
  <2>2. Visible' = Visible BY <2>1 DEF Visible
  <2>3. OnDisk(final) = Visible BY <1>1 DEF Named, Whole, OnDisk, Visible
  <2>4. Stable' = {Visible'} BY <2>1, <2>2, <2>3 DEF OnDisk
  <2> QED BY <2>2, <2>4
<1>10. CASE Deletes(t)
  <2>1. final' = None /\ names' = names \cup {None} /\ UNCHANGED disk BY <1>10 DEF Deletes
  <2>2. Visible' = NoValue BY <2>1 DEF Visible
  <2>3. Stable' = Stable \cup {NoValue} BY <2>1 DEF OnDisk
  <2> QED BY <2>2, <2>3
<1> QED BY <1>2, <1>3, <1>4, <1>5, <1>6, <1>7, <1>8, <1>9, <1>10, RunsQuiet

LEMMA PowerFailsRegister == ASSUME IInv, ~crossed, PowerFails PROVE Register!Kept
<1> USE DEF Stable
<1>1. TypeOK /\ Whole BY DEF IInv
<1>2. PICK n \in names : final' = n /\ names' = {n} BY DEF PowerFails
<1>3. \A i \in Inodes : data'[i] \in {data[i], disk[i]} /\ disk'[i] = data'[i]
  BY DEF PowerFails
<1>4. n # None => data'[n] = disk[n] /\ disk'[n] = disk[n]
  BY <1>1, <1>2, <1>3 DEF TypeOK, Whole
<1>5. Visible' = OnDisk(n) BY <1>2, <1>4 DEF Visible, OnDisk
<1>6. OnDisk(n)' = OnDisk(n) BY <1>4 DEF OnDisk
<1>7. Stable' = {OnDisk(n)} BY <1>2, <1>6
<1> QED BY <1>5, <1>7 DEF Register!Kept, Register!PowerLoss

\* Until two writers have been let in at once, the sequence of AtomicWriter and
\* the recovery from a power loss implement a register: a value is replaced in
\* one step, and a power loss takes back none that was made stable.
THEOREM ImplementsRegister == Spec => RegisterSpec
<1>1. Init => Register!Init
  <2> SUFFICES ASSUME Init PROVE Register!Init OBVIOUS
  <2>1. final = None /\ names = {None} /\ crossed = FALSE BY DEF Init
  <2>2. Visible = NoValue BY <2>1 DEF Visible
  <2>3. {OnDisk(n) : n \in names} = {NoValue} BY <2>1 DEF OnDisk
  <2> QED BY <2>1, <2>2, <2>3 DEF Register!Init
<1>2. IInv /\ [Next]_vars => [Register!Next]_<<Visible, Stable, crossed>>
  <2> SUFFICES ASSUME IInv, [Next]_vars
               PROVE  Register!Next \/ UNCHANGED <<Visible, Stable, crossed>>
    OBVIOUS
  <2>1. CASE UNCHANGED vars
    BY <2>1 DEF vars, Visible, Stable, OnDisk
  <2>2. CASE Next /\ crossed' BY <2>2, TypeStep DEF TypeOK, Register!Next
  <2>3. CASE Next /\ ~crossed'
    <3>1. crossed' = crossed /\ ~crossed BY <2>3, TypeStep DEF Next, IInv, TypeOK
    <3>2. ASSUME NEW t \in Threads, Runs(t)
          PROVE  UNCHANGED <<Visible, Stable>> \/ Register!Kept
      BY <3>1, <3>2, RunsRegister
    <3>3. ASSUME NEW t \in Threads, NEW o \in Operations, NEW v \in Values \cup {NoValue},
                 Begins(t, o, v)
          PROVE  UNCHANGED <<Visible, Stable>>
      BY <3>3, Unseen DEF Begins
    <3>4. ASSUME NEW p \in Procs, Opens(p) \/ Killed(p)
          PROVE  UNCHANGED <<Visible, Stable>>
      BY <3>4, Unseen DEF Opens, Killed
    <3>5. CASE PowerFails BY <3>1, <3>5, PowerFailsRegister DEF Register!Next
    <3> QED BY <2>3, <3>1, <3>2, <3>3, <3>4, <3>5 DEF Next, Register!Next
  <2> QED BY <2>1, <2>2, <2>3
<1> QED BY <1>1, <1>2, InitIInv, Inductive, PTL
        DEF Spec, RegisterSpec, Register!Spec, Stable
=============================================================================

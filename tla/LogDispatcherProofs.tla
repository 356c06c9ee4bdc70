------------------------ MODULE LogDispatcherProofs ------------------------
(***************************************************************************)
(* Safety of the way of a record to the sinks, for any number of threads   *)
(* that log, flush and shut down, any queue and batch size, and any number *)
(* of calls of init().                                                     *)
(***************************************************************************)
EXTENDS LogDispatcher, SequenceTheorems, TLAPS

USE DEF regVars, workVars, logVars, endVars

\* Who is in shutdown() holds the registry's mutex.
Holds == \A s \in Stoppers : spc[s] \notin {"idle", "done"} <=> regLock = s

\* The dispatcher runs from init() to the exchange of stop(), and is there.
Up ==
  /\ running => async /\ initialized
  /\ initialized /\ regLock = NoOne => running = async
  /\ \A s \in Stoppers : spc[s] \in {"join", "drain", "reset"} => ~running

\* The worker holds a batch only while it writes, and is gone when stop() has
\* joined it.
Stopping == \E s \in Stoppers : spc[s] = "join"
Gone == wpc \in {"none", "exited"}
Working ==
  /\ wpc # "write" => batch = <<>>
  /\ ~running /\ ~Stopping => Gone

\* Nothing has been decided about a record that is still to be logged, and a
\* thread sleeps only for the queue of a dispatcher.
Numbered ==
  /\ \A r \in Records : r[2] > line[r[1]] => fate[r] = "new"
  /\ \A t \in Threads : pc[t] # "idle" => line[t] < Lines
Sleeping ==
  /\ \A t \in Threads \cup Flushers : keeps[t] <= gen
  /\ \A t \in Threads : pc[t] = "sleep" /\ keeps[t] = gen => async

\* A record that was accepted is queued, with the worker or written; and
\* written once stop() has drained the queue.
Kept == Queued \subseteq Elems(out) \cup Elems(batch) \cup Elems(queue)
Settled ==
  ~running /\ (\A s \in Stoppers : spc[s] \notin {"join", "drain"})
    => Queued \subseteq Elems(out)

\* What a shutdown() or flush() waits for, and has seen written.
Goals == \A x \in Stoppers \cup Flushers : goal[x] \subseteq Queued
Returned ==
  /\ \A s \in Stoppers : spc[s] \in {"reset", "done"} => goal[s] \subseteq Elems(out)
  /\ \A f \in Flushers : fpc[f] = "done" => goal[f] \subseteq Elems(out) \cup Elems(batch)

IInv ==
  /\ TypeOK /\ Holds /\ Up /\ Working /\ Fifo /\ Numbered /\ Sleeping
  /\ Kept /\ Settled /\ Goals /\ Returned
-----------------------------------------------------------------------------
(* Sequences of records                                                    *)

LEMMA Associative ==
  ASSUME NEW a \in Seq(Records), NEW b \in Seq(Records), NEW c \in Seq(Records)
  PROVE  (a \o b) \o c = a \o (b \o c)
BY ConcatAssociative

LEMMA ElemsEmpty == Elems(<<>>) = {}
BY DEF Elems

LEMMA ElemsAppend ==
  ASSUME NEW q \in Seq(Records), NEW r \in Records
  PROVE  Append(q, r) \in Seq(Records) /\ Elems(Append(q, r)) = Elems(q) \cup {r}
<1>1. /\ Append(q, r) \in Seq(Records) /\ Len(q) \in Nat
      /\ DOMAIN q = 1..Len(q) /\ DOMAIN Append(q, r) = 1..(Len(q) + 1)
      /\ \A i \in 1..Len(q) : Append(q, r)[i] = q[i]
      /\ Append(q, r)[Len(q) + 1] = r
  BY AppendProperties, LenProperties
<1>2. Elems(Append(q, r)) \subseteq Elems(q) \cup {r} BY <1>1 DEF Elems
<1>3. Elems(q) \cup {r} \subseteq Elems(Append(q, r))
  <2>1. r \in Elems(Append(q, r)) BY <1>1 DEF Elems
  <2>2. ASSUME NEW i \in DOMAIN q PROVE q[i] \in Elems(Append(q, r))
    <3>1. i \in DOMAIN Append(q, r) /\ Append(q, r)[i] = q[i] BY <1>1
    <3> QED BY <3>1 DEF Elems
  <2> QED BY <2>1, <2>2 DEF Elems
<1> QED BY <1>1, <1>2, <1>3

LEMMA ElemsHead ==
  ASSUME NEW q \in Seq(Records), q # <<>>
  PROVE  /\ Head(q) \in Records /\ Tail(q) \in Seq(Records)
         /\ Elems(q) = {Head(q)} \cup Elems(Tail(q))
<1>1. /\ Head(q) \in Records /\ Tail(q) \in Seq(Records) /\ Head(q) = q[1]
      /\ Len(q) \in Nat \ {0} /\ DOMAIN q = 1..Len(q) /\ DOMAIN Tail(q) = 1..(Len(q) - 1)
      /\ \A i \in 1..(Len(q) - 1) : Tail(q)[i] = q[i + 1]
  BY HeadTailProperties, LenProperties, EmptySeq
<1>2. \A i \in 1..Len(q) : i = 1 \/ (i - 1 \in 1..(Len(q) - 1) /\ Tail(q)[i - 1] = q[i])
  BY <1>1
<1>3. Elems(q) \subseteq {Head(q)} \cup Elems(Tail(q))
  <2> SUFFICES ASSUME NEW i \in 1..Len(q) PROVE q[i] \in {Head(q)} \cup Elems(Tail(q))
    BY <1>1 DEF Elems
  <2>1. CASE i = 1 BY <1>1, <2>1
  <2>2. CASE i # 1
    <3>1. i - 1 \in DOMAIN Tail(q) /\ Tail(q)[i - 1] = q[i] BY <1>1, <1>2, <2>2
    <3> QED BY <3>1 DEF Elems
  <2> QED BY <2>1, <2>2
<1>4. {Head(q)} \cup Elems(Tail(q)) \subseteq Elems(q)
  <2>1. Head(q) \in Elems(q) BY <1>1 DEF Elems
  <2>2. ASSUME NEW i \in DOMAIN Tail(q) PROVE Tail(q)[i] \in Elems(q)
    <3>1. i + 1 \in DOMAIN q /\ Tail(q)[i] = q[i + 1] BY <1>1
    <3> QED BY <3>1 DEF Elems
  <2> QED BY <2>1, <2>2 DEF Elems
<1> QED BY <1>1, <1>3, <1>4

\* Head by head, a sequence goes behind another.
LEMMA MoveHead ==
  ASSUME NEW p \in Seq(Records), NEW q \in Seq(Records), q # <<>>
  PROVE  /\ Append(p, Head(q)) \in Seq(Records) /\ Append(p, Head(q)) \o Tail(q) = p \o q
         /\ Elems(Append(p, Head(q))) = Elems(p) \cup {Head(q)}
<1>1. Head(q) \in Records /\ Tail(q) \in Seq(Records) BY ElemsHead
<1>2. Append(p, Head(q)) = p \o <<Head(q)>> BY <1>1, AppendIsConcat
<1>3. q = <<Head(q)>> \o Tail(q)
  <2>1. /\ Len(q) \in Nat \ {0} /\ Head(q) = q[1] /\ Len(Tail(q)) = Len(q) - 1
        /\ \A i \in 1..(Len(q) - 1) : Tail(q)[i] = q[i + 1]
    BY HeadTailProperties, EmptySeq
  <2>2. <<Head(q)>> \in Seq(Records) /\ Len(<<Head(q)>>) = 1 /\ <<Head(q)>>[1] = Head(q)
    BY <1>1
  <2>3. /\ <<Head(q)>> \o Tail(q) \in Seq(Records)
        /\ Len(<<Head(q)>> \o Tail(q)) = Len(q)
        /\ \A i \in 1..Len(q) : (<<Head(q)>> \o Tail(q))[i]
                                = IF i <= 1 THEN <<Head(q)>>[i] ELSE Tail(q)[i - 1]
    BY <1>1, <2>1, <2>2, ConcatProperties
  <2>4. ASSUME NEW i \in 1..Len(q) PROVE (<<Head(q)>> \o Tail(q))[i] = q[i]
    <3>1. CASE i = 1 BY <2>1, <2>2, <2>3, <3>1
    <3>2. CASE i # 1
      <4>1. i - 1 \in 1..(Len(q) - 1) /\ ~(i <= 1) /\ (i - 1) + 1 = i BY <2>1, <3>2
      <4> QED BY <2>1, <2>3, <4>1
    <3> QED BY <3>1, <3>2
  <2> QED BY <2>3, <2>4, SeqEqual
<1>4. (p \o <<Head(q)>>) \o Tail(q) = p \o (<<Head(q)>> \o Tail(q))
  BY <1>1, ConcatAssociative
<1> QED BY <1>1, <1>2, <1>3, <1>4, ElemsAppend

\* A batch is the front of the queue.
LEMMA Split ==
  ASSUME NEW q \in Seq(Records), NEW n \in 0..Len(q)
  PROVE  /\ SubSeq(q, 1, n) \in Seq(Records) /\ SubSeq(q, n + 1, Len(q)) \in Seq(Records)
         /\ SubSeq(q, 1, n) \o SubSeq(q, n + 1, Len(q)) = q
         /\ Elems(q) = Elems(SubSeq(q, 1, n)) \cup Elems(SubSeq(q, n + 1, Len(q)))
<1>1. Len(q) \in Nat /\ DOMAIN q = 1..Len(q) /\ \A i \in 1..Len(q) : q[i] \in Records
  BY LenProperties, ElementOfSeq
<1>2. /\ SubSeq(q, 1, n) \in Seq(Records) /\ Len(SubSeq(q, 1, n)) = n
      /\ DOMAIN SubSeq(q, 1, n) = 1..n
      /\ \A i \in 1..n : SubSeq(q, 1, n)[i] = q[i]
  <2>1. n \in Int /\ \A i \in 1..n : q[i] \in Records BY <1>1
  <2>2. /\ SubSeq(q, 1, n) \in Seq(Records)
        /\ Len(SubSeq(q, 1, n)) = IF 1 <= n THEN n - 1 + 1 ELSE 0
        /\ \A i \in 1..(n - 1 + 1) : SubSeq(q, 1, n)[i] = q[1 + i - 1]
    BY <2>1, SubSeqProperties
  <2> QED BY <1>1, <2>2, LenProperties
<1>3. /\ SubSeq(q, n + 1, Len(q)) \in Seq(Records)
      /\ DOMAIN SubSeq(q, n + 1, Len(q)) = 1..(Len(q) - n)
      /\ \A i \in 1..(Len(q) - n) : SubSeq(q, n + 1, Len(q))[i] = q[n + i]
  <2>1. n + 1 \in Int /\ Len(q) \in Int /\ \A i \in (n + 1)..Len(q) : q[i] \in Records
    BY <1>1
  <2>2. /\ SubSeq(q, n + 1, Len(q)) \in Seq(Records)
        /\ Len(SubSeq(q, n + 1, Len(q)))
             = IF n + 1 <= Len(q) THEN Len(q) - (n + 1) + 1 ELSE 0
        /\ \A i \in 1..(Len(q) - (n + 1) + 1) : SubSeq(q, n + 1, Len(q))[i] = q[n + 1 + i - 1]
    BY <2>1, SubSeqProperties
  <2> QED BY <1>1, <2>2, LenProperties
<1>4. SubSeq(q, 1, n) \o SubSeq(q, n + 1, Len(q)) = q
  <2>1. 1 \in 1..(Len(q) + 1) /\ n \in (1 - 1)..Len(q) /\ Len(q) \in n..Len(q) BY <1>1
  <2> QED BY <2>1, ConcatAdjacentSubSeq, SubSeqFull
<1>5. Elems(q) \subseteq Elems(SubSeq(q, 1, n)) \cup Elems(SubSeq(q, n + 1, Len(q)))
  <2> SUFFICES ASSUME NEW i \in 1..Len(q)
               PROVE  q[i] \in Elems(SubSeq(q, 1, n)) \cup Elems(SubSeq(q, n + 1, Len(q)))
    BY <1>1 DEF Elems
  <2>1. CASE i <= n
    <3>1. i \in 1..n /\ SubSeq(q, 1, n)[i] = q[i] BY <1>2, <2>1
    <3> QED BY <1>2, <3>1 DEF Elems
  <2>2. CASE ~(i <= n)
    <3>1. i - n \in 1..(Len(q) - n) /\ SubSeq(q, n + 1, Len(q))[i - n] = q[i]
      BY <1>1, <1>3, <2>2
    <3> QED BY <1>3, <3>1 DEF Elems
  <2> QED BY <2>1, <2>2
<1>6. Elems(SubSeq(q, 1, n)) \subseteq Elems(q)
  <2>1. \A i \in 1..n : i \in 1..Len(q) BY <1>1
  <2> QED BY <1>1, <1>2, <2>1 DEF Elems
<1>7. Elems(SubSeq(q, n + 1, Len(q))) \subseteq Elems(q)
  <2>1. \A i \in 1..(Len(q) - n) : n + i \in 1..Len(q) BY <1>1
  <2> QED BY <1>1, <1>3, <2>1 DEF Elems
<1> QED BY <1>2, <1>3, <1>4, <1>5, <1>6, <1>7

\* A record that comes behind the queue is the last of what is to be written.
LEMMA PushLast ==
  ASSUME NEW a \in Seq(Records), NEW b \in Seq(Records), NEW q \in Seq(Records),
         NEW r \in Records
  PROVE  a \o b \o Append(q, r) = Append(a \o b \o q, r)
<1>1. a \o b \in Seq(Records) /\ a \o b \o q \in Seq(Records) /\ <<r>> \in Seq(Records)
  BY ConcatProperties
<1>2. Append(q, r) = q \o <<r>> /\ Append(a \o b \o q, r) = (a \o b \o q) \o <<r>>
  BY <1>1, AppendIsConcat
<1> QED BY <1>1, <1>2, ConcatAssociative
-----------------------------------------------------------------------------
(* The steps by actor                                                      *)

Logging == \E t \in Threads : Logs(t) \/ LogsStale(t)
Shutting == \E s \in Stoppers : ShutdownBegins(s) \/ Shuts(s)
Flushing == \E f \in Flushers : FlushBegins(f) \/ FlushReturns(f) \/ FlushTimesOut(f)

LEMMA Actors ==
  ASSUME [Next]_vars
  PROVE  \/ ~Stale /\ (Inits \/ Worker \/ Logging \/ Shutting \/ Flushing)
         \/ UNCHANGED vars
BY DEF Next, Logging, Shutting, Flushing

LEMMA LoggingFrame ==
  ASSUME Logging
  PROVE  UNCHANGED <<initialized, gen, async, regLock, running, qlock, wpc, batch, out, spc,
                     fpc, goal>>
BY DEF Logging, Logs, Gets, LogBegins, BridgeBegins, Enqueues, Overflows, WritesDirectly,
       Retries, Drops, LogsStale

LEMMA FlushingFrame ==
  ASSUME Flushing
  PROVE  UNCHANGED <<initialized, gen, async, regLock, running, queue, qlock, wpc, batch, out,
                     pc, line, fate, order, direct, stderr, spc>>
BY DEF Flushing, FlushBegins, FlushReturns, FlushTimesOut, Flushes

LEMMA ShuttingFrame ==
  ASSUME Shutting
  PROVE  UNCHANGED <<gen, async, wpc, batch, pc, line, fate, order, direct, stderr, keeps, fpc>>
BY DEF Shutting, Shuts, ShutdownBegins, StopExchanges, StopJoins, StopDrains, ShutdownReturns

LEMMA WorkerFrame ==
  ASSUME Worker
  PROVE  UNCHANGED <<initialized, gen, async, regLock, running, qlock, pc, line, fate, order,
                     direct, stderr, keeps, spc, fpc, goal>>
BY DEF Worker, WorkerTests, WorkerTakes, WorkerWrites

\* A record is finished once, before its thread goes on to the next.
LEMMA Finishing ==
  ASSUME TypeOK, Numbered, NEW t \in Threads, line[t] < Lines, NEW f, Finish(t, f)
  PROVE  /\ Rec(t) \in Records /\ Rec(t) \notin Queued
         /\ Queued' = IF f = "queued" THEN Queued \cup {Rec(t)} ELSE Queued
         /\ Numbered' /\ line' \in [Threads -> 0..Lines]
<1> USE DispatcherConstants
<1>0. /\ line \in [Threads -> 0..Lines] /\ line[t] \in 0..Lines
      /\ fate \in [Records -> {"new", "queued", "direct", "stderr", "dropped", "late"}]
      /\ pc \in [Threads -> {"idle", "submit", "direct", "sleep"}]
  BY DEF TypeOK
<1>1. Rec(t) \in Records /\ Rec(t)[1] = t /\ Rec(t)[2] = line[t] + 1
  BY <1>0 DEF Rec, Records
<1>2. fate[Rec(t)] = "new"
  <2>1. Rec(t)[2] > line[Rec(t)[1]] BY <1>0, <1>1
  <2> QED BY <1>1, <2>1 DEF Numbered
<1>3. Rec(t) \notin Queued BY <1>2 DEF Queued
<1>4. /\ fate'[Rec(t)] = f
      /\ \A r \in Records : r # Rec(t) => fate'[r] = fate[r]
  BY <1>0, <1>1 DEF Finish
<1>5. Queued' = IF f = "queued" THEN Queued \cup {Rec(t)} ELSE Queued
  BY <1>1, <1>3, <1>4 DEF Queued
<1>6. line' = [line EXCEPT ![t] = line[t] + 1] /\ pc' = [pc EXCEPT ![t] = "idle"]
  BY DEF Finish
<1>7. line' \in [Threads -> 0..Lines]
  <2>1. line[t] + 1 \in 0..Lines BY <1>0
  <2> QED BY <1>0, <1>6, <2>1
<1>8. Numbered'
  <2>1. ASSUME NEW r \in Records, r[2] > line'[r[1]] PROVE fate'[r] = "new"
    <3>0. r[1] \in Threads /\ r[2] \in 1..Lines /\ r = <<r[1], r[2]>> BY DEF Records
    <3>1. r # Rec(t) /\ r[2] > line[r[1]]
      <4>1. CASE r[1] = t
        <5>1. line'[t] = line[t] + 1 BY <1>0, <1>6
        <5> QED BY <1>0, <1>1, <2>1, <3>0, <4>1, <5>1
      <4>2. CASE r[1] # t
        <5>1. line'[r[1]] = line[r[1]] BY <1>0, <1>6, <3>0, <4>2
        <5> QED BY <1>1, <2>1, <4>2, <5>1
      <4> QED BY <4>1, <4>2
    <3> QED BY <1>4, <3>1 DEF Numbered
  <2>2. ASSUME NEW u \in Threads, pc'[u] # "idle" PROVE line'[u] < Lines
    <3>1. u # t /\ pc'[u] = pc[u] /\ line'[u] = line[u] BY <1>0, <1>6, <2>2
    <3> QED BY <2>2, <3>1 DEF Numbered
  <2> QED BY <2>1, <2>2 DEF Numbered
<1> QED BY <1>1, <1>3, <1>5, <1>7, <1>8

\* What a thread that logs does to the queue: a record that counts as accepted
\* finds the dispatcher running.
LEMMA LogEffect ==
  ASSUME TypeOK, Up, Sleeping, Numbered, ~Stale, Logging
  PROVE  /\ Numbered' /\ line' \in [Threads -> 0..Lines]
         /\ \/ UNCHANGED <<queue, order>> /\ Queued' = Queued
            \/ \E r \in Records :
                 /\ queue' = Append(queue, r) /\ order' = Append(order, r)
                 /\ Queued' = Queued \/ (running /\ Queued' = Queued \cup {r})
<1> USE DispatcherConstants
<1> PICK t \in Threads : Logs(t) \/ LogsStale(t) BY DEF Logging
<1>0. /\ pc \in [Threads -> {"idle", "submit", "direct", "sleep"}]
      /\ line \in [Threads -> 0..Lines] /\ line[t] \in 0..Lines
  BY DEF TypeOK
<1>1. CASE UNCHANGED <<line, fate, queue, order>>
           /\ \E to \in {"idle", "submit", "direct", "sleep"} :
                /\ pc' = [pc EXCEPT ![t] = to]
                /\ to # "idle" => line[t] < Lines
  <2>1. Queued' = Queued BY <1>1 DEF Queued
  <2>2. Numbered' BY <1>0, <1>1 DEF Numbered
  <2> QED BY <1>0, <1>1, <2>1, <2>2
<1>2. CASE /\ UNCHANGED <<queue, order>> /\ line[t] < Lines
           /\ \E f \in {"stderr", "direct", "dropped"} : Finish(t, f)
  <2> PICK f \in {"stderr", "direct", "dropped"} : Finish(t, f) BY <1>2
  <2> QED BY <1>2, Finishing
<1>3. CASE /\ line[t] < Lines /\ Push(t)
           /\ UNCHANGED <<initialized, gen, async, regLock, running>> /\ async
  <2>1. Finish(t, Accepted) BY <1>3 DEF Push
  <2>2. /\ Rec(t) \in Records /\ Numbered' /\ line' \in [Threads -> 0..Lines]
        /\ Queued' = IF Accepted = "queued" THEN Queued \cup {Rec(t)} ELSE Queued
    <3> HIDE DEF Accepted
    <3> QED BY <1>3, <2>1, Finishing
  <2>3. Accepted = "queued" => running BY <1>3 DEF Accepted, Up
  <2> QED BY <1>3, <2>2, <2>3 DEF Push
<1>4. pc[t] # "idle" => line[t] < Lines BY DEF Numbered
<1>5. CASE Gets(t)
  <2>1. pc' = [pc EXCEPT ![t] = "idle"] BY <1>0, <1>5 DEF Gets
  <2> QED BY <1>1, <1>5, <2>1 DEF Gets
<1>6. CASE LogBegins(t) \/ Overflows(t) \/ LogsStale(t)
  <2>1. line[t] < Lines BY <1>4, <1>6 DEF LogBegins, Overflows, LogsStale, Goto
  <2> QED BY <1>1, <1>6, <2>1 DEF LogBegins, Overflows, LogsStale, Goto
<1>7. CASE BridgeBegins(t) BY <1>1, <1>2, <1>7 DEF BridgeBegins, Goto
<1>8. CASE Enqueues(t) BY <1>3, <1>4, <1>8 DEF Enqueues
<1>9. CASE Retries(t)
  <2>1. async BY <1>9 DEF Retries, Stale, Sleeping
  <2> QED BY <1>3, <1>4, <1>9, <2>1 DEF Retries
<1>10. CASE WritesDirectly(t) \/ Drops(t)
  <2>1. line[t] < Lines BY <1>4, <1>10 DEF WritesDirectly, Drops
  <2> QED BY <1>2, <1>10, <2>1 DEF WritesDirectly, Drops
<1> QED BY <1>5, <1>6, <1>7, <1>8, <1>9, <1>10 DEF Logs
-----------------------------------------------------------------------------
(* Types                                                                   *)

LEMMA TypeInit == Init => TypeOK
<1> USE DispatcherConstants
<1> SUFFICES ASSUME Init PROVE TypeOK OBVIOUS
<1>1. /\ queue \in Seq(Records) /\ batch \in Seq(Records)
      /\ out \in Seq(Records) /\ order \in Seq(Records)
  BY EmptySeq DEF Init
<1>2. /\ async \in BOOLEAN /\ initialized \in BOOLEAN /\ running \in BOOLEAN
      /\ wpc \in {"none", "test", "wait", "write", "exited"}
  BY DEF Init
<1>5. /\ gen \in 0..MaxInits /\ regLock \in Stoppers \cup {NoOne}
      /\ qlock \in Stoppers \cup {NoOne} /\ direct \subseteq Records /\ stderr \subseteq Records
  BY DEF Init
<1>3. /\ keeps \in [Threads \cup Flushers -> 0..MaxInits]
      /\ line \in [Threads -> 0..Lines]
      /\ goal \in [Stoppers \cup Flushers -> SUBSET Records]
  BY DEF Init
<1>4. /\ pc \in [Threads -> {"idle", "submit", "direct", "sleep"}]
      /\ fate \in [Records -> {"new", "queued", "direct", "stderr", "dropped", "late"}]
      /\ spc \in [Stoppers -> {"idle", "exchange", "join", "drain", "reset", "done"}]
      /\ fpc \in [Flushers -> {"idle", "wait", "done"}]
  BY DEF Init
<1> QED BY <1>1, <1>2, <1>3, <1>4, <1>5 DEF TypeOK

LEMMA TypeLogging ==
  ASSUME TypeOK, Up, Sleeping, Numbered, ~Stale, Logging
  PROVE  TypeOK'
<1> USE DispatcherConstants
<1>1. UNCHANGED <<initialized, gen, async, regLock, running, qlock, wpc, batch, out, spc,
                  fpc, goal>>
  BY LoggingFrame
<1>2. line' \in [Threads -> 0..Lines] /\ queue' \in Seq(Records) /\ order' \in Seq(Records)
  <2>0. queue \in Seq(Records) /\ order \in Seq(Records) BY DEF TypeOK
  <2>1. line' \in [Threads -> 0..Lines] BY LogEffect
  <2>2. CASE UNCHANGED <<queue, order>> BY <2>0, <2>1, <2>2
  <2>3. ASSUME NEW r \in Records, queue' = Append(queue, r), order' = Append(order, r)
        PROVE  queue' \in Seq(Records) /\ order' \in Seq(Records)
    BY <2>0, <2>3, AppendProperties
  <2>4. \/ UNCHANGED <<queue, order>>
        \/ \E r \in Records : queue' = Append(queue, r) /\ order' = Append(order, r)
    BY LogEffect
  <2> QED BY <2>1, <2>2, <2>3, <2>4
<1> PICK t \in Threads : Logs(t) \/ LogsStale(t) BY DEF Logging
<1>0. /\ pc \in [Threads -> {"idle", "submit", "direct", "sleep"}]
      /\ keeps \in [Threads \cup Flushers -> 0..MaxInits] /\ gen \in 0..MaxInits
      /\ fate \in [Records -> {"new", "queued", "direct", "stderr", "dropped", "late"}]
      /\ line[t] \in 0..Lines
  BY DEF TypeOK
<1>3. pc' \in [Threads -> {"idle", "submit", "direct", "sleep"}]
  BY <1>0 DEF Logs, Gets, LogBegins, BridgeBegins, Enqueues, Overflows, WritesDirectly,
       Retries, Drops, LogsStale, Push, Finish, Goto
<1>4. keeps' \in [Threads \cup Flushers -> 0..MaxInits]
  BY <1>0 DEF Logs, Gets, LogBegins, BridgeBegins, Enqueues, Overflows, WritesDirectly,
       Retries, Drops, LogsStale, Push, Keep
<1>5. \/ fate' = fate
      \/ \E f \in {"queued", "direct", "stderr", "dropped", "late"} :
           fate' = [fate EXCEPT ![Rec(t)] = f]
  BY DEF Logs, Gets, LogBegins, BridgeBegins, Enqueues, Overflows, WritesDirectly,
       Retries, Drops, LogsStale, Push, Finish, Accepted
<1>6. fate' \in [Records -> {"new", "queued", "direct", "stderr", "dropped", "late"}]
  BY <1>0, <1>5
<1>7. direct' \subseteq Records /\ stderr' \subseteq Records
  <2>1. line[t] < Lines => Rec(t) \in Records BY <1>0 DEF Rec, Records
  <2>2. CASE WritesDirectly(t)
    <3>1. line[t] < Lines BY <2>2 DEF WritesDirectly, Numbered
    <3> QED BY <2>1, <2>2, <3>1 DEF WritesDirectly, TypeOK
  <2>3. CASE BridgeBegins(t) BY <2>1, <2>3 DEF BridgeBegins, TypeOK
  <2> QED
    BY <2>2, <2>3 DEF TypeOK, Logs, Gets, LogBegins, Enqueues, Overflows, Retries, Drops,
       LogsStale
<1> QED BY <1>1, <1>2, <1>3, <1>4, <1>6, <1>7 DEF TypeOK

LEMMA TypeWorker ==
  ASSUME TypeOK, Worker
  PROVE  TypeOK'
<1> USE DispatcherConstants
<1>1. UNCHANGED <<initialized, gen, async, regLock, running, qlock, pc, line, fate, order,
                  direct, stderr, keeps, spc, fpc, goal>>
  BY WorkerFrame
<1>2. wpc' \in {"none", "test", "wait", "write", "exited"}
  BY DEF TypeOK, Worker, WorkerTests, WorkerTakes, WorkerWrites
<1>3. queue' \in Seq(Records) /\ batch' \in Seq(Records) /\ out' \in Seq(Records)
  <2>0. queue \in Seq(Records) /\ batch \in Seq(Records) /\ out \in Seq(Records)
        /\ Len(queue) \in Nat
    BY LenProperties DEF TypeOK
  <2>1. CASE WorkerTests BY <2>0, <2>1 DEF WorkerTests
  <2>2. CASE WorkerTakes
    <3>1. Taken \in 0..Len(queue) BY <2>0 DEF Taken
    <3>2. /\ SubSeq(queue, 1, Taken) \in Seq(Records)
          /\ SubSeq(queue, Taken + 1, Len(queue)) \in Seq(Records)
      BY <2>0, <3>1, Split
    <3> QED BY <2>0, <2>2, <3>2 DEF WorkerTakes
  <2>3. CASE WorkerWrites
    <3>1. CASE UNCHANGED <<queue, batch, out>> BY <2>0, <3>1
    <3>2. CASE /\ batch # <<>> /\ queue' = queue
               /\ out' = Append(out, Head(batch)) /\ batch' = Tail(batch)
      BY <2>0, <3>2, ElemsHead, MoveHead
    <3> QED BY <2>3, <3>1, <3>2 DEF WorkerWrites
  <2> QED BY <2>1, <2>2, <2>3 DEF Worker
<1> QED BY <1>1, <1>2, <1>3 DEF TypeOK

LEMMA TypeShutting ==
  ASSUME TypeOK, Shutting
  PROVE  TypeOK'
<1> USE DispatcherConstants
<1>1. UNCHANGED <<gen, async, wpc, batch, pc, line, fate, order, direct, stderr, keeps, fpc>>
  BY ShuttingFrame
<1> PICK s \in Stoppers : ShutdownBegins(s) \/ Shuts(s) BY DEF Shutting
<1>2. /\ initialized' \in BOOLEAN /\ running' \in BOOLEAN
      /\ regLock' \in Stoppers \cup {NoOne} /\ qlock' \in Stoppers \cup {NoOne}
  BY DEF TypeOK, ShutdownBegins, Shuts, StopExchanges, StopJoins, StopDrains, ShutdownReturns
<1>3. spc' \in [Stoppers -> {"idle", "exchange", "join", "drain", "reset", "done"}]
  <2>1. spc \in [Stoppers -> {"idle", "exchange", "join", "drain", "reset", "done"}]
    BY DEF TypeOK
  <2> QED BY <2>1 DEF ShutdownBegins, Shuts, StopExchanges, StopJoins, StopDrains,
             ShutdownReturns, SGoto
<1>4. queue' \in Seq(Records) /\ out' \in Seq(Records)
  <2>1. queue \in Seq(Records) /\ out \in Seq(Records) BY DEF TypeOK
  <2>2. CASE UNCHANGED <<queue, out>> BY <2>1, <2>2
  <2>3. CASE queue # <<>> /\ out' = Append(out, Head(queue)) /\ queue' = Tail(queue)
    BY <2>1, <2>3, ElemsHead, MoveHead
  <2> QED BY <2>2, <2>3 DEF ShutdownBegins, Shuts, StopExchanges, StopJoins,
             StopDrains, ShutdownReturns
<1>5. goal' \in [Stoppers \cup Flushers -> SUBSET Records]
  <2>1. goal \in [Stoppers \cup Flushers -> SUBSET Records] BY DEF TypeOK
  <2>2. Queued \subseteq Records BY DEF Queued
  <2>3. UNION {goal[x] : x \in Stoppers} \subseteq Records BY <2>1
  <2>4. StopExchanges(s) => goal' \in [Stoppers \cup Flushers -> SUBSET Records]
    <3> HIDE DEF Queued
    <3> QED BY <2>1, <2>2, <2>3 DEF StopExchanges
  <2> QED BY <2>1, <2>4 DEF ShutdownBegins, Shuts, StopJoins, StopDrains, ShutdownReturns
<1> QED BY <1>1, <1>2, <1>3, <1>4, <1>5 DEF TypeOK

LEMMA TypeFlushing ==
  ASSUME TypeOK, Flushing
  PROVE  TypeOK'
<1> USE DispatcherConstants
<1>1. UNCHANGED <<initialized, gen, async, regLock, running, queue, qlock, wpc, batch, out,
                  pc, line, fate, order, direct, stderr, spc>>
  BY FlushingFrame
<1> PICK f \in Flushers : FlushBegins(f) \/ FlushReturns(f) \/ FlushTimesOut(f)
  BY DEF Flushing
<1>2. /\ fpc \in [Flushers -> {"idle", "wait", "done"}]
      /\ keeps \in [Threads \cup Flushers -> 0..MaxInits] /\ gen \in 0..MaxInits
      /\ goal \in [Stoppers \cup Flushers -> SUBSET Records]
  BY DEF TypeOK
<1>3. fpc' \in [Flushers -> {"idle", "wait", "done"}]
  BY <1>2 DEF FlushBegins, FlushReturns, FlushTimesOut, Flushes
<1>4. keeps' \in [Threads \cup Flushers -> 0..MaxInits]
  <2>1. 0 \in 0..MaxInits /\ \A x \in 0..MaxInits :
                                [keeps EXCEPT ![f] = x] \in [Threads \cup Flushers -> 0..MaxInits]
    BY <1>2
  <2> QED BY <1>2, <2>1 DEF FlushBegins, FlushReturns, FlushTimesOut, Flushes, Keep
<1>5. goal' \in [Stoppers \cup Flushers -> SUBSET Records]
  <2>1. Queued \subseteq Records BY DEF Queued
  <2> QED BY <1>2, <2>1 DEF FlushBegins, FlushReturns, FlushTimesOut, Flushes
<1> QED BY <1>1, <1>3, <1>4, <1>5 DEF TypeOK

LEMMA TypeStep ==
  TypeOK /\ Up /\ Sleeping /\ Numbered /\ [Next]_vars => TypeOK'
<1> USE DispatcherConstants
<1>1. TypeOK /\ Inits => TypeOK'
  <2> SUFFICES ASSUME TypeOK, Inits PROVE TypeOK' OBVIOUS
  <2>1. gen' \in 0..MaxInits BY DEF TypeOK, Inits
  <2>2. queue' \in Seq(Records) BY EmptySeq DEF Inits
  <2>3. async' \in BOOLEAN /\ running' \in BOOLEAN
        /\ wpc' \in {"none", "test", "wait", "write", "exited"}
    BY DEF Inits
  <2> QED BY <2>1, <2>2, <2>3 DEF TypeOK, Inits
<1>2. TypeOK /\ UNCHANGED vars => TypeOK' BY DEF TypeOK, vars
<1> QED BY <1>1, <1>2, Actors, TypeLogging, TypeWorker, TypeShutting, TypeFlushing
-----------------------------------------------------------------------------
(* The dispatcher, its worker and who stops it                             *)

\* A step of shutdown() by thread s: of the other threads none is inside.
LEMMA ShutEffect ==
  ASSUME TypeOK, Holds, NEW s \in Stoppers, ShutdownBegins(s) \/ Shuts(s)
  PROVE  /\ \A u \in Stoppers : u # s => spc'[u] = spc[u] /\ spc[u] \in {"idle", "done"}
         /\ spc[s] \notin {"idle", "done"} => regLock = s
         /\ spc[s] \in {"idle", "done"} => regLock = NoOne
<1> USE DispatcherConstants
<1>1. spc \in [Stoppers -> {"idle", "exchange", "join", "drain", "reset", "done"}]
  BY DEF TypeOK
<1>2. \A u \in Stoppers : u # s => spc'[u] = spc[u]
  BY <1>1 DEF ShutdownBegins, Shuts, StopExchanges, StopJoins, StopDrains, ShutdownReturns, SGoto
<1>3. /\ spc[s] \notin {"idle", "done"} => regLock = s
      /\ spc[s] \in {"idle", "done"} => regLock = NoOne
  BY DEF Holds, ShutdownBegins, Shuts, StopExchanges, StopJoins, StopDrains, ShutdownReturns, SGoto
<1>4. regLock \in {s, NoOne} BY <1>3
<1>5. \A u \in Stoppers : u # s => spc[u] \in {"idle", "done"} BY <1>4 DEF Holds
<1> QED BY <1>2, <1>3, <1>5

LEMMA HoldsStep == TypeOK /\ Holds /\ [Next]_vars => Holds'
<1> USE DispatcherConstants
<1> SUFFICES ASSUME TypeOK, Holds, [Next]_vars PROVE Holds' OBVIOUS
<1>1. CASE Shutting
  <2> PICK s \in Stoppers : ShutdownBegins(s) \/ Shuts(s) BY <1>1 DEF Shutting
  <2>0. spc \in [Stoppers -> {"idle", "exchange", "join", "drain", "reset", "done"}]
    BY DEF TypeOK
  <2>1. \/ spc'[s] \notin {"idle", "done"} /\ regLock' = s
        \/ spc'[s] \in {"idle", "done"} /\ regLock' = NoOne
    BY <2>0, ShutEffect DEF ShutdownBegins, Shuts, StopExchanges, StopJoins, StopDrains,
       ShutdownReturns, SGoto
  <2> QED BY <2>1, ShutEffect DEF Holds
<1>2. CASE UNCHANGED <<spc, regLock>> BY <1>2 DEF Holds
<1> QED BY <1>1, <1>2, Actors, LoggingFrame, FlushingFrame, WorkerFrame DEF Inits, vars

LEMMA UpStep == TypeOK /\ Holds /\ Up /\ [Next]_vars => Up'
<1> USE DispatcherConstants
<1> SUFFICES ASSUME TypeOK, Holds, Up, [Next]_vars PROVE Up' OBVIOUS
<1>0. /\ spc \in [Stoppers -> {"idle", "exchange", "join", "drain", "reset", "done"}]
      /\ running \in BOOLEAN /\ async \in BOOLEAN
  BY DEF TypeOK
<1>1. CASE Shutting
  <2> PICK s \in Stoppers : ShutdownBegins(s) \/ Shuts(s) BY <1>1 DEF Shutting
  <2>1. /\ \A u \in Stoppers : u # s => spc'[u] = spc[u] /\ spc[u] \in {"idle", "done"}
        /\ spc[s] \notin {"idle", "done"} => regLock = s
    BY ShutEffect
  <2>2. async' = async BY <1>1, ShuttingFrame
  <2>3. CASE ShutdownBegins(s)
    <3>1. ~async => ~running BY DEF Up
    <3>2. regLock' = s /\ UNCHANGED <<initialized, running>>
          /\ spc'[s] = (IF async THEN "exchange" ELSE "reset")
      BY <1>0, <2>3 DEF ShutdownBegins, SGoto
    <3> QED BY <2>1, <2>2, <3>1, <3>2 DEF Up
  <2>4. CASE StopExchanges(s)
    <3>1. ~running' /\ UNCHANGED <<initialized, regLock>> /\ regLock = s
      BY <2>1, <2>4 DEF StopExchanges, SGoto
    <3> QED BY <3>1 DEF Up
  <2>5. CASE StopJoins(s) \/ StopDrains(s)
    <3>1. /\ UNCHANGED <<initialized, regLock, running>>
          /\ spc[s] \in {"join", "drain"}
      BY <2>5 DEF StopJoins, StopDrains, SGoto
    <3>2. ~running /\ regLock = s BY <2>1, <3>1 DEF Up
    <3> QED BY <2>2, <3>1, <3>2 DEF Up
  <2>6. CASE ShutdownReturns(s)
    <3>1. ~running /\ running' = running /\ initialized' = FALSE
      BY <2>6 DEF ShutdownReturns, SGoto, Up
    <3> QED BY <3>1 DEF Up
  <2> QED BY <2>3, <2>4, <2>5, <2>6 DEF Shuts
<1>2. CASE Inits
  <2>1. initialized' = TRUE /\ running' = async' /\ spc' = spc /\ regLock = NoOne
    BY <1>2 DEF Inits
  <2>2. \A s \in Stoppers : spc[s] \in {"idle", "done"} BY <2>1 DEF Holds
  <2> QED BY <2>1, <2>2 DEF Up
<1>3. CASE UNCHANGED <<running, async, initialized, regLock, spc>> BY <1>3 DEF Up
<1> QED BY <1>1, <1>2, <1>3, Actors, LoggingFrame, FlushingFrame, WorkerFrame DEF vars

LEMMA WorkingStep == TypeOK /\ Holds /\ Up /\ Working /\ [Next]_vars => Working'
<1> USE DispatcherConstants
<1> SUFFICES ASSUME TypeOK, Holds, Up, Working, [Next]_vars PROVE Working' OBVIOUS
<1>0. spc \in [Stoppers -> {"idle", "exchange", "join", "drain", "reset", "done"}]
  BY DEF TypeOK
<1>1. CASE Shutting
  <2> PICK s \in Stoppers : ShutdownBegins(s) \/ Shuts(s) BY <1>1 DEF Shutting
  <2>1. \A u \in Stoppers : u # s => spc'[u] = spc[u] /\ spc[u] \in {"idle", "done"}
    BY ShutEffect
  <2>2. UNCHANGED <<wpc, batch>> BY <1>1, ShuttingFrame
  <2>3. CASE StopExchanges(s)
    <3>1. running' = FALSE /\ spc[s] = "exchange"
          /\ spc'[s] = (IF running THEN "join" ELSE "reset")
      BY <1>0, <2>3 DEF StopExchanges, SGoto
    <3>2. ~Stopping BY <2>1, <3>1 DEF Stopping
    <3> QED BY <2>2, <3>1, <3>2 DEF Working, Stopping, Gone
  <2>4. CASE StopJoins(s) BY <2>2, <2>4 DEF StopJoins, Working, Gone
  <2>5. CASE ShutdownBegins(s) \/ StopDrains(s) \/ ShutdownReturns(s)
    <3>1. running' = running /\ spc[s] # "join"
      BY <2>5 DEF ShutdownBegins, StopDrains, ShutdownReturns, SGoto
    <3>2. ~Stopping BY <2>1, <3>1 DEF Stopping
    <3> QED BY <2>2, <3>1, <3>2 DEF Working, Gone
  <2> QED BY <2>3, <2>4, <2>5 DEF Shuts
<1>2. CASE Inits
  <2>1. regLock = NoOne /\ ~initialized /\ batch' = batch /\ (wpc' = "none" \/ running')
        /\ wpc' \in {"none", "test"}
    BY <1>2 DEF Inits
  <2>2. \A s \in Stoppers : spc[s] \in {"idle", "done"} BY <2>1 DEF Holds
  <2>3. batch = <<>> BY <2>1, <2>2 DEF Working, Up, Stopping, Gone
  <2> QED BY <2>1, <2>3 DEF Working, Gone
<1>3. CASE Worker
  <2>1. UNCHANGED <<running, spc>> BY <1>3, WorkerFrame
  <2>2. wpc' # "write" => batch' = <<>>
    BY <1>3 DEF Worker, WorkerTests, WorkerTakes, WorkerWrites, Working
  <2>3. ~Gone BY <1>3 DEF Worker, WorkerTests, WorkerTakes, WorkerWrites, Gone
  <2> QED BY <2>1, <2>2, <2>3 DEF Working, Stopping
<1>4. CASE UNCHANGED <<running, spc, wpc, batch>> BY <1>4 DEF Working, Stopping, Gone
<1> QED BY <1>1, <1>2, <1>3, <1>4, Actors, LoggingFrame, FlushingFrame DEF vars

\* Whoever holds the registry's mutex past the join, and whoever finds it free
\* before init(), finds the worker gone and nothing in its hands.
LEMMA NoWorker ==
  ASSUME Holds, Up, Working
  PROVE  /\ regLock = NoOne /\ ~initialized => Gone /\ batch = <<>>
         /\ \A s \in Stoppers : spc[s] = "drain" => Gone /\ batch = <<>>
<1> USE DispatcherConstants
<1>1. ASSUME regLock = NoOne, ~initialized PROVE Gone /\ batch = <<>>
  BY <1>1 DEF Holds, Up, Working, Stopping, Gone
<1>2. ASSUME NEW s \in Stoppers, spc[s] = "drain" PROVE Gone /\ batch = <<>>
  <2>1. ~running /\ regLock = s BY <1>2 DEF Up, Holds
  <2>2. ~Stopping BY <1>2, <2>1 DEF Stopping, Holds
  <2> QED BY <2>1, <2>2 DEF Working, Gone
<1> QED BY <1>1, <1>2
-----------------------------------------------------------------------------
(* Records and threads                                                     *)

LEMMA NumberedStep ==
  TypeOK /\ Up /\ Sleeping /\ Numbered /\ [Next]_vars
    => Numbered' /\ Queued \subseteq Queued'
<1> SUFFICES ASSUME TypeOK, Up, Sleeping, Numbered, [Next]_vars
             PROVE  Numbered' /\ Queued \subseteq Queued' OBVIOUS
<1>1. CASE Logging /\ ~Stale
  <2>1. Queued' = Queued \/ \E r \in Records : Queued' = Queued \cup {r}
    BY <1>1, LogEffect
  <2> QED BY <1>1, <2>1, LogEffect
<1>2. CASE UNCHANGED <<line, fate, pc>> BY <1>2 DEF Numbered, Queued
<1> QED BY <1>1, <1>2, Actors, FlushingFrame, WorkerFrame, ShuttingFrame DEF Inits, vars

LEMMA SleepingStep == TypeOK /\ Sleeping /\ [Next]_vars => Sleeping'
<1> USE DispatcherConstants
<1> SUFFICES ASSUME TypeOK, Sleeping, [Next]_vars PROVE Sleeping' OBVIOUS
<1>0. /\ keeps \in [Threads \cup Flushers -> 0..MaxInits] /\ gen \in 0..MaxInits
      /\ pc \in [Threads -> {"idle", "submit", "direct", "sleep"}]
  BY DEF TypeOK
<1>1. CASE Logging
  <2> PICK t \in Threads : Logs(t) \/ LogsStale(t) BY <1>1 DEF Logging
  <2>1. gen' = gen /\ async' = async BY <1>1, LoggingFrame
  <2>2. CASE Overflows(t)
    <3>1. async /\ Keep(t) /\ \A u \in Threads : u # t => pc'[u] = pc[u]
      BY <1>0, <2>2 DEF Overflows, Goto
    <3> QED BY <1>0, <2>1, <3>1 DEF Sleeping, Keep
  <2>3. CASE /\ keeps' = keeps \/ (Keep(t) /\ pc[t] = "idle")
             /\ \A u \in Threads : pc'[u] = "sleep" => pc[u] = "sleep"
    BY <1>0, <2>1, <2>3 DEF Sleeping, Keep
  <2>4. CASE keeps' = keeps /\ \E to \in {"idle", "submit", "direct"} : pc' = [pc EXCEPT ![t] = to]
    BY <1>0, <2>3, <2>4
  <2>5. CASE Gets(t) BY <2>3, <2>5 DEF Gets
  <2> QED
    BY <2>2, <2>4, <2>5 DEF Logs, LogBegins, BridgeBegins, Enqueues, WritesDirectly, Retries,
       Drops, LogsStale, Goto, Push, Finish
<1>2. CASE Inits
  <2>1. gen' = gen + 1 /\ UNCHANGED <<keeps, pc>> BY <1>2 DEF Inits
  <2>2. \A t \in Threads \cup Flushers : keeps[t] <= gen /\ keeps[t] \in 0..MaxInits
    BY <1>0 DEF Sleeping
  <2>3. \A t \in Threads \cup Flushers : keeps[t] <= gen' /\ keeps[t] # gen'
    BY <1>0, <2>1, <2>2
  <2> QED BY <2>1, <2>3 DEF Sleeping
<1>3. CASE Flushing
  <2> PICK f \in Flushers : FlushBegins(f) \/ FlushReturns(f) \/ FlushTimesOut(f)
    BY <1>3 DEF Flushing
  <2>1. UNCHANGED <<gen, async, pc>> BY <1>3, FlushingFrame
  <2>2. CASE FlushBegins(f) BY <1>0, <2>1, <2>2 DEF FlushBegins, Keep, Sleeping
  <2>3. CASE keeps' = [keeps EXCEPT ![f] = 0]
    <3>1. ASSUME f \in Threads, pc[f] = "sleep", gen = 0 PROVE async
      BY <1>0, <3>1 DEF Sleeping
    <3>2. \A u \in Threads \cup Flushers : keeps'[u] = IF u = f THEN 0 ELSE keeps[u]
      BY <1>0, <2>3
    <3> QED BY <1>0, <2>1, <3>1, <3>2 DEF Sleeping
  <2> QED BY <2>2, <2>3 DEF FlushReturns, FlushTimesOut, Flushes
<1>4. CASE UNCHANGED <<gen, async, keeps, pc>> BY <1>4 DEF Sleeping
<1> QED BY <1>1, <1>2, <1>3, <1>4, Actors, WorkerFrame, ShuttingFrame DEF vars
-----------------------------------------------------------------------------
(* From the queue to the sinks                                             *)

\* What the steps that move records do, the worker's and those of stop().
LEMMA Moving ==
  ASSUME TypeOK, Holds, Up, Working, Worker \/ Shutting
  PROVE  \/ UNCHANGED <<queue, batch, out>>
         \/ /\ out' = out /\ batch = <<>> /\ wpc = "wait"
            /\ \E n \in 0..Len(queue) : /\ batch' = SubSeq(queue, 1, n)
                                        /\ queue' = SubSeq(queue, n + 1, Len(queue))
         \/ /\ batch # <<>> /\ queue' = queue
            /\ out' = Append(out, Head(batch)) /\ batch' = Tail(batch)
         \/ /\ queue # <<>> /\ batch = <<>> /\ batch' = <<>>
            /\ out' = Append(out, Head(queue)) /\ queue' = Tail(queue)
<1>0. Len(queue) \in Nat BY LenProperties DEF TypeOK
<1>1. CASE WorkerTests BY <1>1 DEF WorkerTests
<1>2. CASE WorkerTakes
  <2>1. Taken \in 0..Len(queue) BY <1>0, DispatcherConstants DEF Taken
  <2>2. batch = <<>> BY <1>2 DEF WorkerTakes, Working
  <2> QED BY <1>2, <2>1, <2>2 DEF WorkerTakes
<1>3. CASE WorkerWrites BY <1>3 DEF WorkerWrites
<1>4. ASSUME NEW s \in Stoppers, StopDrains(s)
      PROVE  \/ UNCHANGED <<queue, batch, out>>
             \/ /\ queue # <<>> /\ batch = <<>> /\ batch' = <<>>
                /\ out' = Append(out, Head(queue)) /\ queue' = Tail(queue)
  <2>1. batch = <<>> BY <1>4, NoWorker DEF StopDrains
  <2> QED BY <1>4, <2>1 DEF StopDrains
<1>5. Shutting => UNCHANGED <<queue, batch, out>> \/ \E s \in Stoppers : StopDrains(s)
  BY DEF Shutting, Shuts, ShutdownBegins, StopExchanges, StopJoins, ShutdownReturns
<1> QED BY <1>1, <1>2, <1>3, <1>4, <1>5 DEF Worker

\* A record moves from the queue to the batch and from both to the sinks, and
\* out of neither.
LEMMA Moved ==
  ASSUME TypeOK, Holds, Up, Working, Worker \/ Shutting
  PROVE  /\ out' \o batch' \o queue' = out \o batch \o queue
         /\ Elems(out) \subseteq Elems(out')
         /\ Elems(batch) \subseteq Elems(out') \cup Elems(batch')
         /\ Elems(out') \cup Elems(batch') \cup Elems(queue')
              = Elems(out) \cup Elems(batch) \cup Elems(queue)
<1>0. queue \in Seq(Records) /\ batch \in Seq(Records) /\ out \in Seq(Records)
  BY DEF TypeOK
<1>1. CASE UNCHANGED <<queue, batch, out>> BY <1>1
<1>2. CASE /\ out' = out /\ batch = <<>>
           /\ \E n \in 0..Len(queue) : /\ batch' = SubSeq(queue, 1, n)
                                       /\ queue' = SubSeq(queue, n + 1, Len(queue))
  <2> PICK n \in 0..Len(queue) : /\ batch' = SubSeq(queue, 1, n)
                                 /\ queue' = SubSeq(queue, n + 1, Len(queue))
    BY <1>2
  <2>1. /\ batch' \in Seq(Records) /\ queue' \in Seq(Records) /\ batch' \o queue' = queue
        /\ Elems(queue) = Elems(batch') \cup Elems(queue')
    BY <1>0, Split
  <2>2. out \o batch' \o queue' = out \o queue
    <3>1. (out \o batch') \o queue' = out \o (batch' \o queue')
      BY <1>0, <2>1, Associative
    <3> QED BY <2>1, <3>1
  <2>3. out \o batch = out BY <1>0, <1>2, ConcatEmptySeq
  <2> QED BY <1>2, <2>1, <2>2, <2>3, ElemsEmpty
<1>3. CASE /\ batch # <<>> /\ queue' = queue
           /\ out' = Append(out, Head(batch)) /\ batch' = Tail(batch)
  <2>1. out' \o batch' = out \o batch /\ Elems(out') = Elems(out) \cup {Head(batch)}
    BY <1>0, <1>3, MoveHead
  <2>2. Elems(batch) = {Head(batch)} \cup Elems(batch') BY <1>0, <1>3, ElemsHead
  <2> QED BY <1>3, <2>1, <2>2
<1>4. CASE /\ queue # <<>> /\ batch = <<>> /\ batch' = <<>>
           /\ out' = Append(out, Head(queue)) /\ queue' = Tail(queue)
  <2>1. /\ out' \in Seq(Records) /\ out' \o queue' = out \o queue
        /\ Elems(out') = Elems(out) \cup {Head(queue)}
    BY <1>0, <1>4, MoveHead
  <2>2. Elems(queue) = {Head(queue)} \cup Elems(queue') BY <1>0, <1>4, ElemsHead
  <2>3. out \o batch = out /\ out' \o batch' = out'
    BY <1>0, <1>4, <2>1, ConcatEmptySeq
  <2> QED BY <1>4, <2>1, <2>2, <2>3, ElemsEmpty
<1> QED BY <1>1, <1>2, <1>3, <1>4, Moving

LEMMA FifoStep ==
  /\ TypeOK /\ Holds /\ Up /\ Working /\ Numbered /\ Sleeping /\ Fifo /\ [Next]_vars
  => Fifo'
<1> SUFFICES ASSUME TypeOK, Holds, Up, Working, Numbered, Sleeping, Fifo, [Next]_vars
             PROVE  Fifo' OBVIOUS
<1>0. queue \in Seq(Records) /\ batch \in Seq(Records) /\ out \in Seq(Records)
  BY DEF TypeOK
<1>1. CASE Worker \/ Shutting
  <2>1. order' = order BY <1>1, WorkerFrame, ShuttingFrame
  <2> QED BY <1>1, <2>1, Moved DEF Fifo
<1>2. CASE Logging /\ ~Stale
  <2>1. UNCHANGED <<batch, out>> BY <1>2, LoggingFrame
  <2>2. \/ UNCHANGED <<queue, order>>
        \/ \E r \in Records : queue' = Append(queue, r) /\ order' = Append(order, r)
    BY <1>2, LogEffect
  <2>3. CASE UNCHANGED <<queue, order>> BY <2>1, <2>3 DEF Fifo
  <2>4. ASSUME NEW r \in Records, queue' = Append(queue, r), order' = Append(order, r)
        PROVE  Fifo'
    <3>1. out \o batch \o Append(queue, r) = Append(out \o batch \o queue, r)
      BY <1>0, PushLast
    <3> QED BY <2>1, <2>4, <3>1 DEF Fifo
  <2> QED BY <2>2, <2>3, <2>4
<1>3. CASE Inits
  <2>1. batch = <<>> BY <1>3, NoWorker DEF Inits
  <2>2. batch' = <<>> /\ queue' = <<>> /\ out' = out /\ order' = out BY <1>3, <2>1 DEF Inits
  <2>3. out \o <<>> = out BY <1>0, ConcatEmptySeq
  <2> QED BY <2>2, <2>3 DEF Fifo
<1>4. CASE UNCHANGED <<queue, batch, out, order>> BY <1>4 DEF Fifo
<1> QED BY <1>1, <1>2, <1>3, <1>4, Actors, FlushingFrame DEF vars

LEMMA KeptStep ==
  /\ TypeOK /\ Holds /\ Up /\ Working /\ Numbered /\ Sleeping /\ Kept /\ Settled
  /\ [Next]_vars
  => Kept'
<1> SUFFICES ASSUME TypeOK, Holds, Up, Working, Numbered, Sleeping, Kept, Settled, [Next]_vars
             PROVE  Kept' OBVIOUS
<1>0. queue \in Seq(Records) BY DEF TypeOK
<1>1. CASE Worker \/ Shutting
  <2>1. Queued' = Queued BY <1>1, WorkerFrame, ShuttingFrame DEF Queued
  <2> QED BY <1>1, <2>1, Moved DEF Kept
<1>2. CASE Logging /\ ~Stale
  <2>1. UNCHANGED <<batch, out>> BY <1>2, LoggingFrame
  <2>2. CASE UNCHANGED queue /\ Queued' = Queued BY <2>1, <2>2 DEF Kept
  <2>3. ASSUME NEW r \in Records, queue' = Append(queue, r), Queued' \subseteq Queued \cup {r}
        PROVE  Kept'
    <3>1. Elems(queue') = Elems(queue) \cup {r} BY <1>0, <2>3, ElemsAppend
    <3> QED BY <2>1, <2>3, <3>1 DEF Kept
  <2> QED BY <1>2, <2>2, <2>3, LogEffect
<1>3. CASE Inits
  <2>1. regLock = NoOne /\ ~initialized /\ out' = out BY <1>3 DEF Inits
  <2>2. Queued' = Queued BY <1>3 DEF Inits, Queued
  <2>3. Queued \subseteq Elems(out) BY <2>1, DispatcherConstants DEF Settled, Up, Holds
  <2> QED BY <2>1, <2>2, <2>3 DEF Kept
<1>4. CASE UNCHANGED <<queue, batch, out, fate>> BY <1>4 DEF Kept, Queued
<1> QED BY <1>1, <1>2, <1>3, <1>4, Actors, FlushingFrame DEF vars

LEMMA SettledStep ==
  /\ TypeOK /\ Holds /\ Up /\ Working /\ Numbered /\ Sleeping /\ Kept /\ Settled
  /\ [Next]_vars
  => Settled'
<1> USE DispatcherConstants
<1> SUFFICES ASSUME TypeOK, Holds, Up, Working, Numbered, Sleeping, Kept, Settled, [Next]_vars
             PROVE  Settled' OBVIOUS
<1>0. spc \in [Stoppers -> {"idle", "exchange", "join", "drain", "reset", "done"}]
  BY DEF TypeOK
<1>1. CASE Shutting
  <2> PICK s \in Stoppers : ShutdownBegins(s) \/ Shuts(s) BY <1>1 DEF Shutting
  <2>1. \A u \in Stoppers : u # s => spc'[u] = spc[u] /\ spc[u] \in {"idle", "done"}
    BY ShutEffect
  <2>2. Queued' = Queued BY <1>1, ShuttingFrame DEF Queued
  <2>3. Elems(out) \subseteq Elems(out') BY <1>1, Moved
  <2>4. CASE StopExchanges(s)
    <3>1. /\ spc[s] = "exchange" /\ spc'[s] = (IF running THEN "join" ELSE "reset")
          /\ out' = out
      BY <1>0, <2>4 DEF StopExchanges, SGoto
    <3>2. spc'[s] = "join" \/ Queued \subseteq Elems(out) BY <2>1, <3>1 DEF Settled
    <3> QED BY <2>2, <3>1, <3>2 DEF Settled
  <2>5. CASE StopJoins(s) BY <1>0, <2>5 DEF StopJoins, SGoto, Settled
  <2>6. CASE StopDrains(s)
    <3>1. CASE queue = <<>>
      <4>1. batch = <<>> /\ out' = out BY <2>6, <3>1, NoWorker DEF StopDrains
      <4>2. Queued \subseteq Elems(out) BY <3>1, <4>1, ElemsEmpty DEF Kept
      <4> QED BY <2>2, <4>1, <4>2 DEF Settled
    <3>2. CASE queue # <<>>
      <4>1. spc'[s] = "drain" BY <2>6, <3>2 DEF StopDrains
      <4> QED BY <4>1 DEF Settled
    <3> QED BY <3>1, <3>2
  <2>7. CASE ShutdownBegins(s) \/ ShutdownReturns(s)
    <3>1. running' = running /\ out' = out /\ spc[s] \in {"idle", "reset"}
      BY <2>7 DEF ShutdownBegins, ShutdownReturns, SGoto
    <3>2. ~running => Queued \subseteq Elems(out) BY <2>1, <3>1 DEF Settled
    <3> QED BY <2>2, <3>1, <3>2 DEF Settled
  <2> QED BY <2>4, <2>5, <2>6, <2>7 DEF Shuts
<1>2. CASE Worker
  <2>1. UNCHANGED <<running, spc>> /\ Queued' = Queued BY <1>2, WorkerFrame DEF Queued
  <2>2. Elems(out) \subseteq Elems(out') BY <1>2, Moved
  <2> QED BY <2>1, <2>2 DEF Settled
<1>3. CASE Logging /\ ~Stale
  <2>1. UNCHANGED <<running, spc, out>> BY <1>3, LoggingFrame
  <2>2. running \/ Queued' = Queued BY <1>3, LogEffect
  <2> QED BY <2>1, <2>2 DEF Settled
<1>4. CASE Inits
  <2>1. regLock = NoOne /\ ~initialized /\ out' = out BY <1>4 DEF Inits
  <2>2. Queued' = Queued BY <1>4 DEF Inits, Queued
  <2>3. Queued \subseteq Elems(out) BY <2>1 DEF Settled, Up, Holds
  <2> QED BY <2>1, <2>2, <2>3 DEF Settled
<1>5. CASE UNCHANGED <<running, spc, out, fate>> BY <1>5 DEF Settled, Queued
<1> QED BY <1>1, <1>2, <1>3, <1>4, <1>5, Actors, FlushingFrame DEF vars

LEMMA GoalsStep ==
  TypeOK /\ Up /\ Sleeping /\ Numbered /\ Goals /\ [Next]_vars => Goals'
<1> USE DispatcherConstants
<1> SUFFICES ASSUME TypeOK, Up, Sleeping, Numbered, Goals, [Next]_vars PROVE Goals' OBVIOUS
<1>0. goal \in [Stoppers \cup Flushers -> SUBSET Records] BY DEF TypeOK
<1>1. Queued \subseteq Queued' BY NumberedStep
<1>2. CASE \E x \in Stoppers \cup Flushers, g \in SUBSET Queued : goal' = [goal EXCEPT ![x] = g]
  <2> PICK x \in Stoppers \cup Flushers, g \in SUBSET Queued : goal' = [goal EXCEPT ![x] = g]
    BY <1>2
  <2>1. \A y \in Stoppers \cup Flushers : goal'[y] = IF y = x THEN g ELSE goal[y] BY <1>0
  <2>2. ASSUME NEW y \in Stoppers \cup Flushers PROVE goal'[y] \subseteq Queued'
    <3>1. goal'[y] \subseteq Queued BY <2>1 DEF Goals
    <3> QED BY <1>1, <3>1
  <2> QED BY <2>2 DEF Goals
<1>3. CASE goal' = goal
  <2>1. \A y \in Stoppers \cup Flushers : goal[y] \subseteq Queued' BY <1>1 DEF Goals
  <2> QED BY <1>3, <2>1 DEF Goals
<1>4. Shutting => goal' = goal
                  \/ \E x \in Stoppers \cup Flushers, g \in SUBSET Queued :
                       goal' = [goal EXCEPT ![x] = g]
  <2> SUFFICES ASSUME NEW s \in Stoppers, StopExchanges(s)
               PROVE  \E g \in SUBSET Queued : goal' = [goal EXCEPT ![s] = g]
    BY DEF Shutting, Shuts, ShutdownBegins, StopJoins, StopDrains, ShutdownReturns
  <2>1. UNION {goal[x] : x \in Stoppers} \subseteq Queued BY DEF Goals
  <2> HIDE DEF Queued
  <2> QED BY <2>1 DEF StopExchanges
<1>5. Flushing => goal' = goal
                  \/ \E x \in Stoppers \cup Flushers, g \in SUBSET Queued :
                       goal' = [goal EXCEPT ![x] = g]
  <2> SUFFICES ASSUME NEW f \in Flushers, FlushBegins(f) \/ FlushReturns(f) \/ FlushTimesOut(f)
               PROVE  \E g \in SUBSET Queued : goal' = [goal EXCEPT ![f] = g]
    BY DEF Flushing
  <2>1. CASE FlushBegins(f) BY <2>1 DEF FlushBegins
  <2>2. CASE FlushReturns(f)
    <3>1. goal' = [goal EXCEPT ![f] = goal[f]] BY <2>2 DEF FlushReturns, Flushes
    <3> QED BY <3>1 DEF Goals
  <2>3. CASE FlushTimesOut(f)
    <3>1. goal' = [goal EXCEPT ![f] = {}] BY <2>3 DEF FlushTimesOut, Flushes
    <3> QED BY <3>1
  <2> QED BY <2>1, <2>2, <2>3
<1> QED BY <1>2, <1>3, <1>4, <1>5, Actors, LoggingFrame, WorkerFrame DEF Inits, vars

LEMMA ReturnedStep ==
  /\ TypeOK /\ Holds /\ Up /\ Working /\ Kept /\ Settled /\ Goals /\ Returned /\ [Next]_vars
  => Returned'
<1> USE DispatcherConstants
<1> SUFFICES ASSUME TypeOK, Holds, Up, Working, Kept, Settled, Goals, Returned, [Next]_vars
             PROVE  Returned' OBVIOUS
<1>0. /\ spc \in [Stoppers -> {"idle", "exchange", "join", "drain", "reset", "done"}]
      /\ fpc \in [Flushers -> {"idle", "wait", "done"}]
      /\ goal \in [Stoppers \cup Flushers -> SUBSET Records]
  BY DEF TypeOK
<1>1. CASE Shutting
  <2> PICK s \in Stoppers : ShutdownBegins(s) \/ Shuts(s) BY <1>1 DEF Shutting
  <2>1. \A u \in Stoppers : u # s => spc'[u] = spc[u] /\ spc[u] \in {"idle", "done"}
    BY ShutEffect
  <2>2. UNCHANGED <<fpc, batch>> BY <1>1, ShuttingFrame
  <2>3. Elems(out) \subseteq Elems(out') BY <1>1, Moved
  <2>4. \A x \in Stoppers \cup Flushers : x # s => goal'[x] = goal[x]
    BY <1>0 DEF ShutdownBegins, Shuts, StopExchanges, StopJoins, StopDrains, ShutdownReturns
  <2>5. spc'[s] \in {"reset", "done"} => goal'[s] \subseteq Elems(out')
    <3>1. CASE ShutdownBegins(s)
      <4>1. /\ goal' = goal /\ spc[s] = "idle"
            /\ spc'[s] = (IF async THEN "exchange" ELSE "reset")
        BY <1>0, <3>1 DEF ShutdownBegins, SGoto
      <4>2. ~async => Queued \subseteq Elems(out) BY <2>1, <4>1 DEF Up, Settled
      <4>3. goal[s] \subseteq Queued BY DEF Goals
      <4> QED BY <2>3, <4>1, <4>2, <4>3
    <3>2. CASE StopExchanges(s)
      <4>1. /\ spc[s] = "exchange" /\ spc'[s] = (IF running THEN "join" ELSE "reset")
            /\ ~running => goal'[s] = UNION {goal[x] : x \in Stoppers}
        BY <1>0, <3>2 DEF StopExchanges, SGoto
      <4>2. ~running => Queued \subseteq Elems(out) BY <2>1, <4>1 DEF Settled
      <4>3. UNION {goal[x] : x \in Stoppers} \subseteq Queued BY DEF Goals
      <4> QED BY <2>3, <4>1, <4>2, <4>3
    <3>3. CASE StopJoins(s) BY <1>0, <3>3 DEF StopJoins, SGoto
    <3>4. CASE StopDrains(s)
      <4>1. CASE queue = <<>>
        <5>1. batch = <<>> /\ out' = out /\ goal' = goal
          BY <3>4, <4>1, NoWorker DEF StopDrains
        <5>2. Queued \subseteq Elems(out) BY <4>1, <5>1, ElemsEmpty DEF Kept
        <5>3. goal[s] \subseteq Queued BY DEF Goals
        <5> QED BY <5>1, <5>2, <5>3
      <4>2. CASE queue # <<>> BY <3>4, <4>2 DEF StopDrains
      <4> QED BY <4>1, <4>2
    <3>5. CASE ShutdownReturns(s)
      <4>1. spc[s] = "reset" /\ goal' = goal BY <3>5 DEF ShutdownReturns, SGoto
      <4>2. goal[s] \subseteq Elems(out) BY <4>1 DEF Returned
      <4> QED BY <2>3, <4>1, <4>2
    <3> QED BY <3>1, <3>2, <3>3, <3>4, <3>5 DEF Shuts
  <2>6. ASSUME NEW u \in Stoppers, u # s, spc'[u] \in {"reset", "done"}
        PROVE  goal'[u] \subseteq Elems(out')
    <3>1. goal'[u] = goal[u] /\ spc[u] \in {"reset", "done"} BY <2>1, <2>4, <2>6
    <3>2. goal[u] \subseteq Elems(out) BY <3>1 DEF Returned
    <3> QED BY <2>3, <3>1, <3>2
  <2>7. ASSUME NEW f \in Flushers, fpc'[f] = "done"
        PROVE  goal'[f] \subseteq Elems(out') \cup Elems(batch')
    <3>1. f # s /\ goal'[f] = goal[f] /\ fpc[f] = "done" BY <2>2, <2>4, <2>7
    <3>2. goal[f] \subseteq Elems(out) \cup Elems(batch) BY <3>1 DEF Returned
    <3> QED BY <2>2, <2>3, <3>1, <3>2
  <2> QED BY <2>5, <2>6, <2>7 DEF Returned
<1>2. CASE Worker
  <2>1. UNCHANGED <<spc, fpc, goal>> BY <1>2, WorkerFrame
  <2>2. /\ Elems(out) \subseteq Elems(out')
        /\ Elems(batch) \subseteq Elems(out') \cup Elems(batch')
    BY <1>2, Moved
  <2>3. ASSUME NEW s \in Stoppers, spc'[s] \in {"reset", "done"}
        PROVE  goal'[s] \subseteq Elems(out')
    <3>1. goal[s] \subseteq Elems(out) BY <2>1, <2>3 DEF Returned
    <3> QED BY <2>1, <2>2, <3>1
  <2>4. ASSUME NEW f \in Flushers, fpc'[f] = "done"
        PROVE  goal'[f] \subseteq Elems(out') \cup Elems(batch')
    <3>1. goal[f] \subseteq Elems(out) \cup Elems(batch) BY <2>1, <2>4 DEF Returned
    <3> QED BY <2>1, <2>2, <3>1
  <2> QED BY <2>3, <2>4 DEF Returned
<1>3. CASE Flushing
  <2> PICK f \in Flushers : FlushBegins(f) \/ FlushReturns(f) \/ FlushTimesOut(f)
    BY <1>3 DEF Flushing
  <2>1. UNCHANGED <<spc, out, batch, queue>> BY <1>3, FlushingFrame
  <2>2. \A x \in Stoppers \cup Flushers : x # f => goal'[x] = goal[x]
    BY <1>0 DEF FlushBegins, FlushReturns, FlushTimesOut, Flushes
  <2>3. \A x \in Flushers : x # f => fpc'[x] = fpc[x]
    BY <1>0 DEF FlushBegins, FlushReturns, FlushTimesOut, Flushes
  <2>4. fpc'[f] = "done" => goal'[f] \subseteq Elems(out) \cup Elems(batch)
    <3>1. CASE FlushReturns(f)
      <4>1. goal'[f] = goal[f] /\ queue = <<>> BY <1>0, <3>1 DEF FlushReturns, Flushes
      <4>2. goal[f] \subseteq Queued BY DEF Goals
      <4> QED BY <4>1, <4>2, ElemsEmpty DEF Kept
    <3>2. CASE FlushBegins(f) \/ FlushTimesOut(f)
      BY <1>0, <3>2 DEF FlushBegins, FlushTimesOut, Flushes
    <3> QED BY <3>1, <3>2
  <2>5. \A s \in Stoppers : s # f OBVIOUS
  <2> QED BY <2>1, <2>2, <2>3, <2>4, <2>5 DEF Returned
<1>4. CASE UNCHANGED <<spc, fpc, goal, out, batch>> BY <1>4 DEF Returned
<1> QED BY <1>1, <1>2, <1>3, <1>4, Actors, LoggingFrame DEF Inits, vars
-----------------------------------------------------------------------------
(* The invariant and what it gives                                         *)

LEMMA InitIInv == Init => IInv
<1> USE DispatcherConstants
<1> SUFFICES ASSUME Init PROVE IInv OBVIOUS
<1>1. Holds /\ Up /\ Working BY DEF Init, Holds, Up, Working, Stopping, Gone
<1>2. Fifo BY EmptySeq, ConcatEmptySeq DEF Init, Fifo
<1>3. Queued = {}
  <2>1. \A r \in Records : fate[r] = "new" BY DEF Init
  <2> QED BY <2>1 DEF Queued
<1>4. Numbered /\ Sleeping BY DEF Init, Numbered, Sleeping
<1>5. Kept /\ Settled BY <1>3 DEF Kept, Settled
<1>6. Goals /\ Returned BY DEF Init, Goals, Returned
<1> QED BY <1>1, <1>2, <1>4, <1>5, <1>6, TypeInit DEF IInv

LEMMA Inductive == IInv /\ [Next]_vars => IInv'
BY TypeStep, HoldsStep, UpStep, WorkingStep, FifoStep, NumberedStep, SleepingStep, KeptStep,
   SettledStep, GoalsStep, ReturnedStep DEF IInv

LEMMA Invariance == Spec => []IInv
BY InitIInv, Inductive, PTL DEF Spec

\* Every variable keeps its type; the counters of lines and of calls of init()
\* stay within their bounds.
THEOREM TypeCorrect == Spec => []TypeOK
<1>1. IInv => TypeOK BY DEF IInv
<1> QED BY <1>1, Invariance, PTL

\* What the worker and stop() have passed to the sinks, what the worker holds
\* and what is queued are, in this order, what was queued: between submit() and
\* the sinks no record is lost, repeated or overtaken, over any number of calls
\* of init() and shutdown().
THEOREM QueueKeepsOrder == Spec => []Fifo
<1>1. IInv => Fifo BY DEF IInv
<1> QED BY <1>1, Invariance, PTL

\* All that was queued when shutdown() cleared m_running has been written when
\* it returns, to whichever of the threads that call it; and all but the batch
\* of the worker when flush() returns without a time-out.
THEOREM ReturnsAfterWriting == Spec => []ShutdownAndFlushWrite
<1>1. IInv => ShutdownAndFlushWrite BY DEF IInv, Returned, ShutdownAndFlushWrite
<1> QED BY <1>1, Invariance, PTL

\* The safety half of AcceptedIsWritten: a record that was accepted while the
\* log was up is always written, with the worker or queued; and it is written
\* whenever the dispatcher has stopped and nobody is stopping it.
THEOREM AcceptedIsNeverLost == Spec => [](Kept /\ Settled)
<1>1. IInv => Kept /\ Settled BY DEF IInv
<1> QED BY <1>1, Invariance, PTL
=============================================================================

--------------------------- MODULE LogDispatcher ---------------------------
(***************************************************************************)
(* The way of a record from the threads that log (Logger::log) or bridge   *)
(* foreign logs (Logger::forwardRaw) to the sinks: directly, or through    *)
(* the bounded queue of AsyncDispatcher and its worker; with threads that  *)
(* flush, and LoggerRegistry::init and shutdown, which may be called again.*)
(*                                                                         *)
(* A record is <<thread, number>>; what it says is left out, and its level *)
(* is that of its thread.  init() destroys the objects of the init()       *)
(* before, which Loggers may still point to: a thread that uses them may   *)
(* end the process.                                                        *)
(***************************************************************************)
EXTENDS Integers, Sequences, FiniteSets

CONSTANTS
  Loggers,    \* threads that log through a Logger
  Bridges,    \* threads that call forwardRaw
  Level,      \* the level a thread logs at; "info" stands for all below warn
  Stoppers,   \* threads that call Logger::shutdown
  Flushers,   \* threads that call Logger::flush
  QueueSize,  \* m_queueSize
  BatchMax,   \* the most records the worker takes at once (64)
  Lines,      \* bound: records per thread
  MaxInits,   \* bound: calls of init() that initialise
  NoOne

Threads == Loggers \cup Bridges

ASSUME DispatcherConstants ==
  /\ Loggers \cap Bridges = {} /\ Stoppers \cap (Threads \cup Flushers) = {}
  /\ NoOne \notin Stoppers
  /\ Level \in [Threads -> {"info", "warn", "error"}]
  /\ QueueSize \in Nat /\ BatchMax \in Nat \ {0} /\ Lines \in Nat
  /\ MaxInits \in Nat

VARIABLES
  initialized,  \* LoggerRegistry::m_initialized
  gen,          \* how often it has been initialised; which of its objects exist
  async,        \* m_dispatcher is not null
  keeps,        \* a thread: the init() its Logger, or the call it is in, is of
  regLock,      \* holder of LoggerRegistry::m_mutex across steps
  running,      \* AsyncDispatcher::m_running
  queue,        \* m_queue
  qlock,        \* holder of AsyncDispatcher::m_mutex across steps
  wpc, batch,   \* workerLoop: where it is, `batch' without what is written
  out,          \* what worker and stop() have passed to m_writer, in order
  direct,       \* what submit() itself has passed to m_writer
  stderr,       \* what forwardRaw has written to stderr
  pc, line,     \* a logging thread: program counter, records it has finished
  fate,         \* ghost: what submit() decided about a record
  order,        \* ghost: records in the order in which they were queued
  spc, fpc,     \* threads in shutdown() and in flush()
  goal          \* ghost: what had been queued when m_running was cleared, or
                \* when flush() began

regVars  == <<initialized, gen, async, regLock>>
workVars == <<wpc, batch>>
logVars  == <<pc, line, fate, order, direct, stderr, keeps>>
endVars  == <<spc, fpc, goal>>
vars == <<regVars, running, queue, qlock, workVars, out, logVars, endVars>>

Records == Threads \X (1..Lines)
Elems(s) == {s[i] : i \in DOMAIN s}
Queued == {r \in Records : fate[r] = "queued"}
\* The record thread t is about to log.
Rec(t) == <<t, line[t] + 1>>

Init ==
  /\ initialized = FALSE /\ gen = 0 /\ async = FALSE /\ regLock = NoOne
  /\ keeps = [t \in Threads \cup Flushers |-> 0]
  /\ running = FALSE /\ queue = <<>> /\ qlock = NoOne
  /\ wpc = "none" /\ batch = <<>> /\ out = <<>> /\ direct = {} /\ stderr = {}
  /\ pc = [t \in Threads |-> "idle"] /\ line = [t \in Threads |-> 0]
  /\ fate = [r \in Records |-> "new"] /\ order = <<>>
  /\ spc = [s \in Stoppers |-> "idle"] /\ fpc = [f \in Flushers |-> "idle"]
  /\ goal = [x \in Stoppers \cup Flushers |-> {}]
-----------------------------------------------------------------------------
(* Logger::get, Logger::log and Logger::forwardRaw                         *)

Goto(t, from, to) == pc[t] = from /\ pc' = [pc EXCEPT ![t] = to]
Keep(t) == keeps' = [keeps EXCEPT ![t] = gen]

\* The call for Rec(t) returns.
Finish(t, f) ==
  /\ pc' = [pc EXCEPT ![t] = "idle"] /\ line' = [line EXCEPT ![t] = @ + 1]
  /\ fate' = [fate EXCEPT ![Rec(t)] = f]

\* Without m_mutex; before init() the Logger does nothing.
Gets(t) ==
  /\ t \in Loggers /\ line[t] < Lines /\ pc[t] = "idle" /\ initialized
  /\ keeps[t] # gen /\ Keep(t)
  /\ UNCHANGED <<regVars, running, queue, qlock, workVars, out, pc, line, fate,
                 order, direct, stderr, endVars>>

\* The level passes the filter; the Logger still uses what it got.
LogBegins(t) ==
  /\ t \in Loggers /\ line[t] < Lines /\ keeps[t] = gen /\ gen # 0
  /\ Goto(t, "idle", "submit")
  /\ UNCHANGED <<regVars, running, queue, qlock, workVars, out, line, fate,
                 order, direct, stderr, keeps, endVars>>

\* forwardRaw looks at m_initialized, and then at m_dispatcher, without m_mutex.
BridgeBegins(t) ==
  /\ t \in Bridges /\ line[t] < Lines /\ pc[t] = "idle"
  /\ IF initialized
     THEN Goto(t, "idle", "submit") /\ UNCHANGED <<line, fate, stderr>>
     ELSE Finish(t, "stderr") /\ stderr' = stderr \cup {Rec(t)}
  /\ UNCHANGED <<regVars, running, queue, qlock, workVars, out, order, direct,
                 keeps, endVars>>
-----------------------------------------------------------------------------
(* AsyncDispatcher::submit                                                 *)

Full == Len(queue) >= QueueSize

\* Accepted while the log is up; after that nobody owes it to anyone.
Accepted == IF running \/ (initialized /\ regLock = NoOne) THEN "queued" ELSE "late"

Push(t) ==
  /\ queue' = Append(queue, Rec(t)) /\ order' = Append(order, Rec(t))
  /\ Finish(t, Accepted)

Enqueues(t) ==
  /\ pc[t] = "submit" /\ async /\ qlock = NoOne /\ ~Full /\ Push(t)
  /\ UNCHANGED <<regVars, running, qlock, workVars, out, direct, stderr, keeps, endVars>>

\* High priority goes to the sinks at once, a warning gets a second chance.
Overflows(t) ==
  /\ async /\ qlock = NoOne /\ Full /\ Level[t] # "info" /\ Keep(t)
  /\ Goto(t, "submit", IF Level[t] = "error" THEN "direct" ELSE "sleep")
  /\ UNCHANGED <<regVars, running, queue, qlock, workVars, out, line, fate,
                 order, direct, stderr, endVars>>

\* SinkManager::write by the thread that logs, also without a dispatcher.
WritesDirectly(t) ==
  /\ (pc[t] = "direct" \/ (pc[t] = "submit" /\ ~async)) /\ Finish(t, "direct") /\ direct' = direct \cup {Rec(t)}
  /\ UNCHANGED <<regVars, running, queue, qlock, workVars, out, order, stderr,
                 keeps, endVars>>

Retries(t) ==
  /\ pc[t] = "sleep" /\ qlock = NoOne /\ ~Full /\ Push(t)
  /\ UNCHANGED <<regVars, running, qlock, workVars, out, direct, stderr, keeps, endVars>>

Drops(t) ==
  /\ pc[t] = "sleep" \/ (pc[t] = "submit" /\ async /\ Level[t] = "info")
  /\ qlock = NoOne /\ Full /\ Finish(t, "dropped")
  /\ UNCHANGED <<regVars, running, queue, qlock, workVars, out, order, direct,
                 stderr, keeps, endVars>>

Logs(t) == \/ Gets(t) \/ LogBegins(t) \/ BridgeBegins(t) \/ Enqueues(t) \/ Overflows(t)
           \/ WritesDirectly(t) \/ Retries(t) \/ Drops(t)
-----------------------------------------------------------------------------
(* workerLoop                                                              *)

WorkerTests ==
  /\ wpc = "test" /\ wpc' = IF running THEN "wait" ELSE "exited"
  /\ UNCHANGED <<regVars, running, queue, qlock, batch, out, logVars, endVars>>

Taken == IF Len(queue) < BatchMax THEN Len(queue) ELSE BatchMax

\* Mutant: stop() is no reason to wake up, and time is none either.
WorkerTakesOnly ==
  /\ wpc = "wait" /\ qlock = NoOne /\ queue # <<>> /\ wpc' = "write"
  /\ batch' = SubSeq(queue, 1, Taken)
  /\ queue' = SubSeq(queue, Taken + 1, Len(queue))
  /\ UNCHANGED <<regVars, running, qlock, out, logVars, endVars>>

\* wait_for ends with records, with stop(), or after the flush interval, which
\* also covers a notification that came before the wait.
WorkerTakes ==
  /\ wpc = "wait" /\ qlock = NoOne /\ wpc' = "write"
  /\ batch' = SubSeq(queue, 1, Taken)
  /\ queue' = SubSeq(queue, Taken + 1, Len(queue))
  /\ UNCHANGED <<regVars, running, qlock, out, logVars, endVars>>

\* One record of the batch, outside m_mutex; then waiting flushes are notified.
WorkerWrites ==
  /\ wpc = "write"
  /\ IF batch = <<>>
     THEN wpc' = "test" /\ UNCHANGED <<batch, out>>
     ELSE /\ out' = Append(out, Head(batch)) /\ batch' = Tail(batch)
          /\ UNCHANGED wpc
  /\ UNCHANGED <<regVars, running, queue, qlock, logVars, endVars>>

Worker == WorkerTests \/ WorkerTakes \/ WorkerWrites
-----------------------------------------------------------------------------
(* LoggerRegistry::init and shutdown, AsyncDispatcher::stop and flush      *)

\* Mutant: without the asynchronous path the old dispatcher stays.
InitsOverOld ==
  /\ regLock = NoOne /\ ~initialized /\ gen < MaxInits
  /\ initialized' = TRUE /\ gen' = gen + 1
  /\ \E a \in BOOLEAN : /\ async' = (a \/ async) /\ running' = a
                        /\ wpc' = IF a THEN "test" ELSE "none"
  /\ queue' = <<>> /\ order' = out
  /\ UNCHANGED <<regLock, qlock, batch, out, pc, line, fate, direct, stderr,
                 keeps, endVars>>

\* init(), with the asynchronous path or without: the dispatcher of the init()
\* before is destroyed, with what was queued after it had been stopped.
Inits ==
  /\ regLock = NoOne /\ ~initialized /\ gen < MaxInits
  /\ initialized' = TRUE /\ gen' = gen + 1
  /\ \E a \in BOOLEAN : /\ async' = a /\ running' = a
                        /\ wpc' = IF a THEN "test" ELSE "none"
  /\ queue' = <<>> /\ order' = out
  /\ UNCHANGED <<regLock, qlock, batch, out, pc, line, fate, direct, stderr,
                 keeps, endVars>>

SGoto(s, from, to) == spc[s] = from /\ spc' = [spc EXCEPT ![s] = to]

ShutdownBegins(s) ==
  /\ regLock = NoOne /\ regLock' = s
  /\ SGoto(s, "idle", IF async THEN "exchange" ELSE "reset")
  /\ UNCHANGED <<initialized, gen, async, running, queue, qlock, workVars, out,
                 logVars, fpc, goal>>

\* stop(): m_running.exchange(false)
StopExchanges(s) ==
  /\ SGoto(s, "exchange", IF running THEN "join" ELSE "reset")
  /\ running' = FALSE
  /\ goal' = [goal EXCEPT ![s] = IF running THEN Queued
                                 ELSE UNION {goal[x] : x \in Stoppers}]
  /\ UNCHANGED <<regVars, queue, qlock, workVars, out, logVars, fpc>>

\* Mutant: the queue is drained while the worker may still be writing.
StopJoinsNobody(s) ==
  /\ qlock = NoOne /\ qlock' = s /\ SGoto(s, "join", "drain")
  /\ UNCHANGED <<regVars, running, queue, workVars, out, logVars, fpc, goal>>

StopJoins(s) ==
  /\ wpc = "exited" /\ qlock = NoOne /\ qlock' = s /\ SGoto(s, "join", "drain")
  /\ UNCHANGED <<regVars, running, queue, workVars, out, logVars, fpc, goal>>

\* Mutant: what is still queued is left to the next start().
StopDrainsNothing(s) ==
  /\ SGoto(s, "drain", "reset") /\ qlock' = NoOne /\ UNCHANGED <<queue, out>>
  /\ UNCHANGED <<regVars, running, workVars, logVars, fpc, goal>>

\* The rest of the queue is written with m_mutex held.
StopDrains(s) ==
  /\ spc[s] = "drain"
  /\ IF queue = <<>>
     THEN SGoto(s, "drain", "reset") /\ qlock' = NoOne /\ UNCHANGED <<queue, out>>
     ELSE /\ out' = Append(out, Head(queue)) /\ queue' = Tail(queue)
          /\ UNCHANGED <<spc, qlock>>
  /\ UNCHANGED <<regVars, running, workVars, logVars, fpc, goal>>

ShutdownReturns(s) ==
  /\ SGoto(s, "reset", "done") /\ initialized' = FALSE /\ regLock' = NoOne
  /\ UNCHANGED <<gen, async, running, queue, qlock, workVars, out, logVars, fpc,
                 goal>>

Shuts(s) == \/ StopExchanges(s) \/ StopJoins(s) \/ StopDrains(s)
            \/ ShutdownReturns(s)

\* With a Logger that is not out of date; without a dispatcher there is nothing
\* to wait for.
FlushBegins(f) ==
  /\ async /\ fpc[f] = "idle" /\ fpc' = [fpc EXCEPT ![f] = "wait"] /\ Keep(f)
  /\ goal' = [goal EXCEPT ![f] = Queued]
  /\ UNCHANGED <<regVars, running, queue, qlock, workVars, out, pc, line, fate,
                 order, direct, stderr, spc>>

Flushes(f, to) ==
  /\ fpc[f] = "wait" /\ qlock = NoOne /\ fpc' = [fpc EXCEPT ![f] = to]
  /\ goal' = [goal EXCEPT ![f] = IF to = "done" THEN @ ELSE {}]
  /\ keeps' = [keeps EXCEPT ![f] = 0]
  /\ UNCHANGED <<regVars, running, queue, qlock, workVars, out, pc, line, fate,
                 order, direct, stderr, spc>>

\* The queue is empty; the worker may still have the batch it took.
FlushReturns(f) == queue = <<>> /\ Flushes(f, "done")

\* Two flush intervals have passed.
FlushTimesOut(f) == queue # <<>> /\ Flushes(f, "idle")

\* A Logger that was kept, or a call that was asleep, over shutdown() and
\* init() uses objects that have been destroyed: the process may end here.
Stale == \/ \E t \in Threads : /\ pc[t] # "idle" /\ keeps[t] # gen
                            /\ (t \in Loggers \/ pc[t] # "submit")
         \/ \E f \in Flushers : fpc[f] = "wait" /\ keeps[f] # gen

LogsStale(t) ==
  /\ t \in Loggers /\ line[t] < Lines /\ keeps[t] \notin {0, gen}
  /\ Goto(t, "idle", "direct")
  /\ UNCHANGED <<regVars, running, queue, qlock, workVars, out, line, fate,
                 order, direct, stderr, keeps, endVars>>

Next ==
  /\ ~Stale
  /\ \/ Inits \/ Worker \/ \E t \in Threads : Logs(t) \/ LogsStale(t)
     \/ \E s \in Stoppers : ShutdownBegins(s) \/ Shuts(s)
     \/ \E f \in Flushers : FlushBegins(f) \/ FlushReturns(f) \/ FlushTimesOut(f)

Spec == Init /\ [][Next]_vars

\* The worker runs, and a shutdown() that has begun goes on.
FairSpec ==
  /\ Spec /\ WF_vars(~Stale /\ Worker)
  /\ \A s \in Stoppers : WF_vars(~Stale /\ Shuts(s))
-----------------------------------------------------------------------------
TypeOK ==
  /\ gen \in 0..MaxInits /\ async \in BOOLEAN
  /\ keeps \in [Threads \cup Flushers -> 0..MaxInits]
  /\ initialized \in BOOLEAN /\ running \in BOOLEAN
  /\ regLock \in Stoppers \cup {NoOne} /\ qlock \in Stoppers \cup {NoOne}
  /\ queue \in Seq(Records) /\ batch \in Seq(Records)
  /\ out \in Seq(Records) /\ order \in Seq(Records)
  /\ wpc \in {"none", "test", "wait", "write", "exited"}
  /\ direct \subseteq Records /\ stderr \subseteq Records
  /\ pc \in [Threads -> {"idle", "submit", "direct", "sleep"}]
  /\ line \in [Threads -> 0..Lines]
  /\ fate \in [Records -> {"new", "queued", "direct", "stderr", "dropped", "late"}]
  /\ spc \in [Stoppers -> {"idle", "exchange", "join", "drain", "reset", "done"}]
  /\ fpc \in [Flushers -> {"idle", "wait", "done"}]
  /\ goal \in [Stoppers \cup Flushers -> SUBSET Records]

\* What was queued is written once and in that order, whether the worker or
\* stop() writes it: nothing is lost, repeated or overtaken in the queue.
Fifo == out \o batch \o queue = order

\* When shutdown() returns, to whichever thread, all that had been queued when
\* m_running was cleared has reached the sinks; when flush() returns before its
\* time-out, all that had been queued but for the batch the worker is writing.
ShutdownAndFlushWrite ==
  /\ \A s \in Stoppers : spc[s] = "done" => goal[s] \subseteq Elems(out)
  /\ \A f \in Flushers :
       fpc[f] = "done" => goal[f] \subseteq Elems(out) \cup Elems(batch)

\* A record that was queued while the log was up is written in the end, however
\* the worker, stop() and a full queue interleave, and whatever an earlier init()
\* left behind ("a stopped dispatcher must not swallow logs", log_logger.cpp:74).
AcceptedIsWritten ==
  \A r \in Records : fate[r] = "queued" ~> (r \in Elems(out) \/ Stale)

\* shutdown() returns: neither the worker nor a logging thread keeps it.
ShutdownEnds == \A s \in Stoppers : spc[s] # "idle" ~> (spc[s] = "done" \/ Stale)
=============================================================================

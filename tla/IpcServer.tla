----------------------------- MODULE IpcServer -----------------------------
(***************************************************************************)
(* The AF_UNIX server of the framework (ipc_server.cpp): the control       *)
(* thread that calls start() and stop(), the accept thread, one detached   *)
(* thread per accepted connection, and the application threads that push   *)
(* events.  The kernel's table of descriptor numbers is part of the model: *)
(* a number that close() frees is handed out again by the next accept(),   *)
(* or by any other open() of the process.                                  *)
(*                                                                         *)
(* Each critical section of m_mutex is one step.  A frame is sent in two   *)
(* steps, for the several send() calls Protocol::writeAll may need, so     *)
(* that what write_mutex serialises can go wrong.                          *)
(***************************************************************************)
EXTENDS Naturals, FiniteSets

CONSTANTS
  Conns,        \* connections clients make; also names their ClientState
  Fds,          \* descriptor numbers accept() can return
  Pushers,      \* application threads that call push_event[_to]
  Stalling,     \* the connections whose peer may stop reading
  NoConn,       \* a free descriptor number; no ClientState; no lock holder
  Foreign,      \* a file the rest of the process opened
  NoFd,
  MaxRuns,      \* bound: successful or failed calls of start()
  MaxRequests,  \* bound: request frames of each connection
  MaxPushes,    \* bound: calls of push_event and push_event_to
  MaxForeign    \* bound: files the rest of the process opens

ASSUME ServerConstants ==
  /\ Stalling \subseteq Conns
  /\ NoConn \notin Conns \cup Pushers \cup {Foreign}
  /\ Foreign \notin Conns
  /\ NoFd \notin Fds
  /\ Conns \cap Pushers = {}
  /\ MaxRuns \in Nat /\ MaxRequests \in [Conns -> Nat]
  /\ MaxPushes \in Nat /\ MaxForeign \in Nat

VARIABLES
  running,    \* m_running
  handlers,   \* m_requestHandler and m_disconnectHandler: the number of the
              \* start() that installed them, 0 when they are null
  runs,       \* how often start() was called
  ctl,        \* where the thread that calls start() and stop() is
  ctlFds,     \* `fds' of stop()
  woken,      \* the shutdown pipe is readable
  acc,        \* where the accept thread is
  accConn,    \* the connection accept() returned, not yet in m_clients
  clients,    \* m_clients: descriptor number -> ClientState
  subs,       \* the ClientStates subscribed to the event
  wlock,      \* holder of each ClientState::write_mutex
  pc,         \* the connection: its thread's program counter
  fdOf,       \* client_fd of its thread
  req,        \* request frames its peer may still send
  inbox,      \* request frames not yet read by the thread
  handler,    \* the handler its thread copied
  disc,       \* how often the disconnect handler was called for it
  file,       \* the kernel's table: what a descriptor number stands for
  up,         \* connections whose stream is open in both directions
  stalled,    \* connections whose peer does not read and whose buffer is full
  partial,    \* who has sent only the first part of a frame on the stream
  broken,     \* connections whose stream is no sequence of whole frames
  strayed,    \* files that got bytes meant for another connection
  ppc, todo,  \* a pusher: its program counter, the targets it has collected
  cur,        \*           and the target it is writing to
  pushes, foreign

ctlVars  == <<running, handlers, runs, ctl, ctlFds, woken>>
accVars  == <<acc, accConn>>
mapVars  == <<clients, subs>>
connVars == <<pc, fdOf, inbox, handler, disc>>
peerVars == <<req, stalled>>
outVars  == <<partial, broken, strayed>>
pushVars == <<ppc, todo, cur, pushes>>
vars == <<ctlVars, accVars, mapVars, wlock, connVars, peerVars, file, up,
          outVars, pushVars, foreign>>

Files == Conns \cup {Foreign}
Free(f) == file[f] = NoConn
\* connect() succeeds from listen() until stop() closes the listen socket.
Listening == ctl \notin {"down", "starting"}
\* The thread of the connection runs and has not yet called close().
Served == {"check", "read", "copy", "handle", "find", "lock", "w1", "w2",
           "erase", "test", "disc", "notify", "close"}
\* ... and has not yet left m_clients.
Registered == Served \ {"test", "disc", "notify", "close"}

Init ==
  /\ running = FALSE /\ handlers = 0 /\ runs = 0
  /\ ctl = "down" /\ ctlFds = {} /\ woken = FALSE
  /\ acc = "off" /\ accConn = NoConn
  /\ clients = [f \in Fds |-> NoConn] /\ subs = {}
  /\ wlock = [c \in Conns |-> NoConn]
  /\ pc = [c \in Conns |-> "new"] /\ fdOf = [c \in Conns |-> NoFd]
  /\ req = MaxRequests /\ inbox = [c \in Conns |-> 0]
  /\ handler = [c \in Conns |-> 0] /\ disc = [c \in Conns |-> 0]
  /\ file = [f \in Fds |-> NoConn] /\ up = {} /\ stalled = {}
  /\ partial = [c \in Conns |-> NoConn] /\ broken = {} /\ strayed = {}
  /\ ppc = [p \in Pushers |-> "idle"] /\ todo = [p \in Pushers |-> {}]
  /\ cur = [p \in Pushers |-> <<NoFd, NoConn>>] /\ pushes = 0 /\ foreign = 0
-----------------------------------------------------------------------------
(* start() and stop(), called one after the other by one thread.           *)

\* The handlers are stored before anything that can fail, without m_mutex.
StartInstall ==
  /\ ctl = "down" /\ runs < MaxRuns
  /\ runs' = runs + 1 /\ handlers' = runs + 1 /\ ctl' = "starting"
  /\ UNCHANGED <<running, ctlFds, woken, accVars, mapVars, wlock, connVars,
                 peerVars, file, up, outVars, pushVars, foreign>>

\* pipe(), socket(), bind() or listen() fails: the descriptors are closed
\* again and start() returns false; the handlers stay.
StartFails ==
  /\ ctl = "starting" /\ ctl' = "down"
  /\ UNCHANGED <<running, handlers, runs, ctlFds, woken, accVars, mapVars,
                 wlock, connVars, peerVars, file, up, outVars, pushVars, foreign>>

StartListens ==
  /\ ctl = "starting"
  /\ ctl' = "up" /\ running' = TRUE /\ woken' = FALSE /\ acc' = "check"
  /\ UNCHANGED <<handlers, runs, ctlFds, accConn, mapVars, wlock, connVars,
                 peerVars, file, up, outVars, pushVars, foreign>>

StopBegins ==
  /\ ctl = "up" /\ running
  /\ running' = FALSE /\ ctl' = "wake"
  /\ UNCHANGED <<handlers, runs, ctlFds, woken, accVars, mapVars, wlock,
                 connVars, peerVars, file, up, outVars, pushVars, foreign>>

\* Mutant: stop() does not write to the shutdown pipe.
StopWakesNobody ==
  /\ ctl = "wake" /\ ctl' = "join"
  /\ UNCHANGED <<running, handlers, runs, ctlFds, woken, accVars, mapVars,
                 wlock, connVars, peerVars, file, up, outVars, pushVars, foreign>>

StopWakes ==
  /\ ctl = "wake" /\ woken' = TRUE /\ ctl' = "join"
  /\ UNCHANGED <<running, handlers, runs, ctlFds, accVars, mapVars, wlock,
                 connVars, peerVars, file, up, outVars, pushVars, foreign>>

\* Mutant: the registered connections are copied before the accept thread has
\* been joined.
StopCollectsEarly ==
  /\ ctl = "join"
  /\ ctlFds' = {f \in Fds : clients[f] # NoConn} /\ ctl' = "shut"
  /\ UNCHANGED <<running, handlers, runs, woken, accVars, mapVars, wlock,
                 connVars, peerVars, file, up, outVars, pushVars, foreign>>

\* Joins the accept thread and copies the keys of m_clients.
StopCollects ==
  /\ ctl = "join" /\ acc = "off"
  /\ ctlFds' = {f \in Fds : clients[f] # NoConn} /\ ctl' = "shut"
  /\ UNCHANGED <<running, handlers, runs, woken, accVars, mapVars, wlock,
                 connVars, peerVars, file, up, outVars, pushVars, foreign>>

\* Mutant: stop() calls the disconnect handler itself.
StopShutsAndNotifies(f) ==
  /\ ctl = "shut" /\ f \in ctlFds
  /\ ctlFds' = ctlFds \ {f} /\ up' = up \ {file[f]}
  /\ disc' = [c \in Conns |-> IF file[f] = c THEN disc[c] + 1 ELSE disc[c]]
  /\ UNCHANGED <<running, handlers, runs, ctl, woken, accVars, mapVars, wlock,
                 pc, fdOf, inbox, handler, peerVars, file, outVars, pushVars,
                 foreign>>

\* Mutant: close() instead of shutdown().
StopShutsByClosing(f) ==
  /\ ctl = "shut" /\ f \in ctlFds
  /\ ctlFds' = ctlFds \ {f} /\ up' = up \ {file[f]}
  /\ file' = [file EXCEPT ![f] = NoConn]
  /\ UNCHANGED <<running, handlers, runs, ctl, woken, accVars, mapVars, wlock,
                 connVars, peerVars, outVars, pushVars, foreign>>

\* Mutant: the connections are not shut down, their threads are expected to
\* notice m_running.
StopShutsNothing(f) ==
  /\ ctl = "shut" /\ f \in ctlFds /\ ctlFds' = ctlFds \ {f}
  /\ UNCHANGED <<running, handlers, runs, ctl, woken, accVars, mapVars, wlock,
                 connVars, peerVars, file, up, outVars, pushVars, foreign>>

\* shutdown(fd) outside m_mutex: it acts on whatever the number stands for.
StopShuts(f) ==
  /\ ctl = "shut" /\ f \in ctlFds
  /\ ctlFds' = ctlFds \ {f}
  /\ up' = up \ {file[f]}
  /\ strayed' = IF file[f] = Foreign THEN strayed \cup {Foreign} ELSE strayed
  /\ UNCHANGED <<running, handlers, runs, ctl, woken, accVars, mapVars, wlock,
                 connVars, peerVars, file, partial, broken, pushVars, foreign>>

StopClears ==
  /\ ctl = "shut" /\ ctlFds = {}
  /\ handlers' = 0 /\ ctl' = "clear"
  /\ UNCHANGED <<running, runs, ctlFds, woken, accVars, mapVars, wlock,
                 connVars, peerVars, file, up, outVars, pushVars, foreign>>

\* Closes the listen socket (a connection still in its backlog is reset) and
\* the pipe, unlinks the path, and returns.
StopReturns ==
  /\ ctl = "clear" /\ ctl' = "down"
  /\ pc' = [c \in Conns |-> IF pc[c] = "backlog" THEN "done" ELSE pc[c]]
  /\ up' = {c \in up : pc[c] # "backlog"}
  /\ UNCHANGED <<running, handlers, runs, ctlFds, woken, accVars, mapVars,
                 wlock, fdOf, inbox, handler, disc, peerVars, file, outVars,
                 pushVars, foreign>>

Control == \/ StartInstall \/ StartFails \/ StartListens \/ StopBegins
           \/ StopWakes \/ StopCollects \/ StopClears \/ StopReturns
           \/ \E f \in Fds : StopShuts(f)
-----------------------------------------------------------------------------
(* acceptLoop()                                                            *)

AcceptChecks ==
  /\ acc = "check" /\ acc' = IF running THEN "select" ELSE "off"
  /\ UNCHANGED <<ctlVars, accConn, mapVars, wlock, connVars, peerVars, file,
                 up, outVars, pushVars, foreign>>

AcceptWoken ==
  /\ acc = "select" /\ woken /\ acc' = "off"
  /\ UNCHANGED <<ctlVars, accConn, mapVars, wlock, connVars, peerVars, file,
                 up, outVars, pushVars, foreign>>

Accepts(c, f) ==
  /\ acc = "select" /\ ~woken /\ pc[c] = "backlog" /\ Free(f)
  /\ acc' = "register" /\ accConn' = c
  /\ file' = [file EXCEPT ![f] = c] /\ fdOf' = [fdOf EXCEPT ![c] = f]
  /\ pc' = [pc EXCEPT ![c] = "accepted"]
  /\ UNCHANGED <<ctlVars, mapVars, wlock, inbox, handler, disc, peerVars, up,
                 outVars, pushVars, foreign>>

\* accept() finds no free descriptor number: logged, and the loop goes on.
AcceptFails(c) ==
  /\ acc = "select" /\ ~woken /\ pc[c] = "backlog" /\ \A f \in Fds : ~Free(f)
  /\ acc' = "check"
  /\ UNCHANGED <<ctlVars, accConn, mapVars, wlock, connVars, peerVars, file,
                 up, outVars, pushVars, foreign>>

\* m_clients[client_fd] = a new ClientState; the thread is started, detached.
AcceptRegisters ==
  /\ acc = "register"
  /\ clients' = [clients EXCEPT ![fdOf[accConn]] = accConn]
  /\ pc' = [pc EXCEPT ![accConn] = "check"]
  /\ acc' = "check" /\ accConn' = NoConn
  /\ UNCHANGED <<ctlVars, subs, wlock, fdOf, inbox, handler, disc, peerVars,
                 file, up, outVars, pushVars, foreign>>

Acceptor == \/ AcceptChecks \/ AcceptWoken \/ AcceptRegisters
            \/ \E c \in Conns : AcceptFails(c) \/ \E f \in Fds : Accepts(c, f)
-----------------------------------------------------------------------------
(* Sending one frame: w is the writer, f the number it writes to and c the *)
(* connection the frame is meant for.                                      *)

\* send() fails on a closed number (EBADF) or a stream that is shut (EPIPE).
SendFails(f) == file[f] = NoConn \/ (file[f] \in Conns /\ file[f] \notin up)
\* The peer's buffer is full: send() blocks until it reads or goes away.
SendBlocks(f) == file[f] \in up \cap stalled
CanSend(f) == ~SendFails(f) /\ ~SendBlocks(f)

SendPart(w, f, c, rest) ==
  LET to == file[f] IN
  /\ strayed' = IF to = c THEN strayed ELSE strayed \cup {to}
  /\ IF to = Foreign
     THEN UNCHANGED <<partial, broken>>
     ELSE /\ partial' = [partial EXCEPT ![to] = IF rest THEN w ELSE NoConn]
          /\ broken' = IF partial[to] = (IF rest THEN NoConn ELSE w)
                       THEN broken ELSE broken \cup {to}
-----------------------------------------------------------------------------
(* connectionLoop(), the thread of connection c                            *)

Goto(c, to) == pc' = [pc EXCEPT ![c] = to]

ConnChecks(c) ==
  /\ pc[c] = "check" /\ Goto(c, IF running THEN "read" ELSE "erase")
  /\ UNCHANGED <<ctlVars, accVars, mapVars, wlock, fdOf, inbox, handler, disc,
                 peerVars, file, up, outVars, pushVars, foreign>>

\* readRequest: bytes that arrived before a shutdown can still be read.
ConnReads(c) ==
  /\ pc[c] = "read" /\ inbox[c] > 0
  /\ inbox' = [inbox EXCEPT ![c] = @ - 1] /\ Goto(c, "copy")
  /\ UNCHANGED <<ctlVars, accVars, mapVars, wlock, fdOf, handler, disc,
                 peerVars, file, up, outVars, pushVars, foreign>>

\* Mutant: the end of the stream does not leave the loop.
ConnReadsEofAgain(c) ==
  /\ pc[c] = "read" /\ inbox[c] = 0 /\ c \notin up /\ Goto(c, "check")
  /\ UNCHANGED <<ctlVars, accVars, mapVars, wlock, fdOf, inbox, handler, disc,
                 peerVars, file, up, outVars, pushVars, foreign>>

ConnReadsEof(c) ==
  /\ pc[c] = "read" /\ inbox[c] = 0 /\ c \notin up /\ Goto(c, "erase")
  /\ UNCHANGED <<ctlVars, accVars, mapVars, wlock, fdOf, inbox, handler, disc,
                 peerVars, file, up, outVars, pushVars, foreign>>

\* SO_RCVTIMEO expires, or the frame exceeds max_frame_bytes.
ConnReadFails(c) ==
  /\ pc[c] = "read" /\ c \in up /\ Goto(c, "erase")
  /\ UNCHANGED <<ctlVars, accVars, mapVars, wlock, fdOf, inbox, handler, disc,
                 peerVars, file, up, outVars, pushVars, foreign>>

\* A null handler answers kHandlerFailed at once.
ConnCopies(c) ==
  /\ pc[c] = "copy"
  /\ handler' = [handler EXCEPT ![c] = handlers]
  /\ Goto(c, IF handlers = 0 THEN "find" ELSE "handle")
  /\ UNCHANGED <<ctlVars, accVars, mapVars, wlock, fdOf, inbox, disc,
                 peerVars, file, up, outVars, pushVars, foreign>>

\* The handler returns or throws (kHandlerFailed); on the way it may have
\* called add_subscription or remove_subscription for client_fd.
ConnHandles(c) ==
  /\ pc[c] = "handle" /\ Goto(c, "find")
  /\ \/ subs' = subs
     \/ subs' = subs \cup ({clients[fdOf[c]]} \ {NoConn})
     \/ subs' = subs \ {clients[fdOf[c]]}
  /\ handler' = [handler EXCEPT ![c] = 0]
  /\ UNCHANGED <<ctlVars, accVars, clients, wlock, fdOf, inbox, disc,
                 peerVars, file, up, outVars, pushVars, foreign>>

ConnFinds(c) ==
  /\ pc[c] = "find"
  /\ Goto(c, IF clients[fdOf[c]] = NoConn THEN "erase" ELSE "lock")
  /\ UNCHANGED <<ctlVars, accVars, mapVars, wlock, fdOf, inbox, handler, disc,
                 peerVars, file, up, outVars, pushVars, foreign>>

\* Mutant: the response is written without the write lock.
ConnLocksNothing(c) ==
  /\ pc[c] = "lock" /\ Goto(c, "w1")
  /\ UNCHANGED <<ctlVars, accVars, mapVars, wlock, fdOf, inbox, handler, disc,
                 peerVars, file, up, outVars, pushVars, foreign>>

ConnLocks(c) ==
  /\ pc[c] = "lock" /\ wlock[c] = NoConn
  /\ wlock' = [wlock EXCEPT ![c] = c] /\ Goto(c, "w1")
  /\ UNCHANGED <<ctlVars, accVars, mapVars, fdOf, inbox, handler, disc,
                 peerVars, file, up, outVars, pushVars, foreign>>

ConnSends(c) ==
  /\ pc[c] \in {"w1", "w2"} /\ CanSend(fdOf[c])
  /\ SendPart(c, fdOf[c], c, pc[c] = "w1")
  /\ Goto(c, IF pc[c] = "w1" THEN "w2" ELSE "check")
  /\ wlock' = IF pc[c] = "w1" THEN wlock ELSE [wlock EXCEPT ![c] = NoConn]
  /\ UNCHANGED <<ctlVars, accVars, mapVars, fdOf, inbox, handler, disc,
                 peerVars, file, up, pushVars, foreign>>

ConnSendFails(c) ==
  /\ pc[c] \in {"w1", "w2"} /\ SendFails(fdOf[c])
  /\ wlock' = [wlock EXCEPT ![c] = NoConn] /\ Goto(c, "erase")
  /\ UNCHANGED <<ctlVars, accVars, mapVars, fdOf, inbox, handler, disc,
                 peerVars, file, up, outVars, pushVars, foreign>>

\* Mutant: the thread leaves without erasing its entry.
ConnErasesNothing(c) ==
  /\ pc[c] = "erase" /\ Goto(c, "test")
  /\ UNCHANGED <<ctlVars, accVars, mapVars, wlock, fdOf, inbox, handler, disc,
                 peerVars, file, up, outVars, pushVars, foreign>>

\* m_clients.erase(client_fd)
ConnErases(c) ==
  /\ pc[c] = "erase"
  /\ clients' = [clients EXCEPT ![fdOf[c]] = NoConn] /\ Goto(c, "test")
  /\ UNCHANGED <<ctlVars, accVars, subs, wlock, fdOf, inbox, handler, disc,
                 peerVars, file, up, outVars, pushVars, foreign>>

ConnTests(c) ==
  /\ pc[c] = "test" /\ Goto(c, IF running THEN "disc" ELSE "close")
  /\ UNCHANGED <<ctlVars, accVars, mapVars, wlock, fdOf, inbox, handler, disc,
                 peerVars, file, up, outVars, pushVars, foreign>>

\* Mutant: close(client_fd) comes before the disconnect handler.
ConnNotifiesAfterClose(c) ==
  /\ pc[c] = "disc"
  /\ handler' = [handler EXCEPT ![c] = handlers]
  /\ IF handlers = 0
     THEN disc' = disc /\ Goto(c, "close")
     ELSE disc' = [disc EXCEPT ![c] = @ + 1] /\ Goto(c, "notify")
  /\ file' = [file EXCEPT ![fdOf[c]] = NoConn] /\ up' = up \ {c}
  /\ UNCHANGED <<ctlVars, accVars, mapVars, wlock, fdOf, inbox, peerVars,
                 outVars, pushVars, foreign>>

\* Copies the disconnect handler under m_mutex and calls it outside.
ConnNotifies(c) ==
  /\ pc[c] = "disc"
  /\ handler' = [handler EXCEPT ![c] = handlers]
  /\ IF handlers = 0
     THEN disc' = disc /\ Goto(c, "close")
     ELSE disc' = [disc EXCEPT ![c] = @ + 1] /\ Goto(c, "notify")
  /\ UNCHANGED <<ctlVars, accVars, mapVars, wlock, fdOf, inbox, peerVars,
                 file, up, outVars, pushVars, foreign>>

ConnNotified(c) ==
  /\ pc[c] = "notify" /\ Goto(c, "close")
  /\ handler' = [handler EXCEPT ![c] = 0]
  /\ UNCHANGED <<ctlVars, accVars, mapVars, wlock, fdOf, inbox, disc,
                 peerVars, file, up, outVars, pushVars, foreign>>

\* close(client_fd), without the write lock: the number is free again.
ConnCloses(c) ==
  /\ pc[c] = "close" /\ Goto(c, "done")
  /\ file' = [file EXCEPT ![fdOf[c]] = NoConn] /\ up' = up \ {c}
  /\ fdOf' = [fdOf EXCEPT ![c] = NoFd]
  /\ UNCHANGED <<ctlVars, accVars, mapVars, wlock, inbox, handler, disc,
                 peerVars, outVars, pushVars, foreign>>

\* What the thread does by itself; ConnReadFails waits for a timeout.
ConnRuns(c) ==
  \/ ConnChecks(c) \/ ConnReads(c) \/ ConnReadsEof(c) \/ ConnCopies(c)
  \/ ConnHandles(c) \/ ConnFinds(c) \/ ConnLocks(c) \/ ConnSends(c)
  \/ ConnSendFails(c) \/ ConnErases(c) \/ ConnTests(c) \/ ConnNotifies(c)
  \/ ConnNotified(c) \/ ConnCloses(c)
-----------------------------------------------------------------------------
(* pushEvent() and pushEventTo()                                           *)

Targets == {<<f, clients[f]>> : f \in {g \in Fds : clients[g] \in subs}}

\* pushEvent: the subscribed (fd, state) pairs, collected under m_mutex.
PushCollects(p) ==
  /\ ppc[p] = "idle" /\ pushes < MaxPushes
  /\ pushes' = pushes + 1
  /\ todo' = [todo EXCEPT ![p] = Targets]
  /\ ppc' = [ppc EXCEPT ![p] = "next"]
  /\ UNCHANGED <<ctlVars, accVars, mapVars, wlock, connVars, peerVars, file,
                 up, outVars, cur, foreign>>

\* pushEventTo: one pair; false when fd is not registered or not subscribed.
PushToCollects(p, f) ==
  /\ ppc[p] = "idle" /\ pushes < MaxPushes
  /\ pushes' = pushes + 1
  /\ \E t \in Targets : t[1] = f /\ todo' = [todo EXCEPT ![p] = {t}]
  /\ ppc' = [ppc EXCEPT ![p] = "next"]
  /\ UNCHANGED <<ctlVars, accVars, mapVars, wlock, connVars, peerVars, file,
                 up, outVars, cur, foreign>>

PushLocks(p, t) ==
  /\ ppc[p] = "next" /\ t \in todo[p] /\ wlock[t[2]] = NoConn
  /\ wlock' = [wlock EXCEPT ![t[2]] = p]
  /\ todo' = [todo EXCEPT ![p] = @ \ {t}] /\ cur' = [cur EXCEPT ![p] = t]
  /\ ppc' = [ppc EXCEPT ![p] = "w1"]
  /\ UNCHANGED <<ctlVars, accVars, mapVars, connVars, peerVars, file, up,
                 outVars, pushes, foreign>>

PushSends(p) ==
  /\ ppc[p] \in {"w1", "w2"} /\ CanSend(cur[p][1])
  /\ SendPart(p, cur[p][1], cur[p][2], ppc[p] = "w1")
  /\ ppc' = [ppc EXCEPT ![p] = IF @ = "w1" THEN "w2" ELSE "next"]
  /\ wlock' = IF ppc[p] = "w1" THEN wlock
              ELSE [wlock EXCEPT ![cur[p][2]] = NoConn]
  /\ UNCHANGED <<ctlVars, accVars, mapVars, connVars, peerVars, file, up,
                 todo, cur, pushes, foreign>>

PushSendFails(p) ==
  /\ ppc[p] \in {"w1", "w2"} /\ SendFails(cur[p][1])
  /\ wlock' = [wlock EXCEPT ![cur[p][2]] = NoConn]
  /\ ppc' = [ppc EXCEPT ![p] = "next"]
  /\ UNCHANGED <<ctlVars, accVars, mapVars, connVars, peerVars, file, up,
                 outVars, todo, cur, pushes, foreign>>

PushReturns(p) ==
  /\ ppc[p] = "next" /\ todo[p] = {}
  /\ ppc' = [ppc EXCEPT ![p] = "idle"]
  /\ cur' = [cur EXCEPT ![p] = <<NoFd, NoConn>>]
  /\ UNCHANGED <<ctlVars, accVars, mapVars, wlock, connVars, peerVars, file,
                 up, outVars, todo, pushes, foreign>>

\* A push that has begun.
PushRuns(p) == \/ PushSends(p) \/ PushSendFails(p) \/ PushReturns(p)
               \/ \E t \in todo[p] : PushLocks(p, t)
Push(p) == PushCollects(p) \/ PushRuns(p) \/ \E f \in Fds : PushToCollects(p, f)
-----------------------------------------------------------------------------
(* The clients, and the rest of the process                                *)

Connects(c) ==
  /\ Listening /\ pc[c] = "new" /\ pc' = [pc EXCEPT ![c] = "backlog"]
  /\ up' = up \cup {c}
  /\ UNCHANGED <<ctlVars, accVars, mapVars, wlock, fdOf, inbox, handler, disc,
                 peerVars, file, outVars, pushVars, foreign>>

SendsRequest(c) ==
  /\ c \in up /\ req[c] > 0
  /\ req' = [req EXCEPT ![c] = @ - 1] /\ inbox' = [inbox EXCEPT ![c] = @ + 1]
  /\ UNCHANGED <<ctlVars, accVars, mapVars, wlock, pc, fdOf, handler, disc,
                 stalled, file, up, outVars, pushVars, foreign>>

HangsUp(c) ==
  /\ c \in up /\ up' = up \ {c}
  /\ UNCHANGED <<ctlVars, accVars, mapVars, wlock, connVars, peerVars, file,
                 outVars, pushVars, foreign>>

Stalls(c) ==
  /\ c \in (up \cap Stalling) \ stalled /\ stalled' = stalled \cup {c}
  /\ UNCHANGED <<ctlVars, accVars, mapVars, wlock, connVars, req, file, up,
                 outVars, pushVars, foreign>>

ForeignOpens(f) ==
  /\ foreign < MaxForeign /\ Free(f)
  /\ foreign' = foreign + 1 /\ file' = [file EXCEPT ![f] = Foreign]
  /\ UNCHANGED <<ctlVars, accVars, mapVars, wlock, connVars, peerVars, up,
                 outVars, pushVars>>

ForeignCloses(f) ==
  /\ file[f] = Foreign /\ file' = [file EXCEPT ![f] = NoConn]
  /\ UNCHANGED <<ctlVars, accVars, mapVars, wlock, connVars, peerVars, up,
                 outVars, pushVars, foreign>>

Environment ==
  \/ \E c \in Conns : \/ Connects(c) \/ SendsRequest(c) \/ HangsUp(c)
                      \/ Stalls(c) \/ ConnReadFails(c)
  \/ \E f \in Fds : ForeignOpens(f) \/ ForeignCloses(f)

Next == \/ Control \/ Acceptor \/ Environment
        \/ \E c \in Conns : ConnRuns(c)
        \/ \E p \in Pushers : Push(p)

Spec == Init /\ [][Next]_vars

\* The scheduler runs every thread that is not blocked, and the handlers
\* return.  Nobody is obliged to connect, to push or to call start or stop.
Fairness ==
  /\ WF_vars(Acceptor)
  /\ WF_vars(StopWakes \/ StopCollects \/ StopClears \/ StopReturns
             \/ \E f \in Fds : StopShuts(f))
  /\ \A c \in Conns : WF_vars(ConnRuns(c))
  /\ \A p \in Pushers : WF_vars(PushRuns(p))

FairSpec == Spec /\ Fairness
-----------------------------------------------------------------------------
TypeOK ==
  /\ running \in BOOLEAN /\ woken \in BOOLEAN
  /\ runs \in 0..MaxRuns /\ handlers \in 0..MaxRuns
  /\ ctl \in {"down", "starting", "up", "wake", "join", "shut", "clear"}
  /\ ctlFds \subseteq Fds
  /\ acc \in {"off", "check", "select", "register"}
  /\ accConn \in Conns \cup {NoConn}
  /\ clients \in [Fds -> Conns \cup {NoConn}] /\ subs \subseteq Conns
  /\ wlock \in [Conns -> Conns \cup Pushers \cup {NoConn}]
  /\ pc \in [Conns -> {"new", "backlog", "accepted", "done"} \cup Served]
  /\ fdOf \in [Conns -> Fds \cup {NoFd}]
  /\ req \in [Conns -> Nat] /\ inbox \in [Conns -> Nat]
  /\ handler \in [Conns -> 0..MaxRuns] /\ disc \in [Conns -> Nat]
  /\ file \in [Fds -> Files \cup {NoConn}]
  /\ up \subseteq Conns /\ stalled \subseteq Conns
  /\ partial \in [Conns -> Conns \cup Pushers \cup {NoConn}]
  /\ broken \subseteq Conns /\ strayed \subseteq Files
  /\ ppc \in [Pushers -> {"idle", "next", "w1", "w2"}]
  /\ todo \in [Pushers -> SUBSET (Fds \X Conns)]
  /\ cur \in [Pushers -> (Fds \cup {NoFd}) \X (Conns \cup {NoConn})]
  /\ pushes \in Nat /\ foreign \in Nat

\* m_clients names exactly the connections whose thread is before its cleanup
\* (accept registers before it starts the thread, connectionLoop erases before
\* it closes): stop() can unblock every one of them, no push finds another.
RegistryExact ==
  \A f \in Fds, c \in Conns :
    (clients[f] = c) <=> (pc[c] \in Registered /\ fdOf[c] = f)

\* Until connectionLoop calls close(), its client_fd stands for its own
\* connection: no response, and no disconnect callback, concerns another.
ServedFdIsOwn ==
  \A c \in Conns : pc[c] \in Served => file[fdOf[c]] = c

\* The application may key its state by client_fd: the callbacks of two
\* connections are never in progress for the same number.
CallbacksNeverShareFd ==
  \A c, d \in Conns :
    /\ c # d
    /\ {pc[c], pc[d]} \subseteq {"handle", "notify"}
    => fdOf[c] # fdOf[d]

\* The disconnect handler runs at most once per connection, after the
\* connection has left m_clients (ipc.h: "at most once").
DisconnectOnce ==
  \A c \in Conns : /\ disc[c] <= 1
                   /\ disc[c] = 1 => \A f \in Fds : clients[f] # c

\* write_mutex keeps the frames of a connection apart: its peer reads a
\* sequence of whole frames, unless bytes of another connection reached it.
FramesWhole == broken \subseteq strayed

\* When stop() drops the handlers, the stream of every connection that is
\* still registered has been shut: its thread cannot stay in readRequest.
StopReachesAll ==
  ctl = "clear" => \A c \in Conns : pc[c] \in Registered => c \notin up

\* stop() returns, whatever the clients and the handlers do: it waits for the
\* accept thread only, which no connection can block.
StopTerminates == ctl \in {"wake", "join", "shut", "clear"} ~> ctl = "down"

\* A connection whose stream is down (the peer hung up, or stop() shut it) is
\* cleaned up and its descriptor freed, also when the server restarts meanwhile.
ConnectionsReaped ==
  \A c \in Conns : (pc[c] \in Served /\ c \notin up) ~> pc[c] = "done"

\* A push blocks on a connection it was not collected for: one that got the number
\* after a restart.
BlocksAstray(p) ==
  /\ ppc[p] \in {"w1", "w2"} /\ SendBlocks(cur[p][1])
  /\ file[cur[p][1]] # cur[p][2]

\* A push that subscribers block by not reading is released by stop(), which shuts
\* their streams: only a reused number, of this push or of one whose lock it waits
\* for, can hold it beyond (ipc_server.cpp:396).
PushReleased ==
  \A p \in Pushers :
    (ppc[p] # "idle" /\ ctl = "clear")
      ~> (ppc[p] = "idle" \/ \E q \in Pushers : BlocksAstray(q))

\* ipc_server.cpp:395 and ipc.h (push_event_to: "does not affect other
\* connections"): no event reaches a connection it was not collected for.
NothingStrays == strayed = {}
=============================================================================

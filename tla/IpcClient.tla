----------------------------- MODULE IpcClient -----------------------------
(***************************************************************************)
(* The request/response side of the client library (Client::Impl): threads *)
(* that call call() or callOnce() on one Client, others that call          *)
(* connect() and disconnect() on it meanwhile, and a server that executes  *)
(* the requests of each connection in order and may answer late, drop a    *)
(* connection, stop reading it or be down.  The rest of the process opens  *)
(* and closes files of its own, which get the numbers disconnect() frees.  *)
(*                                                                         *)
(* A call is one caller's request; the request frame and the response      *)
(* frame it causes carry the caller's name.  A critical section of         *)
(* m_stateMutex, with the connect() it may contain, is one step.           *)
(***************************************************************************)
EXTENDS Integers, Sequences, FiniteSets

CONSTANTS
  Callers,     \* threads in call() or callOnce(), one call each
  Once,        \* those of them that use callOnce()
  Large,       \* those of them whose request exceeds the socket's buffer
  Connectors,  \* threads in connect()
  Closers,     \* threads in disconnect()
  Fds,         \* descriptor numbers socket() can return
  None,        \* no connection, no holder of the mutex, no response
  Foreign,     \* a file of the rest of the process, and what is read from it
  MaxConns,    \* bound: connections the client makes
  MaxForeign   \* bound: files the rest of the process opens

ASSUME ClientConstants ==
  /\ Once \subseteq Callers /\ Large \subseteq Callers
  /\ {None, Foreign} \cap (Callers \cup Nat) = {} /\ None # Foreign
  /\ {"transport", "socket"} \cap (Callers \cup {Foreign}) = {}
  /\ Callers \cap (Connectors \cup Closers) = {}
  /\ -1 \notin Fds /\ MaxConns \in Nat /\ MaxForeign \in Nat

VARIABLES
  mfd,        \* m_fd
  connected,  \* m_connected
  callLock,   \* holder of m_callMutex
  pc,         \* every thread's program counter
  fd,         \* the local `fd' of a call
  wait,       \* the file its send() or recv() is on
  retried,    \* the call is past its reconnect
  result,     \* what the call returned: a response, "transport" or "socket"
  file,       \* descriptor number -> connection or Foreign
  made,       \* connections made so far
  up,         \* the connections whose stream is open
  toServer, toClient,  \* request and response frames in each connection
  runs,       \* how often a server has executed the request of a caller
  foreign     \* files the rest of the process opened

callVars == <<callLock, fd, wait, retried, result>>
netVars  == <<up, toServer, toClient, runs>>
vars == <<mfd, connected, pc, callVars, file, made, netVars, foreign>>

Threads == Callers \cup Connectors \cup Closers
ConnIds == 1..MaxConns

Init ==
  /\ mfd = -1 /\ connected = FALSE /\ callLock = None
  /\ pc = [t \in Threads |-> "idle"]
  /\ fd = [t \in Callers |-> -1] /\ wait = [t \in Callers |-> None]
  /\ retried = [t \in Callers |-> FALSE] /\ result = [t \in Callers |-> None]
  /\ file = [f \in Fds |-> None] /\ made = 0 /\ up = {}
  /\ toServer = [k \in ConnIds |-> <<>>] /\ toClient = [k \in ConnIds |-> <<>>]
  /\ runs = [t \in Callers |-> 0] /\ foreign = 0

Goto(t, from, to) == pc[t] = from /\ pc' = [pc EXCEPT ![t] = to]
-----------------------------------------------------------------------------
(* doConnect(), under m_stateMutex: m_fd is overwritten, not closed.       *)

DoConnectOk ==
  /\ made < MaxConns /\ made' = made + 1 /\ connected' = TRUE
  /\ \E f \in Fds : /\ file[f] = None /\ mfd' = f
                    /\ file' = [file EXCEPT ![f] = made']
  /\ up' = up \cup {made'}

\* socket() or connectWithTimeout fails; m_connected is not touched.
DoConnectFails ==
  /\ mfd' = -1 /\ UNCHANGED <<connected, file, made, up>>

CloseMain ==
  /\ file' = IF mfd = -1 THEN file ELSE [file EXCEPT ![mfd] = None]
  /\ mfd' = -1 /\ connected' = FALSE
  \* A socket stays open while another thread is inside send() or recv() on it.
  /\ up' = IF mfd = -1 \/ \E t \in Callers : wait[t] = file[mfd]
           THEN up ELSE up \ {file[mfd]}

\* connect() returns at once when m_connected is set.
Connect(t) ==
  /\ Goto(t, "idle", "done")
  /\ IF connected THEN UNCHANGED <<mfd, connected, file, made, up>>
     ELSE DoConnectOk \/ DoConnectFails
  /\ UNCHANGED <<callVars, toServer, toClient, runs, foreign>>

\* disconnect(), after its subscriptions are cancelled.
Disconnect(t) ==
  /\ Goto(t, "idle", "done") /\ CloseMain
  /\ UNCHANGED <<callVars, made, toServer, toClient, runs, foreign>>
-----------------------------------------------------------------------------
(* call() and callOnce()                                                   *)

Locks(t) ==
  /\ callLock = None /\ callLock' = t /\ Goto(t, "idle", "lazy")
  /\ UNCHANGED <<mfd, connected, fd, wait, retried, result, file, made, netVars,
                 foreign>>

\* Mutant: one return leaves m_callMutex locked.
ReturnsLocked(t, r) ==
  /\ result' = [result EXCEPT ![t] = r] /\ UNCHANGED callLock
  /\ pc' = [pc EXCEPT ![t] = "done"]

Returns(t, r) ==
  /\ result' = [result EXCEPT ![t] = r] /\ callLock' = None
  /\ pc' = [pc EXCEPT ![t] = "done"]

\* The lazy connect of a call, or its unconditional reconnect.
Connects(t) ==
  /\ pc[t] \in {"lazy", "reconnect"}
  /\ \/ /\ pc[t] = "lazy" /\ connected /\ Goto(t, "lazy", "getfd")
        /\ UNCHANGED <<mfd, connected, file, made, up, callLock, result>>
     \/ /\ pc[t] = "reconnect" \/ ~connected
        /\ \/ /\ DoConnectOk /\ pc' = [pc EXCEPT ![t] = "getfd"]
              /\ UNCHANGED <<callLock, result>>
           \/ DoConnectFails /\ Returns(t, "socket")
  /\ retried' = [retried EXCEPT ![t] = pc[t] = "reconnect"]
  /\ UNCHANGED <<fd, wait, toServer, toClient, runs, foreign>>

GetsFd(t) ==
  /\ pc[t] = "getfd"
  /\ LET f == IF connected THEN mfd ELSE -1 IN
     IF f = -1
     THEN Returns(t, "socket") /\ UNCHANGED fd
     ELSE /\ fd' = [fd EXCEPT ![t] = f] /\ pc' = [pc EXCEPT ![t] = "send"]
          /\ UNCHANGED <<callLock, result>>
  /\ UNCHANGED <<mfd, connected, wait, retried, file, made, netVars, foreign>>

\* send() and recv() keep to the file they find under the number.
Enters(t, from, to) ==
  /\ pc[t] = from
  /\ IF file[fd[t]] = None
     THEN Goto(t, from, "drop") /\ UNCHANGED wait
     ELSE Goto(t, from, to) /\ wait' = [wait EXCEPT ![t] = file[fd[t]]]
  /\ UNCHANGED <<mfd, connected, callLock, fd, retried, result, file, made,
                 netVars, foreign>>

\* A socket whose number was closed meanwhile goes with the call that leaves it.
Leaves(t) ==
  /\ wait' = [wait EXCEPT ![t] = None]
  /\ up' = IF \E f \in Fds : file[f] = wait[t] THEN up ELSE up \ {wait[t]}

\* writeRequest
Sends(t) == Enters(t, "send", "sending")

\* The whole request is in the buffers of the socket or has been read.
SendEnds(t) ==
  /\ Goto(t, "sending", "recv") /\ wait[t] \in up /\ Leaves(t)
  /\ toServer' = [toServer EXCEPT ![wait[t]] = Append(@, t)]
  /\ UNCHANGED <<mfd, connected, callLock, fd, retried, result, file, made,
                 toClient, runs, foreign>>

SendFails(t) ==
  /\ Goto(t, "sending", "drop") /\ wait[t] \notin up \cup {Foreign} /\ Leaves(t)
  /\ UNCHANGED <<mfd, connected, callLock, fd, retried, result, file, made,
                 toServer, toClient, runs, foreign>>

\* A foreign file may be a socket to the same server, too.
SendsAstray(t) ==
  /\ wait[t] = Foreign /\ Leaves(t)
  /\ \/ Goto(t, "sending", "drop") /\ UNCHANGED runs
     \/ /\ Goto(t, "sending", "recv")
        /\ runs' \in {runs, [runs EXCEPT ![t] = @ + 1]}
  /\ UNCHANGED <<mfd, connected, callLock, fd, retried, result, file, made,
                 toServer, toClient, foreign>>

\* readResponse
Waits(t) == Enters(t, "recv", "wait")

Receives(t) ==
  /\ pc[t] = "wait" /\ wait[t] # Foreign /\ toClient[wait[t]] # <<>>
  /\ Returns(t, Head(toClient[wait[t]])) /\ Leaves(t)
  /\ toClient' = [toClient EXCEPT ![wait[t]] = Tail(@)]
  /\ UNCHANGED <<mfd, connected, fd, retried, file, made, toServer, runs, foreign>>

\* End of stream, or SO_RCVTIMEO while the answer may still come.
ReceiveFails(t) ==
  /\ Goto(t, "wait", "drop") /\ wait[t] # Foreign
  /\ toClient[wait[t]] = <<>> /\ Leaves(t)
  /\ UNCHANGED <<mfd, connected, callLock, fd, retried, result, file, made,
                 toServer, toClient, runs, foreign>>

\* The recv() of the data finds another file under the number than that of the
\* header: none, a new connection without a frame for it, or a foreign one.
LosesData(t) ==
  /\ pc[t] = "wait" /\ wait[t] # Foreign /\ toClient[wait[t]] # <<>>
  /\ file[fd[t]] # wait[t] /\ up' = up \ {wait[t]}
  /\ IF file[fd[t]] = Foreign
     THEN UNCHANGED pc /\ wait' = [wait EXCEPT ![t] = Foreign]
     ELSE Goto(t, "wait", "drop") /\ wait' = [wait EXCEPT ![t] = None]
  /\ toClient' = [toClient EXCEPT ![wait[t]] = Tail(@)]
  /\ UNCHANGED <<mfd, connected, callLock, fd, retried, result, file, made,
                 toServer, runs, foreign>>

\* A foreign file gives a frame of somebody else, an answer to what strayed to
\* it, or no frame.
ReceivesAstray(t) ==
  /\ wait[t] = Foreign /\ Leaves(t)
  /\ \/ Goto(t, "wait", "drop") /\ UNCHANGED <<callLock, result>>
     \/ pc[t] = "wait" /\ Returns(t, Foreign)
  /\ UNCHANGED <<mfd, connected, fd, retried, file, made, toServer, toClient,
                 runs, foreign>>

\* Mutant: callOnce() retries like call().
DropsAndRetries(t) ==
  /\ pc[t] = "drop" /\ CloseMain
  /\ IF retried[t]
     THEN Returns(t, "transport")
     ELSE pc' = [pc EXCEPT ![t] = "reconnect"] /\ UNCHANGED <<callLock, result>>
  /\ UNCHANGED <<fd, wait, retried, made, toServer, toClient, runs, foreign>>

\* Mutant: a failed attempt keeps the connection, with an answer under way.
DropsNothing(t) ==
  /\ pc[t] = "drop" /\ UNCHANGED <<mfd, connected, file, up>>
  /\ IF retried[t] \/ t \in Once
     THEN Returns(t, "transport")
     ELSE pc' = [pc EXCEPT ![t] = "reconnect"] /\ UNCHANGED <<callLock, result>>
  /\ UNCHANGED <<fd, wait, retried, made, toServer, toClient, runs, foreign>>

\* A failed attempt closes the main connection; call() tries once more.
Drops(t) ==
  /\ pc[t] = "drop" /\ CloseMain
  /\ IF retried[t] \/ t \in Once
     THEN Returns(t, "transport")
     ELSE pc' = [pc EXCEPT ![t] = "reconnect"] /\ UNCHANGED <<callLock, result>>
  /\ UNCHANGED <<fd, wait, retried, made, toServer, toClient, runs, foreign>>

CallRuns(t) ==
  \/ Locks(t) \/ Connects(t) \/ GetsFd(t) \/ Sends(t) \/ (t \notin Large /\ SendEnds(t))
  \/ SendFails(t) \/ Waits(t) \/ Receives(t) \/ ReceiveFails(t) \/ LosesData(t)
  \/ Drops(t)

\* Steps that somebody else has to allow: neither SO_SNDTIMEO is set, nor any
\* timeout of a foreign file.
CallGoesOn(t) ==
  (t \in Large /\ SendEnds(t)) \/ SendsAstray(t) \/ ReceivesAstray(t)
-----------------------------------------------------------------------------
(* The server: one thread per connection answers its requests in order,    *)
(* also those whose client has gone.                                       *)

Executes(k) ==
  /\ toServer[k] # <<>>
  /\ LET t == Head(toServer[k]) IN
     /\ runs' = [runs EXCEPT ![t] = @ + 1]
     /\ toClient' = [toClient EXCEPT ![k] = IF k \in up THEN Append(@, t) ELSE @]
  /\ toServer' = [toServer EXCEPT ![k] = Tail(@)]
  /\ UNCHANGED <<mfd, connected, pc, callVars, file, made, up, foreign>>

HangsUp(k) ==
  /\ k \in up /\ up' = up \ {k}
  /\ UNCHANGED <<mfd, connected, pc, callVars, file, made, toServer, toClient,
                 runs, foreign>>

\* Other clients, subscriptions and files of the process.
ForeignOpens(f) ==
  /\ foreign < MaxForeign /\ file[f] = None
  /\ foreign' = foreign + 1 /\ file' = [file EXCEPT ![f] = Foreign]
  /\ UNCHANGED <<mfd, connected, pc, callVars, made, netVars>>

ForeignCloses(f) ==
  /\ file[f] = Foreign /\ file' = [file EXCEPT ![f] = None]
  /\ UNCHANGED <<mfd, connected, pc, callVars, made, netVars, foreign>>

Next ==
  \/ \E t \in Callers : CallRuns(t) \/ CallGoesOn(t)
  \/ \E t \in Connectors : Connect(t)
  \/ \E t \in Closers : Disconnect(t)
  \/ \E k \in ConnIds : Executes(k) \/ HangsUp(k)
  \/ \E f \in Fds : ForeignOpens(f) \/ ForeignCloses(f)

Spec == Init /\ [][Next]_vars

\* Threads that are not blocked run; recv() ends at the latest by SO_RCVTIMEO,
\* connect() by connect_timeout_ms.  The server may stop answering and reading.
FairSpec == Spec /\ \A t \in Callers : WF_vars(CallRuns(t))
-----------------------------------------------------------------------------
TypeOK ==
  /\ mfd \in Fds \cup {-1} /\ connected \in BOOLEAN
  /\ callLock \in Callers \cup {None}
  /\ pc \in [Threads -> {"idle", "lazy", "getfd", "send", "sending", "recv",
                         "wait", "drop", "reconnect", "done"}]
  /\ fd \in [Callers -> Fds \cup {-1}] /\ wait \in [Callers -> ConnIds \cup {None, Foreign}]
  /\ retried \in [Callers -> BOOLEAN]
  /\ result \in [Callers -> Callers \cup {None, Foreign, "transport", "socket"}]
  /\ file \in [Fds -> ConnIds \cup {None, Foreign}] /\ made \in 0..MaxConns
  /\ up \subseteq ConnIds
  /\ toServer \in [ConnIds -> Seq(Callers)] /\ toClient \in [ConnIds -> Seq(Callers)]
  /\ runs \in [Callers -> Nat] /\ foreign \in 0..MaxForeign

\* callOnce() never replays a request: it is executed at most once, also when
\* the answer is lost or the connection is replaced under it; call() causes
\* at most the first execution and that of its one retry.
ExecutionsBounded ==
  \A t \in Callers : runs[t] <= (IF t \in Once THEN 1 ELSE 2)

\* A call that returns a response returns the response to its own request, never
\* one that an earlier call gave up waiting for.  Only disconnect() in another
\* thread can change that: it frees the number a call has taken from getFd(), and
\* a file opened since may answer in its place.
ResponseMatches ==
  \A t \in Callers :
    result[t] \in Callers \cup {Foreign} =>
      \/ result[t] = t /\ runs[t] > 0
      \/ result[t] = Foreign /\ \E e \in Closers : pc[e] = "done"

\* A call that depends on others to go on: a large request that the server has
\* to read, or a foreign file under the number of the call.
Blocked(t) ==
  \/ pc[t] = "sending" /\ t \in Large
  \/ pc[t] \in {"sending", "wait"} /\ wait[t] = Foreign

\* Every call returns although the server may never answer, also those that wait
\* for m_callMutex behind it ("idle"), if no call is blocked for ever.
CallsReturn ==
  (\A t \in Callers : []<>~Blocked(t)) => \A t \in Callers : <>(pc[t] = "done")
=============================================================================

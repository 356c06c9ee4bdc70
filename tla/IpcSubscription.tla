-------------------------- MODULE IpcSubscription --------------------------
(***************************************************************************)
(* One subscription of the client library (Subscription::Impl): the thread *)
(* that connects, does the handshake, reads events and reconnects, against *)
(* the threads that call cancel() or disconnect the Client it belongs to,  *)
(* its own callback, and a server that may reject the subscription, push   *)
(* events, fall silent, stop and start again.                              *)
(*                                                                         *)
(* A frame is <<code, n>>: its first header word, which readResponse takes *)
(* for the status and readEvent for the event type, and the number of the  *)
(* event (0 in a Response).  Nothing in a frame tells one kind from the    *)
(* other.                                                                  *)
(***************************************************************************)
EXTENDS Integers, Sequences, FiniteSets

CONSTANTS
  Cancellers,   \* threads that call cancel() or destroy the handle
  Fds,          \* descriptor numbers socket() can return
  Free,         \* a descriptor number that is not in use
  Foreign,      \* a file the rest of the process opened
  EarlyEvents,  \* the server may push before the handshake Response is sent
  LargeParams,  \* m_params exceeds the socket's buffer
  Disconnecters,  \* threads that call Client::disconnect() or destroy it
  SelfCalls,    \* what the callback may call: "cancel" on its subscription,
                \* "disconnect" or "subscribe" on its client
  MaxEvents,    \* bound: events the server pushes
  MaxForeign    \* bound: files the rest of the process opens

ASSUME SubscriptionConstants ==
  /\ Free # Foreign /\ {Free, Foreign} \cap {0, 1} = {}
  /\ -1 \notin Fds
  /\ EarlyEvents \in BOOLEAN /\ LargeParams \in BOOLEAN
  /\ Cancellers \cap Disconnecters = {}
  /\ "callback" \notin Cancellers \cup Disconnecters
  /\ SelfCalls \subseteq {"cancel", "disconnect", "subscribe"}
  /\ MaxEvents \in Nat /\ MaxForeign \in Nat

EventType == 7   \* the event subscribed to; not 0, the status of success
Rejection == 3   \* any status but 0

VARIABLES
  active,    \* m_active
  mfd,       \* m_fd
  lock,      \* holder of m_cancelMutex, {} when free
  run,       \* where runLoop is
  fd,        \* its local fd, -1 when it has none
  conn,      \* the connection it uses, 0 and 1 in turn
  file,      \* descriptor number -> connection, Free or Foreign
  up,        \* the stream of the connection is open
  srv,       \* what the server knows of the connection
  toClient,  \* frames under way to the client
  listening, silent,  \* the server accepts connections; it does not answer,
             \* nor read what exceeds the buffer
  pushed,    \* events pushed so far
  seen,      \* the last event the callback got
  refused,   \* the server has rejected the subscription
  sub,       \* holder of the client's m_subMutex, {} when free
  listed,    \* m_subscriptions holds this one
  cpc, cfd,  \* a thread in cancel(): its program counter; the fd it took from
             \* m_fd, and the connection that fd then stood for
  misshut,   \* files, other than the connection m_fd named, cancel() shut
  foreign

runVars == <<run, fd, conn, seen>>
netVars == <<up, srv, toClient>>
srvVars == <<listening, silent, pushed, refused>>
subVars == <<sub, listed>>
canVars == <<lock, cpc, cfd, misshut, subVars>>
vars == <<active, mfd, runVars, file, netVars, srvVars, canVars, foreign>>

\* The callback, on the thread of runLoop itself.
Self == "callback"
Callers == Cancellers \cup Disconnecters \cup {Self}

Init ==
  /\ active = TRUE /\ mfd = -1 /\ lock = {}
  /\ run = "new" /\ fd = -1 /\ conn = 0
  /\ file = [f \in Fds |-> Free] /\ up = FALSE /\ srv = "none"
  /\ toClient = <<>> /\ listening \in BOOLEAN /\ silent = FALSE
  /\ pushed = 0 /\ seen = 0 /\ refused = FALSE
  /\ cpc = [t \in Callers |-> "idle"] /\ cfd = [t \in Callers |-> <<-1, Free>>]
  /\ misshut = {} /\ foreign = 0 /\ sub = {} /\ listed = FALSE
-----------------------------------------------------------------------------
(* Client::subscribe(): the subscription is on the list of the client      *)
(* before its thread is started.                                           *)

Step(from, to) == run = from /\ run' = to
Unstarted == run \in {"new", "listed"}

SubscribeLists ==
  /\ Step("new", "listed") /\ sub = {} /\ listed' = TRUE
  /\ UNCHANGED <<active, mfd, fd, conn, seen, file, netVars, srvVars, lock, cpc,
                 cfd, misshut, sub, foreign>>

SubscribeStarts ==
  /\ Step("listed", "top")
  /\ UNCHANGED <<active, mfd, fd, conn, seen, file, netVars, srvVars, canVars,
                 foreign>>
-----------------------------------------------------------------------------
(* runLoop()                                                               *)

CloseFd == /\ file' = [file EXCEPT ![fd] = Free] /\ fd' = -1
           /\ up' = FALSE /\ srv' = "none" /\ toClient' = <<>>
NetSame == UNCHANGED <<file, netVars, fd>>

Checks ==
  /\ Step("top", IF active THEN "connect" ELSE "finish")
  /\ NetSame /\ UNCHANGED <<active, mfd, conn, seen, srvVars, canVars, foreign>>

\* doConnectAndSubscribe: socket() and connectWithTimeout, which does not block:
\* a server that accepts nothing has a place in its backlog, or the call fails.
ConnectOk(f) ==
  /\ Step("connect", "request") /\ listening /\ file[f] = Free
  /\ conn' = 1 - conn /\ fd' = f /\ file' = [file EXCEPT ![f] = conn']
  /\ up' = TRUE /\ srv' = "new" /\ toClient' = <<>>
  /\ UNCHANGED <<active, mfd, seen, srvVars, canVars, foreign>>

ConnectFails ==
  /\ Step("connect", "failed")
  /\ ~listening \/ silent \/ \A f \in Fds : file[f] # Free
  /\ NetSame /\ UNCHANGED <<active, mfd, conn, seen, srvVars, canVars, foreign>>

\* writeRequest: the send() has no timeout, and m_fd does not name its socket yet.
Blocked == run = "request" /\ LargeParams /\ up /\ silent

RequestOk ==
  /\ Step("request", "response") /\ up /\ ~Blocked /\ srv' = "requested"
  /\ UNCHANGED <<active, mfd, fd, conn, seen, file, up, toClient, srvVars,
                 canVars, foreign>>

RequestFails ==
  /\ Step("request", "failed") /\ ~up /\ CloseFd
  /\ UNCHANGED <<active, mfd, conn, seen, srvVars, canVars, foreign>>

\* Mutant: the Response is looked at but left in the stream.
ResponseOkUnread ==
  /\ Step("response", "store") /\ toClient # <<>> /\ Head(toClient)[1] = 0
  /\ UNCHANGED <<active, mfd, fd, conn, seen, file, netVars, srvVars, canVars,
                 foreign>>

\* readResponse, which takes the next frame for the Response.
ResponseOk ==
  /\ Step("response", "store") /\ toClient # <<>> /\ Head(toClient)[1] = 0
  /\ toClient' = Tail(toClient)
  /\ UNCHANGED <<active, mfd, fd, conn, seen, file, up, srv, srvVars, canVars,
                 foreign>>

\* Mutant: the path of a rejection returns without close(fd).
ResponseRejectsOpen ==
  /\ Step("response", "rejected") /\ toClient # <<>> /\ Head(toClient)[1] # 0
  /\ fd' = -1 /\ UNCHANGED <<file, netVars>>
  /\ UNCHANGED <<active, mfd, conn, seen, srvVars, canVars, foreign>>

ResponseRejects ==
  /\ Step("response", "rejected") /\ toClient # <<>> /\ Head(toClient)[1] # 0
  /\ CloseFd
  /\ UNCHANGED <<active, mfd, conn, seen, srvVars, canVars, foreign>>

\* Mutant: a Response that cannot be read counts as a rejection.
ResponseFailsForGood ==
  /\ Step("response", "rejected") /\ toClient = <<>> /\ (~up \/ silent)
  /\ CloseFd
  /\ UNCHANGED <<active, mfd, conn, seen, srvVars, canVars, foreign>>

\* Mutant: that path returns without close(fd).
ResponseFailsOpen ==
  /\ Step("response", "failed") /\ toClient = <<>> /\ (~up \/ silent)
  /\ fd' = -1 /\ UNCHANGED <<file, netVars>>
  /\ UNCHANGED <<active, mfd, conn, seen, srvVars, canVars, foreign>>

\* End of stream, or no answer within SO_RCVTIMEO.
ResponseFails ==
  /\ Step("response", "failed") /\ toClient = <<>> /\ (~up \/ silent)
  /\ CloseFd
  /\ UNCHANGED <<active, mfd, conn, seen, srvVars, canVars, foreign>>

\* The subscription ends for good.
Rejected ==
  /\ Step("rejected", "finish") /\ active' = FALSE
  /\ NetSame /\ UNCHANGED <<mfd, conn, seen, srvVars, canVars, foreign>>

\* Also the sleep of calculateBackoff, which cancel() does not interrupt.
BacksOff ==
  /\ run \in {"failed", "test"}
  /\ run' = IF active THEN "top" ELSE "finish"
  /\ NetSame
  /\ UNCHANGED <<active, mfd, conn, seen, srvVars, canVars, foreign>>

Stores ==
  /\ Step("store", "events") /\ mfd' = fd
  /\ NetSame /\ UNCHANGED <<active, conn, seen, srvVars, canVars, foreign>>

\* eventLoop()
LoopChecks ==
  /\ Step("events", IF active THEN "read" ELSE "unstore")
  /\ NetSame /\ UNCHANGED <<active, mfd, conn, seen, srvVars, canVars, foreign>>

\* The callback gets the frame; what it throws is suppressed.
ReadOk ==
  /\ Step("read", "callback") /\ toClient # <<>>
  /\ seen' = Head(toClient)[2] /\ toClient' = Tail(toClient)
  /\ UNCHANGED <<active, mfd, fd, conn, file, up, srv, srvVars, canVars, foreign>>

ReadEof ==
  /\ Step("read", "unstore") /\ toClient = <<>> /\ ~up
  /\ NetSame /\ UNCHANGED <<active, mfd, conn, seen, srvVars, canVars, foreign>>

\* SO_RCVTIMEO: no event came for receive_timeout_ms.
ReadTimesOut ==
  /\ Step("read", "unstore") /\ toClient = <<>> /\ up
  /\ NetSame /\ UNCHANGED <<active, mfd, conn, seen, srvVars, canVars, foreign>>

CallbackReturns ==
  /\ Step("callback", "events") /\ cpc[Self] \in {"idle", "returned", "enlisted"}
  /\ NetSame /\ UNCHANGED <<active, mfd, conn, seen, srvVars, canVars, foreign>>

Unstores ==
  /\ Step("unstore", "close") /\ mfd' = -1
  /\ NetSame /\ UNCHANGED <<active, conn, seen, srvVars, canVars, foreign>>

Closes ==
  /\ Step("close", "test") /\ CloseFd
  /\ UNCHANGED <<active, mfd, conn, seen, srvVars, canVars, foreign>>

Finishes ==
  /\ Step("finish", "exited") /\ active' = FALSE
  /\ NetSame /\ UNCHANGED <<mfd, conn, seen, srvVars, canVars, foreign>>

RunLoop == \/ Checks \/ ConnectFails \/ RequestOk \/ RequestFails
           \/ ResponseOk \/ ResponseRejects \/ ResponseFails \/ Rejected
           \/ BacksOff \/ Stores \/ LoopChecks \/ ReadOk \/ ReadEof
           \/ CallbackReturns \/ Unstores \/ Closes \/ Finishes
           \/ \E f \in Fds : ConnectOk(f)
-----------------------------------------------------------------------------
(* cancel(), by thread t                                                   *)

CGoto(t, from, to) == cpc[t] = from /\ cpc' = [cpc EXCEPT ![t] = to]

\* A handle is there once subscribe() has returned.
CancelCalls(t) ==
  /\ \/ t \in Cancellers /\ ~Unstarted
     \/ t = Self /\ "cancel" \in SelfCalls /\ run = "callback"
  /\ CGoto(t, "idle", "lock")
  /\ UNCHANGED <<active, mfd, runVars, file, netVars, srvVars, lock, cfd,
                 misshut, subVars, foreign>>

CancelLocks(t) ==
  /\ lock = {} /\ lock' = lock \cup {t} /\ CGoto(t, "lock", "flip")
  /\ UNCHANGED <<active, mfd, runVars, file, netVars, srvVars, cfd, misshut,
                 subVars, foreign>>

\* Mutant: who finds m_active false already returns without join().
CancelFlipsOrReturns(t) ==
  /\ CGoto(t, "flip", IF active THEN "take" ELSE IF sub = {t} THEN "clear" ELSE "returned")
  /\ active' = FALSE
  /\ lock' = IF active THEN lock ELSE {}
  /\ UNCHANGED <<mfd, runVars, file, netVars, srvVars, cfd, misshut, subVars, foreign>>

\* Mutant: m_fd is taken while m_active still says that runLoop may reconnect.
CancelFlipsLater(t) ==
  /\ CGoto(t, "flip", IF active THEN "take" ELSE "join")
  /\ UNCHANGED <<active, mfd, runVars, file, netVars, srvVars, lock, cfd,
                 misshut, subVars, foreign>>

\* compare_exchange_strong: the first to flip m_active wakes the reader.
CancelFlips(t) ==
  /\ CGoto(t, "flip", IF active THEN "take" ELSE "join") /\ active' = FALSE
  /\ UNCHANGED <<mfd, runVars, file, netVars, srvVars, lock, cfd, misshut, subVars, foreign>>

CancelTakes(t) ==
  /\ CGoto(t, "take", IF mfd = -1 THEN "join" ELSE "shut")
  /\ mfd' = -1
  /\ cfd' = [cfd EXCEPT ![t] = IF mfd = -1 THEN <<-1, Free>> ELSE <<mfd, file[mfd]>>]
  /\ UNCHANGED <<active, runVars, file, netVars, srvVars, lock, misshut, subVars, foreign>>

\* Mutant: the reader is not woken.
CancelShutsNothing(t) ==
  /\ CGoto(t, "shut", "join")
  /\ UNCHANGED <<active, mfd, runVars, file, netVars, srvVars, lock, cfd,
                 misshut, subVars, foreign>>

\* shutdown(): by now runLoop may have closed the number.
CancelShuts(t) ==
  /\ CGoto(t, "shut", "join")
  /\ LET f == file[cfd[t][1]] IN
     /\ up' = IF f = conn THEN FALSE ELSE up
     /\ misshut' = misshut \cup ({f} \ {Free, cfd[t][2]})
  /\ UNCHANGED <<active, mfd, runVars, file, srv, toClient, srvVars, lock,
                 cfd, subVars, foreign>>

\* join(), of a thread that has been started; a thread that joins itself gets a
\* system_error instead, which unwinds to eventLoop.
CancelReturns(t) ==
  /\ CGoto(t, "join", IF sub = {t} /\ t # Self THEN "clear" ELSE "returned")
  /\ t = Self \/ Unstarted \/ run = "exited"
  /\ lock' = {} /\ sub' = sub \ {Self}
  /\ UNCHANGED <<active, mfd, runVars, file, netVars, srvVars, cfd, misshut,
                 listed, foreign>>

\* Client::disconnect(): cancel() for each subscription, with m_subMutex held.
\* What it does to the connection of call() is in IpcClient.
DisconnectCalls(t) ==
  /\ t \in Disconnecters \/ (t = Self /\ "disconnect" \in SelfCalls /\ run = "callback")
  /\ CGoto(t, "idle", "sub")
  /\ UNCHANGED <<active, mfd, runVars, file, netVars, srvVars, lock, cfd,
                 misshut, subVars, foreign>>

DisconnectLocks(t) ==
  /\ sub = {} /\ sub' = {t} /\ listed /\ CGoto(t, "sub", "lock")
  /\ UNCHANGED <<active, mfd, runVars, file, netVars, srvVars, lock, cfd,
                 misshut, listed, foreign>>

DisconnectFindsNothing(t) ==
  /\ sub = {} /\ ~listed /\ CGoto(t, "sub", "idle")
  /\ UNCHANGED <<active, mfd, runVars, file, netVars, srvVars, lock, cfd,
                 misshut, subVars, foreign>>

DisconnectClears(t) ==
  /\ CGoto(t, "clear", "returned") /\ listed' = FALSE /\ sub' = {}
  /\ UNCHANGED <<active, mfd, runVars, file, netVars, srvVars, lock, cfd,
                 misshut, foreign>>

\* The callback makes another subscription of the client.
CallbackSubscribes ==
  /\ "subscribe" \in SelfCalls /\ run = "callback" /\ CGoto(Self, "idle", "enlist")
  /\ UNCHANGED <<active, mfd, runVars, file, netVars, srvVars, lock, cfd,
                 misshut, subVars, foreign>>

CallbackEnlists ==
  /\ sub = {} /\ CGoto(Self, "enlist", "enlisted")
  /\ UNCHANGED <<active, mfd, runVars, file, netVars, srvVars, lock, cfd,
                 misshut, subVars, foreign>>

CancelRuns(t) == \/ CancelLocks(t) \/ CancelFlips(t) \/ CancelTakes(t)
                 \/ CancelShuts(t) \/ CancelReturns(t)
                 \/ DisconnectLocks(t) \/ DisconnectFindsNothing(t)
                 \/ DisconnectClears(t)
                 \/ t = Self /\ CallbackEnlists
-----------------------------------------------------------------------------
(* The server: its request handler calls add_subscription, and only then   *)
(* is the Response of the handshake written.                               *)

Handles ==
  /\ srv = "requested" /\ up /\ ~silent
  /\ \/ srv' = "subscribed" /\ UNCHANGED <<toClient, refused>>
     \/ /\ srv' = "refused" /\ refused' = TRUE
        /\ toClient' = Append(toClient, <<Rejection, 0>>)
  /\ UNCHANGED <<active, mfd, runVars, file, up, listening, silent, pushed,
                 canVars, foreign>>

Responds ==
  /\ srv = "subscribed" /\ up /\ ~silent /\ srv' = "serving"
  /\ toClient' = Append(toClient, <<0, 0>>)
  /\ UNCHANGED <<active, mfd, runVars, file, up, srvVars, canVars, foreign>>

Pushes ==
  /\ srv = "serving" \/ (EarlyEvents /\ srv = "subscribed")
  /\ up /\ pushed < MaxEvents /\ pushed' = pushed + 1
  /\ toClient' = Append(toClient, <<EventType, pushed'>>)
  /\ UNCHANGED <<active, mfd, runVars, file, up, srv, listening, silent,
                 refused, canVars, foreign>>

\* The server process stops, or only drops the connection.
HangsUp ==
  /\ up /\ up' = FALSE /\ listening' \in {listening, FALSE}
  /\ UNCHANGED <<active, mfd, runVars, file, srv, toClient, silent, pushed,
                 refused, canVars, foreign>>

Restarts ==
  /\ ~listening /\ listening' = TRUE
  /\ UNCHANGED <<active, mfd, runVars, file, netVars, silent, pushed, refused,
                 canVars, foreign>>

Silence ==
  /\ silent' = ~silent
  /\ UNCHANGED <<active, mfd, runVars, file, netVars, listening, pushed,
                 refused, canVars, foreign>>

ForeignOpens(f) ==
  /\ foreign < MaxForeign /\ file[f] = Free
  /\ foreign' = foreign + 1 /\ file' = [file EXCEPT ![f] = Foreign]
  /\ UNCHANGED <<active, mfd, runVars, netVars, srvVars, canVars>>

Next ==
  \/ SubscribeLists \/ SubscribeStarts \/ RunLoop \/ ReadTimesOut
  \/ \E t \in Callers : CancelCalls(t) \/ DisconnectCalls(t) \/ CancelRuns(t)
  \/ CallbackSubscribes
  \/ Handles \/ Responds \/ Pushes \/ HangsUp \/ Restarts \/ Silence
  \/ \E f \in Fds : ForeignOpens(f)

Spec == Init /\ [][Next]_vars

\* Threads that are not blocked run and callbacks return; a server that is not
\* silent reads and answers.  The wait of readResponse ends with an answer or with
\* SO_RCVTIMEO even if the server keeps changing its mind: RunLoop is strongly
\* fair.  Nobody has to cancel, push or restart.
Fairness ==
  /\ WF_vars(SubscribeLists \/ SubscribeStarts)
  /\ SF_vars(RunLoop) /\ WF_vars(Handles) /\ WF_vars(Responds)
  /\ \A t \in Callers : WF_vars(CancelRuns(t))

FairSpec == Spec /\ Fairness
-----------------------------------------------------------------------------
TypeOK ==
  /\ active \in BOOLEAN /\ mfd \in Fds \cup {-1} /\ fd \in Fds \cup {-1}
  /\ lock \in {{}} \cup {{t} : t \in Callers} /\ conn \in {0, 1}
  /\ sub \in {{}} \cup {{t} : t \in Callers} /\ listed \in BOOLEAN
  /\ run \in {"new", "listed", "top", "connect", "request", "response", "failed", "rejected",
              "store", "events", "read", "callback", "unstore", "close",
              "test", "finish", "exited"}
  /\ file \in [Fds -> {0, 1, Free, Foreign}] /\ up \in BOOLEAN
  /\ srv \in {"none", "new", "requested", "subscribed", "serving", "refused"}
  /\ toClient \in Seq({0, Rejection, EventType} \X (0..MaxEvents))
  /\ listening \in BOOLEAN /\ silent \in BOOLEAN /\ refused \in BOOLEAN
  /\ pushed \in 0..MaxEvents /\ seen \in 0..MaxEvents
  /\ cpc \in [Callers -> {"idle", "lock", "flip", "take", "shut", "join",
                          "returned", "sub", "clear", "enlist", "enlisted"}]
  /\ cfd \in [Callers -> (Fds \cup {-1}) \X {0, 1, Free}]
  /\ misshut \subseteq {0, 1, Foreign} /\ foreign \in 0..MaxForeign

\* When cancel() has returned to another thread, runLoop has exited: no
\* callback runs any more, and the handle may be destroyed, also after the
\* server rejected the subscription (test_ipc_client.cpp, test 13).  When
\* disconnect() has and the subscription was listed, runLoop has exited or will
\* without connecting: subscribe() may not have started it yet.
CancelMeansStopped ==
  /\ \A t \in Cancellers : cpc[t] = "returned" => run = "exited"
  /\ \A t \in Disconnecters :
       cpc[t] = "returned" =>
         run = "exited" \/ (run \in {"listed", "top", "finish"} /\ ~active)

\* The socket of an attempt is closed on every path of runLoop and
\* doConnectAndSubscribe: between attempts no descriptor is open.
NoDescriptorLeak ==
  \A f \in Fds : file[f] \in {0, 1} <=> (f = fd /\ file[f] = conn)

\* cancel() takes m_fd after it has cleared m_active, so that runLoop cannot
\* open a later connection for the shutdown to hit.
ShutsNoLaterConnection == misshut \subseteq {Foreign}

\* Events reach the callback in the order of the pushes and at most once,
\* whatever was lost when a connection broke.
EventsInOrder == [][seen' # seen => seen' > seen]_vars

\* runLoop gives up ("Server rejected - stop trying", ipc_client.cpp:145) only
\* on a cancel() or when the server has rejected the subscription.
EndsOnlyOnRejection ==
  run = "exited" =>
    refused \/ \E t \in Callers : cpc[t] \notin {"idle", "sub", "enlist", "enlisted"}

\* cancel() and disconnect() return.  Two waits of runLoop are in their way: the
\* send() of a large request, until the server reads it, and a callback that waits
\* for ever, for the m_cancelMutex or the m_subMutex of the thread that joins it.
CancelTerminates ==
  []<>~Blocked /\ []<>(cpc[Self] \notin {"lock", "sub", "enlist"})
    => \A t \in Cancellers \cup Disconnecters :
         cpc[t] \in {"lock", "sub"} ~> cpc[t] \in {"idle", "returned"}

\* A subscription that is neither cancelled nor rejected is established again
\* and again once there is a server that answers and drops no connection
\* (SO_RCVTIMEO still ends an idle one).
Resubscribes ==
  <>[](listening /\ ~silent) /\ <>[][~HangsUp]_vars
    => []<>(run \in {"read", "callback"} \/ ~active)
=============================================================================

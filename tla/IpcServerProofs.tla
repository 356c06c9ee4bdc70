-------------------------- MODULE IpcServerProofs --------------------------
(***************************************************************************)
(* Safety of the IPC server, for any number of connections, descriptor     *)
(* numbers, pushing threads and restarts.                                  *)
(***************************************************************************)
EXTENDS IpcServer, TLAPS

USE DEF ctlVars, accVars, mapVars, connVars, peerVars, outVars, pushVars

\* The thread of a connection, and before it the accept thread, holds the
\* descriptor the connection was accepted on.
Owns ==
  \A c \in Conns :
    pc[c] \in Served \cup {"accepted"} => fdOf[c] \in Fds /\ file[fdOf[c]] = c

\* Between accept() and m_clients[client_fd] = ... exactly one connection is
\* with the accept thread.
Accepting ==
  /\ acc = "register" => accConn \in Conns /\ pc[accConn] = "accepted"
  /\ \A c \in Conns : pc[c] = "accepted" => acc = "register" /\ accConn = c

\* A pusher in writeEvent() has a target.
Writing == \A p \in Pushers : ppc[p] \in {"w1", "w2"} => cur[p] \in Fds \X Conns

\* After the disconnect handler was called the thread only closes.
Notified ==
  \A c \in Conns : disc[c] # 0 => disc[c] = 1 /\ pc[c] \in {"notify", "close", "done"}

\* stop() goes through the descriptors it has collected when no connection can
\* be accepted any more; the registered ones are shut or still to be shut.
Stopping ==
  /\ acc # "off" => ctl \in {"up", "wake", "join"}
  /\ ctl = "shut" =>
       \A c \in Conns : pc[c] \in Registered => c \notin up \/ fdOf[c] \in ctlFds
  /\ ctl = "clear" => \A c \in Conns : pc[c] \in Registered => c \notin up

IInv == TypeOK /\ Owns /\ Accepting /\ RegistryExact /\ Writing /\ Notified /\ Stopping

-----------------------------------------------------------------------------
\* The state the constructor leaves satisfies the invariant.
LEMMA InitIInv == Init => IInv
<1> SUFFICES ASSUME Init PROVE IInv OBVIOUS
<1>1. TypeOK
  <2>1. \A p \in Pushers : cur[p] \in (Fds \cup {NoFd}) \X (Conns \cup {NoConn})
    BY DEF Init
  <2>2. cur \in [Pushers -> (Fds \cup {NoFd}) \X (Conns \cup {NoConn})]
    BY <2>1 DEF Init
  <2>3. /\ clients \in [Fds -> Conns \cup {NoConn}]
        /\ file \in [Fds -> Files \cup {NoConn}]
        /\ wlock \in [Conns -> Conns \cup Pushers \cup {NoConn}]
        /\ partial \in [Conns -> Conns \cup Pushers \cup {NoConn}]
        /\ fdOf \in [Conns -> Fds \cup {NoFd}]
        /\ pc \in [Conns -> {"new", "backlog", "accepted", "done"} \cup Served]
    BY DEF Init
  <2>4. /\ req \in [Conns -> Nat] /\ inbox \in [Conns -> Nat]
        /\ handler \in [Conns -> 0..MaxRuns] /\ disc \in [Conns -> Nat]
        /\ runs \in 0..MaxRuns /\ handlers \in 0..MaxRuns
    BY ServerConstants DEF Init
  <2>5. /\ ppc \in [Pushers -> {"idle", "next", "w1", "w2"}]
        /\ todo \in [Pushers -> SUBSET (Fds \X Conns)]
    BY DEF Init
  <2> QED BY <2>2, <2>3, <2>4, <2>5 DEF Init, TypeOK
<1>2. Owns /\ Accepting /\ Writing /\ Notified BY DEF Init, Owns, Accepting,
  Writing, Notified, Served
<1>3. RegistryExact /\ Stopping
  BY ServerConstants DEF Init, RegistryExact, Stopping, Registered, Served
<1> QED BY <1>1, <1>2, <1>3 DEF IInv

\* The types after a step of start() or stop().
LEMMA TypeControl == IInv /\ Control => TypeOK'
<1> SUFFICES ASSUME IInv, Control PROVE TypeOK' OBVIOUS
<1> USE DEF IInv, TypeOK, Files
<1>1. CASE StartInstall BY <1>1, ServerConstants DEF StartInstall
<1>2. CASE StartFails BY <1>2 DEF StartFails
<1>3. CASE StartListens BY <1>3 DEF StartListens
<1>4. CASE StopBegins BY <1>4 DEF StopBegins
<1>5. CASE StopWakes BY <1>5 DEF StopWakes
<1>6. CASE StopCollects BY <1>6 DEF StopCollects
<1>7. CASE StopClears BY <1>7, ServerConstants DEF StopClears
<1>8. CASE StopReturns BY <1>8 DEF StopReturns
<1>9. CASE \E f \in Fds : StopShuts(f) BY <1>9 DEF StopShuts
<1> QED BY <1>1, <1>2, <1>3, <1>4, <1>5, <1>6, <1>7, <1>8, <1>9 DEF Control

\* The types after a step of the accept thread.
LEMMA TypeAcceptor == IInv /\ Acceptor => TypeOK'
<1> SUFFICES ASSUME IInv, Acceptor PROVE TypeOK' OBVIOUS
<1> USE DEF IInv, TypeOK, Files
<1>1. CASE AcceptChecks BY <1>1 DEF AcceptChecks
<1>2. CASE AcceptWoken BY <1>2 DEF AcceptWoken
<1>3. CASE AcceptRegisters BY <1>3 DEF AcceptRegisters, Served, Accepting
<1>4. CASE \E c \in Conns : AcceptFails(c) BY <1>4 DEF AcceptFails
<1>5. CASE \E c \in Conns : \E f \in Fds : Accepts(c, f) BY <1>5 DEF Accepts
<1> QED BY <1>1, <1>2, <1>3, <1>4, <1>5 DEF Acceptor

\* SendPart(w, f, c, rest) keeps the types of what has reached the streams.
LEMMA TypeSendPart ==
  ASSUME NEW w \in Conns \cup Pushers, NEW f \in Fds, NEW c \in Conns,
         NEW rest \in BOOLEAN, TypeOK, CanSend(f), SendPart(w, f, c, rest)
  PROVE  /\ partial' \in [Conns -> Conns \cup Pushers \cup {NoConn}]
         /\ broken' \subseteq Conns /\ strayed' \subseteq Files
<1>1. file[f] \in Files
  BY DEF TypeOK, CanSend, SendFails
<1>2. CASE file[f] = Foreign BY <1>1, <1>2 DEF SendPart, TypeOK
<1>3. CASE file[f] # Foreign
  BY <1>1, <1>3, ServerConstants DEF SendPart, TypeOK, Files
<1> QED BY <1>2, <1>3

\* The types after a step of a connection's thread.
LEMMA TypeConn ==
  ASSUME IInv, NEW c \in Conns, ConnRuns(c) \/ ConnReadFails(c)
  PROVE  TypeOK'
<1> USE DEF IInv, TypeOK, Goto
<1>1. CASE ConnChecks(c) BY <1>1 DEF ConnChecks, Served
<1>2. CASE ConnReads(c) BY <1>2 DEF ConnReads, Served
<1>3. CASE ConnReadsEof(c) BY <1>3 DEF ConnReadsEof, Served
<1>4. CASE ConnReadFails(c) BY <1>4 DEF ConnReadFails, Served
<1>5. CASE ConnCopies(c) BY <1>5 DEF ConnCopies, Served
<1>6. CASE ConnHandles(c)
  <2>1. clients[fdOf[c]] \in Conns \cup {NoConn}
    BY <1>6 DEF ConnHandles, Owns, Served
  <2>2. subs' \subseteq Conns BY <1>6, <2>1 DEF ConnHandles
  <2> QED BY <1>6, <2>2, ServerConstants DEF ConnHandles, Served
<1>7. CASE ConnFinds(c) BY <1>7 DEF ConnFinds, Served
<1>8. CASE ConnLocks(c) BY <1>8 DEF ConnLocks, Served
<1>9. CASE ConnSends(c)
  <2>1. /\ partial' \in [Conns -> Conns \cup Pushers \cup {NoConn}]
        /\ broken' \subseteq Conns /\ strayed' \subseteq Files
    BY <1>9, TypeSendPart DEF ConnSends, Owns, Served
  <2> QED BY <1>9, <2>1, ZenonT(60) DEF ConnSends, Served
<1>10. CASE ConnSendFails(c) BY <1>10 DEF ConnSendFails, Served
<1>11. CASE ConnErases(c) BY <1>11 DEF ConnErases, Served
<1>12. CASE ConnTests(c) BY <1>12 DEF ConnTests, Served
<1>13. CASE ConnNotifies(c) BY <1>13 DEF ConnNotifies, Served
<1>14. CASE ConnNotified(c) BY <1>14, ServerConstants DEF ConnNotified, Served
<1>15. CASE ConnCloses(c) BY <1>15 DEF ConnCloses
<1> QED
  BY <1>1, <1>2, <1>3, <1>4, <1>5, <1>6, <1>7, <1>8, <1>9, <1>10, <1>11,
     <1>12, <1>13, <1>14, <1>15 DEF ConnRuns

\* The types after a step of a pusher.
LEMMA TypePush == ASSUME IInv, NEW p \in Pushers, Push(p) PROVE TypeOK'
<1> USE DEF IInv, TypeOK
<1>1. Targets \subseteq Fds \X Conns BY DEF Targets
<1>2. CASE PushCollects(p) BY <1>1, <1>2 DEF PushCollects
<1>3. CASE \E f \in Fds : PushToCollects(p, f) BY <1>1, <1>3 DEF PushToCollects
<1>4. CASE \E t \in todo[p] : PushLocks(p, t) BY <1>4 DEF PushLocks
<1>5. CASE PushSends(p)
  <2>1. cur[p][1] \in Fds /\ cur[p][2] \in Conns BY <1>5 DEF PushSends, Writing
  <2>2. /\ partial' \in [Conns -> Conns \cup Pushers \cup {NoConn}]
        /\ broken' \subseteq Conns /\ strayed' \subseteq Files
    BY <1>5, <2>1, TypeSendPart DEF PushSends
  <2> QED BY <1>5, <2>2, ZenonT(60) DEF PushSends
<1>6. CASE PushSendFails(p) BY <1>6 DEF PushSendFails
<1>7. CASE PushReturns(p) BY <1>7 DEF PushReturns
<1> QED BY <1>2, <1>3, <1>4, <1>5, <1>6, <1>7 DEF Push, PushRuns

\* The types after a step of the clients or of the rest of the process.
LEMMA TypeEnvironment == IInv /\ Environment => TypeOK'
<1> SUFFICES ASSUME IInv, Environment PROVE TypeOK' OBVIOUS
<1> USE DEF IInv, TypeOK, Files
<1>1. CASE \E c \in Conns : Connects(c) BY <1>1 DEF Connects
<1>2. CASE \E c \in Conns : SendsRequest(c) BY <1>2 DEF SendsRequest
<1>3. CASE \E c \in Conns : HangsUp(c) BY <1>3 DEF HangsUp
<1>4. CASE \E c \in Conns : Stalls(c) BY <1>4 DEF Stalls
<1>5. CASE \E c \in Conns : ConnReadFails(c) BY <1>5, TypeConn
<1>6. CASE \E f \in Fds : ForeignOpens(f) BY <1>6 DEF ForeignOpens
<1>7. CASE \E f \in Fds : ForeignCloses(f) BY <1>7 DEF ForeignCloses
<1> QED BY <1>1, <1>2, <1>3, <1>4, <1>5, <1>6, <1>7 DEF Environment

-----------------------------------------------------------------------------
\* What ties a connection to its descriptor and to m_clients.
Wired == Owns /\ Accepting /\ RegistryExact
wiredVars == <<acc, accConn, clients, pc, fdOf, file>>

\* Steps that leave the connections, m_clients and the descriptors alone.
LEMMA WiredUnchanged == ASSUME Wired, UNCHANGED wiredVars PROVE Wired'
BY DEF Wired, wiredVars, Owns, Accepting, RegistryExact

\* A thread that goes on, without touching its descriptor or m_clients, stays
\* registered if it was and is not registered if it was not.
LEMMA WiredGoto ==
  ASSUME IInv, NEW c \in Conns, NEW to, Goto(c, to),
         \/ pc[c] \in Registered /\ to \in Registered
         \/ pc[c] \in Served \ Registered /\ to \in Served \ Registered,
         UNCHANGED <<acc, accConn, clients, fdOf, file>>
  PROVE  Wired'
BY DEF IInv, TypeOK, Wired, Owns, Accepting, RegistryExact, Goto, Served,
   Registered

\* start() and stop().
LEMMA WiredControl == IInv /\ Control => Wired'
<1> SUFFICES ASSUME IInv, Control PROVE Wired' OBVIOUS
<1>1. CASE StartListens
  BY <1>1 DEF StartListens, IInv, Wired, Owns, Accepting, RegistryExact, Stopping
<1>2. CASE StopReturns
  BY <1>2 DEF StopReturns, IInv, TypeOK, Wired, Owns, Accepting, RegistryExact,
     Served, Registered
<1>3. CASE ~StartListens /\ ~StopReturns
  <2>1. UNCHANGED wiredVars
    BY <1>3 DEF Control, StartInstall, StartFails, StopBegins, StopWakes,
       StopCollects, StopClears, StopShuts, wiredVars
  <2> QED BY <2>1, WiredUnchanged DEF IInv, Wired
<1> QED BY <1>1, <1>2, <1>3

\* The accept thread: a fresh descriptor belongs to nobody else, and it is
\* registered before its thread runs.
LEMMA WiredAcceptor == IInv /\ Acceptor => Wired'
<1> SUFFICES ASSUME IInv, Acceptor PROVE Wired' OBVIOUS
<1> USE DEF IInv, TypeOK, Wired, Owns, Accepting, RegistryExact
<1>1. CASE AcceptChecks BY <1>1 DEF AcceptChecks
<1>2. CASE AcceptWoken BY <1>2 DEF AcceptWoken
<1>3. CASE \E c \in Conns : AcceptFails(c) BY <1>3 DEF AcceptFails
<1>4. ASSUME NEW c \in Conns, NEW f \in Fds, Accepts(c, f) PROVE Wired'
  <2>1. \A d \in Conns : pc[d] \in Served => fdOf[d] # f
    BY <1>4, ServerConstants DEF Accepts, Free
  <2>2. \A d \in Conns : pc[d] # "accepted" BY <1>4 DEF Accepts
  <2>3. Owns' BY <1>4, <2>1, <2>2 DEF Accepts, Served
  <2>4. Accepting' BY <1>4, <2>2 DEF Accepts
  <2>5. RegistryExact' BY <1>4, <2>1 DEF Accepts, Registered, Served
  <2> QED BY <2>3, <2>4, <2>5
<1>5. CASE AcceptRegisters
  <2>1. accConn \in Conns /\ pc[accConn] = "accepted" BY <1>5 DEF AcceptRegisters
  <2>2. fdOf[accConn] \in Fds /\ file[fdOf[accConn]] = accConn BY <2>1
  <2>3. \A d \in Conns : pc[d] \in Served => fdOf[d] # fdOf[accConn]
    BY <2>1, <2>2 DEF Served
  <2>4. Owns' BY <1>5, <2>1, <2>2 DEF AcceptRegisters, Served
  <2>5. Accepting' BY <1>5, <2>1 DEF AcceptRegisters
  <2>6. RegistryExact'
    BY <1>5, <2>1, <2>2, <2>3 DEF AcceptRegisters, Registered, Served
  <2> QED BY <2>4, <2>5, <2>6
<1> QED BY <1>1, <1>2, <1>3, <1>4, <1>5 DEF Acceptor

\* The thread of a connection: it erases its own entry, and later closes its
\* own descriptor.
LEMMA WiredConn ==
  ASSUME IInv, NEW c \in Conns, ConnRuns(c) \/ ConnReadFails(c)
  PROVE  Wired'
<1>1. CASE ConnErases(c)
  <2> USE DEF IInv, TypeOK, Wired, Owns, Accepting, RegistryExact
  <2>1. \A d \in Conns : pc[d] \in Served /\ fdOf[d] = fdOf[c] => d = c
    BY <1>1 DEF ConnErases, Served
  <2>2. Owns' BY <1>1 DEF ConnErases, Goto, Served
  <2>3. Accepting' BY <1>1 DEF ConnErases, Goto
  <2>4. RegistryExact'
    BY <1>1, <2>1, ServerConstants DEF ConnErases, Goto, Registered, Served
  <2> QED BY <2>2, <2>3, <2>4
<1>2. CASE ConnCloses(c)
  <2> USE DEF IInv, TypeOK, Wired, Owns, Accepting, RegistryExact
  <2>1. \A d \in Conns :
          pc[d] \in Served \cup {"accepted"} /\ fdOf[d] = fdOf[c] => d = c
    BY <1>2 DEF ConnCloses, Served
  <2>2. Owns' BY <1>2, <2>1 DEF ConnCloses, Goto, Served
  <2>3. Accepting' BY <1>2 DEF ConnCloses, Goto
  <2>4. RegistryExact' BY <1>2 DEF ConnCloses, Goto, Registered, Served
  <2> QED BY <2>2, <2>3, <2>4
<1>3. CASE ConnTests(c) \/ ConnNotifies(c) \/ ConnNotified(c)
  <2>1. PICK to \in Served \ Registered : Goto(c, to)
    BY <1>3 DEF ConnTests, ConnNotifies, ConnNotified, Goto, Served, Registered
  <2>2. /\ pc[c] \in Served \ Registered
        /\ UNCHANGED <<acc, accConn, clients, fdOf, file>>
    BY <1>3 DEF ConnTests, ConnNotifies, ConnNotified, Served, Registered
  <2> QED BY <2>1, <2>2, WiredGoto
<1>4. CASE \/ ConnChecks(c) \/ ConnReads(c) \/ ConnReadsEof(c)
           \/ ConnReadFails(c) \/ ConnCopies(c) \/ ConnHandles(c)
           \/ ConnFinds(c) \/ ConnLocks(c) \/ ConnSends(c) \/ ConnSendFails(c)
  <2>1. PICK to \in Registered : Goto(c, to)
    BY <1>4 DEF ConnChecks, ConnReads, ConnReadsEof, ConnReadFails, ConnCopies,
       ConnHandles, ConnFinds, ConnLocks, ConnSends, ConnSendFails, Goto,
       Served, Registered
  <2>2. /\ pc[c] \in Registered
        /\ UNCHANGED <<acc, accConn, clients, fdOf, file>>
    BY <1>4 DEF ConnChecks, ConnReads, ConnReadsEof, ConnReadFails, ConnCopies,
       ConnHandles, ConnFinds, ConnLocks, ConnSends, ConnSendFails, Served,
       Registered
  <2> QED BY <2>1, <2>2, WiredGoto
<1> QED BY <1>1, <1>2, <1>3, <1>4 DEF ConnRuns

\* Pushers, clients and the rest of the process.
LEMMA WiredOthers ==
  IInv /\ (Environment \/ \E p \in Pushers : Push(p)) => Wired'
<1> SUFFICES ASSUME IInv, Environment \/ \E p \in Pushers : Push(p) PROVE Wired'
  OBVIOUS
<1>1. CASE \E p \in Pushers : Push(p)
  <2>1. UNCHANGED wiredVars
    BY <1>1 DEF Push, PushRuns, PushCollects, PushToCollects, PushLocks,
       PushSends, PushSendFails, PushReturns, wiredVars
  <2> QED BY <2>1, WiredUnchanged DEF IInv, Wired
<1>2. CASE \E c \in Conns : Connects(c)
  BY <1>2 DEF Connects, IInv, TypeOK, Wired, Owns, Accepting, RegistryExact,
     Served, Registered
<1>3. CASE \E c \in Conns : SendsRequest(c) \/ HangsUp(c) \/ Stalls(c)
  <2>1. UNCHANGED wiredVars
    BY <1>3 DEF SendsRequest, HangsUp, Stalls, wiredVars
  <2> QED BY <2>1, WiredUnchanged DEF IInv, Wired
<1>4. CASE \E c \in Conns : ConnReadFails(c) BY <1>4, WiredConn
<1>5. CASE \E f \in Fds : ForeignOpens(f) \/ ForeignCloses(f)
  BY <1>5, ServerConstants DEF ForeignOpens, ForeignCloses, Free, IInv, TypeOK,
     Wired, Owns, Accepting, RegistryExact
<1> QED BY <1>1, <1>2, <1>3, <1>4, <1>5 DEF Environment

-----------------------------------------------------------------------------
\* Only PushLocks enters writeEvent(), with a target that was collected.
LEMMA WritingStep == IInv /\ Next => Writing'
<1> SUFFICES ASSUME IInv, Next PROVE Writing' OBVIOUS
<1>1. CASE \E p \in Pushers : Push(p)
  <2> PICK p \in Pushers : Push(p) BY <1>1
  <2> USE DEF IInv, TypeOK, Writing
  <2>1. CASE \E t \in todo[p] : PushLocks(p, t) BY <2>1 DEF PushLocks
  <2>2. CASE \/ PushCollects(p) \/ PushSends(p) \/ PushSendFails(p)
             \/ PushReturns(p) \/ \E f \in Fds : PushToCollects(p, f)
    BY <2>2 DEF PushCollects, PushToCollects, PushSends, PushSendFails, PushReturns
  <2> QED BY <2>1, <2>2 DEF Push, PushRuns
<1>2. CASE ~\E p \in Pushers : Push(p)
  <2>1. UNCHANGED <<ppc, cur>>
    <3>1. CASE Control
      BY <3>1 DEF Control, StartInstall, StartFails, StartListens, StopBegins,
         StopWakes, StopCollects, StopClears, StopReturns, StopShuts
    <3>2. CASE Acceptor
      BY <3>2 DEF Acceptor, AcceptChecks, AcceptWoken, AcceptRegisters,
         AcceptFails, Accepts
    <3>3. CASE Environment
      BY <3>3 DEF Environment, Connects, SendsRequest, HangsUp, Stalls,
         ConnReadFails, ForeignOpens, ForeignCloses
    <3>4. CASE \E c \in Conns : ConnRuns(c)
      BY <3>4 DEF ConnRuns, ConnChecks, ConnReads, ConnReadsEof, ConnCopies,
         ConnHandles, ConnFinds, ConnLocks, ConnSends, ConnSendFails,
         ConnErases, ConnTests, ConnNotifies, ConnNotified, ConnCloses
    <3> QED BY <1>2, <3>1, <3>2, <3>3, <3>4 DEF Next
  <2> QED BY <2>1 DEF IInv, Writing
<1> QED BY <1>1, <1>2

\* The disconnect handler is called by ConnNotifies only, and no step goes back.
LEMMA NotifiedStep == IInv /\ Next => Notified'
<1> SUFFICES ASSUME IInv, Next PROVE Notified' OBVIOUS
<1> USE DEF IInv, TypeOK, Notified
<1>1. CASE \E c \in Conns : ConnRuns(c) \/ ConnReadFails(c)
  <2> PICK c \in Conns : ConnRuns(c) \/ ConnReadFails(c) BY <1>1
  <2>1. CASE ConnNotifies(c) BY <2>1 DEF ConnNotifies, Goto
  <2>2. CASE ConnNotified(c) \/ ConnCloses(c)
    BY <2>2 DEF ConnNotified, ConnCloses, Goto
  <2>3. CASE ~(ConnNotifies(c) \/ ConnNotified(c) \/ ConnCloses(c))
    <3>1. PICK to : Goto(c, to)
      BY <2>3 DEF ConnRuns, ConnChecks, ConnReads, ConnReadsEof, ConnReadFails,
         ConnCopies, ConnHandles, ConnFinds, ConnLocks, ConnSends,
         ConnSendFails, ConnErases, ConnTests, Goto
    <3>2. pc[c] \notin {"notify", "close", "done"} /\ disc' = disc
      BY <2>3 DEF ConnRuns, ConnChecks, ConnReads, ConnReadsEof, ConnReadFails,
         ConnCopies, ConnHandles, ConnFinds, ConnLocks, ConnSends,
         ConnSendFails, ConnErases, ConnTests
    <3> QED BY <3>1, <3>2 DEF Goto
  <2> QED BY <2>1, <2>2, <2>3
<1>2. CASE StopReturns BY <1>2 DEF StopReturns
<1>3. CASE AcceptRegisters BY <1>3 DEF AcceptRegisters, Accepting
<1>4. CASE \E c \in Conns : \E f \in Fds : Accepts(c, f) BY <1>4 DEF Accepts
<1>5. CASE \E c \in Conns : Connects(c) BY <1>5 DEF Connects
<1>6. CASE UNCHANGED <<pc, disc>> BY <1>6
<1>7. \/ \E c \in Conns : ConnRuns(c) \/ ConnReadFails(c) \/ Connects(c)
      \/ \E c \in Conns : \E f \in Fds : Accepts(c, f)
      \/ StopReturns \/ AcceptRegisters \/ UNCHANGED <<pc, disc>>
  <2>1. CASE Control
    BY <2>1 DEF Control, StartInstall, StartFails, StartListens, StopBegins,
       StopWakes, StopCollects, StopClears, StopShuts
  <2>2. CASE Acceptor
    BY <2>2 DEF Acceptor, AcceptChecks, AcceptWoken, AcceptFails
  <2>3. CASE Environment
    BY <2>3 DEF Environment, SendsRequest, HangsUp, Stalls, ForeignOpens,
       ForeignCloses
  <2>4. CASE \E p \in Pushers : Push(p)
    BY <2>4 DEF Push, PushRuns, PushCollects, PushToCollects, PushLocks,
       PushSends, PushSendFails, PushReturns
  <2> QED BY <2>1, <2>2, <2>3, <2>4 DEF Next
<1> QED BY <1>1, <1>2, <1>3, <1>4, <1>5, <1>6, <1>7

\* Steps outside stop() and the accept thread: nothing becomes registered, and
\* no registered connection is opened again.
LEMMA StoppingUnchanged ==
  ASSUME Stopping, UNCHANGED <<ctl, ctlFds, acc>>,
         \A c \in Conns : pc'[c] \in Registered =>
           /\ pc[c] \in Registered /\ fdOf'[c] = fdOf[c]
           /\ c \in up' => c \in up
  PROVE  Stopping'
BY DEF Stopping, Registered, Served

\* The part of the invariant about stop().
LEMMA StoppingStep == IInv /\ Next => Stopping'
<1> SUFFICES ASSUME IInv, Next PROVE Stopping' OBVIOUS
<1>1. CASE Control
  <2> USE DEF IInv, TypeOK, Stopping
  <2>1. CASE StopCollects
    <3>1. \A c \in Conns : pc[c] \in Registered =>
            fdOf[c] \in Fds /\ clients[fdOf[c]] # NoConn
      BY ServerConstants DEF Owns, RegistryExact, Registered
    <3> QED BY <2>1, <3>1 DEF StopCollects
  <2>2. CASE \E f \in Fds : StopShuts(f)
    <3> PICK f \in Fds : StopShuts(f) BY <2>2
    <3>1. \A c \in Conns : pc[c] \in Registered => file[fdOf[c]] = c
      BY DEF Owns, Registered
    <3> QED BY <3>1 DEF StopShuts
  <2>3. CASE StopReturns BY <2>3 DEF StopReturns
  <2>4. CASE StopClears BY <2>4 DEF StopClears
  <2>5. CASE \/ StartInstall \/ StartFails \/ StartListens \/ StopBegins
             \/ StopWakes
    BY <2>5 DEF StartInstall, StartFails, StartListens, StopBegins, StopWakes
  <2> QED BY <1>1, <2>1, <2>2, <2>3, <2>4, <2>5 DEF Control
<1>2. CASE Acceptor
  BY <1>2 DEF Acceptor, AcceptChecks, AcceptWoken, AcceptFails, Accepts,
     AcceptRegisters, IInv, Stopping
<1>3. CASE \E c \in Conns : ConnRuns(c) \/ ConnReadFails(c)
  <2> PICK c \in Conns : ConnRuns(c) \/ ConnReadFails(c) BY <1>3
  <2>1. UNCHANGED <<ctl, ctlFds, acc>> /\ up' \subseteq up
    BY DEF ConnRuns, ConnChecks, ConnReads, ConnReadsEof, ConnReadFails,
       ConnCopies, ConnHandles, ConnFinds, ConnLocks, ConnSends,
       ConnSendFails, ConnErases, ConnTests, ConnNotifies, ConnNotified,
       ConnCloses
  <2>2. CASE ConnCloses(c)
    <3>1. \A d \in Conns : pc'[d] \in Registered =>
            pc[d] \in Registered /\ fdOf'[d] = fdOf[d]
      BY <2>2 DEF ConnCloses, Goto, Registered, Served, IInv, TypeOK
    <3> QED BY <2>1, <3>1, StoppingUnchanged DEF IInv
  <2>3. CASE ~ConnCloses(c)
    <3>1. /\ fdOf' = fdOf
          /\ \A d \in Conns : d # c => pc'[d] = pc[d]
      BY <2>3 DEF IInv, TypeOK, Goto, ConnRuns, ConnChecks, ConnReads,
         ConnReadsEof, ConnReadFails, ConnCopies, ConnHandles, ConnFinds,
         ConnLocks, ConnSends, ConnSendFails, ConnErases, ConnTests,
         ConnNotifies, ConnNotified
    <3>2. pc'[c] \in Registered => pc[c] \in Registered
      BY <2>3 DEF IInv, TypeOK, Goto, Registered, Served, ConnRuns, ConnChecks,
         ConnReads, ConnReadsEof, ConnReadFails, ConnCopies, ConnHandles,
         ConnFinds, ConnLocks, ConnSends, ConnSendFails, ConnErases, ConnTests,
         ConnNotifies, ConnNotified
    <3> QED BY <2>1, <3>1, <3>2, StoppingUnchanged DEF IInv
  <2> QED BY <2>2, <2>3
<1>4. CASE \E c \in Conns : Connects(c)
  <2> PICK c \in Conns : Connects(c) BY <1>4
  <2>1. \A d \in Conns : pc'[d] \in Registered =>
          pc[d] \in Registered /\ d # c
    BY DEF Connects, Registered, Served, IInv, TypeOK
  <2>2. UNCHANGED <<ctl, ctlFds, acc, fdOf>> /\ up' = up \cup {c}
    BY DEF Connects
  <2> QED BY <2>1, <2>2, StoppingUnchanged DEF IInv
<1>5. CASE UNCHANGED <<ctl, ctlFds, acc, pc, fdOf>> /\ up' \subseteq up
  BY <1>5, StoppingUnchanged DEF IInv
<1>6. CASE Environment
  BY <1>3, <1>4, <1>5, <1>6 DEF Environment, SendsRequest, HangsUp, Stalls,
     ForeignOpens, ForeignCloses
<1>7. CASE \E p \in Pushers : Push(p)
  BY <1>5, <1>7 DEF Push, PushRuns, PushCollects, PushToCollects, PushLocks,
     PushSends, PushSendFails, PushReturns
<1> QED BY <1>1, <1>2, <1>3, <1>6, <1>7 DEF Next

-----------------------------------------------------------------------------
\* A stuttering step keeps the invariant.
LEMMA IInvUnchanged == IInv /\ UNCHANGED vars => IInv'
BY DEF IInv, vars, TypeOK, Owns, Accepting, RegistryExact, Writing, Notified,
   Stopping

\* Every step keeps the invariant.
LEMMA IInvStep == IInv /\ [Next]_vars => IInv'
<1> SUFFICES ASSUME IInv, Next PROVE IInv' BY IInvUnchanged
<1>1. TypeOK'
  BY TypeControl, TypeAcceptor, TypeConn, TypePush, TypeEnvironment DEF Next
<1>2. Wired'
  BY WiredControl, WiredAcceptor, WiredConn, WiredOthers DEF Next
<1> QED BY <1>1, <1>2, WritingStep, NotifiedStep, StoppingStep DEF IInv, Wired

\* The invariant holds in every state of the server.
THEOREM Inductive == Spec => []IInv
BY InitIInv, IInvStep, PTL DEF Spec

\* Every variable has its type, with any number of connections and restarts.
THEOREM TypeCorrect == Spec => []TypeOK
<1>1. IInv => TypeOK BY DEF IInv
<1> QED BY <1>1, Inductive, PTL

\* m_clients names exactly the connections before their cleanup: accept
\* registers before it starts the thread and no thread erases another's entry,
\* although descriptor numbers are reused.
THEOREM RegistryIsExact == Spec => []RegistryExact
<1>1. IInv => RegistryExact BY DEF IInv
<1> QED BY <1>1, Inductive, PTL

\* client_fd names the thread's own connection until the thread closes it.
THEOREM DescriptorIsOwn == Spec => []ServedFdIsOwn
<1>1. IInv => ServedFdIsOwn BY DEF IInv, Owns, ServedFdIsOwn
<1> QED BY <1>1, Inductive, PTL

\* Two connections whose callbacks run have different client_fds.
THEOREM CallbacksDoNotShare == Spec => []CallbacksNeverShareFd
<1>1. IInv => CallbacksNeverShareFd
  BY DEF IInv, Owns, CallbacksNeverShareFd, Served
<1> QED BY <1>1, Inductive, PTL

\* The disconnect handler runs at most once per connection, after its entry in
\* m_clients is gone.
THEOREM DisconnectsOnce == Spec => []DisconnectOnce
<1>1. IInv => DisconnectOnce
  BY SMTT(30) DEF IInv, TypeOK, Notified, RegistryExact, DisconnectOnce, Registered, Served
<1> QED BY <1>1, Inductive, PTL

\* When stop() has cleared the handlers no registered connection is open: it
\* joined the accept thread before it copied m_clients.
THEOREM StopReaches == Spec => []StopReachesAll
<1>1. IInv => StopReachesAll BY DEF IInv, Stopping, StopReachesAll
<1> QED BY <1>1, Inductive, PTL

-----------------------------------------------------------------------------
\* A writer holds the write lock of the connection it writes for.
Locked ==
  /\ \A c \in Conns : pc[c] \in {"w1", "w2"} => wlock[c] = c
  /\ \A p \in Pushers : ppc[p] \in {"w1", "w2"} => wlock[cur[p][2]] = p

\* A pair a push has collected is right until the connection is closed.
Right(t) == pc[t[2]] = "done" \/ file[t[1]] = t[2]
Paired ==
  \A p \in Pushers : /\ \A t \in todo[p] : Right(t)
                     /\ ppc[p] \in {"w1", "w2"} => Right(cur[p])

\* The stream of a connection opens once, and before it has a descriptor.
Alive == /\ \A c \in up : pc[c] \notin {"new", "done"}
         /\ \A f \in Fds, c \in Conns : file[f] = c => pc[c] # "new"
         /\ \A c \in Conns : pc[c] = "new" => partial[c] = NoConn

\* On an open stream that got its own frames only, half a frame has been sent
\* exactly while its writer is between its two steps.
Framed ==
  /\ broken \subseteq strayed
  /\ \A c \in up \ strayed :
       /\ pc[c] = "w2" => partial[c] = c
       /\ \A p \in Pushers : ppc[p] = "w2" /\ cur[p][2] = c => partial[c] = p
       /\ partial[c] # NoConn =>
            \/ pc[c] = "w2"
            \/ \E p \in Pushers : ppc[p] = "w2" /\ cur[p][2] = c

FInv == Locked /\ Paired /\ Alive /\ Framed

\* The state the constructor leaves.
LEMMA InitFInv == Init => FInv
BY ServerConstants DEF Init, FInv, Locked, Paired, Right, Alive, Framed

sendVars == <<pc, file, up, wlock, partial, broken, strayed, ppc, todo, cur>>

\* Steps that concern neither the streams nor the writers.
LEMMA FInvUnchanged == FInv /\ UNCHANGED sendVars => FInv'
BY DEF sendVars, FInv, Locked, Paired, Right, Alive, Framed

\* A collected pair stays right if its connection keeps its descriptor or ends.
LEMMA PairedUnchanged ==
  ASSUME IInv, Paired, UNCHANGED <<ppc, todo, cur>>,
         \A f \in Fds, c \in Conns :
           pc[c] = "done" \/ file[f] = c => pc'[c] = "done" \/ file'[f] = c
  PROVE  Paired'
<1>1. \A p \in Pushers : \A t \in todo[p] : t[1] \in Fds /\ t[2] \in Conns
  BY DEF IInv, TypeOK
<1>2. \A p \in Pushers :
        ppc[p] \in {"w1", "w2"} => cur[p][1] \in Fds /\ cur[p][2] \in Conns
  BY DEF IInv, Writing
<1> QED BY <1>1, <1>2 DEF Paired, Right

\* A thread that is and stays outside the writing of a response.
LEMMA FInvGoto ==
  ASSUME IInv, FInv, NEW c \in Conns, NEW to, Goto(c, to),
         pc[c] \notin {"new", "w1", "w2", "done"},
         to \notin {"new", "w1", "w2", "done"},
         UNCHANGED <<file, up, wlock, partial, broken, strayed, ppc, todo, cur>>
  PROVE  FInv'
BY DEF IInv, TypeOK, Goto, FInv, Locked, Paired, Right, Alive, Framed

\* start() and stop().
LEMMA FInvControl == IInv /\ FInv /\ Control => FInv'
<1> SUFFICES ASSUME IInv, FInv, Control PROVE FInv' OBVIOUS
<1>1. CASE \E f \in Fds : StopShuts(f)
  <2> PICK f \in Fds : StopShuts(f) BY <1>1
  <2>1. /\ UNCHANGED <<pc, file, wlock, partial, broken, ppc, todo, cur>>
        /\ up' \subseteq up /\ strayed \subseteq strayed'
    BY DEF StopShuts
  <2> QED BY <2>1 DEF FInv, Locked, Paired, Right, Alive, Framed
<1>2. CASE StopReturns
  <2> USE DEF StopReturns, IInv, TypeOK, FInv
  <2>1. Locked' BY <1>2 DEF Locked
  <2>2. Paired' BY <1>2, PairedUnchanged
  <2>3. Alive' BY <1>2 DEF Alive
  <2>4. Framed' BY <1>2 DEF Framed
  <2> QED BY <2>1, <2>2, <2>3, <2>4
<1>3. CASE UNCHANGED sendVars BY <1>3, FInvUnchanged
<1> QED
  BY <1>1, <1>2, <1>3 DEF Control, StartInstall, StartFails, StartListens,
     StopBegins, StopWakes, StopCollects, StopClears, sendVars

\* The accept thread.
LEMMA FInvAcceptor == IInv /\ FInv /\ Acceptor => FInv'
<1> SUFFICES ASSUME IInv, FInv, Acceptor PROVE FInv' OBVIOUS
<1>1. ASSUME NEW c \in Conns, NEW f \in Fds, Accepts(c, f) PROVE FInv'
  <2> USE <1>1 DEF Accepts, Free, IInv, TypeOK, FInv
  <2>1. Locked' BY DEF Locked
  <2>2. \A g \in Fds, d \in Conns :
          pc[d] = "done" \/ file[g] = d => pc'[d] = "done" \/ file'[g] = d
    BY ServerConstants
  <2>3. Paired' BY <2>2, PairedUnchanged
  <2>4. Alive' BY DEF Alive
  <2>5. Framed' BY DEF Framed
  <2> QED BY <2>1, <2>3, <2>4, <2>5
<1>2. CASE AcceptRegisters
  <2>1. Goto(accConn, "check") /\ accConn \in Conns /\ pc[accConn] = "accepted"
    BY <1>2 DEF AcceptRegisters, Goto, IInv, Accepting
  <2> QED BY <1>2, <2>1, FInvGoto DEF AcceptRegisters
<1>3. CASE UNCHANGED sendVars BY <1>3, FInvUnchanged
<1> QED
  BY <1>1, <1>2, <1>3 DEF Acceptor, AcceptChecks, AcceptWoken, AcceptFails,
     sendVars

\* ConnSends(c): c holds the lock, so nobody else is in the middle of a frame.
LEMMA FInvConnSends ==
  ASSUME IInv, FInv, NEW c \in Conns, ConnSends(c)
  PROVE  FInv'
<1> USE DEF IInv, TypeOK, FInv, Goto
<1>1. /\ pc[c] \in {"w1", "w2"} /\ wlock[c] = c /\ c \in up
      /\ file[fdOf[c]] = c /\ fdOf[c] \in Fds /\ c # Foreign /\ c # NoConn
  BY ServerConstants DEF ConnSends, CanSend, SendFails, Owns, Served, Locked
<1>2. \A p \in Pushers : ppc[p] \in {"w1", "w2"} => cur[p][2] # c
  BY <1>1, ServerConstants DEF Locked
<1>3. /\ strayed' = strayed
      /\ partial' = [partial EXCEPT ![c] = IF pc[c] = "w1" THEN c ELSE NoConn]
      /\ broken' = IF partial[c] = (IF pc[c] = "w1" THEN NoConn ELSE c)
                   THEN broken ELSE broken \cup {c}
  BY <1>1 DEF ConnSends, SendPart
<1>4. /\ pc' = [pc EXCEPT ![c] = IF pc[c] = "w1" THEN "w2" ELSE "check"]
      /\ wlock' = IF pc[c] = "w1" THEN wlock ELSE [wlock EXCEPT ![c] = NoConn]
      /\ UNCHANGED <<file, up, ppc, todo, cur>>
  BY DEF ConnSends
<1>5. Locked' BY <1>1, <1>2, <1>4 DEF Locked
<1>6. Paired' BY <1>1, <1>4, PairedUnchanged
<1>7. Alive' BY <1>1, <1>3, <1>4 DEF Alive
<1>8. c \notin strayed => (pc[c] = "w1" => partial[c] = NoConn)
                          /\ (pc[c] = "w2" => partial[c] = c)
  BY <1>1, <1>2 DEF Framed
<1>9. broken' \subseteq strayed' BY <1>1, <1>3, <1>8 DEF Framed
<1>10. ASSUME NEW d \in up' \ strayed'
       PROVE  /\ pc'[d] = "w2" => partial'[d] = d
              /\ \A p \in Pushers : ppc'[p] = "w2" /\ cur'[p][2] = d => partial'[d] = p
              /\ partial'[d] # NoConn =>
                   \/ pc'[d] = "w2"
                   \/ \E p \in Pushers : ppc'[p] = "w2" /\ cur'[p][2] = d
  <2>1. CASE d = c BY <2>1, <1>1, <1>2, <1>3, <1>4
  <2>2. CASE d # c BY <2>2, <1>3, <1>4, <1>10 DEF Framed
  <2> QED BY <2>1, <2>2
<1>11. Framed' BY <1>9, <1>10 DEF Framed
<1> QED BY <1>5, <1>6, <1>7, <1>11

\* The thread of a connection.
LEMMA FInvConn ==
  ASSUME IInv, FInv, NEW c \in Conns, ConnRuns(c) \/ ConnReadFails(c)
  PROVE  FInv'
<1>1. CASE ConnLocks(c)
  <2> USE <1>1 DEF ConnLocks, Goto, IInv, TypeOK, FInv
  <2>1. Locked' BY ServerConstants DEF Locked
  <2>2. Paired' BY PairedUnchanged
  <2>3. Alive' BY DEF Alive
  <2>4. Framed' BY DEF Framed
  <2> QED BY <2>1, <2>2, <2>3, <2>4
<1>2. CASE ConnSends(c) BY <1>2, FInvConnSends
<1>3. CASE ConnSendFails(c)
  <2> USE <1>3 DEF ConnSendFails, Goto, IInv, TypeOK, FInv
  <2>1. wlock[c] = c /\ c \notin up
    BY ServerConstants DEF SendFails, Owns, Served, Locked
  <2>2. Locked' BY <2>1, ServerConstants DEF Locked
  <2>3. Paired' BY PairedUnchanged
  <2>4. Alive' BY DEF Alive
  <2>5. Framed' BY <2>1 DEF Framed
  <2> QED BY <2>2, <2>3, <2>4, <2>5
<1>4. CASE ConnCloses(c)
  <2> USE <1>4 DEF ConnCloses, Goto, IInv, TypeOK, FInv
  <2>1. file[fdOf[c]] = c /\ fdOf[c] \in Fds BY DEF Owns, Served
  <2>2. Locked' BY DEF Locked
  <2>3. Paired' BY <2>1, PairedUnchanged
  <2>4. Alive' BY ServerConstants DEF Alive
  <2>5. Framed' BY DEF Framed
  <2> QED BY <2>2, <2>3, <2>4, <2>5
<1>5. CASE \/ ConnChecks(c) \/ ConnReads(c) \/ ConnReadsEof(c)
           \/ ConnReadFails(c) \/ ConnCopies(c) \/ ConnHandles(c)
           \/ ConnFinds(c) \/ ConnErases(c) \/ ConnTests(c)
           \/ ConnNotifies(c) \/ ConnNotified(c)
  <2>1. PICK to \in Served \ {"w1", "w2"} : Goto(c, to)
    BY <1>5 DEF ConnChecks, ConnReads, ConnReadsEof, ConnReadFails, ConnCopies,
       ConnHandles, ConnFinds, ConnErases, ConnTests, ConnNotifies,
       ConnNotified, Goto, Served
  <2>2. /\ pc[c] \notin {"new", "w1", "w2", "done"}
        /\ UNCHANGED <<file, up, wlock, partial, broken, strayed, ppc, todo, cur>>
    BY <1>5 DEF ConnChecks, ConnReads, ConnReadsEof, ConnReadFails, ConnCopies,
       ConnHandles, ConnFinds, ConnErases, ConnTests, ConnNotifies, ConnNotified
  <2> QED BY <2>1, <2>2, FInvGoto DEF Served
<1> QED BY <1>1, <1>2, <1>3, <1>4, <1>5 DEF ConnRuns

\* PushSends(p): the frame goes to the connection it is meant for, whose lock p
\* holds, or the connection that gets it counts as strayed.
LEMMA FInvPushSends ==
  ASSUME IInv, FInv, NEW p \in Pushers, PushSends(p)
  PROVE  FInv'
<1> USE DEF IInv, TypeOK, FInv
<1> DEFINE f == cur[p][1]
           c == cur[p][2]
           to == file[f]
<1>1. /\ ppc[p] \in {"w1", "w2"} /\ f \in Fds /\ c \in Conns /\ wlock[c] = p
      /\ to \in Files /\ (to # Foreign => to \in up) /\ p # NoConn
  BY ServerConstants DEF PushSends, CanSend, SendFails, Writing, Locked, Files
<1>2. /\ \A q \in Pushers \ {p} : ppc[q] \in {"w1", "w2"} => cur[q][2] # c
      /\ pc[c] \notin {"w1", "w2"}
  BY <1>1, ServerConstants DEF Locked
<1>3. c \in up => to = c
  BY <1>1 DEF Paired, Right, Alive
<1>4. /\ strayed' = IF to = c THEN strayed ELSE strayed \cup {to}
      /\ to = Foreign => partial' = partial /\ broken' = broken
      /\ to # Foreign =>
           /\ partial' = [partial EXCEPT ![to] = IF ppc[p] = "w1" THEN p ELSE NoConn]
           /\ broken' = IF partial[to] = (IF ppc[p] = "w1" THEN NoConn ELSE p)
                        THEN broken ELSE broken \cup {to}
  BY DEF PushSends, SendPart
<1>5. /\ ppc' = [ppc EXCEPT ![p] = IF ppc[p] = "w1" THEN "w2" ELSE "next"]
      /\ wlock' = IF ppc[p] = "w1" THEN wlock ELSE [wlock EXCEPT ![c] = NoConn]
      /\ UNCHANGED <<pc, file, up, todo, cur>>
  BY DEF PushSends
<1>6. Locked' BY <1>1, <1>2, <1>5, ServerConstants DEF Locked, Writing
<1>7. Paired' BY <1>1, <1>5 DEF Paired, Right
<1>8. Alive' BY <1>1, <1>4, <1>5, ServerConstants DEF Alive, Files
<1>9. to = c /\ c \notin strayed => (ppc[p] = "w1" => partial[c] = NoConn)
                                    /\ (ppc[p] = "w2" => partial[c] = p)
  BY <1>1, <1>2, ServerConstants DEF Framed
<1>10. broken' \subseteq strayed' BY <1>1, <1>4, <1>9 DEF Framed
<1>11. ASSUME NEW d \in up' \ strayed'
       PROVE  /\ pc'[d] = "w2" => partial'[d] = d
              /\ \A q \in Pushers : ppc'[q] = "w2" /\ cur'[q][2] = d => partial'[d] = q
              /\ partial'[d] # NoConn =>
                   \/ pc'[d] = "w2"
                   \/ \E q \in Pushers : ppc'[q] = "w2" /\ cur'[q][2] = d
  <2>1. CASE d = c
    <3>1. to = c /\ c # Foreign /\ partial'[c] = IF ppc[p] = "w1" THEN p ELSE NoConn
      BY <2>1, <1>1, <1>3, <1>4, <1>5, ServerConstants
    <3>2. \A q \in Pushers : ppc'[q] = "w2" /\ cur'[q][2] = c => q = p /\ ppc[p] = "w1"
      BY <1>1, <1>2, <1>5
    <3> QED BY <2>1, <3>1, <3>2, <1>1, <1>2, <1>5
  <2>2. CASE d # c
    <3>1. d # to /\ d \in up \ strayed BY <2>2, <1>4, <1>5, <1>11
    <3>2. partial'[d] = partial[d] /\ pc'[d] = pc[d]
      BY <3>1, <1>4, <1>5
    <3>3. \A q \in Pushers : ppc'[q] = "w2" /\ cur'[q][2] = d
                             <=> ppc[q] = "w2" /\ cur[q][2] = d
      BY <2>2, <1>1, <1>5
    <3> QED BY <3>1, <3>2, <3>3 DEF Framed
  <2> QED BY <2>1, <2>2
<1>12. Framed' BY <1>10, <1>11 DEF Framed
<1> QED BY <1>6, <1>7, <1>8, <1>12

\* The pushers.
LEMMA FInvPush == ASSUME IInv, FInv, NEW p \in Pushers, Push(p) PROVE FInv'
<1>1. CASE PushCollects(p) \/ \E f \in Fds : PushToCollects(p, f)
  <2> USE DEF IInv, TypeOK, FInv
  <2>1. \A t \in Targets : Right(t)
    BY ServerConstants DEF Targets, RegistryExact, Owns, Registered, Right
  <2>2. /\ ppc' = [ppc EXCEPT ![p] = "next"] /\ ppc[p] = "idle"
        /\ todo'[p] \subseteq Targets
        /\ \A q \in Pushers \ {p} : todo'[q] = todo[q]
        /\ UNCHANGED <<pc, file, up, wlock, partial, broken, strayed, cur>>
    BY <1>1 DEF PushCollects, PushToCollects
  <2>3. Locked' BY <2>2 DEF Locked
  <2>4. Paired' BY <2>1, <2>2 DEF Paired, Right
  <2>5. Alive' /\ Framed' BY <2>2 DEF Alive, Framed
  <2> QED BY <2>3, <2>4, <2>5
<1>2. ASSUME NEW t \in todo[p], PushLocks(p, t) PROVE FInv'
  <2> USE <1>2 DEF PushLocks, IInv, TypeOK, FInv
  <2>1. t[2] \in Conns OBVIOUS
  <2>2. Locked' BY <2>1, ServerConstants DEF Locked, Writing
  <2>3. Paired' BY DEF Paired, Right
  <2>4. Alive' BY DEF Alive
  <2>5. Framed' BY DEF Framed
  <2> QED BY <2>2, <2>3, <2>4, <2>5
<1>3. CASE PushSends(p) BY <1>3, FInvPushSends
<1>4. CASE PushSendFails(p)
  <2> USE <1>4 DEF PushSendFails, IInv, TypeOK, FInv
  <2>1. /\ wlock[cur[p][2]] = p /\ cur[p][2] \in Conns /\ cur[p][1] \in Fds
        /\ cur[p][2] \notin up
    BY ServerConstants DEF SendFails, Locked, Writing, Paired, Right, Alive
  <2>2. Locked' BY <2>1, ServerConstants DEF Locked, Writing
  <2>3. Paired' BY DEF Paired, Right
  <2>4. Alive' BY DEF Alive
  <2>5. Framed' BY <2>1 DEF Framed
  <2> QED BY <2>2, <2>3, <2>4, <2>5
<1>5. CASE PushReturns(p)
  <2> USE <1>5 DEF PushReturns, IInv, TypeOK, FInv
  <2>1. Locked' BY DEF Locked
  <2>2. Paired' BY DEF Paired, Right
  <2>3. Alive' BY DEF Alive
  <2>4. Framed' BY DEF Framed
  <2> QED BY <2>1, <2>2, <2>3, <2>4
<1> QED BY <1>1, <1>2, <1>3, <1>4, <1>5 DEF Push, PushRuns

\* The clients and the rest of the process.
LEMMA FInvEnvironment == IInv /\ FInv /\ Environment => FInv'
<1> SUFFICES ASSUME IInv, FInv, Environment PROVE FInv' OBVIOUS
<1>1. CASE \E c \in Conns : Connects(c)
  <2> PICK c \in Conns : Connects(c) BY <1>1
  <2> USE DEF Connects, IInv, TypeOK, FInv
  <2>1. Locked' BY DEF Locked
  <2>2. Paired' BY PairedUnchanged
  <2>3. Alive' BY DEF Alive
  <2>4. Framed'
    <3>1. \A p \in Pushers : ppc[p] = "w2" => cur[p][2] # c
      BY DEF Writing, Paired, Right, Alive
    <3> QED BY <3>1 DEF Framed, Alive
  <2> QED BY <2>1, <2>2, <2>3, <2>4
<1>2. CASE \E c \in Conns : HangsUp(c)
  BY <1>2 DEF HangsUp, FInv, Locked, Paired, Right, Alive, Framed
<1>3. CASE \E f \in Fds : ForeignOpens(f) \/ ForeignCloses(f)
  <2> USE DEF ForeignOpens, ForeignCloses, Free, IInv, TypeOK, FInv
  <2>1. Paired' BY <1>3, ServerConstants, PairedUnchanged
  <2>2. Alive' BY <1>3, ServerConstants DEF Alive
  <2>3. Locked' /\ Framed' BY <1>3 DEF Locked, Framed
  <2> QED BY <2>1, <2>2, <2>3
<1>4. CASE \E c \in Conns : SendsRequest(c) \/ Stalls(c)
  BY <1>4, FInvUnchanged DEF SendsRequest, Stalls, sendVars
<1>5. CASE \E c \in Conns : ConnReadFails(c) BY <1>5, FInvConn
<1> QED BY <1>1, <1>2, <1>3, <1>4, <1>5 DEF Environment

\* Every step keeps the invariant of the streams.
LEMMA FInvStep == IInv /\ FInv /\ [Next]_vars => FInv'
<1>1. UNCHANGED vars => UNCHANGED sendVars BY DEF vars, sendVars
<1> QED
  BY <1>1, FInvUnchanged, FInvControl, FInvAcceptor, FInvConn, FInvPush,
     FInvEnvironment DEF Next

\* write_mutex keeps the frames of a connection apart: a stream that is not a
\* sequence of whole frames belongs to a connection that got bytes meant for
\* another one.
THEOREM FramesAreWhole == Spec => []FramesWhole
<1>1. FInv => FramesWhole BY DEF FInv, Framed, FramesWhole
<1> QED BY <1>1, InitFInv, FInvStep, Inductive, PTL DEF Spec
=============================================================================

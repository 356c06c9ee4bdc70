-------------------------- MODULE IpcClientProofs --------------------------
(***************************************************************************)
(* Safety of the calls of the IPC client, for any number of calls, of      *)
(* threads that connect and disconnect, of descriptor numbers and of       *)
(* connections.                                                            *)
(***************************************************************************)
EXTENDS IpcClient, SequenceTheorems, FiniteSetTheorems, TLAPS

USE DEF callVars, netVars

Elems(s) == {s[i] : i \in DOMAIN s}

\* The calls with a request or a response on their way in connection k.
Frames(k) == Elems(toServer[k]) \cup Elems(toClient[k])

\* The thread inside a call holds m_callMutex.
Locked ==
  \A t \in Callers :
    callLock = t <=> pc[t] \in {"lazy", "getfd", "send", "sending", "recv", "wait",
                                "drop", "reconnect"}

\* A call that has not returned has no result.
Unanswered == \A t \in Callers : pc[t] # "done" => result[t] = None

\* Where a call uses its number, and where it is inside send() or recv().
InFrame == {"send", "sending", "recv", "wait"}
Inside == {"sending", "wait"}

\* A descriptor number stands for a connection that was made or a foreign file,
\* m_fd for a connection that is open; connections to come are empty.
Descriptors ==
  /\ \A f \in Fds : file[f] \in 1..made \cup {None, Foreign}
  /\ mfd # -1 => file[mfd] \in 1..made
  /\ \A t \in Callers : /\ pc[t] \in InFrame => fd[t] \in Fds
                        /\ pc[t] \in Inside => wait[t] \in 1..made \cup {Foreign}
  /\ \A k \in ConnIds : k > made => Frames(k) = {}

\* A connection has one number at most, and only that of the call inside it.
Numbers ==
  /\ \A f, g \in Fds : file[f] = file[g] /\ file[f] \in ConnIds => f = g
  /\ \A t \in Callers : pc[t] \in Inside /\ wait[t] # Foreign
                           => \A f \in Fds : file[f] = wait[t] => f = fd[t]

\* No call has two frames on one connection.
Distinct(s) == \A i, j \in DOMAIN s : s[i] = s[j] => i = j
Single ==
  \A k \in ConnIds : /\ Distinct(toServer[k]) /\ Distinct(toClient[k])
                     /\ Elems(toServer[k]) \cap Elems(toClient[k]) = {}

\* A call whose frame is on the connection m_fd names is still at it there.
MainClean ==
  mfd # -1 => \A t \in Frames(file[mfd]) :
                \/ pc[t] = "recv" /\ file[fd[t]] = file[mfd]
                \/ pc[t] = "wait" /\ wait[t] = file[mfd]
                \/ pc[t] = "drop"

\* No connection, or one with the frames of those calls only.
Clear(k, calls) == k \in {None, Foreign} \/ Frames(k) \subseteq calls

\* What the descriptor of a call stands for carries no frame before the request
\* is sent, and then no other call's.
OwnClean ==
  \A t \in Callers :
    /\ pc[t] \in {"send", "sending"} => Clear(file[fd[t]], {})
    /\ pc[t] = "sending" => Clear(wait[t], {})
    /\ pc[t] = "recv" => Clear(file[fd[t]], {t})
    /\ pc[t] = "wait" => Clear(wait[t], {t})

\* The connections with a request of call t, and how many it may have sent.
Pending(t) == {k \in ConnIds : t \in Elems(toServer[k])}
Attempts(t) == (IF retried[t] THEN 1 ELSE 0)
  + (IF pc[t] \in {"idle", "lazy", "getfd", "send", "sending"} THEN 0 ELSE 1)

Bounded ==
  \A t \in Callers :
    /\ pc[t] = "reconnect" => ~retried[t]
    /\ t \in Once => ~retried[t] /\ pc[t] # "reconnect"
    /\ pc[t] \in {"idle", "lazy"} => ~retried[t]
    /\ runs[t] + Cardinality(Pending(t)) <= Attempts(t)

\* A response comes from an execution.
Executed == \A k \in ConnIds : \A t \in Elems(toClient[k]) : runs[t] > 0

\* A response of this client that a call returns is its own.
OwnAnswers == \A t \in Callers : result[t] \in Callers => result[t] = t /\ runs[t] > 0

IInv ==
  /\ TypeOK /\ Locked /\ Descriptors /\ Numbers /\ Single /\ MainClean /\ OwnClean
  /\ Bounded /\ Executed /\ Unanswered /\ OwnAnswers
-----------------------------------------------------------------------------
(* Queues                                                                  *)

\* What appending and taking do to the elements of a queue.
LEMMA ElemsAppend ==
  ASSUME NEW S, NEW s \in Seq(S), NEW x \in S
  PROVE  /\ Append(s, x) \in Seq(S) /\ Elems(Append(s, x)) = Elems(s) \cup {x}
         /\ Distinct(s) /\ x \notin Elems(s) => Distinct(Append(s, x))
<1>1. /\ Append(s, x) \in Seq(S) /\ DOMAIN Append(s, x) = 1..(Len(s) + 1)
      /\ DOMAIN s = 1..Len(s) /\ Len(s) \in Nat
      /\ \A i \in 1..Len(s) : Append(s, x)[i] = s[i]
      /\ Append(s, x)[Len(s) + 1] = x
  BY AppendProperties, LenProperties
<1>2. Elems(Append(s, x)) = Elems(s) \cup {x}
  <2>1. Len(s) + 1 \in DOMAIN Append(s, x) BY <1>1
  <2>2. \A i \in DOMAIN s : i \in DOMAIN Append(s, x) /\ Append(s, x)[i] = s[i]
    BY <1>1
  <2>3. \A i \in DOMAIN Append(s, x) : i \in DOMAIN s \/ Append(s, x)[i] = x
    BY <1>1
  <2> QED BY <1>1, <2>1, <2>2, <2>3 DEF Elems
<1>3. Distinct(s) /\ x \notin Elems(s) => Distinct(Append(s, x))
  BY <1>1 DEF Distinct, Elems
<1> QED BY <1>1, <1>2, <1>3

LEMMA ElemsTail ==
  ASSUME NEW S, NEW s \in Seq(S), s # <<>>
  PROVE  /\ Head(s) \in S /\ Head(s) \in Elems(s) /\ Tail(s) \in Seq(S)
         /\ Elems(s) = Elems(Tail(s)) \cup {Head(s)}
         /\ Distinct(s) => Distinct(Tail(s)) /\ Head(s) \notin Elems(Tail(s))
<1>1. /\ Head(s) \in S /\ Tail(s) \in Seq(S) /\ Len(s) \in Nat \ {0}
      /\ DOMAIN s = 1..Len(s) /\ DOMAIN Tail(s) = 1..(Len(s) - 1)
      /\ \A i \in 1..(Len(s) - 1) : Tail(s)[i] = s[i + 1]
      /\ Head(s) = s[1]
  BY HeadTailProperties, LenProperties, EmptySeq
<1>2. Elems(s) = Elems(Tail(s)) \cup {Head(s)}
  <2>1. ASSUME NEW i \in DOMAIN s PROVE s[i] \in Elems(Tail(s)) \cup {Head(s)}
    <3>1. CASE i = 1 BY <3>1, <1>1
    <3>2. CASE i # 1
      <4>1. i - 1 \in DOMAIN Tail(s) /\ Tail(s)[i - 1] = s[i] BY <3>2, <1>1
      <4> QED BY <4>1 DEF Elems
    <3> QED BY <3>1, <3>2
  <2>2. ASSUME NEW i \in DOMAIN Tail(s) PROVE Tail(s)[i] \in Elems(s)
    <3>1. i + 1 \in DOMAIN s /\ Tail(s)[i] = s[i + 1] BY <1>1
    <3> QED BY <3>1 DEF Elems
  <2>3. 1 \in DOMAIN s BY <1>1
  <2> QED BY <1>1, <2>1, <2>2, <2>3 DEF Elems
<1>3. Distinct(s) => Distinct(Tail(s)) /\ Head(s) \notin Elems(Tail(s))
  BY <1>1 DEF Distinct, Elems
<1> QED BY <1>1, <1>2, <1>3 DEF Elems
-----------------------------------------------------------------------------
(* The steps that move no frame                                            *)

\* m_fd names the connection it named or a new one, and every other number what
\* it named, a new connection, a foreign file or nothing any more.
Renamed ==
  /\ made' \in made..MaxConns
  /\ \A f \in Fds : \/ file'[f] \in {file[f], None, Foreign}
                    \/ file'[f] = made' /\ made' > made
  /\ \A f, g \in Fds : file'[f] = made' /\ file'[g] = made' /\ made' > made => f = g
  /\ mfd' # -1 => \/ mfd' = mfd /\ file'[mfd] = file[mfd]
                  \/ mfd' \in Fds /\ file'[mfd'] = made' /\ made' > made

\* What doConnect() and closing the main connection do to the descriptors.
LEMMA Renames ==
  ASSUME IInv, \/ DoConnectOk \/ DoConnectFails
               \/ (CloseMain /\ UNCHANGED made)
               \/ UNCHANGED <<mfd, connected, file, made, up>>
  PROVE  /\ Renamed /\ mfd' \in Fds \cup {-1} /\ connected' \in BOOLEAN
         /\ file' \in [Fds -> ConnIds \cup {None, Foreign}] /\ made' \in 0..MaxConns
         /\ up' \subseteq ConnIds
<1> USE DEF IInv, TypeOK, ConnIds
<1>0. \A f \in Fds : file[f] # made + 1
  <2>1. \A n \in Nat : None # n /\ Foreign # n BY ClientConstants
  <2>3. made \in Nat BY ClientConstants
  <2>2. \A f \in Fds : file[f] \in 1..made \cup {None, Foreign} BY DEF Descriptors
  <2> QED BY <2>1, <2>2, <2>3
<1>1. CASE DoConnectOk
  <2> PICK f \in Fds : file[f] = None /\ mfd' = f /\ file' = [file EXCEPT ![f] = made']
    BY <1>1 DEF DoConnectOk
  <2>1. made' = made + 1 /\ made' \in 1..MaxConns
    BY <1>1, ClientConstants DEF DoConnectOk
  <2>2. file' \in [Fds -> ConnIds \cup {None, Foreign}] /\ mfd' \in Fds /\ file'[mfd'] = made'
    BY <2>1
  <2>3. \A g \in Fds : file'[g] = file[g] \/ (g = f /\ file'[g] = made')
    OBVIOUS
  <2>4. \A g, h \in Fds : file'[g] = made' /\ file'[h] = made' => g = h
    BY <2>1, <2>3, <1>0
  <2>5. Renamed BY <2>1, <2>2, <2>3, <2>4, ClientConstants DEF Renamed
  <2>6. connected' \in BOOLEAN /\ up' \subseteq ConnIds
    BY <1>1, <2>1 DEF DoConnectOk
  <2> QED BY <2>1, <2>2, <2>5, <2>6
<1>2. CASE DoConnectFails BY <1>2, ClientConstants DEF DoConnectFails, Renamed
<1>3. CASE CloseMain /\ UNCHANGED made
  <2>1. /\ mfd' = -1 /\ made' = made /\ connected' = FALSE /\ up' \subseteq up
        /\ file' = file \/ (mfd # -1 /\ file' = [file EXCEPT ![mfd] = None])
    BY <1>3 DEF CloseMain
  <2>2. \A f \in Fds : file'[f] \in {file[f], None} BY <2>1
  <2>3. file' \in [Fds -> ConnIds \cup {None, Foreign}] BY <2>1
  <2>4. Renamed BY <2>1, <2>2, ClientConstants DEF Renamed
  <2>5. up' \subseteq ConnIds BY <2>1
  <2> QED BY <2>1, <2>3, <2>4, <2>5
<1>4. CASE UNCHANGED <<mfd, connected, file, made, up>>
  BY <1>4, ClientConstants DEF Renamed
<1> QED BY <1>1, <1>2, <1>3, <1>4

\* The counts of the requests on their way are numbers.
LEMMA PendingFinite ==
  ASSUME NEW t
  PROVE  IsFiniteSet(Pending(t)) /\ Cardinality(Pending(t)) \in Nat
<1>1. IsFiniteSet(ConnIds) BY ClientConstants, FS_Interval DEF ConnIds
<1>2. Pending(t) \in SUBSET ConnIds BY DEF Pending
<1> QED BY <1>1, <1>2, FS_Subset, FS_CardinalityType

\* Queues that are not touched keep their frames.
LEMMA Still ==
  ASSUME UNCHANGED <<toServer, toClient>>
  PROVE  /\ \A k : Frames(k)' = Frames(k)
         /\ \A t : Pending(t)' = Pending(t)
         /\ Single => Single'
         /\ UNCHANGED runs /\ Executed => Executed'
<1>1. \A k : Frames(k)' = Frames(k) BY DEF Frames
<1>2. \A t : Pending(t)' = Pending(t) BY DEF Pending
<1>3. Single => Single' BY DEF Single
<1>4. UNCHANGED runs /\ Executed => Executed' BY DEF Executed
<1> QED BY <1>1, <1>2, <1>3, <1>4

\* Frames are those of calls.
LEMMA FramesOfCalls == ASSUME TypeOK, NEW k \in ConnIds PROVE Frames(k) \subseteq Callers
<1>1. toServer[k] \in Seq(Callers) /\ toClient[k] \in Seq(Callers) BY DEF TypeOK
<1> QED BY <1>1, LenProperties, ElementOfSeq DEF Frames, Elems

\* A call's clause of OwnClean, when what its number stands for is renamed.
LEMMA StaysClear ==
  ASSUME IInv, Renamed, UNCHANGED <<toServer, toClient>>,
         NEW f \in Fds, NEW S, Clear(file[f], S)
  PROVE  Clear(file[f], S)'
<1>1. \A k : Frames(k)' = Frames(k) BY Still
<1>2. made' > made => Frames(made') = {}
  BY ClientConstants DEF IInv, TypeOK, Descriptors, Renamed, ConnIds
<1> QED BY <1>1, <1>2 DEF Clear, Renamed

\* Renaming keeps the numbers of the connections apart.
LEMMA NumbersStep ==
  ASSUME IInv, Renamed,
         \A t \in Callers : pc'[t] \in Inside /\ wait'[t] # Foreign =>
            /\ wait'[t] \in 1..made
            /\ \A f \in Fds : file[f] = wait'[t] => f = fd'[t]
  PROVE  Numbers'
<1>1. made \in Nat /\ \A f \in Fds : file[f] \in 1..made \cup {None, Foreign}
  BY ClientConstants DEF IInv, TypeOK, Descriptors
<1>2. ASSUME NEW f \in Fds, NEW g \in Fds, file'[f] = file'[g], file'[f] \in ConnIds
      PROVE  f = g
  <2>1. /\ file'[f] = file[f] \/ (file'[f] = made' /\ made' > made)
        /\ file'[g] = file[g] \/ (file'[g] = made' /\ made' > made)
    BY <1>2, ClientConstants DEF Renamed, ConnIds
  <2>2. CASE file'[f] = made' /\ made' > made BY <1>2, <2>2 DEF Renamed
  <2>3. CASE file'[f] = file[f] /\ ~(file'[f] = made' /\ made' > made)
    BY <1>2, <2>1, <2>3 DEF IInv, Numbers
  <2> QED BY <2>1, <2>2, <2>3
<1>3. ASSUME NEW t \in Callers, pc'[t] \in Inside, wait'[t] # Foreign, NEW f \in Fds,
             file'[f] = wait'[t]
      PROVE  f = fd'[t]
  <2>1. file'[f] \in 1..made BY <1>3
  <2>2. file'[f] = file[f] BY <2>1, <1>1, ClientConstants DEF Renamed
  <2> QED BY <2>2, <1>3
<1> QED BY <1>2, <1>3 DEF Numbers, Inside, ConnIds

\* connect() and disconnect() of another thread, and a connection that is lost.
LEMMA OtherStep ==
  ASSUME IInv, Renamed, TypeOK', UNCHANGED <<callVars, toServer, toClient, runs>>,
         \A t \in Callers : pc'[t] = pc[t]
  PROVE  IInv'
<1>1. \A k : Frames(k)' = Frames(k) BY Still
<1>2. \A t : Pending(t)' = Pending(t) BY Still
<1>3. Locked' BY DEF IInv, Locked
<1>4. Descriptors'
  <2> USE DEF IInv, TypeOK, Descriptors, Renamed
  <2>1. \A f \in Fds : file'[f] \in 1..made' \cup {None, Foreign}
    BY ClientConstants, SMTT(30)
  <2>2. mfd' # -1 => file'[mfd'] \in 1..made' BY ClientConstants
  <2>3. \A t \in Callers : /\ pc'[t] \in InFrame => fd'[t] \in Fds
                           /\ pc'[t] \in Inside => wait'[t] \in 1..made' \cup {Foreign}
    BY ClientConstants DEF InFrame, Inside
  <2>4. \A k \in ConnIds : k > made' => Frames(k)' = {}
    BY <1>1, ClientConstants DEF ConnIds
  <2> QED BY <2>1, <2>2, <2>3, <2>4 DEF InFrame, Inside
<1>5. MainClean'
  <2> SUFFICES ASSUME mfd' # -1, NEW t \in Frames(file'[mfd'])
               PROVE  \/ pc[t] = "recv" /\ file'[fd[t]] = file'[mfd']
                      \/ pc[t] = "wait" /\ wait[t] = file'[mfd']
                      \/ pc[t] = "drop"
    <3>1. mfd' # -1 => file'[mfd'] \in ConnIds
      BY <1>4, ClientConstants DEF TypeOK, Descriptors, ConnIds
    <3>2. mfd' # -1 => Frames(file'[mfd']) \subseteq Callers
      BY <3>1, FramesOfCalls DEF IInv
    <3> QED BY <1>1, <3>2 DEF MainClean
  <2>1. CASE mfd' = mfd /\ file'[mfd] = file[mfd]
    <3>1. file[mfd] \in ConnIds /\ mfd \in Fds
      BY <2>1, ClientConstants DEF IInv, TypeOK, Descriptors, ConnIds
    <3>2. t \in Callers BY <3>1, <2>1, FramesOfCalls DEF IInv
    <3>3. \/ pc[t] = "recv" /\ file[fd[t]] = file[mfd]
          \/ pc[t] = "wait" /\ wait[t] = file[mfd]
          \/ pc[t] = "drop"
      BY <2>1 DEF IInv, MainClean
    <3>4. pc[t] = "recv" /\ file[fd[t]] = file[mfd] => fd[t] = mfd
      BY <3>1, <3>2 DEF IInv, Descriptors, Numbers, InFrame
    <3> QED BY <2>1, <3>3, <3>4
  <2>2. CASE file'[mfd'] = made' /\ made' > made
    <3>1. made' \in ConnIds BY <2>2, ClientConstants DEF IInv, TypeOK, ConnIds
    <3> QED BY <2>2, <3>1 DEF IInv, Descriptors
  <2> QED BY <2>1, <2>2 DEF Renamed
<1>6. OwnClean'
  <2> SUFFICES ASSUME NEW t \in Callers
               PROVE  /\ pc[t] \in {"send", "sending"} => Clear(file[fd[t]], {})'
                      /\ pc[t] = "sending" => Clear(wait[t], {})'
                      /\ pc[t] = "recv" => Clear(file[fd[t]], {t})'
                      /\ pc[t] = "wait" => Clear(wait[t], {t})'
    BY DEF OwnClean
  <2>1. /\ pc[t] = "sending" => Clear(wait[t], {})'
        /\ pc[t] = "wait" => Clear(wait[t], {t})'
    BY <1>1 DEF IInv, OwnClean, Clear
  <2>2. pc[t] \in InFrame => fd[t] \in Fds BY DEF IInv, Descriptors
  <2> DEFINE g == fd[t]
  <2>3. ASSUME g \in Fds, Clear(file[g], {}) PROVE Clear(file[g], {})'
    BY <2>3, StaysClear
  <2>4. ASSUME g \in Fds, Clear(file[g], {t}) PROVE Clear(file[g], {t})'
    BY <2>4, StaysClear
  <2> QED BY <2>1, <2>2, <2>3, <2>4 DEF IInv, OwnClean, InFrame
<1>7. Numbers'
  <2>1. \A t \in Callers : pc[t] \in Inside /\ wait[t] # Foreign =>
            /\ wait[t] \in 1..made
            /\ \A f \in Fds : file[f] = wait[t] => f = fd[t]
    BY DEF IInv, Descriptors, Numbers
  <2> QED BY <2>1, NumbersStep DEF Inside
<1>8. Bounded' BY <1>2 DEF IInv, Bounded, Attempts
<1>9. Single' /\ Executed' BY Still DEF IInv
<1>10. Unanswered' /\ OwnAnswers' BY DEF IInv, Unanswered, OwnAnswers
<1> QED BY <1>3, <1>4, <1>5, <1>6, <1>7, <1>8, <1>9, <1>10 DEF IInv

\* How a call moves on while the numbers stay as they are.
Moves(t) ==
  \/ pc[t] \in InFrame /\ pc'[t] = "drop"
  \/ /\ \/ pc[t] = "send" /\ pc'[t] = "sending"
        \/ pc[t] = "recv" /\ pc'[t] = "wait"
     /\ file[fd[t]] # None /\ wait'[t] = file[fd[t]] /\ fd'[t] = fd[t]
  \/ pc[t] \in {"idle", "lazy", "getfd"} /\ pc'[t] \in {"lazy", "getfd", "done"}
  \/ pc[t] = "getfd" /\ pc'[t] = "send" /\ mfd # -1 /\ fd'[t] = mfd
  \/ /\ pc[t] \in Inside /\ wait[t] = Foreign /\ fd'[t] = fd[t]
     /\ \/ pc[t] = "sending" /\ pc'[t] = "recv"
        \/ pc[t] = "wait" /\ pc'[t] = "done"

\* A step of call t that touches neither queue: the main connection is replaced
\* or closed, or it stays and the call moves on to where its frames may be.  What
\* it writes to a foreign file may be executed.
Quiet(t) ==
  /\ UNCHANGED <<toServer, toClient>> /\ Renamed
  /\ \A u \in Callers \ {t} : /\ pc'[u] = pc[u] /\ fd'[u] = fd[u] /\ wait'[u] = wait[u]
                              /\ retried'[u] = retried[u] /\ result'[u] = result[u]
                              /\ runs'[u] = runs[u]
  /\ callLock = (IF pc[t] = "idle" THEN None ELSE t) /\ pc[t] # "done"
  /\ callLock' = (IF pc'[t] = "done" THEN None ELSE t) /\ pc'[t] # "idle"
  /\ result'[t] \notin Callers /\ (pc'[t] = "done" \/ result'[t] = None)
  /\ \/ /\ mfd' = -1 \/ (file'[mfd'] = made' /\ made' > made)
        /\ pc'[t] \in {"getfd", "reconnect", "done"}
     \/ UNCHANGED <<mfd, file>> /\ Moves(t)
  /\ pc'[t] \in {"idle", "lazy"} => retried'[t] = retried[t] /\ pc[t] = "idle"
  /\ pc'[t] = "reconnect" => ~retried'[t] /\ t \notin Once
  /\ t \in Once => ~retried'[t]
  /\ runs'[t] >= runs[t] /\ Attempts(t)' - Attempts(t) >= runs'[t] - runs[t]

LEMMA QuietStep ==
  ASSUME IInv, TypeOK', NEW t \in Callers, Quiet(t)
  PROVE  IInv'
<1>1. \A k : Frames(k)' = Frames(k) BY Still DEF Quiet
<1>2. \A u : Pending(u)' = Pending(u) BY Still DEF Quiet
<1>3. Locked' BY ClientConstants DEF IInv, TypeOK, Locked, Quiet, Moves
<1>4. Descriptors'
  <2>4. \A k \in ConnIds : k > made' => Frames(k)' = {}
    <3>1. made' \in made..MaxConns /\ made \in Nat
      BY ClientConstants DEF IInv, TypeOK, Quiet, Renamed
    <3>2. \A k \in ConnIds : k > made => Frames(k) = {} BY DEF IInv, Descriptors
    <3> QED BY <3>1, <3>2, <1>1, ClientConstants DEF ConnIds
  <2>1. \A f \in Fds : file'[f] \in 1..made' \cup {None, Foreign}
    <3>1. made' \in made..MaxConns /\ made \in Nat
      BY ClientConstants DEF IInv, TypeOK, Quiet, Renamed
    <3>2. \A f \in Fds : file[f] \in 1..made \cup {None, Foreign}
      BY DEF IInv, Descriptors
    <3>3. \A f \in Fds : \/ file'[f] \in {file[f], None, Foreign}
                         \/ file'[f] = made' /\ made' > made
      BY DEF Quiet, Renamed
    <3> QED BY <3>1, <3>2, <3>3, ClientConstants
  <2> USE DEF IInv, TypeOK, Descriptors, Renamed, Quiet
  <2>2. mfd' # -1 => file'[mfd'] \in 1..made' BY ClientConstants
  <2>3. \A u \in Callers : /\ pc'[u] \in InFrame => fd'[u] \in Fds
                           /\ pc'[u] \in Inside => wait'[u] \in 1..made' \cup {Foreign}
    <3> TAKE u \in Callers
    <3>1. CASE u = t BY <3>1, ClientConstants DEF InFrame, Inside, Moves
    <3>2. CASE u # t BY <3>2, ClientConstants DEF InFrame, Inside
    <3> QED BY <3>1, <3>2
  <2> QED BY <2>1, <2>2, <2>3, <2>4 DEF InFrame, Inside
<1>5. made' > made => made' \in ConnIds /\ Frames(made') = {}
  BY ClientConstants DEF IInv, TypeOK, ConnIds, Descriptors
<1>6. \A k \in ConnIds : Frames(k) \subseteq Callers BY FramesOfCalls DEF IInv
<1>7. MainClean'
  <2> SUFFICES ASSUME mfd' # -1, NEW u \in Frames(file'[mfd'])
               PROVE  \/ pc'[u] = "recv" /\ file'[fd'[u]] = file'[mfd']
                      \/ pc'[u] = "wait" /\ wait'[u] = file'[mfd']
                      \/ pc'[u] = "drop"
    BY <1>1 DEF MainClean
  <2>1. UNCHANGED <<mfd, file>> /\ Moves(t) BY <1>5 DEF Quiet
  <2>2. file[mfd] \in ConnIds
    BY <2>1, ClientConstants DEF IInv, TypeOK, Descriptors, ConnIds
  <2>3. u \in Callers BY <1>6, <2>1, <2>2
  <2>4. \/ pc[u] = "recv" /\ file[fd[u]] = file[mfd]
        \/ pc[u] = "wait" /\ wait[u] = file[mfd]
        \/ pc[u] = "drop"
    BY <2>1 DEF IInv, MainClean
  <2>5. u = t BY <2>3, <2>4, ClientConstants DEF IInv, Locked, Quiet
  <2>6. wait[u] = file[mfd] => wait[u] # Foreign
    BY <2>2, ClientConstants DEF ConnIds
  <2> QED BY <2>1, <2>4, <2>5, <2>6 DEF Moves
<1>8. OwnClean'
  <2> SUFFICES ASSUME NEW u \in Callers
               PROVE  (/\ pc[u] \in {"send", "sending"} => Clear(file[fd[u]], {})
                       /\ pc[u] = "sending" => Clear(wait[u], {})
                       /\ pc[u] = "recv" => Clear(file[fd[u]], {u})
                       /\ pc[u] = "wait" => Clear(wait[u], {u}))'
    BY DEF OwnClean
  <2>1. CASE u # t
    <3>1. /\ pc'[u] = pc[u] /\ fd'[u] = fd[u] /\ wait'[u] = wait[u]
          /\ pc[u] \notin {"send", "sending", "recv", "wait"}
      BY <2>1, ClientConstants DEF IInv, Locked, Quiet
    <3> QED BY <3>1
  <2>2. CASE u = t /\ pc[t] = "getfd" /\ pc'[t] = "send"
    <3>1. /\ file[mfd] \in ConnIds /\ mfd' = mfd /\ fd'[t] = mfd /\ file' = file
          /\ mfd # -1
      BY <2>2, ClientConstants DEF IInv, TypeOK, Descriptors, ConnIds, Quiet, Moves
    <3>2. ASSUME NEW v \in Frames(file[mfd]) PROVE FALSE
      <4>1. v \in Callers /\ pc[v] \in {"recv", "wait", "drop"}
        BY <1>6, <3>1 DEF IInv, MainClean
      <4> QED BY <4>1, <2>2 DEF IInv, Locked, Quiet
    <3>3. Frames(file[mfd])' = {} BY <3>1, <3>2, <1>1 DEF Frames
    <3> QED BY <3>1, <3>3, <2>2 DEF Clear
  <2>3. CASE u = t /\ ~(pc[t] = "getfd" /\ pc'[t] = "send")
    <3> SUFFICES ASSUME UNCHANGED <<mfd, file>>, Moves(t)
                 PROVE  (/\ pc[t] \in {"send", "sending"} => Clear(file[fd[t]], {})
                         /\ pc[t] = "sending" => Clear(wait[t], {})
                         /\ pc[t] = "recv" => Clear(file[fd[t]], {t})
                         /\ pc[t] = "wait" => Clear(wait[t], {t}))'
      BY <2>3 DEF Quiet
    <3>1. /\ pc[t] \in {"send", "sending"} => Clear(file[fd[t]], {})
          /\ pc[t] = "sending" => Clear(wait[t], {})
          /\ pc[t] = "recv" => Clear(file[fd[t]], {t})
          /\ pc[t] = "wait" => Clear(wait[t], {t})
      BY DEF IInv, OwnClean
    <3> QED BY <3>1, <2>3, <1>1 DEF Clear, Moves
  <2> QED BY <2>1, <2>2, <2>3
<1>9. Numbers'
  <2> SUFFICES ASSUME NEW u \in Callers, pc'[u] \in Inside, wait'[u] # Foreign
               PROVE  /\ wait'[u] \in 1..made
                      /\ \A f \in Fds : file[f] = wait'[u] => f = fd'[u]
    BY NumbersStep DEF Quiet
  <2>1. CASE u # t BY <2>1 DEF IInv, Descriptors, Numbers, Quiet
  <2>2. CASE u = t
    <3>1. /\ file[fd[t]] # None /\ wait'[t] = file[fd[t]] /\ pc[t] \in {"send", "recv"}
          /\ fd'[t] = fd[t] /\ fd[t] \in Fds
      BY <2>2 DEF IInv, Quiet, Moves, Inside, InFrame, Descriptors
    <3>2. file[fd[t]] \in 1..made /\ 1..made \subseteq ConnIds
      BY <3>1, <2>2, ClientConstants DEF IInv, TypeOK, Descriptors, ConnIds
    <3> QED BY <3>1, <3>2, <2>2 DEF IInv, Numbers
  <2> QED BY <2>1, <2>2
<1>10. Bounded'
  <2> SUFFICES ASSUME NEW u \in Callers
               PROVE  /\ pc'[u] = "reconnect" => ~retried'[u]
                      /\ u \in Once => ~retried'[u] /\ pc'[u] # "reconnect"
                      /\ pc'[u] \in {"idle", "lazy"} => ~retried'[u]
                      /\ runs'[u] + Cardinality(Pending(u)) <= Attempts(u)'
    BY <1>2 DEF Bounded
  <2>4. runs[u] \in Nat /\ runs'[u] \in Nat BY DEF IInv, TypeOK
  <2>5. Attempts(u) \in Nat /\ Attempts(u)' \in Nat BY DEF Attempts
  <2>6. runs[u] + Cardinality(Pending(u)) <= Attempts(u) BY DEF IInv, Bounded
  <2>1. /\ runs[u] \in Nat /\ runs'[u] \in Nat /\ Cardinality(Pending(u)) \in Nat
        /\ Attempts(u) \in Nat /\ Attempts(u)' \in Nat
        /\ runs[u] + Cardinality(Pending(u)) <= Attempts(u)
    BY PendingFinite, <2>4, <2>5, <2>6
  <2>2. CASE u # t BY <2>1, <2>2 DEF IInv, Bounded, Quiet, Attempts
  <2>3. CASE u = t
    <3>1. Attempts(t)' - Attempts(t) >= runs'[t] - runs[t] BY DEF Quiet
    <3>2. runs'[u] + Cardinality(Pending(u)) <= Attempts(u)' BY <3>1, <2>1, <2>3
    <3> QED BY <3>2, <2>3 DEF IInv, Bounded, Quiet
  <2> QED BY <2>2, <2>3
<1>11. Single' BY Still DEF IInv, Quiet
<1>12. \A u \in Callers : runs[u] > 0 => runs'[u] > 0
  <2>1. \A u \in Callers : runs[u] \in Nat /\ runs'[u] \in Nat BY DEF IInv, TypeOK
  <2> QED BY <2>1 DEF Quiet
<1>13. Executed'
  <2>1. \A k \in ConnIds : Elems(toClient[k]) \subseteq Callers
    BY <1>6 DEF Frames
  <2> QED BY <2>1, <1>12 DEF IInv, Executed, Quiet
<1>14. Unanswered' /\ OwnAnswers'
  BY <1>12 DEF IInv, Unanswered, OwnAnswers, Quiet
<1> QED BY <1>3, <1>4, <1>7, <1>8, <1>9, <1>10, <1>11, <1>13, <1>14 DEF IInv

\* The steps of a call but those that send, and that take a response.
LEMMA LocksStep == ASSUME IInv, NEW t \in Callers, Locks(t) PROVE IInv'
<1> USE DEF Locks, Goto
<1>1. TypeOK' BY DEF IInv, TypeOK, Threads
<1>2. Renamed BY Renames
<1>3. callLock = None /\ callLock' = t /\ pc[t] = "idle" /\ pc'[t] = "lazy"
  BY DEF IInv, TypeOK, Threads
<1>4. Quiet(t)
  BY <1>2, <1>3, ClientConstants DEF IInv, TypeOK, Threads, Quiet, Moves, Inside, InFrame,
     Attempts, Bounded, Unanswered
<1> QED BY <1>1, <1>4, QuietStep

LEMMA ConnectsStep == ASSUME IInv, NEW t \in Callers, Connects(t) PROVE IInv'
<1>1. /\ Renamed /\ mfd' \in Fds \cup {-1} /\ connected' \in BOOLEAN
      /\ file' \in [Fds -> ConnIds \cup {None, Foreign}] /\ made' \in 0..MaxConns
      /\ up' \subseteq ConnIds
  BY Renames DEF Connects, DoConnectFails
<1>2. /\ pc[t] \in {"lazy", "reconnect"} /\ callLock = t
      /\ \/ pc'[t] = "getfd" /\ callLock' = t /\ result' = result
         \/ /\ pc'[t] = "done" /\ callLock' = None
            /\ result' = [result EXCEPT ![t] = "socket"]
      /\ pc' \in [Threads -> {"idle", "lazy", "getfd", "send", "sending", "recv",
                              "wait", "drop", "reconnect", "done"}]
      /\ \A u \in Callers \ {t} : pc'[u] = pc[u]
      /\ retried' = [retried EXCEPT ![t] = pc[t] = "reconnect"]
      /\ UNCHANGED <<fd, wait, toServer, toClient, runs, foreign>>
  BY DEF IInv, TypeOK, Locked, Threads, Connects, Returns, Goto
<1>3. TypeOK' BY <1>1, <1>2 DEF IInv, TypeOK
<1>4. \/ mfd' = -1 /\ pc'[t] = "done"
      \/ mfd' # -1 /\ file'[mfd'] = made' /\ made' > made
      \/ UNCHANGED <<mfd, file>> /\ pc[t] = "lazy"
  <2>1. CASE DoConnectOk
    <3>1. made' = made + 1 /\ made \in Int
      BY <2>1, ClientConstants DEF DoConnectOk, IInv, TypeOK
    <3>2. mfd' # -1 /\ file'[mfd'] = made'
      BY <2>1, ClientConstants DEF DoConnectOk, IInv, TypeOK
    <3> QED BY <3>1, <3>2
  <2>2. CASE ~DoConnectOk
    BY <2>2 DEF IInv, TypeOK, Threads, Connects, Returns, DoConnectFails
  <2> QED BY <2>1, <2>2
<1>5. /\ Attempts(t)' >= Attempts(t)
      /\ t \in Once => ~retried'[t]
      /\ result'[t] \notin Callers /\ (pc'[t] = "done" \/ result'[t] = None)
  <2>1. result'[t] \notin Callers /\ (pc'[t] = "done" \/ result'[t] = None)
    BY <1>2, ClientConstants DEF IInv, TypeOK, Unanswered
  <2>2. CASE pc[t] = "lazy"
    <3>1. ~retried'[t] BY <2>2, <1>2 DEF IInv, TypeOK
    <3> QED BY <2>1, <2>2, <3>1, <1>2 DEF IInv, Bounded, Attempts
  <2>3. CASE pc[t] = "reconnect"
    <3>1. retried'[t] /\ ~retried[t] /\ t \notin Once
      BY <2>3, <1>2 DEF IInv, TypeOK, Bounded
    <3> QED BY <2>1, <2>3, <3>1, <1>2 DEF Attempts
  <2> QED BY <2>2, <2>3, <1>2
<1>6. \A u \in Callers \ {t} : retried'[u] = retried[u] /\ result'[u] = result[u]
  BY <1>2 DEF IInv, TypeOK
<1>7. \/ /\ mfd' = -1 \/ (file'[mfd'] = made' /\ made' > made)
         /\ pc'[t] \in {"getfd", "done"}
      \/ UNCHANGED <<mfd, file>> /\ pc[t] = "lazy" /\ pc'[t] \in {"getfd", "done"}
  BY <1>2, <1>4
<1>8. /\ \A u \in Callers : runs'[u] = runs[u] /\ runs[u] \in Nat
      /\ Attempts(t) \in Nat /\ Attempts(t)' \in Nat
  BY <1>2 DEF IInv, TypeOK, Attempts
<1>9. runs'[t] >= runs[t] /\ Attempts(t)' - Attempts(t) >= runs'[t] - runs[t]
  BY <1>5, <1>8
<1>10. Quiet(t) BY <1>1, <1>2, <1>5, <1>6, <1>7, <1>8, <1>9 DEF Quiet, Moves
<1> QED BY <1>3, <1>10, QuietStep

LEMMA GetsFdStep == ASSUME IInv, NEW t \in Callers, GetsFd(t) PROVE IInv'
<1>1. Renamed BY Renames DEF GetsFd
<1>2. /\ pc[t] = "getfd" /\ callLock = t
      /\ \/ /\ pc' = [pc EXCEPT ![t] = "send"] /\ callLock' = t /\ result' = result
            /\ mfd # -1 /\ fd' = [fd EXCEPT ![t] = mfd]
         \/ /\ pc' = [pc EXCEPT ![t] = "done"] /\ callLock' = None
            /\ result' = [result EXCEPT ![t] = "socket"] /\ fd' = fd
      /\ UNCHANGED <<mfd, connected, wait, retried, file, made, netVars, foreign>>
  BY DEF IInv, Locked, GetsFd, Returns
<1>3. TypeOK'
  <2> USE DEF IInv, TypeOK, Threads
  <2>1. CASE pc' = [pc EXCEPT ![t] = "send"]
    <3>1. pc'[t] = "send" /\ callLock' = t /\ result' = result /\ mfd # -1
      BY <2>1, <1>2
    <3>2. fd' = [fd EXCEPT ![t] = mfd] BY <1>2, <3>1
    <3> QED BY <1>2, <2>1, <3>1, <3>2
  <2>2. CASE pc' = [pc EXCEPT ![t] = "done"] BY <2>2, <1>2, SMTT(30)
  <2> QED BY <2>1, <2>2, <1>2
<1>4. Quiet(t)
  BY <1>1, <1>2, ClientConstants DEF IInv, TypeOK, Threads, Quiet, Moves, Inside, InFrame,
     Attempts, Bounded, Unanswered
<1> QED BY <1>3, <1>4, QuietStep

LEMMA EntersStep ==
  ASSUME IInv, NEW t \in Callers, Sends(t) \/ Waits(t)
  PROVE  IInv'
<1>1. Renamed BY Renames DEF Sends, Waits, Enters
<1>2. /\ pc[t] \in {"send", "recv"} /\ callLock = t /\ fd[t] \in Fds
      /\ \/ pc' = [pc EXCEPT ![t] = "drop"] /\ wait' = wait
         \/ /\ pc' = [pc EXCEPT ![t] = IF pc[t] = "send" THEN "sending" ELSE "wait"]
            /\ file[fd[t]] # None /\ wait' = [wait EXCEPT ![t] = file[fd[t]]]
      /\ UNCHANGED <<mfd, connected, callLock, fd, retried, result, file, made, netVars,
                     foreign>>
  BY DEF IInv, Locked, Descriptors, InFrame, Sends, Waits, Enters, Goto
<1>3. TypeOK'
  <2>1. wait' \in [Callers -> ConnIds \cup {None, Foreign}]
    BY <1>2 DEF IInv, TypeOK
  <2>2. pc' \in [Threads -> {"idle", "lazy", "getfd", "send", "sending", "recv",
                            "wait", "drop", "reconnect", "done"}]
    BY <1>2 DEF IInv, TypeOK, Threads
  <2> QED BY <2>1, <2>2, <1>2 DEF IInv, TypeOK
<1>4. Quiet(t)
  BY <1>1, <1>2, ClientConstants DEF IInv, TypeOK, Threads, Quiet, Moves, Inside, InFrame,
     Attempts, Bounded, Unanswered
<1> QED BY <1>3, <1>4, QuietStep

\* Leaving a socket changes no number.
LEMMA LeavesRenames ==
  ASSUME IInv, NEW t \in Callers, Leaves(t), UNCHANGED <<mfd, file, made>>
  PROVE  Renamed /\ up' \in SUBSET ConnIds /\ wait' = [wait EXCEPT ![t] = None]
BY ClientConstants DEF IInv, TypeOK, Leaves, Renamed

LEMMA FailsStep ==
  ASSUME IInv, NEW t \in Callers, SendFails(t) \/ ReceiveFails(t)
  PROVE  IInv'
<1>1. /\ pc[t] \in Inside /\ pc' = [pc EXCEPT ![t] = "drop"] /\ callLock = t /\ Leaves(t)
      /\ UNCHANGED <<mfd, connected, callLock, fd, retried, result, file, made,
                     toServer, toClient, runs, foreign>>
  BY DEF IInv, Locked, SendFails, ReceiveFails, Goto, Inside
<1>2. Renamed /\ up' \in SUBSET ConnIds /\ wait' = [wait EXCEPT ![t] = None]
  BY <1>1, LeavesRenames
<1>3. TypeOK'
  <2>1. /\ wait' \in [Callers -> ConnIds \cup {None, Foreign}] /\ up' \subseteq ConnIds
        /\ pc' \in [Threads -> {"idle", "lazy", "getfd", "send", "sending", "recv",
                              "wait", "drop", "reconnect", "done"}]
    BY <1>1, <1>2 DEF IInv, TypeOK, Threads
  <2> QED BY <2>1, <1>1 DEF IInv, TypeOK
<1>4. Quiet(t)
  BY <1>1, <1>2, ClientConstants DEF IInv, TypeOK, Threads, Quiet, Moves, Inside, InFrame,
     Attempts, Bounded, Unanswered
<1> QED BY <1>3, <1>4, QuietStep

LEMMA SendsAstrayStep == ASSUME IInv, NEW t \in Callers, SendsAstray(t) PROVE IInv'
<1>1. /\ pc[t] = "sending" /\ wait[t] = Foreign /\ callLock = t /\ Leaves(t)
      /\ \/ pc' = [pc EXCEPT ![t] = "drop"] /\ runs' = runs
         \/ /\ pc' = [pc EXCEPT ![t] = "recv"]
            /\ runs' \in {runs, [runs EXCEPT ![t] = @ + 1]}
      /\ UNCHANGED <<mfd, connected, callLock, fd, retried, result, file, made,
                     toServer, toClient, foreign>>
  BY DEF IInv, Locked, SendsAstray, Goto
<1>2. Renamed /\ up' \in SUBSET ConnIds /\ wait' = [wait EXCEPT ![t] = None]
  BY <1>1, LeavesRenames
<1>3. TypeOK'
  <2>1. /\ wait' \in [Callers -> ConnIds \cup {None, Foreign}] /\ up' \subseteq ConnIds
        /\ pc' \in [Threads -> {"idle", "lazy", "getfd", "send", "sending", "recv",
                              "wait", "drop", "reconnect", "done"}]
    BY <1>1, <1>2 DEF IInv, TypeOK, Threads
  <2>2. runs' \in [Callers -> Nat] BY <1>1 DEF IInv, TypeOK
  <2> QED BY <2>1, <2>2, <1>1 DEF IInv, TypeOK
<1>4. /\ runs'[t] >= runs[t] /\ Attempts(t)' - Attempts(t) >= runs'[t] - runs[t]
      /\ \A u \in Callers \ {t} : runs'[u] = runs[u]
  BY <1>1 DEF IInv, TypeOK, Threads, Attempts
<1>5. Quiet(t)
  BY <1>1, <1>2, <1>4, ClientConstants DEF IInv, TypeOK, Threads, Quiet, Moves, Inside,
     InFrame, Bounded, Unanswered
<1> QED BY <1>3, <1>5, QuietStep

LEMMA ReceivesAstrayStep == ASSUME IInv, NEW t \in Callers, ReceivesAstray(t) PROVE IInv'
<1>1. /\ pc[t] = "wait" /\ wait[t] = Foreign /\ callLock = t /\ Leaves(t)
      /\ \/ pc' = [pc EXCEPT ![t] = "drop"] /\ UNCHANGED <<callLock, result>>
         \/ /\ pc' = [pc EXCEPT ![t] = "done"] /\ callLock' = None
            /\ result' = [result EXCEPT ![t] = Foreign]
      /\ UNCHANGED <<mfd, connected, fd, retried, file, made, toServer, toClient,
                     runs, foreign>>
  BY DEF IInv, Locked, ReceivesAstray, Returns, Goto
<1>2. Renamed /\ up' \in SUBSET ConnIds /\ wait' = [wait EXCEPT ![t] = None]
  BY <1>1, LeavesRenames
<1>3. TypeOK' BY <1>1, <1>2 DEF IInv, TypeOK, Threads
<1>4. Quiet(t)
  BY <1>1, <1>2, ClientConstants DEF IInv, TypeOK, Threads, Quiet, Moves, Inside, InFrame,
     Attempts, Bounded, Unanswered
<1> QED BY <1>3, <1>4, QuietStep

LEMMA DropsStep == ASSUME IInv, NEW t \in Callers, Drops(t) PROVE IInv'
<1>1. /\ Renamed /\ mfd' \in Fds \cup {-1} /\ connected' \in BOOLEAN
      /\ file' \in [Fds -> ConnIds \cup {None, Foreign}] /\ made' \in 0..MaxConns
      /\ up' \subseteq ConnIds
  BY Renames DEF Drops
<1>2. /\ pc[t] = "drop" /\ callLock = t /\ mfd' = -1
      /\ \/ /\ pc' = [pc EXCEPT ![t] = "done"] /\ callLock' = None
            /\ result' = [result EXCEPT ![t] = "transport"]
         \/ /\ pc' = [pc EXCEPT ![t] = "reconnect"] /\ ~retried[t] /\ t \notin Once
            /\ UNCHANGED <<callLock, result>>
      /\ UNCHANGED <<fd, wait, retried, made, toServer, toClient, runs, foreign>>
  BY DEF IInv, Locked, Drops, Returns, CloseMain
<1>3. TypeOK' BY <1>1, <1>2 DEF IInv, TypeOK, Threads
<1>4. Quiet(t)
  BY <1>1, <1>2, ClientConstants DEF IInv, TypeOK, Threads, Quiet, Moves, Inside, InFrame,
     Attempts, Bounded, Unanswered
<1> QED BY <1>3, <1>4, QuietStep
-----------------------------------------------------------------------------
(* The steps that move frames                                              *)

\* The request goes out on a connection that carries no frame.
LEMMA SendEndsStep == ASSUME IInv, NEW t \in Callers, SendEnds(t) PROVE IInv'
<1>1. /\ pc[t] = "sending" /\ callLock = t /\ fd[t] \in Fds /\ wait[t] \in up /\ Leaves(t)
      /\ pc' = [pc EXCEPT ![t] = "recv"]
      /\ toServer' = [toServer EXCEPT ![wait[t]] = Append(@, t)]
      /\ UNCHANGED <<mfd, connected, callLock, fd, retried, result, file, made,
                     toClient, runs, foreign>>
  BY DEF IInv, Locked, Descriptors, InFrame, SendEnds, Goto
<1>2. wait[t] \in ConnIds /\ wait[t] \notin {None, Foreign} /\ wait[t] <= made
  <2>1. wait[t] \in ConnIds BY <1>1 DEF IInv, TypeOK
  <2>2. wait[t] \notin {None, Foreign} BY <2>1, ClientConstants DEF ConnIds
  <2> QED BY <1>1, <2>1, <2>2 DEF IInv, Descriptors, Inside
<1> PICK k \in ConnIds : k = wait[t] /\ k <= made BY <1>2
<1>16. /\ Renamed /\ up' \in SUBSET ConnIds /\ wait' = [wait EXCEPT ![t] = None]
  BY <1>1, LeavesRenames
<1>3. Frames(k) = {} BY <1>1, <1>2 DEF IInv, OwnClean, Clear
<1>4. /\ Append(toServer[k], t) \in Seq(Callers)
      /\ Elems(Append(toServer[k], t)) = {t} /\ Distinct(Append(toServer[k], t))
      /\ Elems(toServer[k]) = {} /\ Elems(toClient[k]) = {}
  BY <1>3, ElemsAppend DEF IInv, TypeOK, Single, Frames
<1>5. /\ toServer'[k] = Append(toServer[k], t)
      /\ \A j \in ConnIds \ {k} : toServer'[j] = toServer[j]
      /\ toServer' \in [ConnIds -> Seq(Callers)] /\ toClient' = toClient
  BY <1>1, <1>4 DEF IInv, TypeOK
<1>6. /\ Frames(k)' = {t} /\ \A j \in ConnIds \ {k} : Frames(j)' = Frames(j)
      /\ Elems(toServer'[k]) = {t}
      /\ \A j \in ConnIds \ {k} : Elems(toServer'[j]) = Elems(toServer[j])
  BY <1>4, <1>5 DEF Frames
<1>7. TypeOK' BY <1>1, <1>5, <1>16 DEF IInv, TypeOK, Threads
<1>8. /\ \A u \in Callers : pc'[u] = IF u = t THEN "recv" ELSE pc[u]
      /\ \A u \in Callers : pc[u] \in {"send", "sending", "recv", "wait", "drop"} => u = t
      /\ \A u \in Callers : u # t => wait'[u] = wait[u]
  BY <1>1, <1>16 DEF IInv, TypeOK, Threads, Locked
<1>9. Locked' BY <1>1, <1>8 DEF IInv, Locked
<1>10. Descriptors'
  <2>1. \A j \in ConnIds : j > made => Frames(j)' = {}
    <3> TAKE j \in ConnIds
    <3>1. j > made => j # k BY ClientConstants DEF IInv, TypeOK, ConnIds
    <3> QED BY <3>1, <1>6 DEF IInv, Descriptors
  <2>2. \A u \in Callers : /\ pc'[u] \in InFrame => fd[u] \in Fds
                           /\ pc'[u] \in Inside => wait'[u] \in 1..made \cup {Foreign}
    BY <1>1, <1>8 DEF IInv, Descriptors, InFrame, Inside
  <2> QED BY <2>1, <2>2, <1>1 DEF IInv, Descriptors, InFrame, Inside
<1>11. Single'
  <2> SUFFICES ASSUME NEW j \in ConnIds
               PROVE  (/\ Distinct(toServer[j]) /\ Distinct(toClient[j])
                       /\ Elems(toServer[j]) \cap Elems(toClient[j]) = {})'
    BY DEF Single
  <2>1. CASE j = k BY <2>1, <1>4, <1>5 DEF IInv, Single
  <2>2. CASE j # k BY <2>2, <1>5 DEF IInv, Single
  <2> QED BY <2>1, <2>2
<1>12. MainClean'
  <2> SUFFICES ASSUME mfd # -1, NEW u \in Frames(file[mfd])'
               PROVE  \/ pc'[u] = "recv" /\ file[fd[u]] = file[mfd]
                      \/ pc'[u] = "wait" /\ wait'[u] = file[mfd]
                      \/ pc'[u] = "drop"
    BY <1>1 DEF MainClean
  <2> PICK m \in ConnIds : m = file[mfd]
    BY ClientConstants DEF IInv, TypeOK, Descriptors, ConnIds
  <2>1. u \in Frames(m)' BY <1>1
  <2>2. CASE m = k
    <3>1. u = t BY <2>1, <2>2, <1>6
    <3>2. mfd \in Fds BY DEF IInv, TypeOK
    <3>3. fd[t] = mfd BY <1>1, <1>2, <2>2, <3>2 DEF IInv, Numbers, Inside
    <3> QED BY <3>1, <3>3, <1>8
  <2>3. CASE m # k
    <3>1. u \in Frames(m) /\ u \in Callers
      BY <2>1, <2>3, <1>6, FramesOfCalls DEF IInv
    <3> QED BY <3>1, <1>1, <1>8 DEF IInv, MainClean
  <2> QED BY <2>2, <2>3
<1>13. OwnClean'
  <2> SUFFICES ASSUME NEW u \in Callers
               PROVE  (/\ pc[u] \in {"send", "sending"} => Clear(file[fd[u]], {})
                       /\ pc[u] = "sending" => Clear(wait[u], {})
                       /\ pc[u] = "recv" => Clear(file[fd[u]], {u})
                       /\ pc[u] = "wait" => Clear(wait[u], {u}))'
    BY DEF OwnClean
  <2>1. CASE u = t
    <3>1. Clear(file[fd[t]], {}) BY <1>1 DEF IInv, OwnClean
    <3>2. file[fd[t]] \notin {None, Foreign} => file[fd[t]] \in ConnIds
      BY <1>1, ClientConstants DEF IInv, TypeOK
    <3>3. file[fd[t]] \notin {None, Foreign} => Frames(file[fd[t]])' \subseteq {t}
      <4> SUFFICES ASSUME file[fd[t]] \notin {None, Foreign}
                   PROVE  Frames(file[fd[t]])' \subseteq {t}
        OBVIOUS
      <4> PICK m \in ConnIds : m = file[fd[t]] BY <3>2
      <4>1. Frames(m)' \subseteq {t} BY <3>1, <1>6 DEF Clear
      <4> QED BY <4>1, <1>1 DEF Frames
    <3>4. Clear(file[fd[t]], {t})' BY <3>3, <1>1 DEF Clear
    <3> QED BY <2>1, <3>4, <1>8
  <2>2. CASE u # t BY <2>2, <1>8
  <2> QED BY <2>1, <2>2
<1>17. Numbers'
  <2>1. \A u \in Callers : pc'[u] \notin Inside BY <1>8 DEF Inside
  <2> QED BY <2>1, <1>16, NumbersStep
<1>14. Bounded'
  <2> SUFFICES ASSUME NEW u \in Callers
               PROVE  /\ pc'[u] = "reconnect" => ~retried[u]
                      /\ u \in Once => ~retried[u] /\ pc'[u] # "reconnect"
                      /\ pc'[u] \in {"idle", "lazy"} => ~retried[u]
                      /\ runs[u] + Cardinality(Pending(u)') <= Attempts(u)'
    BY <1>1 DEF Bounded
  <2>1. runs[u] \in Nat /\ Cardinality(Pending(u)) \in Nat
    BY PendingFinite DEF IInv, TypeOK
  <2>2. CASE u # t
    <3>1. \A j \in ConnIds : u \in Elems(toServer'[j]) <=> u \in Elems(toServer[j])
      BY <2>2, <1>4, <1>6
    <3>2. Pending(u)' = Pending(u) BY <3>1 DEF Pending
    <3>3. Attempts(u)' = Attempts(u) BY <2>2, <1>1, <1>8 DEF Attempts
    <3>4. runs[u] + Cardinality(Pending(u)') <= Attempts(u)'
      BY <3>2, <3>3 DEF IInv, Bounded
    <3> QED BY <3>4, <2>2, <1>8 DEF IInv, Bounded
  <2>3. CASE u = t
    <3>1. \A j \in ConnIds : t \in Elems(toServer'[j])
                               <=> j = k \/ t \in Elems(toServer[j])
      BY <1>4, <1>6
    <3>2. Pending(t)' = Pending(t) \cup {k} BY <3>1 DEF Pending
    <3>3. IsFiniteSet(Pending(t)) BY PendingFinite
    <3>4. k \notin Pending(t) BY <1>4 DEF Pending
    <3>5. Cardinality(Pending(t)') = Cardinality(Pending(t)) + 1
      BY <3>2, <3>3, <3>4, FS_AddElement
    <3>6. Attempts(t)' = Attempts(t) + 1 /\ Attempts(t) \in Nat
      BY <1>1, <1>8 DEF Attempts
    <3>7. runs[t] + Cardinality(Pending(t)) <= Attempts(t) BY DEF IInv, Bounded
    <3>8. runs[t] + Cardinality(Pending(t)') <= Attempts(t)'
      BY <3>5, <3>6, <3>7, <2>1, <2>3
    <3> QED BY <2>3, <3>8, <1>1, <1>8 DEF IInv, Bounded
  <2> QED BY <2>2, <2>3
<1>15. Executed' /\ OwnAnswers' /\ Unanswered'
  BY <1>1, <1>8 DEF IInv, Executed, OwnAnswers, Unanswered
<1> QED BY <1>7, <1>9, <1>10, <1>11, <1>12, <1>13, <1>14, <1>15, <1>17 DEF IInv

\* The response is that of the call, whose last frame on its connection it is;
\* the call returns it or loses its data.
LEMMA TakesStep ==
  ASSUME IInv, NEW t \in Callers, Receives(t) \/ LosesData(t)
  PROVE  IInv'
<1>0. /\ pc[t] = "wait" /\ wait[t] # Foreign /\ callLock = t /\ toClient[wait[t]] # <<>>
      /\ toClient' = [toClient EXCEPT ![wait[t]] = Tail(@)]
      /\ \/ /\ result' = [result EXCEPT ![t] = Head(toClient[wait[t]])]
            /\ callLock' = None /\ pc' = [pc EXCEPT ![t] = "done"]
            /\ wait' = [wait EXCEPT ![t] = None]
         \/ /\ UNCHANGED <<callLock, result>>
            /\ \/ pc' = pc /\ wait' = [wait EXCEPT ![t] = Foreign]
               \/ /\ pc' = [pc EXCEPT ![t] = "drop"]
                  /\ wait' = [wait EXCEPT ![t] = None]
      /\ up' \subseteq up
      /\ UNCHANGED <<mfd, connected, fd, retried, file, made, toServer, runs, foreign>>
  BY DEF IInv, Locked, Receives, LosesData, Returns, Leaves, Goto
<1> PICK k \in ConnIds : k = wait[t] /\ k <= made
  BY <1>0, ClientConstants DEF IInv, TypeOK, Descriptors, ConnIds, Inside
<1>1. /\ pc[t] = "wait" /\ callLock = t
      /\ toClient[k] # <<>> /\ toClient[k] \in Seq(Callers)
      /\ toClient' = [toClient EXCEPT ![k] = Tail(@)] /\ up' \subseteq up
      /\ UNCHANGED <<mfd, connected, fd, retried, file, made, toServer, runs, foreign>>
  BY <1>0 DEF IInv, TypeOK
<1>2. /\ Head(toClient[k]) \in Elems(toClient[k]) /\ Tail(toClient[k]) \in Seq(Callers)
      /\ Elems(toClient[k]) = Elems(Tail(toClient[k])) \cup {Head(toClient[k])}
      /\ Distinct(Tail(toClient[k]))
      /\ Head(toClient[k]) \notin Elems(Tail(toClient[k]))
  BY <1>1, ElemsTail DEF IInv, Single
<1>3. Frames(k) \subseteq {t}
  <2>1. k \notin {None, Foreign} BY ClientConstants DEF ConnIds
  <2> QED BY <2>1, <1>1 DEF IInv, OwnClean, Clear
<1>4. Head(toClient[k]) = t BY <1>2, <1>3 DEF Frames
<1>5. /\ toClient'[k] = Tail(toClient[k])
      /\ \A j \in ConnIds \ {k} : toClient'[j] = toClient[j]
      /\ toClient' \in [ConnIds -> Seq(Callers)] /\ toServer' = toServer
  BY <1>1, <1>2 DEF IInv, TypeOK
<1>6. Frames(k)' = {}
  <2>1. Elems(toServer[k]) \cap Elems(toClient[k]) = {} BY DEF IInv, Single
  <2> QED BY <2>1, <1>2, <1>3, <1>4, <1>5 DEF Frames
<1>7. \A j \in ConnIds \ {k} : Frames(j)' = Frames(j) BY <1>5 DEF Frames
<1>8. /\ \A u \in Callers : u # t => /\ pc'[u] = pc[u] /\ wait'[u] = wait[u]
                                    /\ result'[u] = result[u]
      /\ \A u \in Callers : pc[u] \in {"send", "sending", "recv", "wait", "drop"} => u = t
      /\ pc'[t] \in {"done", "drop", "wait"} /\ wait'[t] \in {None, Foreign}
      /\ pc'[t] = "wait" => wait'[t] = Foreign
      /\ callLock' = (IF pc'[t] = "done" THEN None ELSE t)
      /\ result'[t] = (IF pc'[t] = "done" THEN t ELSE result[t])
  BY <1>0, <1>1, <1>4 DEF IInv, TypeOK, Threads, Locked
<1>9. TypeOK'
  <2>1. result' \in [Callers -> Callers \cup {None, Foreign, "transport", "socket"}]
    <3>1. \/ result' = result \/ result' = [result EXCEPT ![t] = t] BY <1>0, <1>4
    <3> QED BY <3>1 DEF IInv, TypeOK
  <2>2. pc' \in [Threads -> {"idle", "lazy", "getfd", "send", "sending", "recv",
                            "wait", "drop", "reconnect", "done"}]
    BY <1>0 DEF IInv, TypeOK, Threads
  <2>3. /\ wait' \in [Callers -> ConnIds \cup {None, Foreign}]
        /\ callLock' \in Callers \cup {None}
    BY <1>0 DEF IInv, TypeOK
  <2> QED BY <2>1, <2>2, <2>3, <1>1, <1>5 DEF IInv, TypeOK
<1>10. Locked' BY <1>1, <1>8, ClientConstants DEF IInv, Locked
<1>11. Descriptors' /\ Numbers'
  <2>1. \A j \in ConnIds : j > made => Frames(j)' = {}
    BY <1>6, <1>7 DEF IInv, Descriptors
  <2>2. \A u \in Callers : /\ pc'[u] \in InFrame => fd[u] \in Fds
                           /\ pc'[u] \in Inside => wait'[u] \in 1..made \cup {Foreign}
    BY <1>1, <1>8 DEF IInv, Descriptors, InFrame, Inside
  <2>3. Descriptors'
    BY <2>1, <2>2, <1>1 DEF IInv, Descriptors, InFrame, Inside
  <2>4. Renamed BY <1>1, ClientConstants DEF IInv, TypeOK, Renamed
  <2>5. \A u \in Callers : pc'[u] \in Inside => wait'[u] = Foreign
    BY <1>8 DEF Inside
  <2> QED BY <2>3, <2>4, <2>5, NumbersStep
<1>12. Single'
  <2> SUFFICES ASSUME NEW j \in ConnIds
               PROVE  (/\ Distinct(toServer[j]) /\ Distinct(toClient[j])
                       /\ Elems(toServer[j]) \cap Elems(toClient[j]) = {})'
    BY DEF Single
  <2>1. CASE j = k BY <2>1, <1>2, <1>5 DEF IInv, Single
  <2>2. CASE j # k BY <2>2, <1>5 DEF IInv, Single
  <2> QED BY <2>1, <2>2
<1>13. MainClean'
  <2> SUFFICES ASSUME mfd # -1, NEW u \in Frames(file[mfd])' PROVE FALSE
    BY <1>1 DEF MainClean
  <2> PICK m \in ConnIds : m = file[mfd]
    BY ClientConstants DEF IInv, TypeOK, Descriptors, ConnIds
  <2>1. u \in Frames(m)' BY <1>1
  <2>2. m # k /\ u \in Frames(m) /\ u \in Callers
    BY <2>1, <1>6, <1>7, FramesOfCalls DEF IInv
  <2>3. u = t /\ wait[t] = m BY <2>2, <1>1, <1>8 DEF IInv, MainClean
  <2> QED BY <2>2, <2>3
<1>14. OwnClean' BY <1>8 DEF OwnClean, Clear
<1>15. Bounded'
  <2> SUFFICES ASSUME NEW u \in Callers
               PROVE  /\ pc'[u] = "reconnect" => ~retried[u]
                      /\ u \in Once => ~retried[u] /\ pc'[u] # "reconnect"
                      /\ pc'[u] \in {"idle", "lazy"} => ~retried[u]
                      /\ runs[u] + Cardinality(Pending(u)') <= Attempts(u)'
    BY <1>1 DEF Bounded
  <2>1. Pending(u)' = Pending(u) BY <1>5 DEF Pending
  <2>2. Attempts(u)' = Attempts(u) BY <1>1, <1>8 DEF Attempts
  <2>3. runs[u] + Cardinality(Pending(u)') <= Attempts(u)'
    BY <2>1, <2>2 DEF IInv, Bounded
  <2> QED BY <2>3, <1>8 DEF IInv, Bounded
<1>16. Executed'
  <2> SUFFICES ASSUME NEW j \in ConnIds, NEW u \in Elems(toClient'[j])
               PROVE  runs[u] > 0
    BY <1>1 DEF Executed
  <2>1. u \in Elems(toClient[j])
    <3>1. CASE j = k BY <3>1, <1>2, <1>5
    <3>2. CASE j # k BY <3>2, <1>5
    <3> QED BY <3>1, <3>2
  <2> QED BY <2>1 DEF IInv, Executed
<1>17. OwnAnswers' /\ Unanswered'
  <2>1. runs[t] > 0 BY <1>2, <1>4 DEF IInv, Executed
  <2> QED BY <2>1, <1>1, <1>8 DEF IInv, OwnAnswers, Unanswered
<1> QED BY <1>9, <1>10, <1>11, <1>12, <1>13, <1>14, <1>15, <1>16, <1>17 DEF IInv

\* An execution takes the request off its connection and may leave a response.
LEMMA ExecutesStep == ASSUME IInv, NEW k \in ConnIds, Executes(k) PROVE IInv'
<1> PICK t \in Callers : t = Head(toServer[k])
  BY ElemsTail DEF IInv, TypeOK, Executes
<1>1. /\ toServer[k] # <<>> /\ runs' = [runs EXCEPT ![t] = @ + 1]
      /\ toClient' = [toClient EXCEPT ![k] = IF k \in up THEN Append(@, t) ELSE @]
      /\ toServer' = [toServer EXCEPT ![k] = Tail(@)]
      /\ UNCHANGED <<mfd, connected, pc, callVars, file, made, up, foreign>>
      /\ toServer[k] \in Seq(Callers) /\ toClient[k] \in Seq(Callers)
  BY DEF IInv, TypeOK, Executes
<1>2. /\ Tail(toServer[k]) \in Seq(Callers) /\ t \in Elems(toServer[k])
      /\ Elems(toServer[k]) = Elems(Tail(toServer[k])) \cup {t}
      /\ Distinct(Tail(toServer[k])) /\ t \notin Elems(Tail(toServer[k]))
  BY <1>1, ElemsTail DEF IInv, Single
<1>3. t \notin Elems(toClient[k]) BY <1>2 DEF IInv, Single
<1>4. /\ Append(toClient[k], t) \in Seq(Callers)
      /\ Elems(Append(toClient[k], t)) = Elems(toClient[k]) \cup {t}
      /\ Distinct(Append(toClient[k], t))
  BY <1>1, <1>3, ElemsAppend DEF IInv, Single
<1>5. /\ toServer'[k] = Tail(toServer[k])
      /\ \A j \in ConnIds \ {k} : toServer'[j] = toServer[j] /\ toClient'[j] = toClient[j]
      /\ toServer' \in [ConnIds -> Seq(Callers)]
      /\ toClient'[k] \in {toClient[k], Append(toClient[k], t)}
      /\ toClient' \in [ConnIds -> Seq(Callers)]
  BY <1>1, <1>2, <1>4 DEF IInv, TypeOK
<1>6. /\ Elems(toServer'[k]) = Elems(Tail(toServer[k]))
      /\ Elems(toClient'[k]) \subseteq Elems(toClient[k]) \cup {t}
      /\ Distinct(toClient'[k])
      /\ \A j \in ConnIds \ {k} : Elems(toServer'[j]) = Elems(toServer[j])
  <2>1. CASE toClient'[k] = toClient[k] BY <2>1, <1>5 DEF IInv, Single
  <2>2. CASE toClient'[k] = Append(toClient[k], t) BY <2>2, <1>4, <1>5
  <2> QED BY <2>1, <2>2, <1>5
<1>7. \A j \in ConnIds : Frames(j)' \subseteq Frames(j)
  <2> TAKE j \in ConnIds
  <2>1. CASE j = k BY <2>1, <1>2, <1>6 DEF Frames
  <2>2. CASE j # k BY <2>2, <1>5 DEF Frames
  <2> QED BY <2>1, <2>2
<1>8. \A u \in Callers : runs'[u] = IF u = t THEN runs[u] + 1 ELSE runs[u]
  BY <1>1 DEF IInv, TypeOK
<1>9. TypeOK' BY <1>1, <1>5 DEF IInv, TypeOK
<1>10. Locked' /\ Unanswered' BY <1>1 DEF IInv, Locked, Unanswered
<1>11. Descriptors' /\ Numbers'
  <2>1. \A j \in ConnIds : j > made => Frames(j)' = {}
    BY <1>7 DEF IInv, Descriptors
  <2> QED BY <2>1, <1>1 DEF IInv, Descriptors, Numbers, InFrame, Inside
<1>12. Single'
  <2> SUFFICES ASSUME NEW j \in ConnIds
               PROVE  (/\ Distinct(toServer[j]) /\ Distinct(toClient[j])
                       /\ Elems(toServer[j]) \cap Elems(toClient[j]) = {})'
    BY DEF Single
  <2>1. CASE j = k
    <3>1. Elems(toServer[k]) \cap Elems(toClient[k]) = {} BY DEF IInv, Single
    <3>2. Elems(toServer'[k]) \cap Elems(toClient'[k]) = {} BY <3>1, <1>2, <1>6
    <3>3. Distinct(toServer'[k]) BY <1>2, <1>5
    <3> QED BY <2>1, <3>2, <3>3, <1>6
  <2>2. CASE j # k BY <2>2, <1>5 DEF IInv, Single
  <2> QED BY <2>1, <2>2
<1>13. MainClean'
  <2> SUFFICES ASSUME mfd # -1, NEW u \in Frames(file[mfd])'
               PROVE  \/ pc[u] = "recv" /\ file[fd[u]] = file[mfd]
                      \/ pc[u] = "wait" /\ wait[u] = file[mfd]
                      \/ pc[u] = "drop"
    BY <1>1 DEF MainClean
  <2> PICK m \in ConnIds : m = file[mfd]
    BY ClientConstants DEF IInv, TypeOK, Descriptors, ConnIds
  <2>1. u \in Frames(m) BY <1>1, <1>7
  <2> QED BY <2>1 DEF IInv, MainClean
<1>14. OwnClean'
  <2>1. \A j \in ConnIds \cup {None, Foreign} : \A S : Clear(j, S) => Clear(j, S)'
    BY <1>7 DEF Clear
  <2> SUFFICES ASSUME NEW u \in Callers
               PROVE  (/\ pc[u] \in {"send", "sending"} => Clear(file[fd[u]], {})
                       /\ pc[u] = "sending" => Clear(wait[u], {})
                       /\ pc[u] = "recv" => Clear(file[fd[u]], {u})
                       /\ pc[u] = "wait" => Clear(wait[u], {u}))'
    BY DEF OwnClean
  <2>2. pc[u] \in InFrame => file[fd[u]] \in ConnIds \cup {None, Foreign}
    BY DEF IInv, TypeOK, Descriptors
  <2>3. pc[u] \in Inside => wait[u] \in ConnIds \cup {None, Foreign}
    BY DEF IInv, TypeOK
  <2>4. /\ pc[u] \in {"send", "sending"} => Clear(file[fd[u]], {})
        /\ pc[u] = "sending" => Clear(wait[u], {})
        /\ pc[u] = "recv" => Clear(file[fd[u]], {u})
        /\ pc[u] = "wait" => Clear(wait[u], {u})
    BY DEF IInv, OwnClean
  <2> PICK m : m = file[fd[u]] OBVIOUS
  <2> PICK w : w = wait[u] OBVIOUS
  <2>5. file'[fd'[u]] = m /\ wait'[u] = w /\ pc'[u] = pc[u] BY <1>1
  <2>6. /\ pc[u] \in {"send", "sending"} => Clear(m, {})'
        /\ pc[u] = "sending" => Clear(w, {})'
        /\ pc[u] = "recv" => Clear(m, {u})'
        /\ pc[u] = "wait" => Clear(w, {u})'
    BY <2>1, <2>2, <2>3, <2>4 DEF InFrame, Inside
  <2> QED BY <2>5, <2>6 DEF Clear
<1>15. Bounded'
  <2> SUFFICES ASSUME NEW u \in Callers
               PROVE  runs'[u] + Cardinality(Pending(u)') <= Attempts(u)
    BY <1>1 DEF IInv, Bounded, Attempts
  <2>1. /\ runs[u] \in Nat /\ Cardinality(Pending(u)) \in Nat
        /\ runs[u] + Cardinality(Pending(u)) <= Attempts(u)
    BY PendingFinite DEF IInv, TypeOK, Bounded
  <2>2. CASE u # t
    <3>1. \A j \in ConnIds : u \in Elems(toServer'[j]) <=> u \in Elems(toServer[j])
      BY <2>2, <1>2, <1>6
    <3>2. Pending(u)' = Pending(u) BY <3>1 DEF Pending
    <3> QED BY <3>2, <2>1, <2>2, <1>8
  <2>3. CASE u = t
    <3>1. \A j \in ConnIds : t \in Elems(toServer'[j])
                               <=> j # k /\ t \in Elems(toServer[j])
      BY <1>2, <1>6
    <3>2. Pending(t)' = Pending(t) \ {k} BY <3>1 DEF Pending
    <3>3. IsFiniteSet(Pending(t)) /\ k \in Pending(t) BY PendingFinite, <1>2 DEF Pending
    <3>4. Cardinality(Pending(t)') = Cardinality(Pending(t)) - 1
      BY <3>2, <3>3, FS_RemoveElement
    <3>5. Attempts(t) \in Nat BY DEF Attempts
    <3>6. runs'[t] = runs[t] + 1 BY <1>8
    <3> QED BY <3>4, <3>5, <3>6, <2>1, <2>3
  <2> QED BY <2>2, <2>3
<1>16. Executed'
  <2> SUFFICES ASSUME NEW j \in ConnIds, NEW u \in Elems(toClient'[j])
               PROVE  runs'[u] > 0
    BY DEF Executed
  <2>1. u = t \/ u \in Elems(toClient[j])
    <3>1. CASE j = k BY <3>1, <1>6
    <3>2. CASE j # k BY <3>2, <1>5
    <3> QED BY <3>1, <3>2
  <2>2. u \in Callers
    <3>1. toClient'[j] \in Seq(Callers) BY <1>5
    <3> QED BY <3>1, LenProperties, ElementOfSeq DEF Elems
  <2>3. runs[u] \in Nat /\ (u # t => runs[u] > 0)
    BY <2>1, <2>2 DEF IInv, TypeOK, Executed
  <2> QED BY <2>2, <2>3, <1>8
<1>17. OwnAnswers'
  <2> SUFFICES ASSUME NEW u \in Callers, result[u] \in Callers
               PROVE  result[u] = u /\ runs'[u] > 0
    BY <1>1 DEF OwnAnswers
  <2>1. result[u] = u /\ runs[u] > 0 /\ runs[u] \in Nat
    BY DEF IInv, TypeOK, OwnAnswers
  <2> QED BY <2>1, <1>8
<1> QED BY <1>9, <1>10, <1>11, <1>12, <1>13, <1>14, <1>15, <1>16, <1>17 DEF IInv
-----------------------------------------------------------------------------
(* The theorems                                                            *)

LEMMA InitIInv == Init => IInv
<1> SUFFICES ASSUME Init PROVE IInv OBVIOUS
<1>1. TypeOK
  <2>1. <<>> \in Seq(Callers) BY EmptySeq
  <2>2. 0 \in 0..MaxConns /\ {} \subseteq ConnIds /\ 0 \in 0..MaxForeign BY ClientConstants
  <2> QED BY <2>1, <2>2 DEF Init, TypeOK
<1>2. \A k \in ConnIds : /\ Elems(toServer[k]) = {} /\ Elems(toClient[k]) = {}
                         /\ Distinct(toServer[k]) /\ Distinct(toClient[k])
  BY DEF Init, Elems, Distinct
<1>3. \A t \in Callers : Pending(t) = {} BY <1>2 DEF Pending
<1>4. Locked BY ClientConstants DEF Init, Locked, Threads
<1>5. Descriptors /\ OwnClean
  BY <1>2 DEF Init, Descriptors, OwnClean, Frames, Threads, InFrame, Inside
<1>10. Numbers BY ClientConstants DEF Init, Numbers, Threads, Inside, ConnIds
<1>6. Single /\ Executed BY <1>2 DEF Single, Executed
<1>7. MainClean BY DEF Init, MainClean
<1>8. Bounded
  <2> SUFFICES ASSUME NEW t \in Callers
               PROVE  ~retried[t] /\ pc[t] = "idle" /\ runs[t] = 0
                        /\ Cardinality(Pending(t)) = 0
    BY DEF Bounded, Attempts
  <2> QED BY <1>3, FS_EmptySet DEF Init, Threads
<1>9. Unanswered /\ OwnAnswers
  BY ClientConstants DEF Init, Unanswered, OwnAnswers
<1> QED BY <1>1, <1>4, <1>5, <1>6, <1>7, <1>8, <1>9, <1>10 DEF IInv

\* Threads in connect() or disconnect(), and a server that hangs up.
LEMMA ConnectStep == ASSUME IInv, NEW t \in Connectors, Connect(t) PROVE IInv'
<1>1. /\ Renamed /\ mfd' \in Fds \cup {-1} /\ connected' \in BOOLEAN
      /\ file' \in [Fds -> ConnIds \cup {None, Foreign}] /\ made' \in 0..MaxConns
      /\ up' \subseteq ConnIds
  BY Renames DEF Connect
<1>2. /\ pc' = [pc EXCEPT ![t] = "done"] /\ t \in Threads
      /\ UNCHANGED <<callVars, toServer, toClient, runs, foreign>>
  BY DEF Connect, Goto, Threads
<1>3. TypeOK' BY <1>1, <1>2 DEF IInv, TypeOK
<1>4. \A u \in Callers : pc'[u] = pc[u]
  BY <1>2, ClientConstants DEF IInv, TypeOK, Threads
<1> QED BY <1>1, <1>2, <1>3, <1>4, OtherStep

LEMMA DisconnectStep == ASSUME IInv, NEW t \in Closers, Disconnect(t) PROVE IInv'
<1>1. /\ Renamed /\ mfd' \in Fds \cup {-1} /\ connected' \in BOOLEAN
      /\ file' \in [Fds -> ConnIds \cup {None, Foreign}] /\ made' \in 0..MaxConns
      /\ up' \subseteq ConnIds
  BY Renames DEF Disconnect
<1>2. /\ pc' = [pc EXCEPT ![t] = "done"] /\ t \in Threads
      /\ UNCHANGED <<callVars, toServer, toClient, runs, foreign>>
  BY DEF Disconnect, Goto, Threads
<1>3. TypeOK' BY <1>1, <1>2 DEF IInv, TypeOK
<1>4. \A u \in Callers : pc'[u] = pc[u]
  BY <1>2, ClientConstants DEF IInv, TypeOK, Threads
<1> QED BY <1>1, <1>2, <1>3, <1>4, OtherStep

LEMMA HangsUpStep == ASSUME IInv, NEW k \in ConnIds, HangsUp(k) PROVE IInv'
<1>1. Renamed BY ClientConstants DEF HangsUp, IInv, TypeOK, Renamed
<1>2. TypeOK' BY DEF HangsUp, IInv, TypeOK
<1> QED BY <1>1, <1>2, OtherStep DEF HangsUp

\* Files of the rest of the process that come and go.
LEMMA ForeignStep ==
  ASSUME IInv, NEW f \in Fds, ForeignOpens(f) \/ ForeignCloses(f)
  PROVE  IInv'
<1>1. /\ file[f] \in {None, Foreign} /\ file' \in [Fds -> ConnIds \cup {None, Foreign}]
      /\ \A g \in Fds : file'[g] = file[g] \/ (g = f /\ file'[g] \in {None, Foreign})
      /\ foreign' \in 0..MaxForeign
      /\ UNCHANGED <<mfd, connected, pc, callVars, made, netVars>>
  <2>1. file[f] \in {None, Foreign} /\ UNCHANGED <<mfd, connected, pc, callVars, made, netVars>>
    BY DEF ForeignOpens, ForeignCloses
  <2>2. file' = [file EXCEPT ![f] = None] \/ file' = [file EXCEPT ![f] = Foreign]
    BY DEF ForeignOpens, ForeignCloses
  <2>3. foreign' \in 0..MaxForeign
    BY ClientConstants DEF IInv, TypeOK, ForeignOpens, ForeignCloses
  <2> QED BY <2>1, <2>2, <2>3 DEF IInv, TypeOK
<1>2. mfd # -1 => file'[mfd] = file[mfd]
  BY <1>1, ClientConstants DEF IInv, TypeOK, Descriptors
<1>3. Renamed BY <1>1, <1>2, ClientConstants DEF IInv, TypeOK, Renamed
<1>4. TypeOK' BY <1>1 DEF IInv, TypeOK
<1> QED BY <1>1, <1>3, <1>4, OtherStep

LEMMA StutterStep == ASSUME IInv, UNCHANGED vars PROVE IInv'
<1>1. Renamed BY ClientConstants DEF vars, IInv, TypeOK, Renamed
<1>2. TypeOK' BY DEF vars, IInv, TypeOK
<1> QED BY <1>1, <1>2, OtherStep DEF vars

LEMMA Inductive == IInv /\ [Next]_vars => IInv'
<1> SUFFICES ASSUME IInv, [Next]_vars PROVE IInv' OBVIOUS
<1>1. ASSUME NEW t \in Callers, CallRuns(t) \/ CallGoesOn(t) PROVE IInv'
  BY <1>1, LocksStep, ConnectsStep, GetsFdStep, EntersStep, SendEndsStep, FailsStep,
     TakesStep, DropsStep, SendsAstrayStep, ReceivesAstrayStep DEF CallRuns, CallGoesOn
<1>2. ASSUME NEW t \in Connectors, Connect(t) PROVE IInv' BY <1>2, ConnectStep
<1>3. ASSUME NEW t \in Closers, Disconnect(t) PROVE IInv' BY <1>3, DisconnectStep
<1>4. ASSUME NEW k \in ConnIds, Executes(k) \/ HangsUp(k) PROVE IInv'
  BY <1>4, ExecutesStep, HangsUpStep
<1>5. ASSUME NEW f \in Fds, ForeignOpens(f) \/ ForeignCloses(f) PROVE IInv'
  BY <1>5, ForeignStep
<1>6. CASE UNCHANGED vars BY <1>6, StutterStep
<1> QED BY <1>1, <1>2, <1>3, <1>4, <1>5, <1>6 DEF Next

\* The variables keep their types in call(), callOnce(), connect(), disconnect().
THEOREM TypeCorrect == Spec => []TypeOK
<1>1. IInv => TypeOK BY DEF IInv
<1> QED BY <1>1, InitIInv, Inductive, PTL DEF Spec

\* However calls, reconnects and disconnects interleave and whatever is lost, a
\* server executes a callOnce() at most once and a call() at most twice.
THEOREM BoundedExecutions == Spec => []ExecutionsBounded
<1>1. IInv => ExecutionsBounded
  <2> SUFFICES ASSUME IInv, NEW t \in Callers
               PROVE  runs[t] <= (IF t \in Once THEN 1 ELSE 2)
    BY DEF ExecutionsBounded
  <2>1. /\ runs[t] \in Nat /\ Cardinality(Pending(t)) \in Nat
        /\ runs[t] + Cardinality(Pending(t)) <= Attempts(t)
    BY PendingFinite DEF IInv, TypeOK, Bounded
  <2>2. Attempts(t) \in 0..2 /\ (t \in Once => Attempts(t) \in 0..1)
    BY DEF IInv, Bounded, Attempts
  <2> QED BY <2>1, <2>2
<1> QED BY <1>1, InitIInv, Inductive, PTL DEF Spec

\* Until a thread calls disconnect(), the number of a call stands for a connection
\* of this client, and no call reads anything else.
Untouched == \A e \in Closers : pc[e] # "done"
KeptBy(t) ==
  /\ pc[t] \in InFrame => file[fd[t]] \in ConnIds
  /\ pc[t] \in Inside => wait[t] \in ConnIds
  /\ result[t] # Foreign
Kept == Untouched => \A t \in Callers : KeptBy(t)

\* A step of call t leaves the other threads and their files alone.
LEMMA CallsApart ==
  ASSUME IInv, NEW t \in Callers, CallRuns(t) \/ CallGoesOn(t), NEW u \in Threads \ {t}
  PROVE  /\ pc'[u] = pc[u]
         /\ u \in Callers => UNCHANGED <<fd[u], wait[u], result[u]>> /\ pc[u] \notin InFrame
<1>1. /\ pc'[u] = pc[u] /\ callLock \in {None, t}
      /\ u \in Callers => UNCHANGED <<fd[u], wait[u], result[u]>>
  <2> USE DEF IInv, TypeOK, Locked, Goto, Returns
  <2>1. CASE Locks(t) BY <2>1 DEF Locks
  <2>2. CASE Connects(t) BY <2>2 DEF Connects
  <2>3. CASE GetsFd(t) BY <2>3 DEF GetsFd
  <2>4. CASE Sends(t) \/ Waits(t) BY <2>4 DEF Sends, Waits, Enters
  <2>5. CASE SendEnds(t) BY <2>5 DEF SendEnds, Leaves
  <2>6. CASE SendFails(t) BY <2>6 DEF SendFails, Leaves
  <2>7. CASE Receives(t) BY <2>7 DEF Receives, Leaves
  <2>8. CASE ReceiveFails(t) BY <2>8 DEF ReceiveFails, Leaves
  <2>9. CASE LosesData(t) BY <2>9 DEF LosesData
  <2>10. CASE Drops(t) BY <2>10 DEF Drops
  <2>11. CASE SendsAstray(t) BY <2>11 DEF SendsAstray, Leaves
  <2>12. CASE ReceivesAstray(t) BY <2>12 DEF ReceivesAstray, Leaves
  <2> QED BY <2>1, <2>2, <2>3, <2>4, <2>5, <2>6, <2>7, <2>8, <2>9, <2>10, <2>11, <2>12
          DEF CallRuns, CallGoesOn
<1>2. u \in Callers => pc[u] \notin InFrame
  <2>1. u \in Callers /\ pc[u] \in InFrame => callLock = u
    BY DEF IInv, Locked, InFrame
  <2>2. u \in Callers => u # None BY ClientConstants
  <2> QED BY <2>1, <2>2, <1>1
<1> QED BY <1>1, <1>2

LEMMA KeptByCall ==
  ASSUME IInv, NEW u \in Callers, KeptBy(u), CallRuns(u) \/ CallGoesOn(u)
  PROVE  KeptBy(u)'
<1> USE DEF InFrame, Inside, KeptBy, Goto, Returns
<1>0. /\ None # Foreign /\ "socket" # Foreign /\ "transport" # Foreign
      /\ Foreign \notin Callers
  BY ClientConstants
<1>13. /\ \A v : pc' = [pc EXCEPT ![u] = v] => pc'[u] = v
       /\ \A v : fd' = [fd EXCEPT ![u] = v] => fd'[u] = v
       /\ \A v : wait' = [wait EXCEPT ![u] = v] => wait'[u] = v
       /\ \A v : result' = [result EXCEPT ![u] = v] => result'[u] = v
  BY DEF IInv, TypeOK, Threads
<1>1. CASE Locks(u) BY <1>0, <1>13, <1>1 DEF Locks
<1>2. CASE Connects(u) BY <1>0, <1>13, <1>2 DEF Connects
<1>3. CASE GetsFd(u)
  <2>1. mfd # -1 => file[mfd] \in ConnIds
    BY ClientConstants DEF Descriptors, ConnIds, IInv, TypeOK
  <2> QED BY <2>1, <1>0, <1>13, <1>3 DEF GetsFd
<1>4. CASE Sends(u) \/ Waits(u)
  <2>1. \/ UNCHANGED <<wait, file, fd, result>> /\ pc'[u] = "drop"
        \/ UNCHANGED <<file, fd, result>> /\ wait'[u] = file[fd[u]] /\ pc[u] \in InFrame
    BY <1>13, <1>4 DEF Sends, Waits, Enters
  <2> QED BY <2>1
<1>5. CASE SendEnds(u) BY <1>0, <1>13, <1>5 DEF SendEnds
<1>6. CASE SendFails(u) BY <1>0, <1>13, <1>6 DEF SendFails
<1>7. CASE Receives(u)
  <2>1. toClient[wait[u]] \in Seq(Callers) /\ toClient[wait[u]] # <<>>
    BY <1>7 DEF Receives, IInv, TypeOK
  <2>2. Head(toClient[wait[u]]) \in Callers BY <2>1, ElemsTail
  <2>3. pc'[u] = "done" /\ result'[u] = Head(toClient[wait[u]])
    BY <1>7, <1>13 DEF Receives
  <2> QED BY <2>2, <2>3, <1>0
<1>8. CASE ReceiveFails(u) BY <1>0, <1>13, <1>8 DEF ReceiveFails
<1>9. CASE LosesData(u) BY <1>0, <1>13, <1>9 DEF LosesData
<1>10. CASE Drops(u) BY <1>0, <1>13, <1>10 DEF Drops
<1>11. CASE SendsAstray(u) BY <1>0, <1>13, <1>11 DEF SendsAstray
<1>12. CASE ReceivesAstray(u)
  <2>1. wait[u] = Foreign /\ Foreign \notin ConnIds
    BY <1>12, ClientConstants DEF ReceivesAstray, ConnIds
  <2>2. pc[u] # "wait" BY <2>1, <1>0
  <2>3. pc[u] = "wait" BY <1>12 DEF ReceivesAstray
  <2> QED BY <2>2, <2>3
<1> QED BY <1>1, <1>2, <1>3, <1>4, <1>5, <1>6, <1>7, <1>8, <1>9, <1>10, <1>11, <1>12
        DEF CallRuns, CallGoesOn

LEMMA KeptInductive == IInv /\ Kept /\ [Next]_vars => Kept'
<1> SUFFICES ASSUME IInv, Kept, [Next]_vars, Untouched', NEW u \in Callers
             PROVE  KeptBy(u)'
  BY DEF Kept
<1>1. ASSUME \/ \E t \in Connectors : Connect(t)
             \/ \E k \in ConnIds : Executes(k) \/ HangsUp(k)
             \/ \E f \in Fds : ForeignOpens(f) \/ ForeignCloses(f)
             \/ UNCHANGED vars
      PROVE  /\ UNCHANGED <<pc[u], fd[u], wait[u], result[u]>>
             /\ \A e \in Closers : pc[e] = "done" => pc'[e] = "done"
             /\ \A f \in Fds : file[f] \in ConnIds => file'[f] = file[f]
  <2> USE DEF IInv, TypeOK, Threads
  <2>1. ASSUME NEW t \in Connectors, Connect(t)
        PROVE  /\ UNCHANGED <<pc[u], fd[u], wait[u], result[u]>>
               /\ \A e \in Closers : pc[e] = "done" => pc'[e] = "done"
               /\ \A f \in Fds : file[f] \in ConnIds => file'[f] = file[f]
    BY <2>1, ClientConstants DEF Connect, DoConnectOk, DoConnectFails, Goto, ConnIds
  <2>2. ASSUME NEW k \in ConnIds, Executes(k) \/ HangsUp(k)
        PROVE  UNCHANGED <<pc, fd, wait, result, file>>
    BY <2>2 DEF Executes, HangsUp
  <2>3. ASSUME NEW f \in Fds, ForeignOpens(f) \/ ForeignCloses(f)
        PROVE  /\ UNCHANGED <<pc, fd, wait, result>>
               /\ \A g \in Fds : file[g] \in ConnIds => file'[g] = file[g]
    BY <2>3, ClientConstants DEF ForeignOpens, ForeignCloses, ConnIds
  <2> QED BY <1>1, <2>1, <2>2, <2>3 DEF vars
<1>2. ASSUME NEW t \in Closers, Disconnect(t) PROVE FALSE
  BY <1>2 DEF Disconnect, Goto, Untouched, IInv, TypeOK, Threads
<1>3. Untouched
  <2>1. \A e \in Closers : pc[e] = "done" => pc'[e] = "done"
    <3>1. ASSUME NEW t \in Callers, CallRuns(t) \/ CallGoesOn(t), NEW e \in Closers
          PROVE  pc'[e] = pc[e]
      BY <3>1, CallsApart, ClientConstants DEF Threads
    <3> QED BY <1>1, <1>2, <3>1 DEF Next
  <2> QED BY <2>1 DEF Untouched
<1>4. KeptBy(u) /\ (pc[u] \in InFrame => fd[u] \in Fds)
  BY <1>3 DEF Kept, IInv, Descriptors
<1>5. CASE CallRuns(u) \/ CallGoesOn(u) BY <1>4, <1>5, KeptByCall
<1>6. ASSUME NEW t \in Callers \ {u}, CallRuns(t) \/ CallGoesOn(t) PROVE KeptBy(u)'
  <2>1. /\ UNCHANGED <<pc[u], fd[u], wait[u], result[u]>> /\ pc[u] \notin InFrame
    BY <1>6, CallsApart DEF Threads
  <2> QED BY <2>1, <1>4 DEF KeptBy, InFrame, Inside
<1>7. CASE ~\E t \in Callers : CallRuns(t) \/ CallGoesOn(t)
  <2>1. /\ UNCHANGED <<pc[u], fd[u], wait[u], result[u]>>
        /\ \A f \in Fds : file[f] \in ConnIds => file'[f] = file[f]
    BY <1>1, <1>2, <1>7 DEF Next
  <2> QED BY <2>1, <1>4 DEF KeptBy
<1> QED BY <1>5, <1>6, <1>7

\* A response that call() or callOnce() returns is the answer to its request, unless
\* a disconnect() of another thread let a foreign file take its number.
THEOREM OwnResponses == Spec => []ResponseMatches
<1>1. IInv /\ Kept => ResponseMatches
  BY ClientConstants DEF IInv, OwnAnswers, Kept, KeptBy, Untouched, ResponseMatches
<1>2. Init => Kept BY ClientConstants DEF Init, Kept, KeptBy, Threads, InFrame, Inside
<1> QED BY <1>1, <1>2, InitIInv, Inductive, KeptInductive, PTL DEF Spec
=============================================================================

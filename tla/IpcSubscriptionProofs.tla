----------------------- MODULE IpcSubscriptionProofs -----------------------
(***************************************************************************)
(* Safety of one subscription, for any number of threads that cancel it or *)
(* disconnect its client, of descriptor numbers and of events.             *)
(***************************************************************************)
EXTENDS IpcSubscription, SequenceTheorems, TLAPS

USE DEF runVars, netVars, srvVars, subVars, canVars

Runs == {"new", "listed", "top", "connect", "request", "response", "failed", "rejected",
         "store", "events", "read", "callback", "unstore", "close", "test", "finish",
         "exited"}
Steps == {"idle", "lock", "flip", "take", "shut", "join", "returned", "sub", "clear",
          "enlist", "enlisted"}
Frame == {0, Rejection, EventType} \X (0..MaxEvents)

\* runLoop has an attempt's descriptor open, and only in eventLoop does m_fd
\* name it.
Open == {"request", "response", "store", "events", "read", "callback", "unstore", "close"}
Looping == {"events", "read", "callback", "unstore"}
Descriptor ==
  /\ run \in Open => fd \in Fds /\ file[fd] = conn
  /\ run \notin Open => fd = -1
  /\ mfd # -1 => run \in Looping /\ mfd = fd

\* m_active is false for good once a cancel() is past its flip; the connection
\* it is about to shut down is then the last.
Flipped ==
  \A t \in Callers :
    /\ cpc[t] \in {"take", "shut", "join", "clear", "returned"} => ~active
    /\ cpc[t] = "shut" => /\ cfd[t][1] \in Fds /\ cfd[t][2] = conn
                          /\ run \in Looping \cup {"close", "test", "finish", "exited"}

\* Who cancels has a subscription that was started, or at least listed.
Started ==
  /\ listed => run # "new"
  /\ \A t \in Cancellers : /\ cpc[t] # "idle" => ~Unstarted
                           /\ cpc[t] \in {"clear", "returned"} => run = "exited"
  /\ \A t \in Disconnecters :
       /\ cpc[t] \notin {"idle", "sub"} => run # "new"
       /\ cpc[t] \in {"clear", "returned"} => run \in {"listed", "top", "finish", "exited"}

\* The frames under way: events in the order of the pushes, none of them given
\* to the callback before, and at most one Response, which is there only until
\* the handshake has read it.
Sorted(q) == \A i, j \in DOMAIN q :
  i < j => IF q[j][2] = 0 THEN q[i][2] # 0 ELSE q[i][2] < q[j][2]
Pending(q, from, to, answer) == \A i \in DOMAIN q :
  \/ q[i][1] = EventType /\ q[i][2] \in (from + 1)..to
  \/ answer /\ q[i][1] # EventType /\ q[i][2] = 0
Answered == srv \in {"serving", "refused"}
Ordered ==
  /\ seen <= pushed /\ Sorted(toClient)
  /\ Pending(toClient, seen, pushed, Answered /\ run = "response")
  /\ run \notin Open => srv = "none" /\ toClient = <<>>
  /\ run = "request" => srv = "new" /\ toClient = <<>>
  /\ run \in Open \ {"request", "response"} => Answered

\* A server that pushes nothing before the Response is taken to reject the
\* subscription only when it does.
Handshake ==
  run = "response" =>
    /\ srv \in {"requested", "subscribed"} => toClient = <<>>
    /\ srv = "serving" => toClient # <<>> /\ Head(toClient)[1] = 0
    /\ srv = "refused" => refused
    /\ srv \notin {"none", "new"}

Ending == refused \/ \E t \in Callers : cpc[t] \notin {"idle", "sub", "enlist", "enlisted"}
Ended == /\ run = "rejected" => refused
         /\ run \in {"finish", "exited"} \/ ~active => Ending

IInv ==
  /\ TypeOK /\ Descriptor /\ NoDescriptorLeak /\ Flipped /\ ShutsNoLaterConnection
  /\ Started /\ Ordered /\ (~EarlyEvents => Handshake /\ Ended)
-----------------------------------------------------------------------------
(* Queues of frames                                                        *)

LEMMA AppendFrame ==
  ASSUME NEW q \in Seq(Frame), NEW x \in Frame
  PROVE  /\ Append(q, x) \in Seq(Frame) /\ Append(q, x) # <<>>
         /\ Len(q) \in Nat /\ DOMAIN q = 1..Len(q) /\ DOMAIN Append(q, x) = 1..(Len(q) + 1)
         /\ \A i \in 1..Len(q) : Append(q, x)[i] = q[i]
         /\ Append(q, x)[Len(q) + 1] = x
         /\ Head(Append(q, x)) = IF q = <<>> THEN x ELSE Head(q)
<1>1. /\ Append(q, x) \in Seq(Frame) /\ Append(q, x) # <<>>
      /\ Len(q) \in Nat /\ DOMAIN q = 1..Len(q) /\ DOMAIN Append(q, x) = 1..(Len(q) + 1)
      /\ \A i \in 1..Len(q) : Append(q, x)[i] = q[i]
      /\ Append(q, x)[Len(q) + 1] = x
  BY AppendProperties, LenProperties
<1>2. Head(Append(q, x)) = IF q = <<>> THEN x ELSE Head(q)
  <2>1. Head(Append(q, x)) = Append(q, x)[1] BY <1>1, HeadTailProperties
  <2>2. CASE q = <<>> BY <2>1, <2>2, <1>1, EmptySeq
  <2>3. CASE q # <<>>
    <3>1. Head(q) = q[1] /\ 1 \in 1..Len(q) BY <2>3, <1>1, HeadTailProperties, EmptySeq
    <3> QED BY <2>1, <2>3, <3>1, <1>1
  <2> QED BY <2>2, <2>3
<1> QED BY <1>1, <1>2

LEMMA TailFrames ==
  ASSUME NEW q \in Seq(Frame), q # <<>>
  PROVE  /\ Tail(q) \in Seq(Frame) /\ Head(q) \in Frame
         /\ Len(q) \in Nat \ {0} /\ DOMAIN q = 1..Len(q)
         /\ DOMAIN Tail(q) = 1..(Len(q) - 1) /\ Head(q) = q[1]
         /\ \A i \in 1..(Len(q) - 1) : Tail(q)[i] = q[i + 1]
BY HeadTailProperties, LenProperties, EmptySeq

LEMMA FrameParts == \A x \in Frame : x[1] \in {0, Rejection, EventType} /\ x[2] \in 0..MaxEvents
BY DEF Frame

\* A push goes behind the earlier ones, a Response behind whatever is there.
LEMMA AppendEvent ==
  ASSUME NEW q \in Seq(Frame), NEW from \in Nat, NEW to \in Nat, from <= to,
         NEW answer \in BOOLEAN, <<EventType, to + 1>> \in Frame,
         Sorted(q), Pending(q, from, to, answer)
  PROVE  /\ Sorted(Append(q, <<EventType, to + 1>>))
         /\ Pending(Append(q, <<EventType, to + 1>>), from, to + 1, answer)
<1> DEFINE x == <<EventType, to + 1>>
<1>1. /\ Len(q) \in Nat /\ DOMAIN q = 1..Len(q) /\ DOMAIN Append(q, x) = 1..(Len(q) + 1)
      /\ \A i \in 1..Len(q) : Append(q, x)[i] = q[i]
      /\ Append(q, x)[Len(q) + 1] = x
  BY AppendFrame
<1>2. \A i \in DOMAIN q : q[i][2] \in 0..to BY DEF Pending
<1>3. ASSUME NEW i \in DOMAIN Append(q, x), NEW j \in DOMAIN Append(q, x), i < j
      PROVE  IF Append(q, x)[j][2] = 0 THEN Append(q, x)[i][2] # 0
             ELSE Append(q, x)[i][2] < Append(q, x)[j][2]
  <2>1. i \in DOMAIN q /\ Append(q, x)[i] = q[i] BY <1>1, <1>3
  <2>2. CASE j \in DOMAIN q BY <1>1, <1>3, <2>1, <2>2 DEF Sorted
  <2>3. CASE j = Len(q) + 1
    <3>1. Append(q, x)[j][2] = to + 1 BY <1>1, <2>3
    <3>2. q[i][2] \in 0..to BY <1>2, <2>1
    <3> QED BY <2>1, <3>1, <3>2
  <2> QED BY <1>1, <2>2, <2>3
<1>4. ASSUME NEW i \in DOMAIN Append(q, x)
      PROVE  LET y == Append(q, x)[i] IN
             \/ y[1] = EventType /\ y[2] \in (from + 1)..(to + 1)
             \/ answer /\ y[1] # EventType /\ y[2] = 0
  <2>1. CASE i \in DOMAIN q
    <3>1. Append(q, x)[i] = q[i] BY <1>1, <2>1
    <3>2. \/ q[i][1] = EventType /\ q[i][2] \in (from + 1)..to
          \/ answer /\ q[i][1] # EventType /\ q[i][2] = 0
      BY <2>1 DEF Pending
    <3> QED BY <3>1, <3>2
  <2>2. CASE i = Len(q) + 1 BY <1>1, <2>2
  <2> QED BY <1>1, <2>1, <2>2
<1> QED BY <1>3, <1>4 DEF Sorted, Pending

LEMMA AppendResponse ==
  ASSUME NEW q \in Seq(Frame), NEW from \in Nat, NEW to \in Nat,
         NEW c \in {0, Rejection}, <<c, 0>> \in Frame,
         Sorted(q), Pending(q, from, to, FALSE)
  PROVE  Sorted(Append(q, <<c, 0>>)) /\ Pending(Append(q, <<c, 0>>), from, to, TRUE)
<1> DEFINE x == <<c, 0>>
<1>1. /\ Len(q) \in Nat /\ DOMAIN q = 1..Len(q) /\ DOMAIN Append(q, x) = 1..(Len(q) + 1)
      /\ \A i \in 1..Len(q) : Append(q, x)[i] = q[i]
      /\ Append(q, x)[Len(q) + 1] = x
  BY AppendFrame
<1>2. x[1] # EventType /\ x[2] = 0 BY DEF EventType, Rejection
<1>3. \A i \in DOMAIN q : q[i][1] = EventType /\ q[i][2] \in (from + 1)..to
  BY DEF Pending
<1>4. Sorted(Append(q, x)) BY <1>1, <1>2, <1>3 DEF Sorted
<1>5. Pending(Append(q, x), from, to, TRUE) BY <1>1, <1>2, <1>3 DEF Pending
<1> QED BY <1>4, <1>5

\* The Response that is read is the only one; the event that is read comes
\* before the others.
LEMMA TakeResponse ==
  ASSUME NEW q \in Seq(Frame), q # <<>>, NEW from \in Nat, NEW to \in Nat,
         NEW answer \in BOOLEAN, Sorted(q), Pending(q, from, to, answer), Head(q)[1] = 0
  PROVE  Sorted(Tail(q)) /\ Pending(Tail(q), from, to, FALSE)
<1>1. /\ Len(q) \in Nat \ {0} /\ DOMAIN q = 1..Len(q)
      /\ DOMAIN Tail(q) = 1..(Len(q) - 1) /\ Head(q) = q[1]
      /\ \A i \in 1..(Len(q) - 1) : Tail(q)[i] = q[i + 1]
  BY TailFrames
<1>2. q[1][2] = 0 /\ 1 \in DOMAIN q BY <1>1 DEF Pending, EventType
<1>3. \A i \in DOMAIN Tail(q) : q[i + 1][2] # 0 /\ i + 1 \in DOMAIN q
  BY <1>1, <1>2 DEF Sorted
<1>4. Sorted(Tail(q)) BY <1>1 DEF Sorted
<1>5. Pending(Tail(q), from, to, FALSE)
  <2> SUFFICES ASSUME NEW i \in DOMAIN Tail(q)
               PROVE  Tail(q)[i][1] = EventType /\ Tail(q)[i][2] \in (from + 1)..to
    BY DEF Pending
  <2>1. Tail(q)[i] = q[i + 1] BY <1>1
  <2>2. q[i + 1][1] = EventType /\ q[i + 1][2] \in (from + 1)..to
    BY <1>3 DEF Pending
  <2> QED BY <2>1, <2>2
<1> QED BY <1>4, <1>5

LEMMA TakeEvent ==
  ASSUME NEW q \in Seq(Frame), q # <<>>, NEW from \in Nat, NEW to \in Nat,
         Sorted(q), Pending(q, from, to, FALSE)
  PROVE  /\ Head(q)[2] \in (from + 1)..to /\ Sorted(Tail(q))
         /\ Pending(Tail(q), Head(q)[2], to, FALSE)
<1>1. /\ Len(q) \in Nat \ {0} /\ DOMAIN q = 1..Len(q)
      /\ DOMAIN Tail(q) = 1..(Len(q) - 1) /\ Head(q) = q[1]
      /\ \A i \in 1..(Len(q) - 1) : Tail(q)[i] = q[i + 1]
  BY TailFrames
<1>2. \A i \in DOMAIN q : q[i][1] = EventType /\ q[i][2] \in (from + 1)..to
  BY DEF Pending
<1>3. Sorted(Tail(q)) BY <1>1 DEF Sorted
<1>4. 1 \in DOMAIN q /\ Head(q)[2] \in (from + 1)..to BY <1>1, <1>2
<1>5. Pending(Tail(q), Head(q)[2], to, FALSE)
  <2> SUFFICES ASSUME NEW i \in DOMAIN Tail(q)
               PROVE  Tail(q)[i][1] = EventType /\ Tail(q)[i][2] \in (Head(q)[2] + 1)..to
    BY DEF Pending
  <2>1. Tail(q)[i] = q[i + 1] /\ i + 1 \in DOMAIN q /\ 1 < i + 1 BY <1>1
  <2>2. q[i + 1][1] = EventType /\ q[i + 1][2] \in (from + 1)..to BY <1>2, <2>1
  <2>3. q[1][2] < q[i + 1][2] BY <1>4, <2>1, <2>2 DEF Sorted
  <2> QED BY <1>1, <1>4, <2>1, <2>2, <2>3
<1> QED BY <1>3, <1>4, <1>5
-----------------------------------------------------------------------------
(* The steps by actor, with what each leaves alone                         *)

Subscribing == SubscribeLists \/ SubscribeStarts
Loop == RunLoop \/ ReadTimesOut
Calls == \/ \E t \in Callers : CancelCalls(t) \/ DisconnectCalls(t) \/ CancelRuns(t)
         \/ CallbackSubscribes
Serves == Handles \/ Responds \/ Pushes \/ HangsUp \/ Restarts \/ Silence
Opens == \E f \in Fds : ForeignOpens(f)

LEMMA Actors ==
  ASSUME [Next]_vars
  PROVE  Subscribing \/ Loop \/ Calls \/ Serves \/ Opens \/ UNCHANGED vars
BY DEF Next, Subscribing, Loop, Calls, Serves, Opens

LEMMA LoopFrame ==
  ASSUME Loop
  PROVE  UNCHANGED <<srvVars, canVars, foreign>>
BY DEF Loop, RunLoop, ReadTimesOut, Checks, ConnectFails, RequestOk, RequestFails,
       ResponseOk, ResponseRejects, ResponseFails, Rejected, BacksOff, Stores, LoopChecks,
       ReadOk, ReadEof, CallbackReturns, Unstores, Closes, Finishes, ConnectOk

LEMMA CallsFrame ==
  ASSUME Calls
  PROVE  /\ UNCHANGED <<runVars, file, srv, toClient, srvVars, foreign>>
         /\ \E t \in Callers, from \in Steps, to \in Steps : CGoto(t, from, to)
<1>1. CASE CallbackSubscribes
  <2>1. Self \in Callers BY DEF Callers
  <2> QED BY <1>1, <2>1 DEF CallbackSubscribes, Steps
<1>2. CASE \E t \in Callers : CancelCalls(t) \/ DisconnectCalls(t) \/ CancelRuns(t)
  <2> PICK t \in Callers : CancelCalls(t) \/ DisconnectCalls(t) \/ CancelRuns(t) BY <1>2
  <2>1. UNCHANGED <<runVars, file, srv, toClient, srvVars, foreign>>
    BY DEF CancelCalls, DisconnectCalls, CancelRuns, CancelLocks, CancelFlips, CancelTakes,
           CancelShuts, CancelReturns, DisconnectLocks, DisconnectFindsNothing,
           DisconnectClears, CallbackEnlists
  <2>2. \E from \in Steps, to \in Steps : CGoto(t, from, to)
    BY DEF CancelCalls, DisconnectCalls, CancelRuns, CancelLocks, CancelFlips, CancelTakes,
           CancelShuts, CancelReturns, DisconnectLocks, DisconnectFindsNothing,
           DisconnectClears, CallbackEnlists, Steps
  <2> QED BY <2>1, <2>2
<1> QED BY <1>1, <1>2 DEF Calls

LEMMA ServesFrame ==
  ASSUME Serves
  PROVE  UNCHANGED <<active, mfd, runVars, file, canVars, foreign>>
BY DEF Serves, Handles, Responds, Pushes, HangsUp, Restarts, Silence
-----------------------------------------------------------------------------
(* Types                                                                   *)

LEMMA TypeInit == Init => TypeOK
<1> USE SubscriptionConstants
<1> SUFFICES ASSUME Init PROVE TypeOK OBVIOUS
<1>1. toClient \in Seq({0, Rejection, EventType} \X (0..MaxEvents)) BY EmptySeq DEF Init
<1>2. /\ cfd \in [Callers -> (Fds \cup {-1}) \X {0, 1, Free}]
      /\ file \in [Fds -> {0, 1, Free, Foreign}]
  BY DEF Init
<1>3. cpc \in [Callers -> Steps] BY DEF Init, Steps
<1>4. /\ lock \in {{}} \cup {{t} : t \in Callers} /\ sub \in {{}} \cup {{t} : t \in Callers}
      /\ misshut \subseteq {0, 1, Foreign}
  BY DEF Init
<1>5. /\ pushed \in 0..MaxEvents /\ seen \in 0..MaxEvents /\ foreign \in 0..MaxForeign
      /\ conn \in {0, 1} /\ mfd \in Fds \cup {-1} /\ fd \in Fds \cup {-1}
  BY DEF Init
<1>6. /\ active \in BOOLEAN /\ up \in BOOLEAN /\ listening \in BOOLEAN /\ silent \in BOOLEAN
      /\ refused \in BOOLEAN /\ listed \in BOOLEAN /\ run \in Runs
      /\ srv \in {"none", "new", "requested", "subscribed", "serving", "refused"}
  BY DEF Init, Runs
<1> QED BY <1>1, <1>2, <1>3, <1>4, <1>5, <1>6 DEF TypeOK, Steps, Runs

LEMMA TypeLoop == TypeOK /\ Loop => TypeOK'
<1> USE SubscriptionConstants
<1> SUFFICES ASSUME TypeOK, Loop PROVE TypeOK' OBVIOUS
<1>1. UNCHANGED <<srvVars, canVars, foreign>> BY LoopFrame
<1>2. toClient' \in Seq(Frame) /\ seen' \in 0..MaxEvents
  <2>1. toClient \in Seq(Frame) /\ seen \in 0..MaxEvents BY DEF TypeOK, Frame
  <2>2. CASE UNCHANGED <<toClient, seen>> BY <2>1, <2>2
  <2>3. CASE toClient' = <<>> /\ seen' = seen BY <2>1, <2>3, EmptySeq
  <2>4. CASE ResponseOk BY <2>1, <2>4, TailFrames DEF ResponseOk
  <2>5. CASE ReadOk BY <2>1, <2>5, TailFrames, FrameParts DEF ReadOk
  <2> QED
    BY <2>2, <2>3, <2>4, <2>5
    DEF Loop, RunLoop, ReadTimesOut, Checks, ConnectFails, RequestOk, RequestFails,
        ResponseRejects, ResponseFails, Rejected, BacksOff, Stores, LoopChecks,
        ReadEof, CallbackReturns, Unstores, Closes, Finishes, ConnectOk, NetSame, CloseFd
<1>3. run' \in Runs
  BY DEF TypeOK, Runs, Step, Loop, RunLoop, ReadTimesOut, Checks, ConnectFails, RequestOk,
         RequestFails, ResponseOk, ResponseRejects, ResponseFails, Rejected, BacksOff, Stores,
         LoopChecks, ReadOk, ReadEof, CallbackReturns, Unstores, Closes, Finishes, ConnectOk
<1>4. active' \in BOOLEAN /\ up' \in BOOLEAN /\ mfd' \in Fds \cup {-1}
      /\ srv' \in {"none", "new", "requested", "subscribed", "serving", "refused"}
  BY DEF TypeOK, Loop, RunLoop, ReadTimesOut, Checks, ConnectFails, RequestOk,
         RequestFails, ResponseOk, ResponseRejects, ResponseFails, Rejected, BacksOff, Stores,
         LoopChecks, ReadOk, ReadEof, CallbackReturns, Unstores, Closes, Finishes, ConnectOk,
         NetSame, CloseFd
<1>5. fd' \in Fds \cup {-1} /\ conn' \in {0, 1} /\ file' \in [Fds -> {0, 1, Free, Foreign}]
  <2>1. fd \in Fds \cup {-1} /\ conn \in {0, 1} /\ file \in [Fds -> {0, 1, Free, Foreign}]
    BY DEF TypeOK
  <2>2. CASE UNCHANGED <<fd, conn, file>> BY <2>1, <2>2
  <2>3. CASE CloseFd /\ UNCHANGED conn BY <2>1, <2>3 DEF CloseFd
  <2>4. CASE \E f \in Fds : ConnectOk(f) BY <2>1, <2>4 DEF ConnectOk
  <2> QED
    BY <2>2, <2>3, <2>4
    DEF Loop, RunLoop, ReadTimesOut, Checks, ConnectFails, RequestOk, RequestFails,
        ResponseOk, ResponseRejects, ResponseFails, Rejected, BacksOff, Stores, LoopChecks,
        ReadOk, ReadEof, CallbackReturns, Unstores, Closes, Finishes, NetSame
<1> QED BY <1>1, <1>2, <1>3, <1>4, <1>5 DEF TypeOK, Frame, Runs

LEMMA TypeCalls == TypeOK /\ Descriptor /\ Flipped /\ Calls => TypeOK'
<1> USE SubscriptionConstants
<1> SUFFICES ASSUME TypeOK, Descriptor, Flipped, Calls PROVE TypeOK' OBVIOUS
<1>1. UNCHANGED <<runVars, file, srv, toClient, srvVars, foreign>> BY CallsFrame
<1>2. cpc' \in [Callers -> Steps] BY CallsFrame, ZenonT(60) DEF TypeOK, Steps, CGoto
<1>3. CASE CallbackSubscribes
  BY <1>1, <1>2, <1>3 DEF CallbackSubscribes, TypeOK, Steps
<1>4. ASSUME NEW t \in Callers, CancelCalls(t) \/ DisconnectCalls(t) \/ CancelRuns(t)
      PROVE  TypeOK'
  <2>1. active' \in BOOLEAN /\ up' \in BOOLEAN /\ mfd' \in Fds \cup {-1} /\ listed' \in BOOLEAN
    BY <1>4 DEF TypeOK, CancelCalls, DisconnectCalls, CancelRuns, CancelLocks, CancelFlips,
         CancelTakes, CancelShuts, CancelReturns, DisconnectLocks, DisconnectFindsNothing,
         DisconnectClears, CallbackEnlists
  <2>2. lock' \in {{}} \cup {{s} : s \in Callers} /\ sub' \in {{}} \cup {{s} : s \in Callers}
    <3>1. lock \in {{}} \cup {{s} : s \in Callers} /\ sub \in {{}} \cup {{s} : s \in Callers}
      BY DEF TypeOK
    <3>2. sub \ {Self} \in {{}} \cup {{s} : s \in Callers} BY <3>1
    <3>3. lock = {} => lock \cup {t} = {t} OBVIOUS
    <3> QED
      BY <1>4, <3>1, <3>2, <3>3 DEF CancelCalls, DisconnectCalls, CancelRuns, CancelLocks,
         CancelFlips, CancelTakes, CancelShuts, CancelReturns, DisconnectLocks,
         DisconnectFindsNothing, DisconnectClears, CallbackEnlists
  <2>3. cfd' \in [Callers -> (Fds \cup {-1}) \X {0, 1, Free}]
    <3>1. cfd \in [Callers -> (Fds \cup {-1}) \X {0, 1, Free}] BY DEF TypeOK
    <3>2. CASE CancelTakes(t)
      <4>1. (IF mfd = -1 THEN <<-1, Free>> ELSE <<mfd, file[mfd]>>)
              \in (Fds \cup {-1}) \X {0, 1, Free}
        BY DEF TypeOK, Descriptor, Looping, Open
      <4> QED BY <3>1, <3>2, <4>1 DEF CancelTakes
    <3>3. CASE UNCHANGED cfd BY <3>1, <3>3
    <3> QED
      BY <1>4, <3>2, <3>3 DEF CancelCalls, DisconnectCalls, CancelRuns, CancelLocks,
         CancelFlips, CancelShuts, CancelReturns, DisconnectLocks,
         DisconnectFindsNothing, DisconnectClears, CallbackEnlists
  <2>4. CASE UNCHANGED misshut
    BY <1>1, <1>2, <2>1, <2>2, <2>3, <2>4 DEF TypeOK, Steps
  <2>5. CASE CancelShuts(t)
    <3>1. cfd[t][1] \in Fds BY <2>5 DEF CancelShuts, CGoto, Flipped
    <3>2. file[cfd[t][1]] \in {0, 1, Free, Foreign} BY <3>1 DEF TypeOK
    <3>3. misshut' \subseteq {0, 1, Foreign} BY <2>5, <3>2 DEF CancelShuts, TypeOK
    <3> QED BY <1>1, <1>2, <2>1, <2>2, <2>3, <3>3 DEF TypeOK, Steps
  <2> QED
    BY <1>4, <2>4, <2>5 DEF CancelCalls, DisconnectCalls, CancelRuns, CancelLocks,
       CancelFlips, CancelTakes, CancelReturns, DisconnectLocks,
       DisconnectFindsNothing, DisconnectClears, CallbackEnlists
<1> QED BY <1>3, <1>4 DEF Calls

LEMMA TypeServes == TypeOK /\ Serves => TypeOK'
<1> USE SubscriptionConstants
<1> SUFFICES ASSUME TypeOK, Serves PROVE TypeOK' OBVIOUS
<1>1. UNCHANGED <<active, mfd, runVars, file, canVars, foreign>> BY ServesFrame
<1>2. pushed' \in 0..MaxEvents
  <2>1. pushed \in 0..MaxEvents BY DEF TypeOK
  <2>2. CASE Pushes BY <2>1, <2>2 DEF Pushes
  <2>3. CASE UNCHANGED pushed BY <2>1, <2>3
  <2> QED BY <2>2, <2>3 DEF Serves, Handles, Responds, HangsUp, Restarts, Silence
<1>3. toClient' \in Seq(Frame)
  <2>1. toClient \in Seq(Frame) BY DEF TypeOK, Frame
  <2>2. CASE UNCHANGED toClient BY <2>1, <2>2
  <2>3. CASE \E x \in Frame : toClient' = Append(toClient, x) BY <2>1, <2>3, AppendFrame
  <2>4. <<Rejection, 0>> \in Frame /\ <<0, 0>> \in Frame BY DEF Frame
  <2>5. Pushes => <<EventType, pushed'>> \in Frame BY <1>2 DEF Frame
  <2> QED BY <2>2, <2>3, <2>4, <2>5 DEF Serves, Handles, Responds, Pushes, HangsUp,
             Restarts, Silence
<1>4. /\ up' \in BOOLEAN /\ listening' \in BOOLEAN /\ silent' \in BOOLEAN
      /\ refused' \in BOOLEAN
      /\ srv' \in {"none", "new", "requested", "subscribed", "serving", "refused"}
  BY DEF TypeOK, Serves, Handles, Responds, Pushes, HangsUp, Restarts, Silence
<1> QED BY <1>1, <1>2, <1>3, <1>4 DEF TypeOK, Frame

LEMMA TypeStep == TypeOK /\ Descriptor /\ Flipped /\ [Next]_vars => TypeOK'
<1> USE SubscriptionConstants
<1>1. TypeOK /\ Subscribing => TypeOK'
  <2> SUFFICES ASSUME TypeOK, Subscribing PROVE TypeOK' OBVIOUS
  <2>1. run' \in Runs /\ listed' \in BOOLEAN
    BY DEF TypeOK, Subscribing, SubscribeLists, SubscribeStarts, Step, Runs
  <2>2. UNCHANGED <<active, mfd, fd, conn, seen, file, netVars, srvVars, lock, cpc, cfd,
                    misshut, sub, foreign>>
    BY DEF Subscribing, SubscribeLists, SubscribeStarts
  <2> QED BY <2>1, <2>2 DEF TypeOK, Runs
<1>2. TypeOK /\ Opens => TypeOK'
  <2> SUFFICES ASSUME TypeOK, NEW f \in Fds, ForeignOpens(f) PROVE TypeOK' BY DEF Opens
  <2>1. foreign' \in 0..MaxForeign BY DEF TypeOK, ForeignOpens
  <2>2. file' \in [Fds -> {0, 1, Free, Foreign}] BY DEF TypeOK, ForeignOpens
  <2> QED BY <2>1, <2>2 DEF TypeOK, ForeignOpens
<1>3. TypeOK /\ UNCHANGED vars => TypeOK' BY DEF TypeOK, vars
<1> QED BY <1>1, <1>2, <1>3, Actors, TypeLoop, TypeCalls, TypeServes
-----------------------------------------------------------------------------
(* One descriptor, the one runLoop holds                                   *)

LEMMA DescriptorStep ==
  TypeOK /\ Descriptor /\ Flipped /\ [Next]_vars => Descriptor'
<1> USE SubscriptionConstants DEF Open, Looping
<1> SUFFICES ASSUME TypeOK, Descriptor, [Next]_vars PROVE Descriptor' OBVIOUS
<1>0. mfd \in Fds \cup {-1} /\ fd \in Fds \cup {-1} /\ conn \in {0, 1}
      /\ file \in [Fds -> {0, 1, Free, Foreign}] /\ run \in Runs
  BY DEF TypeOK, Runs
<1>1. CASE Subscribing
  BY <1>1 DEF Descriptor, Subscribing, SubscribeLists, SubscribeStarts, Step
<1>2. CASE Loop
  <2>1. CASE \E f \in Fds : ConnectOk(f)
    BY <1>0, <2>1 DEF Descriptor, ConnectOk, Step
  <2>2. CASE RequestFails \/ ResponseRejects \/ ResponseFails \/ Closes
    BY <2>2 DEF Descriptor, RequestFails, ResponseRejects, ResponseFails, Closes, CloseFd, Step
  <2>3. CASE Stores \/ Unstores
    BY <2>3 DEF Descriptor, Stores, Unstores, NetSame, Step
  <2>4. CASE Checks \/ ConnectFails \/ RequestOk \/ ResponseOk \/ Rejected \/ BacksOff
             \/ LoopChecks \/ ReadOk \/ ReadEof \/ ReadTimesOut \/ CallbackReturns \/ Finishes
    <3>1. UNCHANGED <<mfd, fd, conn, file>>
      BY <2>4 DEF Checks, ConnectFails, RequestOk, ResponseOk, Rejected, BacksOff, LoopChecks,
                  ReadOk, ReadEof, ReadTimesOut, CallbackReturns, Finishes, NetSame
    <3>2. (run \in Open <=> run' \in Open) /\ (run \in Looping => run' \in Looping)
      BY <2>4 DEF Checks, ConnectFails, RequestOk, ResponseOk, Rejected, BacksOff, LoopChecks,
                  ReadOk, ReadEof, ReadTimesOut, CallbackReturns, Finishes, Step
    <3> QED BY <3>1, <3>2 DEF Descriptor
  <2> QED BY <1>2, <2>1, <2>2, <2>3, <2>4 DEF Loop, RunLoop
<1>3. CASE Calls
  <2>1. UNCHANGED <<run, fd, conn, file>> BY <1>3, CallsFrame
  <2>2. mfd' = mfd \/ mfd' = -1
    BY <1>3 DEF Calls, CallbackSubscribes, CancelCalls, DisconnectCalls, CancelRuns, CancelLocks,
         CancelFlips, CancelTakes, CancelShuts, CancelReturns, DisconnectLocks,
         DisconnectFindsNothing, DisconnectClears, CallbackEnlists
  <2> QED BY <2>1, <2>2 DEF Descriptor
<1>4. CASE Serves BY <1>4, ServesFrame DEF Descriptor
<1>5. CASE Opens BY <1>0, <1>5, ZenonT(60) DEF Opens, ForeignOpens, Descriptor
<1>6. CASE UNCHANGED vars BY <1>6 DEF Descriptor, vars
<1> QED BY <1>1, <1>2, <1>3, <1>4, <1>5, <1>6, Actors

LEMMA NoLeakStep ==
  TypeOK /\ Descriptor /\ NoDescriptorLeak /\ [Next]_vars => NoDescriptorLeak'
<1> USE SubscriptionConstants
<1> SUFFICES ASSUME TypeOK, Descriptor, NoDescriptorLeak, [Next]_vars
             PROVE  NoDescriptorLeak' OBVIOUS
<1>0. fd \in Fds \cup {-1} /\ conn \in {0, 1} /\ file \in [Fds -> {0, 1, Free, Foreign}]
  BY DEF TypeOK
<1>1. CASE UNCHANGED <<fd, conn, file>> BY <1>1 DEF NoDescriptorLeak
<1>2. CASE CloseFd /\ conn' = conn /\ fd \in Fds
  BY <1>0, <1>2 DEF NoDescriptorLeak, CloseFd
<1>3. CASE \E f \in Fds : ConnectOk(f)
  <2> PICK f \in Fds : ConnectOk(f) BY <1>3
  <2>1. fd = -1 BY DEF ConnectOk, Step, Descriptor, Open
  <2> QED BY <1>0, <2>1 DEF NoDescriptorLeak, ConnectOk
<1>4. CASE Opens BY <1>0, <1>4 DEF NoDescriptorLeak, Opens, ForeignOpens
<1>5. Loop => UNCHANGED <<fd, conn, file>> \/ (CloseFd /\ conn' = conn /\ fd \in Fds)
              \/ \E f \in Fds : ConnectOk(f)
  BY DEF Descriptor, Open, Loop, RunLoop, ReadTimesOut, Checks, ConnectFails, RequestOk,
         RequestFails, ResponseOk, ResponseRejects, ResponseFails, Rejected, BacksOff, Stores,
         LoopChecks, ReadOk, ReadEof, CallbackReturns, Unstores, Closes, Finishes, NetSame, Step
<1>6. Subscribing \/ Calls \/ Serves \/ UNCHANGED vars => UNCHANGED <<fd, conn, file>>
  BY CallsFrame, ServesFrame DEF Subscribing, SubscribeLists, SubscribeStarts, vars
<1> QED BY <1>1, <1>2, <1>3, <1>4, <1>5, <1>6, Actors
-----------------------------------------------------------------------------
(* cancel()                                                                *)

\* What a step of runLoop does to m_active, and where it goes when that is false.
LEMMA LoopActive ==
  ASSUME Descriptor, Loop
  PROVE  /\ active' = active \/ active' = FALSE
         /\ run \in Looping \cup {"close", "test", "finish", "exited"} /\ ~active
              => /\ run' \in Looping \cup {"close", "test", "finish", "exited"}
                 /\ conn' = conn
<1> USE DEF Looping
<1>1. active' = active \/ active' = FALSE
  BY DEF Loop, RunLoop, ReadTimesOut, Checks, ConnectFails, RequestOk, RequestFails,
       ResponseOk, ResponseRejects, ResponseFails, Rejected, BacksOff, Stores, LoopChecks,
       ReadOk, ReadEof, CallbackReturns, Unstores, Closes, Finishes, ConnectOk
<1>2. run \in Looping \cup {"close", "test", "finish", "exited"} /\ ~active
        => /\ run' \in Looping \cup {"close", "test", "finish", "exited"}
           /\ conn' = conn
  BY DEF Loop, RunLoop, ReadTimesOut, Checks, ConnectFails, RequestOk, RequestFails,
       ResponseOk, ResponseRejects, ResponseFails, Rejected, BacksOff, Stores, LoopChecks,
       ReadOk, ReadEof, CallbackReturns, Unstores, Closes, Finishes, ConnectOk, Step
<1> QED BY <1>1, <1>2

LEMMA FlippedStep ==
  TypeOK /\ Descriptor /\ Flipped /\ [Next]_vars => Flipped'
<1> USE SubscriptionConstants DEF Looping
<1> SUFFICES ASSUME TypeOK, Descriptor, Flipped, [Next]_vars PROVE Flipped' OBVIOUS
<1>0. cpc \in [Callers -> Steps] /\ cfd \in [Callers -> (Fds \cup {-1}) \X {0, 1, Free}]
      /\ mfd \in Fds \cup {-1}
  BY DEF TypeOK, Steps
<1>1. CASE Loop
  <2>1. UNCHANGED <<cpc, cfd>> BY <1>1, LoopFrame
  <2>2. active' = active \/ active' = FALSE BY <1>1, LoopActive
  <2>3. ASSUME NEW t \in Callers, cpc[t] = "shut"
        PROVE  conn' = conn /\ run' \in Looping \cup {"close", "test", "finish", "exited"}
    BY <1>1, <2>3, LoopActive DEF Flipped
  <2> QED BY <2>1, <2>2, <2>3 DEF Flipped
<1>2. CASE Calls
  <2>1. UNCHANGED <<run, fd, conn, file>> BY <1>2, CallsFrame
  <2>2. CASE CallbackSubscribes
    <3>1. cpc' = [cpc EXCEPT ![Self] = "enlist"] /\ UNCHANGED <<active, cfd>>
      BY <2>2 DEF CallbackSubscribes, CGoto
    <3> QED BY <1>0, <2>1, <3>1 DEF Flipped
  <2>3. ASSUME NEW t \in Callers, CancelCalls(t) \/ DisconnectCalls(t) \/ CancelRuns(t)
        PROVE  Flipped'
    <3>1. CASE CancelTakes(t)
      <4>1. ASSUME mfd # -1
            PROVE  run \in Looping /\ mfd \in Fds /\ file[mfd] = conn
        BY <1>0, <4>1 DEF Descriptor, Open
      <4>2. ASSUME NEW u \in Callers, u # t
            PROVE  cpc'[u] = cpc[u] /\ cfd'[u] = cfd[u]
        BY <1>0, <3>1, <4>2 DEF CancelTakes, CGoto
      <4>3. cpc[t] = "take" /\ cpc'[t] = (IF mfd = -1 THEN "join" ELSE "shut")
            /\ active' = active
            /\ cfd'[t] = (IF mfd = -1 THEN <<-1, Free>> ELSE <<mfd, file[mfd]>>)
        BY <1>0, <3>1 DEF CancelTakes, CGoto
      <4>4. ~active BY <4>3 DEF Flipped
      <4> QED BY <2>1, <4>1, <4>2, <4>3, <4>4 DEF Flipped
    <3>2. CASE CancelFlips(t)
      <4>1. active' = FALSE /\ cfd' = cfd BY <3>2 DEF CancelFlips
      <4>2. \A u \in Callers : cpc'[u] = "shut" => cpc[u] = "shut"
        BY <1>0, <3>2 DEF CancelFlips, CGoto
      <4> QED BY <2>1, <4>1, <4>2 DEF Flipped
    <3>3. CASE CancelShuts(t) \/ CancelReturns(t) \/ DisconnectClears(t)
      <4>1. cpc[t] \in {"shut", "join", "clear"} /\ UNCHANGED <<active, cfd>>
            /\ \E to \in {"join", "clear", "returned"} : cpc' = [cpc EXCEPT ![t] = to]
        BY <3>3 DEF CancelShuts, CancelReturns, DisconnectClears, CGoto
      <4> QED BY <1>0, <2>1, <4>1 DEF Flipped
    <3>4. CASE CancelCalls(t) \/ DisconnectCalls(t) \/ CancelLocks(t) \/ DisconnectLocks(t)
               \/ DisconnectFindsNothing(t) \/ (t = Self /\ CallbackEnlists)
      <4>1. UNCHANGED <<active, cfd>>
            /\ \E to \in {"idle", "lock", "flip", "sub", "enlisted"} :
                 cpc' = [cpc EXCEPT ![t] = to]
        BY <3>4 DEF CancelCalls, DisconnectCalls, CancelLocks, DisconnectLocks,
             DisconnectFindsNothing, CallbackEnlists, CGoto
      <4> QED BY <1>0, <2>1, <4>1 DEF Flipped
    <3> QED BY <2>3, <3>1, <3>2, <3>3, <3>4 DEF CancelRuns
  <2> QED BY <1>2, <2>2, <2>3 DEF Calls
<1>3. CASE Subscribing
  BY <1>3 DEF Subscribing, SubscribeLists, SubscribeStarts, Step, Flipped
<1>4. CASE Serves BY <1>4, ServesFrame DEF Flipped
<1>5. CASE Opens BY <1>5 DEF Opens, ForeignOpens, Flipped
<1>6. CASE UNCHANGED vars BY <1>6 DEF vars, Flipped
<1> QED BY <1>1, <1>2, <1>3, <1>4, <1>5, <1>6, Actors

\* At the shutdown the number taken from m_fd is still the last connection, or
\* runLoop has closed it and nobody or another file has it.
LEMMA ShutsStep ==
  TypeOK /\ Flipped /\ NoDescriptorLeak /\ ShutsNoLaterConnection /\ [Next]_vars
    => ShutsNoLaterConnection'
<1> USE SubscriptionConstants
<1> SUFFICES ASSUME TypeOK, Flipped, NoDescriptorLeak, ShutsNoLaterConnection, [Next]_vars
             PROVE  ShutsNoLaterConnection' OBVIOUS
<1>1. CASE UNCHANGED misshut BY <1>1 DEF ShutsNoLaterConnection
<1>2. ASSUME NEW t \in Callers, CancelShuts(t) PROVE ShutsNoLaterConnection'
  <2>1. cfd[t][1] \in Fds /\ cfd[t][2] = conn BY <1>2 DEF CancelShuts, CGoto, Flipped
  <2>2. file[cfd[t][1]] \in {conn, Free, Foreign} BY <2>1 DEF TypeOK, NoDescriptorLeak
  <2> QED BY <1>2, <2>1, <2>2 DEF CancelShuts, ShutsNoLaterConnection
<1>3. Calls => UNCHANGED misshut \/ \E t \in Callers : CancelShuts(t)
  BY DEF Calls, CallbackSubscribes, CancelCalls, DisconnectCalls, CancelRuns, CancelLocks,
         CancelFlips, CancelTakes, CancelReturns, DisconnectLocks,
         DisconnectFindsNothing, DisconnectClears, CallbackEnlists
<1>4. Subscribing \/ Loop \/ Serves \/ Opens \/ UNCHANGED vars => UNCHANGED misshut
  BY LoopFrame, ServesFrame DEF Subscribing, SubscribeLists, SubscribeStarts, Opens,
       ForeignOpens, vars
<1> QED BY <1>1, <1>2, <1>3, <1>4, Actors

LEMMA StartedStep ==
  TypeOK /\ Flipped /\ Started /\ [Next]_vars => Started'
<1> USE SubscriptionConstants
<1> SUFFICES ASSUME TypeOK, Flipped, Started, [Next]_vars PROVE Started' OBVIOUS
<1>0. cpc \in [Callers -> Steps] BY DEF TypeOK, Steps
<1>1. CASE Loop
  <2>1. UNCHANGED <<cpc, listed>> BY <1>1, LoopFrame
  <2>2. /\ ~Unstarted /\ run' \notin {"new", "listed"} /\ run # "exited"
        /\ run = "top" /\ ~active => run' = "finish"
        /\ run = "finish" => run' = "exited"
    BY <1>1 DEF Unstarted, Loop, RunLoop, ReadTimesOut, Checks, ConnectFails, RequestOk,
       RequestFails, ResponseOk, ResponseRejects, ResponseFails, Rejected, BacksOff, Stores,
       LoopChecks, ReadOk, ReadEof, CallbackReturns, Unstores, Closes, Finishes, ConnectOk, Step
  <2>3. \A t \in Disconnecters : cpc[t] \in {"clear", "returned"} => ~active
    BY DEF Flipped, Callers
  <2> QED BY <2>1, <2>2, <2>3 DEF Started, Unstarted
<1>2. CASE Calls
  <2>1. run' = run BY <1>2, CallsFrame
  <2>2. CASE CallbackSubscribes
    <3>1. listed' = listed /\ \A u \in Callers \ {Self} : cpc'[u] = cpc[u]
      BY <1>0, <2>2 DEF CallbackSubscribes, CGoto
    <3> QED BY <2>1, <3>1 DEF Started, Unstarted, Callers, Self
  <2>3. ASSUME NEW t \in Callers, CancelCalls(t) \/ DisconnectCalls(t) \/ CancelRuns(t)
        PROVE  Started'
    <3>1. \A u \in Callers : u # t => cpc'[u] = cpc[u]
      BY <1>0, <2>3 DEF CancelCalls, DisconnectCalls, CancelRuns, CancelLocks, CancelFlips,
         CancelTakes, CancelShuts, CancelReturns, DisconnectLocks, DisconnectFindsNothing,
         DisconnectClears, CallbackEnlists, CGoto
    <3>2. listed' => listed
      BY <2>3 DEF CancelCalls, DisconnectCalls, CancelRuns, CancelLocks, CancelFlips,
         CancelTakes, CancelShuts, CancelReturns, DisconnectLocks, DisconnectFindsNothing,
         DisconnectClears, CallbackEnlists
    <3>3. ASSUME t \in Cancellers
          PROVE  /\ cpc'[t] # "idle" => ~Unstarted
                 /\ cpc'[t] \in {"clear", "returned"} => run = "exited"
      <4>1. t # Self /\ t \notin Disconnecters BY <3>3 DEF Self
      <4>2. CASE CancelCalls(t) BY <1>0, <4>1, <4>2 DEF CancelCalls, CGoto
      <4>3. CASE CancelReturns(t)
        <5>1. cpc[t] = "join" BY <4>3 DEF CancelReturns, CGoto
        <5>2. ~Unstarted BY <3>3, <5>1 DEF Started
        <5> QED BY <4>1, <4>3, <5>2 DEF CancelReturns
      <4>4. CASE cpc[t] # "idle"
                 /\ (cpc'[t] \in {"clear", "returned"} => cpc[t] \in {"clear", "returned"})
        BY <3>3, <4>4 DEF Started
      <4> QED
        BY <1>0, <2>3, <4>1, <4>2, <4>3, <4>4 DEF DisconnectCalls, CancelRuns, CancelLocks,
           CancelFlips, CancelTakes, CancelShuts, DisconnectLocks, DisconnectFindsNothing,
           DisconnectClears, CallbackEnlists, CGoto
    <3>4. ASSUME t \in Disconnecters
          PROVE  /\ cpc'[t] \notin {"idle", "sub"} => run # "new"
                 /\ cpc'[t] \in {"clear", "returned"}
                      => run \in {"listed", "top", "finish", "exited"}
      <4>1. t # Self /\ t \notin Cancellers BY <3>4 DEF Self
      <4>2. CASE DisconnectLocks(t) BY <1>0, <4>2 DEF DisconnectLocks, CGoto, Started
      <4>3. CASE CancelReturns(t)
        <5>1. cpc[t] = "join" BY <4>3 DEF CancelReturns, CGoto
        <5>2. run # "new" BY <3>4, <5>1 DEF Started
        <5> QED BY <4>1, <4>3, <5>2 DEF CancelReturns, Unstarted
      <4>4. CASE cpc'[t] \in {"idle", "sub"} BY <4>4
      <4>5. CASE /\ cpc[t] \notin {"idle", "sub"}
                 /\ cpc'[t] \in {"clear", "returned"} => cpc[t] \in {"clear", "returned"}
        BY <3>4, <4>5 DEF Started
      <4> QED
        BY <1>0, <2>3, <4>1, <4>2, <4>3, <4>4, <4>5 DEF CancelCalls, DisconnectCalls,
           CancelRuns, CancelLocks, CancelFlips, CancelTakes, CancelShuts,
           DisconnectFindsNothing, DisconnectClears, CallbackEnlists, CGoto
    <3> QED BY <2>1, <3>1, <3>2, <3>3, <3>4 DEF Started, Unstarted, Callers
  <2> QED BY <1>2, <2>2, <2>3 DEF Calls
<1>3. CASE Subscribing
  <2>1. cpc' = cpc /\ run' # "new" /\ run \in {"new", "listed"}
        /\ (run = "listed" => run' = "top")
    BY <1>3 DEF Subscribing, SubscribeLists, SubscribeStarts, Step
  <2> QED BY <2>1 DEF Started, Unstarted
<1>4. CASE Serves BY <1>4, ServesFrame DEF Started, Unstarted
<1>5. CASE Opens BY <1>5 DEF Opens, ForeignOpens, Started, Unstarted
<1>6. CASE UNCHANGED vars BY <1>6 DEF vars, Started, Unstarted
<1> QED BY <1>1, <1>2, <1>3, <1>4, <1>5, <1>6, Actors
-----------------------------------------------------------------------------
(* Frames                                                                  *)

LEMMA OrderedLoop == TypeOK /\ Ordered /\ Loop => Ordered'
<1> USE SubscriptionConstants DEF Open
<1> SUFFICES ASSUME TypeOK, Ordered, Loop PROVE Ordered' OBVIOUS
<1>0. toClient \in Seq(Frame) /\ seen \in Nat /\ pushed \in Nat /\ run \in Runs
      /\ UNCHANGED pushed
  BY LoopFrame DEF TypeOK, Frame, Runs
<1>1. CASE ResponseOk
  <2>1. /\ toClient # <<>> /\ Head(toClient)[1] = 0 /\ toClient' = Tail(toClient)
        /\ run = "response" /\ run' = "store" /\ UNCHANGED <<seen, srv>>
    BY <1>1 DEF ResponseOk, Step
  <2>2. Sorted(Tail(toClient)) /\ Pending(Tail(toClient), seen, pushed, FALSE)
    BY <1>0, <2>1, TakeResponse DEF Ordered
  <2>3. Answered
    <3>1. 1 \in DOMAIN toClient /\ toClient[1] = Head(toClient)
      BY <1>0, <2>1, TailFrames
    <3> QED BY <2>1, <3>1 DEF Ordered, Pending, EventType
  <2> QED BY <1>0, <2>1, <2>2, <2>3 DEF Ordered, Answered
<1>2. CASE ReadOk
  <2>1. /\ toClient # <<>> /\ seen' = Head(toClient)[2] /\ toClient' = Tail(toClient)
        /\ run = "read" /\ run' = "callback" /\ UNCHANGED srv
    BY <1>2 DEF ReadOk, Step
  <2>2. Sorted(toClient) /\ Pending(toClient, seen, pushed, FALSE) /\ Answered
    BY <2>1 DEF Ordered
  <2>3. /\ seen' \in (seen + 1)..pushed /\ Sorted(toClient')
        /\ Pending(toClient', seen', pushed, FALSE)
    BY <1>0, <2>1, <2>2, TakeEvent
  <2>4. seen' <= pushed BY <1>0, <2>3
  <2>5. Pending(toClient', seen', pushed', Answered' /\ run' = "response")
    BY <1>0, <2>1, <2>3 DEF Pending
  <2>6. Answered' BY <2>1, <2>2 DEF Answered
  <2> QED BY <1>0, <2>1, <2>3, <2>4, <2>5, <2>6 DEF Ordered
<1>3. CASE /\ toClient' = <<>> /\ seen' = seen
           /\ \/ srv' = "none" /\ run' \notin Open
              \/ srv' = "new" /\ run' = "request"
  <2>1. DOMAIN <<>> = {} OBVIOUS
  <2>2. Sorted(<<>>) /\ Pending(<<>>, seen, pushed, FALSE) BY <2>1 DEF Sorted, Pending
  <2> QED BY <1>0, <1>3, <2>2 DEF Ordered, Answered
<1>4. CASE RequestOk
  <2>1. toClient = <<>> /\ toClient' = <<>> /\ seen' = seen
        /\ run' = "response" /\ srv' = "requested"
    BY <1>4 DEF RequestOk, Step, Ordered
  <2>2. Pending(<<>>, seen, pushed, FALSE) /\ Sorted(<<>>) BY DEF Pending, Sorted
  <2> QED BY <1>0, <2>1, <2>2 DEF Ordered, Answered
<1>5. CASE /\ UNCHANGED <<toClient, seen, srv>>
           /\ \/ run \notin Open /\ run' \notin Open
              \/ run \in Open \ {"request", "response"} /\ run' \in Open \ {"request", "response"}
  BY <1>0, <1>5 DEF Ordered, Answered
<1>6. CASE Checks \/ ConnectFails \/ Rejected \/ BacksOff \/ Finishes
  BY <1>5, <1>6 DEF Checks, ConnectFails, Rejected, BacksOff, Finishes, Step, NetSame
<1>7. CASE Stores \/ LoopChecks \/ ReadEof \/ ReadTimesOut \/ CallbackReturns \/ Unstores
  BY <1>5, <1>7 DEF Stores, LoopChecks, ReadEof, ReadTimesOut, CallbackReturns, Unstores,
       Step, NetSame
<1>8. CASE RequestFails \/ ResponseRejects \/ ResponseFails \/ Closes
  BY <1>3, <1>8 DEF RequestFails, ResponseRejects, ResponseFails, Closes, CloseFd, Step
<1>9. CASE \E f \in Fds : ConnectOk(f) BY <1>3, <1>9 DEF ConnectOk, Step
<1> QED BY <1>1, <1>2, <1>4, <1>6, <1>7, <1>8, <1>9 DEF Loop, RunLoop

LEMMA OrderedServes == TypeOK /\ Ordered /\ Serves => Ordered'
<1> USE SubscriptionConstants DEF Open
<1> SUFFICES ASSUME TypeOK, Ordered, Serves PROVE Ordered' OBVIOUS
<1>0. toClient \in Seq(Frame) /\ seen \in Nat /\ pushed \in 0..MaxEvents /\ run \in Runs
      /\ UNCHANGED <<seen, run>>
  BY ServesFrame DEF TypeOK, Frame, Runs
<1>1. CASE /\ UNCHANGED <<toClient, pushed>>
           /\ \/ srv' = srv
              \/ srv = "requested" /\ srv' = "subscribed"
  BY <1>0, <1>1 DEF Ordered, Answered
<1>2. ASSUME NEW c \in {0, Rejection}, toClient' = Append(toClient, <<c, 0>>),
             srv \in {"requested", "subscribed"}, srv' \in {"refused", "serving"},
             pushed' = pushed
      PROVE  Ordered'
  <2>1. run = "response" /\ ~Answered BY <1>0, <1>2 DEF Ordered, Answered
  <2>2. Sorted(toClient) /\ Pending(toClient, seen, pushed, FALSE) BY <2>1 DEF Ordered
  <2>3. <<c, 0>> \in Frame /\ pushed \in Nat BY <1>0 DEF Frame
  <2>4. Sorted(toClient') /\ Pending(toClient', seen, pushed, TRUE)
    BY <1>0, <1>2, <2>2, <2>3, AppendResponse
  <2> QED BY <1>0, <1>2, <2>1, <2>4 DEF Ordered, Answered
<1>3. CASE Pushes
  <2> DEFINE answer == Answered /\ run = "response"
  <2>1. /\ pushed < MaxEvents /\ pushed' = pushed + 1 /\ srv' = srv
        /\ srv \in {"serving", "subscribed"} /\ toClient' = Append(toClient, <<EventType, pushed + 1>>)
    BY <1>3 DEF Pushes
  <2>2. pushed \in Nat /\ <<EventType, pushed + 1>> \in Frame /\ seen <= pushed
    BY <1>0, <2>1 DEF Frame, Ordered
  <2>3. answer \in BOOLEAN /\ Sorted(toClient) /\ Pending(toClient, seen, pushed, answer)
    BY DEF Ordered, Answered
  <2> HIDE DEF answer
  <2>4. Sorted(toClient') /\ Pending(toClient', seen, pushed', answer)
    BY <1>0, <2>1, <2>2, <2>3, AppendEvent
  <2>5. run \in Open \ {"request"} BY <1>0, <2>1 DEF Ordered
  <2>6. Pending(toClient', seen', pushed', Answered' /\ run' = "response")
    BY <1>0, <2>1, <2>4 DEF Pending, Answered, answer
  <2>7. seen' <= pushed' BY <1>0, <2>1, <2>2
  <2>8. run \in Open \ {"request", "response"} => Answered' BY <2>1 DEF Ordered, Answered
  <2> QED BY <1>0, <2>1, <2>4, <2>5, <2>6, <2>7, <2>8 DEF Ordered
<1> QED BY <1>1, <1>2, <1>3 DEF Serves, Handles, Responds, HangsUp, Restarts, Silence

LEMMA OrderedStep == TypeOK /\ Ordered /\ [Next]_vars => Ordered'
<1>1. Ordered /\ Calls => Ordered' BY CallsFrame DEF Ordered, Answered
<1>2. Ordered /\ Subscribing => Ordered'
  BY DEF Subscribing, SubscribeLists, SubscribeStarts, Step, Ordered, Answered, Open
<1>3. Ordered /\ Opens => Ordered' BY DEF Opens, ForeignOpens, Ordered, Answered
<1>4. Ordered /\ UNCHANGED vars => Ordered' BY DEF vars, Ordered, Answered
<1> QED BY <1>1, <1>2, <1>3, <1>4, Actors, OrderedLoop, OrderedServes
-----------------------------------------------------------------------------
(* The end of runLoop, with a server that does not push before it responds *)

LEMMA HandshakeStep ==
  EarlyEvents = FALSE /\ TypeOK /\ Ordered /\ Handshake /\ [Next]_vars => Handshake'
<1> SUFFICES ASSUME EarlyEvents = FALSE, TypeOK, Ordered, Handshake, [Next]_vars
             PROVE  Handshake' OBVIOUS
<1>0. toClient \in Seq(Frame) /\ pushed \in 0..MaxEvents BY DEF TypeOK, Frame
<1>1. CASE Loop
  <2>1. CASE RequestOk BY <2>1 DEF RequestOk, Step, Ordered, Handshake
  <2>2. CASE run' # "response" BY <2>2 DEF Handshake
  <2> QED
    BY <1>1, <2>1, <2>2 DEF Loop, RunLoop, ReadTimesOut, Checks, ConnectFails, RequestFails,
       ResponseOk, ResponseRejects, ResponseFails, Rejected, BacksOff, Stores, LoopChecks,
       ReadOk, ReadEof, CallbackReturns, Unstores, Closes, Finishes, ConnectOk, Step
<1>2. CASE Serves
  <2>1. run' = run BY <1>2, ServesFrame
  <2>2. CASE Handles BY <2>1, <2>2 DEF Handles, Handshake
  <2>3. CASE Responds
    <3> SUFFICES ASSUME run = "response" PROVE Handshake' BY <2>1 DEF Handshake
    <3>1. toClient = <<>> BY <2>3 DEF Responds, Handshake
    <3>2. <<0, 0>> \in Frame BY SubscriptionConstants DEF Frame
    <3>3. toClient' # <<>> /\ Head(toClient') = <<0, 0>>
      BY <1>0, <2>3, <3>1, <3>2, AppendFrame DEF Responds
    <3> QED BY <2>3, <3>3 DEF Responds, Handshake
  <2>4. CASE Pushes
    <3> SUFFICES ASSUME run = "response" PROVE Handshake' BY <2>1 DEF Handshake
    <3>1. srv = "serving" /\ srv' = srv BY <2>4 DEF Pushes
    <3>2. <<EventType, pushed + 1>> \in Frame BY <1>0, <2>4, SubscriptionConstants DEF Pushes, Frame
    <3>3. toClient # <<>> /\ Head(toClient)[1] = 0 BY <3>1 DEF Handshake
    <3>4. toClient' # <<>> /\ Head(toClient') = Head(toClient)
      BY <1>0, <2>4, <3>2, <3>3, AppendFrame DEF Pushes
    <3> QED BY <3>1, <3>3, <3>4 DEF Handshake
  <2>5. CASE UNCHANGED <<srv, toClient, refused>> BY <2>1, <2>5 DEF Handshake
  <2> QED BY <1>2, <2>2, <2>3, <2>4, <2>5 DEF Serves, HangsUp, Restarts, Silence
<1>3. CASE Calls BY <1>3, CallsFrame DEF Handshake
<1>4. CASE Subscribing
  BY <1>4 DEF Subscribing, SubscribeLists, SubscribeStarts, Step, Handshake
<1>5. CASE Opens BY <1>5 DEF Opens, ForeignOpens, Handshake
<1>6. CASE UNCHANGED vars BY <1>6 DEF vars, Handshake
<1> QED BY <1>1, <1>2, <1>3, <1>4, <1>5, <1>6, Actors

LEMMA EndedStep ==
  TypeOK /\ Handshake /\ Ended /\ [Next]_vars => Ended'
<1> USE SubscriptionConstants
<1> SUFFICES ASSUME TypeOK, Handshake, Ended, [Next]_vars PROVE Ended' OBVIOUS
<1>0. cpc \in [Callers -> Steps] /\ active \in BOOLEAN
      /\ srv \in {"none", "new", "requested", "subscribed", "serving", "refused"}
  BY DEF TypeOK, Steps
<1>1. CASE Loop
  <2>1. UNCHANGED <<refused, cpc>> BY <1>1, LoopFrame
  <2>2. CASE ResponseRejects
    BY <1>0, <2>1, <2>2 DEF ResponseRejects, Step, Handshake, Ended, Ending
  <2>3. CASE Rejected BY <2>1, <2>3 DEF Rejected, Step, Ended, Ending
  <2>4. CASE Finishes \/ Checks \/ BacksOff
    BY <2>1, <2>4 DEF Finishes, Checks, BacksOff, Step, Ended, Ending
  <2>5. CASE run' \notin {"rejected", "finish", "exited"} /\ active' = active
    BY <2>1, <2>5 DEF Ended, Ending
  <2> QED
    BY <1>1, <2>2, <2>3, <2>4, <2>5 DEF Loop, RunLoop, ReadTimesOut, ConnectFails, RequestOk,
       RequestFails, ResponseOk, ResponseFails, Stores, LoopChecks,
       ReadOk, ReadEof, CallbackReturns, Unstores, Closes, ConnectOk, Step
<1>2. CASE Calls
  <2> DEFINE quiet == {"idle", "sub", "enlist", "enlisted"}
  <2>1. UNCHANGED <<run, refused>> BY <1>2, CallsFrame
  <2>2. CASE CallbackSubscribes
    <3>1. active' = active /\ \A u \in Callers : cpc[u] \notin quiet => cpc'[u] = cpc[u]
      BY <1>0, <2>2 DEF CallbackSubscribes, CGoto
    <3> QED BY <2>1, <3>1 DEF Ended, Ending
  <2>3. ASSUME NEW t \in Callers, CancelCalls(t) \/ DisconnectCalls(t) \/ CancelRuns(t)
        PROVE  Ended'
    <3>1. \A u \in Callers : cpc[u] \notin quiet => cpc'[u] \notin quiet
      BY <1>0, <2>3 DEF CancelCalls, DisconnectCalls, CancelRuns, CancelLocks, CancelFlips,
         CancelTakes, CancelShuts, CancelReturns, DisconnectLocks, DisconnectFindsNothing,
         DisconnectClears, CallbackEnlists, CGoto
    <3>2. active' = active \/ CancelFlips(t)
      BY <2>3 DEF CancelCalls, DisconnectCalls, CancelRuns, CancelLocks,
         CancelTakes, CancelShuts, CancelReturns, DisconnectLocks, DisconnectFindsNothing,
         DisconnectClears, CallbackEnlists
    <3>3. CancelFlips(t) => cpc'[t] \notin quiet BY <1>0 DEF CancelFlips, CGoto
    <3>4. Ending => Ending' BY <2>1, <3>1 DEF Ending
    <3>5. ~active' => Ending' BY <3>2, <3>3, <3>4 DEF Ended, Ending
    <3> QED BY <2>1, <3>4, <3>5 DEF Ended
  <2> QED BY <1>2, <2>2, <2>3 DEF Calls
<1>3. CASE Serves
  <2>1. UNCHANGED <<run, active, cpc>> BY <1>3, ServesFrame
  <2>2. refused' = refused \/ refused' = TRUE
    BY <1>3 DEF Serves, Handles, Responds, Pushes, HangsUp, Restarts, Silence
  <2>3. refused => refused' BY <2>2
  <2> QED BY <2>1, <2>3 DEF Ended, Ending
<1>4. CASE Subscribing
  BY <1>4 DEF Subscribing, SubscribeLists, SubscribeStarts, Step, Ended, Ending
<1>5. CASE Opens BY <1>5 DEF Opens, ForeignOpens, Ended, Ending
<1>6. CASE UNCHANGED vars BY <1>6 DEF vars, Ended, Ending
<1> QED BY <1>1, <1>2, <1>3, <1>4, <1>5, <1>6, Actors
-----------------------------------------------------------------------------
(* The invariant and what it gives                                         *)

LEMMA InitIInv == Init => IInv
<1> USE SubscriptionConstants
<1> SUFFICES ASSUME Init PROVE IInv OBVIOUS
<1>1. cpc = [t \in Callers |-> "idle"] /\ \A t \in Callers : cpc[t] = "idle" BY DEF Init
<1>2. Descriptor /\ NoDescriptorLeak
  BY DEF Init, Descriptor, NoDescriptorLeak, Open, Looping
<1>3. Flipped /\ ShutsNoLaterConnection BY <1>1 DEF Init, Flipped, ShutsNoLaterConnection
<1>4. Started BY <1>1 DEF Init, Started, Callers, Unstarted
<1>5. Ordered
  <2>1. Sorted(<<>>) BY DEF Sorted
  <2>2. Pending(toClient, seen, pushed, Answered /\ run = "response") BY DEF Init, Pending
  <2> QED BY <2>1, <2>2 DEF Init, Ordered, Open
<1>6. Handshake /\ Ended BY DEF Init, Handshake, Ended
<1> QED BY <1>2, <1>3, <1>4, <1>5, <1>6, TypeInit DEF IInv

LEMMA Inductive == IInv /\ [Next]_vars => IInv'
<1> SUFFICES ASSUME IInv, [Next]_vars PROVE IInv' OBVIOUS
<1>1. /\ TypeOK' /\ Descriptor' /\ NoDescriptorLeak' /\ Flipped' /\ ShutsNoLaterConnection'
      /\ Started' /\ Ordered'
  BY TypeStep, DescriptorStep, NoLeakStep, FlippedStep, ShutsStep, StartedStep, OrderedStep
  DEF IInv
<1>2. ~EarlyEvents => Handshake' /\ Ended'
  BY HandshakeStep, EndedStep, SubscriptionConstants DEF IInv
<1> QED BY <1>1, <1>2 DEF IInv

LEMMA Invariance == Spec => []IInv
BY InitIInv, Inductive, PTL DEF Spec

\* Every variable keeps its type: among them, the number cancel() has taken
\* from m_fd names a descriptor, whatever runLoop has done to it since.
THEOREM TypeCorrect == Spec => []TypeOK
<1>1. IInv => TypeOK BY DEF IInv
<1> QED BY <1>1, Invariance, PTL

\* Between two attempts runLoop has no descriptor open, on any path through
\* doConnectAndSubscribe and eventLoop, however cancel() interferes.
THEOREM ClosesEveryAttempt == Spec => []NoDescriptorLeak
<1>1. IInv => NoDescriptorLeak BY DEF IInv
<1> QED BY <1>1, Invariance, PTL

\* The shutdown of cancel() hits the connection that m_fd named or, if runLoop
\* has closed that number since, at most a file of the rest of the process:
\* never a later connection of this subscription.
THEOREM ShutsTheLastConnection == Spec => []ShutsNoLaterConnection
<1>1. IInv => ShutsNoLaterConnection BY DEF IInv
<1> QED BY <1>1, Invariance, PTL

\* When cancel() has returned to another thread the thread of runLoop has
\* exited, and when disconnect() has, it never connects again.
THEOREM CancelStops == Spec => []CancelMeansStopped
<1>1. IInv => CancelMeansStopped
  BY DEF IInv, Flipped, Started, CancelMeansStopped, Callers
<1> QED BY <1>1, Invariance, PTL

\* The callback gets the events in the order of their pushes, each at most
\* once, over any number of connections.
THEOREM InOrder == Spec => EventsInOrder
<1>1. IInv /\ [Next]_vars => [seen' # seen => seen' > seen]_vars
  <2> SUFFICES ASSUME IInv, [Next]_vars, seen' # seen PROVE seen' > seen OBVIOUS
  <2>1. ReadOk
    BY Actors, CallsFrame, ServesFrame DEF Subscribing, SubscribeLists, SubscribeStarts,
       Opens, ForeignOpens, vars, Loop, RunLoop, ReadTimesOut, Checks, ConnectFails,
       RequestOk, RequestFails, ResponseOk, ResponseRejects, ResponseFails, Rejected,
       BacksOff, Stores, LoopChecks, ReadEof, CallbackReturns, Unstores, Closes, Finishes,
       ConnectOk
  <2>2. toClient \in Seq(Frame) /\ seen \in Nat /\ pushed \in Nat
    BY SubscriptionConstants DEF IInv, TypeOK, Frame
  <2>3. Sorted(toClient) /\ Pending(toClient, seen, pushed, FALSE)
    BY <2>1 DEF IInv, Ordered, ReadOk, Step
  <2>4. seen' \in (seen + 1)..pushed BY <2>1, <2>2, <2>3, TakeEvent DEF ReadOk
  <2> QED BY <2>2, <2>4
<1> QED BY <1>1, Invariance, PTL DEF Spec, EventsInOrder

\* With a server that never pushes before its Response, runLoop gives up only
\* when it was cancelled or its subscription rejected.  (With one that does, it
\* takes the event for a rejection: the run subscription_early_event.)
THEOREM GivesUpOnRejection ==
  ASSUME EarlyEvents = FALSE
  PROVE  Spec => []EndsOnlyOnRejection
<1>1. IInv => EndsOnlyOnRejection BY DEF IInv, Ended, Ending, EndsOnlyOnRejection
<1> QED BY <1>1, Invariance, PTL
=============================================================================

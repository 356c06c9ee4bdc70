------------------------- MODULE ApplicationProofs -------------------------
(***************************************************************************)
(* Safety of the life of a service process, whatever its files, its signal *)
(* sets, its hooks and the signals it is sent.                             *)
(***************************************************************************)
EXTENDS Application, SequenceTheorems, WellFoundedInduction, TLAPS

USE DEF deployVars, configVars, hookVars, signalVars

Dispositions == {"graceful", "fatal", "ignored"}

\* The signals the service wants handled that way.
Wanted(d) ==
  ToSet(CASE d = "graceful" -> sets.graceful
          [] d = "fatal"    -> sets.fatal
          [] d = "ignored"  -> sets.ignored)

SetsOK ==
  /\ sets \in [graceful: Seq(Signals), fatal: Seq(Signals), ignored: Seq(Signals)]
  /\ todo \in Seq(Signals \X Dispositions)
  /\ disp \in [Signals -> Dispositions \cup {"default"}]

\* No signal is wanted handled in two ways.
Disjoint == \A d, e \in Dispositions : d # e => Wanted(d) \cap Wanted(e) = {}

\* What is installed, or about to be, is what was wanted, and only of sets that
\* were found valid.
Planned ==
  /\ todo # <<>> \/ (\E s \in Signals : disp[s] # "default") \/ main = "install" \/ began
       => Disjoint
  /\ \A e \in ToSet(todo) : e[1] \in Wanted(e[2])
  /\ \A s \in Signals : disp[s] # "default" => s \in Wanted(disp[s])
  /\ handler # NoSignal => handler \in Wanted("fatal") /\ Disjoint

\* Every signal that is to be caught for good, or ignored, has its handler or
\* still waits for it; when initialize() begins, none waits.
Installed ==
  /\ main = "install" \/ began =>
       \A d \in {"graceful", "ignored"} : \A s \in Wanted(d) :
         disp[s] = d \/ <<s, d>> \in ToSet(todo)
  /\ began => todo = <<>> /\ main \notin {"load", "logging", "signals", "install"}

\* A process that has not ended was not killed, and the main thread of one that
\* has ended does not move.
Unharmed ==
  /\ ended = "no" => by = NoSignal
  /\ began => by \notin Wanted("graceful") \cup Wanted("ignored")

\* Which hooks were called, by where the main thread is.
Called ==
  /\ main \in {"load", "logging", "signals", "install", "initialize", "execute",
               "cleanup", "leave", "gone"}
  /\ main \in {"load", "logging", "signals", "install", "initialize"} =>
       ~inited /\ cleanups = 0
  /\ main = "execute" => inited /\ cleanups = 0
  /\ main = "cleanup" => inited /\ cleanups = 1
  /\ main \in {"leave", "gone"} =>
       \/ ~inited /\ cleanups = 0
       \/ inited /\ cleanups = 1
       \/ inited /\ cleanups = 0 /\ foreign

\* A configuration that is loaded, or being read, has a common file.
HasCommon == \E f \in DOMAIN files : f[2] = "common" /\ Used(f)
Loaded ==
  /\ roots \in Seq(ToSet(roots))
  /\ isLoaded => Is(snapshot, <<"common", "log">>, "map") /\ entries = <<>>
  /\ result \in {"reading", "ok"} => HasCommon
  /\ began \/ main \notin {"load", "leave", "gone"} => isLoaded
  /\ began \/ main \notin {"load", "logging", "leave", "gone"} =>
       (strict => LogAsConfigured)

Handled == SetsOK /\ Planned /\ Installed /\ Unharmed
IInv == Handled /\ Called /\ Loaded
-----------------------------------------------------------------------------
(* Sequences of signals                                                    *)

LEMMA ElementsOfConcat ==
  ASSUME NEW S, NEW p \in Seq(S), NEW q \in Seq(S)
  PROVE  /\ p \o q \in Seq(S)
         /\ ToSet(p \o q) = ToSet(p) \cup ToSet(q)
<1>1. /\ Len(p) \in Nat /\ Len(q) \in Nat /\ DOMAIN p = 1..Len(p) /\ DOMAIN q = 1..Len(q)
      /\ p \o q \in Seq(S) /\ DOMAIN (p \o q) = 1..(Len(p) + Len(q))
      /\ \A i \in 1..(Len(p) + Len(q)) :
           (p \o q)[i] = IF i <= Len(p) THEN p[i] ELSE q[i - Len(p)]
  BY ConcatProperties, LenProperties
<1>2. \A i \in 1..Len(p) : i \in 1..(Len(p) + Len(q)) /\ (p \o q)[i] = p[i] BY <1>1
<1>3. \A i \in 1..Len(q) :
        i + Len(p) \in 1..(Len(p) + Len(q)) /\ (p \o q)[i + Len(p)] = q[i]
  BY <1>1
<1>4. \A i \in 1..(Len(p) + Len(q)) :
        \/ i \in 1..Len(p) /\ (p \o q)[i] = p[i]
        \/ i - Len(p) \in 1..Len(q) /\ (p \o q)[i] = q[i - Len(p)]
  BY <1>1
<1>5. ASSUME NEW e \in ToSet(p \o q) PROVE e \in ToSet(p) \cup ToSet(q)
  <2>1. PICK k \in 1..(Len(p) + Len(q)) : e = (p \o q)[k] BY <1>1, <1>5 DEF ToSet
  <2> QED BY <1>1, <1>4, <2>1 DEF ToSet
<1>6. ASSUME NEW e \in ToSet(p) \cup ToSet(q) PROVE e \in ToSet(p \o q)
  <2>1. CASE e \in ToSet(p)
    <3>1. PICK k \in 1..Len(p) : e = p[k] BY <1>1, <2>1 DEF ToSet
    <3> QED BY <1>1, <1>2, <3>1 DEF ToSet
  <2>2. CASE e \in ToSet(q)
    <3>1. PICK k \in 1..Len(q) : e = q[k] BY <1>1, <2>2 DEF ToSet
    <3> QED BY <1>1, <1>3, <3>1 DEF ToSet
  <2> QED BY <1>6, <2>1, <2>2
<1> QED BY <1>1, <1>5, <1>6

LEMMA ElementsOfTail ==
  ASSUME NEW S, NEW q \in Seq(S), q # <<>>
  PROVE  /\ Tail(q) \in Seq(S) /\ q[1] \in ToSet(q) /\ q[1] \in S
         /\ ToSet(Tail(q)) \subseteq ToSet(q)
         /\ ToSet(q) \subseteq ToSet(Tail(q)) \cup {q[1]}
<1>1. /\ Len(q) \in Nat /\ Len(q) >= 1 /\ DOMAIN q = 1..Len(q)
      /\ Tail(q) \in Seq(S) /\ DOMAIN Tail(q) = 1..(Len(q) - 1)
      /\ \A i \in 1..(Len(q) - 1) : Tail(q)[i] = q[i + 1]
      /\ \A i \in 1..Len(q) : q[i] \in S
  BY HeadTailProperties, LenProperties, EmptySeq, ElementOfSeq
<1>2. \A i \in 1..(Len(q) - 1) : i + 1 \in 1..Len(q) BY <1>1
<1>3. ASSUME NEW i \in 1..Len(q), i # 1
      PROVE  i - 1 \in 1..(Len(q) - 1) /\ Tail(q)[i - 1] = q[i]
  BY <1>1, <1>3
<1>4. 1 \in 1..Len(q) BY <1>1
<1>5. ToSet(Tail(q)) \subseteq ToSet(q) BY <1>1, <1>2 DEF ToSet
<1>6. ASSUME NEW e \in ToSet(q), e # q[1] PROVE e \in ToSet(Tail(q))
  <2>1. PICK i \in 1..Len(q) : e = q[i] BY <1>1, <1>6 DEF ToSet
  <2>2. i # 1 BY <1>6, <2>1
  <2> QED BY <1>1, <1>3, <2>1, <2>2 DEF ToSet
<1> QED BY <1>1, <1>4, <1>5, <1>6 DEF ToSet

LEMMA ElementsOfAs ==
  ASSUME NEW l \in Seq(Signals), NEW d \in Dispositions
  PROVE  /\ As(l, d) \in Seq(Signals \X Dispositions)
         /\ ToSet(As(l, d)) = {<<s, d>> : s \in ToSet(l)}
<1>1. Len(l) \in Nat /\ DOMAIN l = 1..Len(l) /\ \A i \in 1..Len(l) : l[i] \in Signals
  BY LenProperties, ElementOfSeq
<1>2. As(l, d) = [i \in 1..Len(l) |-> <<l[i], d>>] BY <1>1 DEF As
<1>3. \A i \in 1..Len(l) : <<l[i], d>> \in Signals \X Dispositions BY <1>1
<1> QED BY <1>1, <1>2, <1>3 DEF ToSet

LEMMA ElementsAreOf == ASSUME NEW S, NEW q \in Seq(S) PROVE ToSet(q) \subseteq S
BY LenProperties, ElementOfSeq DEF ToSet

\* A sequence in which nothing is twice has nothing in two parts of it.
LEMMA InjectiveParts ==
  ASSUME NEW S, NEW p \in Seq(S), NEW q \in Seq(S), IsInjective(p \o q)
  PROVE  ToSet(p) \cap ToSet(q) = {} /\ IsInjective(p)
<1>1. /\ Len(p) \in Nat /\ Len(q) \in Nat /\ DOMAIN p = 1..Len(p) /\ DOMAIN q = 1..Len(q)
      /\ DOMAIN (p \o q) = 1..(Len(p) + Len(q))
      /\ \A i \in 1..(Len(p) + Len(q)) :
           (p \o q)[i] = IF i <= Len(p) THEN p[i] ELSE q[i - Len(p)]
  BY ConcatProperties, LenProperties
<1>2. \A i \in 1..Len(p) : i \in DOMAIN (p \o q) /\ (p \o q)[i] = p[i] BY <1>1
<1>3. \A i \in 1..Len(q) : i + Len(p) \in DOMAIN (p \o q) /\ (p \o q)[i + Len(p)] = q[i]
  BY <1>1
<1>4. ASSUME NEW i \in 1..Len(p), NEW j \in 1..Len(q), p[i] = q[j] PROVE FALSE
  <2>1. (p \o q)[i] = (p \o q)[j + Len(p)] BY <1>2, <1>3, <1>4
  <2>2. i = j + Len(p) BY <1>2, <1>3, <2>1 DEF IsInjective
  <2> QED BY <1>1, <2>2
<1>5. IsInjective(p) BY <1>1, <1>2 DEF IsInjective
<1> QED BY <1>1, <1>4, <1>5 DEF ToSet

LEMMA ValidIsDisjoint == SetsOK /\ Valid(sets) => Disjoint
<1> SUFFICES ASSUME SetsOK, Valid(sets) PROVE Disjoint OBVIOUS
<1> DEFINE g == sets.graceful
           f == sets.fatal
           i == sets.ignored
<1>1. g \in Seq(Signals) /\ f \in Seq(Signals) /\ i \in Seq(Signals) BY DEF SetsOK
<1>2. g \o f \in Seq(Signals) /\ ToSet(g \o f) = ToSet(g) \cup ToSet(f)
  BY <1>1, ElementsOfConcat
<1>3. IsInjective((g \o f) \o i)
  <2>1. \A a, b, c \in Seq(Signals) : (a \o b) \o c = a \o (b \o c) BY ConcatAssociative
  <2> QED BY <1>1, <2>1 DEF Valid, All
<1>4. ToSet(g \o f) \cap ToSet(i) = {} /\ IsInjective(g \o f)
  BY <1>1, <1>2, <1>3, InjectiveParts
<1>5. ToSet(g) \cap ToSet(f) = {} BY <1>1, <1>4, InjectiveParts
<1>6. Wanted("graceful") = ToSet(g) /\ Wanted("fatal") = ToSet(f) /\ Wanted("ignored") = ToSet(i)
  BY DEF Wanted
<1> QED BY <1>2, <1>4, <1>5, <1>6 DEF Disjoint, Dispositions
-----------------------------------------------------------------------------
(* Signals                                                                 *)

LEMMA Frame == [Next]_vars => UNCHANGED <<sets, files, roots>>
BY DEF Next, Main, vars, LoadsConfig, ConfigNext, ResolvesPaths, LoadsFile, LoadFileFails,
   MergesLayer, Validates, load_config, SetsUpLogging, LoggingFails, LoggingThrows,
   ChecksSignals, Installs, InstallFails, Initializes, Initialized, InitializeFails,
   ExecuteStops, ExecuteReturns, ExecuteThrowsForeign, Cleaned, CleanupThrows, Leaves,
   Exits, Kills, Ignored, graceful_signal_handler, fatal_signal_handler, HandlerExits,
   requestShutdown

\* Only these steps are about signals.
Quiet ==
  /\ UNCHANGED <<todo, disp, handler, by>>
  /\ ended' = "no" => ended = "no"
  /\ \/ UNCHANGED <<began, main>>
     \/ UNCHANGED began /\ main' # "install"
        /\ (began => main' \notin {"load", "logging", "signals", "install"})

LEMMA QuietSteps ==
  ASSUME Installed, [Next]_vars
  PROVE  \/ Quiet \/ ChecksSignals \/ Installs \/ Initializes \/ HandlerExits
         \/ \E s \in Signals : Kills(s) \/ fatal_signal_handler(s)
<1>1. CASE LoadsConfig \/ SetsUpLogging \/ LoggingFails \/ LoggingThrows
  BY <1>1 DEF LoadsConfig, SetsUpLogging, LoggingFails, LoggingThrows, Goto, Quiet, Installed
<1>2. CASE load_config BY <1>2 DEF load_config, Goto, Quiet, Installed
<1>3. CASE InstallFails \/ Initialized \/ InitializeFails \/ ExecuteStops \/ ExecuteReturns
  BY <1>3 DEF InstallFails, Initialized, InitializeFails, ExecuteStops, ExecuteReturns, Goto, Quiet
<1>4. CASE ExecuteThrowsForeign \/ Cleaned \/ CleanupThrows \/ Leaves \/ Exits
  BY <1>4 DEF ExecuteThrowsForeign, Cleaned, CleanupThrows, Leaves, Exits, Goto, Quiet
<1>5. CASE requestShutdown \/ UNCHANGED vars BY <1>5 DEF requestShutdown, vars, Quiet
<1>6. ASSUME NEW s \in Signals, Ignored(s) \/ graceful_signal_handler(s) PROVE Quiet
  BY <1>6 DEF Ignored, graceful_signal_handler, Sends, Quiet
<1> QED BY <1>1, <1>2, <1>3, <1>4, <1>5, <1>6 DEF Next, Main

LEMMA HandledInit == Init => Handled
<1> USE ApplicationConstants
<1> SUFFICES ASSUME Init PROVE Handled OBVIOUS
<1>1. PICK d \in Deployments : sets = d.sets BY DEF Init
<1>2. SetsOK BY <1>1 DEF Init, SetsOK
<1>3. ToSet(todo) = {} /\ todo = <<>> BY DEF Init, ToSet
<1>4. /\ main = "load" /\ ~began /\ handler = NoSignal /\ by = NoSignal
      /\ \A s \in Signals : disp[s] = "default"
  BY DEF Init
<1> QED BY <1>2, <1>3, <1>4 DEF Handled, Planned, Installed, Unharmed

LEMMA QuietKeeps == Handled /\ UNCHANGED sets /\ Quiet => Handled'
<1> SUFFICES ASSUME Handled, UNCHANGED sets, Quiet PROVE Handled' OBVIOUS
<1>1. UNCHANGED <<todo, disp, handler, by, sets>> BY DEF Quiet
<1>2. (\A d : Wanted(d)' = Wanted(d)) /\ Disjoint' = Disjoint BY <1>1 DEF Wanted, Disjoint
<1>3. SetsOK' BY <1>1 DEF Handled, SetsOK
<1>4. began' = began /\ (main' = "install" => main = "install") BY DEF Quiet
<1>5. Planned' BY <1>1, <1>2, <1>4 DEF Handled, Planned
<1>6. began => main' \notin {"load", "logging", "signals", "install"}
  BY DEF Quiet, Handled, Installed
<1>7. Installed' BY <1>1, <1>2, <1>4, <1>6 DEF Handled, Installed
<1>8. Unharmed' BY <1>1, <1>2, <1>4 DEF Handled, Unharmed, Quiet
<1> QED BY <1>3, <1>5, <1>7, <1>8 DEF Handled

LEMMA WantedTypes ==
  ASSUME SetsOK
  PROVE  \A d \in Dispositions : Wanted(d) \subseteq Signals
BY ElementsAreOf DEF SetsOK, Wanted, Dispositions

LEMMA ChecksKeep == Handled /\ UNCHANGED sets /\ ChecksSignals => Handled'
<1> SUFFICES ASSUME Handled, UNCHANGED sets, ChecksSignals PROVE Handled' OBVIOUS
<1>1. /\ main = "signals" /\ ~began /\ UNCHANGED <<disp, handler, began, ended, by>>
      /\ main' \in {"install", "leave"}
  BY DEF ChecksSignals, Goto, Handled, Installed
<1>2. (\A d : Wanted(d)' = Wanted(d)) /\ Disjoint' = Disjoint BY DEF Wanted, Disjoint
<1>3. CASE ~Valid(sets)
  <2>1. Quiet BY <1>1, <1>3 DEF ChecksSignals, Goto, Quiet
  <2> QED BY <2>1, QuietKeeps
<1>4. CASE Valid(sets)
  <2> DEFINE g == As(sets.graceful, "graceful")
             f == As(sets.fatal, "fatal")
             i == As(sets.ignored, "ignored")
             E == Signals \X Dispositions
  <2>1. SetsOK BY DEF Handled
  <2>2. /\ g \in Seq(E) /\ ToSet(g) = {<<s, "graceful">> : s \in Wanted("graceful")}
        /\ f \in Seq(E) /\ ToSet(f) = {<<s, "fatal">> : s \in Wanted("fatal")}
        /\ i \in Seq(E) /\ ToSet(i) = {<<s, "ignored">> : s \in Wanted("ignored")}
    BY <2>1, ElementsOfAs DEF SetsOK, Wanted, Dispositions
  <2>3. todo' = g \o f \o i BY <1>4 DEF ChecksSignals
  <2> HIDE DEF g, f, i, E
  <2>4. g \o f \in Seq(E) /\ ToSet(g \o f) = ToSet(g) \cup ToSet(f) BY <2>2, ElementsOfConcat
  <2>5. todo' \in Seq(E) /\ ToSet(todo') = ToSet(g) \cup ToSet(f) \cup ToSet(i)
    <3> DEFINE h == g \o f
    <3>0. h \in Seq(E) /\ i \in Seq(E) BY <2>2, <2>4
    <3> HIDE DEF h
    <3>1. h \o i \in Seq(E) /\ ToSet(h \o i) = ToSet(h) \cup ToSet(i)
      BY <3>0, ElementsOfConcat
    <3> QED BY <2>3, <2>4, <3>1 DEF h
  <2>6. SetsOK' BY <1>1, <2>1, <2>5 DEF SetsOK, E
  <2>7. \A e \in ToSet(todo') : e[1] \in Wanted(e[2]) BY <2>2, <2>5
  <2>8. Disjoint BY <1>4, <2>1, ValidIsDisjoint
  <2>9. Planned' BY <1>1, <1>2, <2>7, <2>8 DEF Handled, Planned
  <2>10. \A d \in {"graceful", "ignored"} : \A s \in Wanted(d) : <<s, d>> \in ToSet(todo')
    BY <2>2, <2>5
  <2>11. Installed' BY <1>1, <1>2, <2>10 DEF Installed
  <2>12. Unharmed' BY <1>1, <1>2 DEF Handled, Unharmed
  <2> QED BY <2>6, <2>9, <2>11, <2>12 DEF Handled
<1> QED BY <1>3, <1>4

LEMMA InstallsKeep == Handled /\ UNCHANGED sets /\ Installs => Handled'
<1> SUFFICES ASSUME Handled, UNCHANGED sets, Installs PROVE Handled' OBVIOUS
<1>0. (\A d : Wanted(d)' = Wanted(d)) /\ Disjoint' = Disjoint BY DEF Wanted, Disjoint
<1>1. /\ main = "install" /\ main' = "install" /\ ~began /\ todo # <<>> /\ Disjoint
      /\ UNCHANGED <<handler, began, ended, by>>
  BY DEF Installs, Goto, Handled, Installed, Planned
<1>2. PICK s \in Signals, d \in Dispositions :
        /\ todo[1] = <<s, d>> /\ todo[1] \in ToSet(todo)
        /\ todo' = Tail(todo) /\ todo' \in Seq(Signals \X Dispositions)
        /\ ToSet(todo') \subseteq ToSet(todo)
        /\ ToSet(todo) \subseteq ToSet(todo') \cup {<<s, d>>}
        /\ disp' = [disp EXCEPT ![s] = d]
  <2>1. todo \in Seq(Signals \X Dispositions) BY DEF Handled, SetsOK
  <2>2. /\ Tail(todo) \in Seq(Signals \X Dispositions) /\ todo[1] \in ToSet(todo)
        /\ todo[1] \in Signals \X Dispositions /\ ToSet(Tail(todo)) \subseteq ToSet(todo)
        /\ ToSet(todo) \subseteq ToSet(Tail(todo)) \cup {todo[1]}
    BY <1>1, <2>1, ElementsOfTail
  <2>3. PICK s \in Signals, d \in Dispositions : todo[1] = <<s, d>> BY <2>2
  <2>4. todo' = Tail(todo) /\ disp' = [disp EXCEPT ![s] = d] BY <2>3 DEF Installs
  <2>5. ToSet(todo) \subseteq ToSet(todo') \cup {<<s, d>>} BY <2>2, <2>3, <2>4
  <2> QED BY <2>2, <2>3, <2>4, <2>5
<1>3. /\ disp \in [Signals -> Dispositions \cup {"default"}] /\ s \in Wanted(d)
      /\ disp' \in [Signals -> Dispositions \cup {"default"}]
      /\ disp'[s] = d /\ \A r \in Signals : r # s => disp'[r] = disp[r]
  BY <1>2 DEF Handled, SetsOK, Planned
<1>4. SetsOK' BY <1>2, <1>3 DEF Handled, SetsOK
<1>5. Planned' BY <1>0, <1>1, <1>2, <1>3 DEF Handled, Planned
<1>6. ASSUME NEW c \in {"graceful", "ignored"}, NEW r \in Wanted(c)
      PROVE  disp'[r] = c \/ <<r, c>> \in ToSet(todo')
  <2>1. r \in Signals /\ c \in Dispositions BY WantedTypes DEF Handled, Dispositions
  <2>2. disp[r] = c \/ <<r, c>> \in ToSet(todo) BY <1>1 DEF Handled, Installed
  <2>3. CASE r = s
    <3>1. d = c BY <1>1, <1>3, <2>1, <2>3 DEF Disjoint
    <3> QED BY <1>3, <2>3, <3>1
  <2>4. CASE r # s BY <1>2, <1>3, <2>1, <2>2, <2>4
  <2> QED BY <2>3, <2>4
<1>7. Installed' BY <1>0, <1>1, <1>6 DEF Installed
<1>8. Unharmed' BY <1>0, <1>1 DEF Handled, Unharmed
<1> QED BY <1>4, <1>5, <1>7, <1>8 DEF Handled

\* initialize() begins when every handler is in its place.
LEMMA InitializesKeeps == Handled /\ UNCHANGED sets /\ Initializes => Handled'
<1> SUFFICES ASSUME Handled, UNCHANGED sets, Initializes PROVE Handled' OBVIOUS
<1>0. (\A d : Wanted(d)' = Wanted(d)) /\ Disjoint' = Disjoint BY DEF Wanted, Disjoint
<1>1. /\ main = "install" /\ main' = "initialize" /\ todo = <<>> /\ began' = TRUE
      /\ ended = "no" /\ UNCHANGED <<todo, disp, handler, ended, by>>
  BY DEF Initializes, Goto
<1>2. Disjoint /\ by = NoSignal BY <1>1 DEF Handled, Planned, Unharmed
<1>3. SetsOK' BY <1>1 DEF Handled, SetsOK
<1>4. Planned' BY <1>0, <1>1, <1>2 DEF Handled, Planned
<1>5. Installed' BY <1>0, <1>1 DEF Handled, Installed
<1>6. NoSignal \notin Wanted("graceful") \cup Wanted("ignored")
  BY WantedTypes, ApplicationConstants DEF Handled, Dispositions
<1>7. Unharmed' BY <1>0, <1>1, <1>2, <1>6 DEF Unharmed
<1> QED BY <1>3, <1>4, <1>5, <1>7 DEF Handled

\* A signal that kills has no handler, so it is none the service handles.
LEMMA KillsKeep ==
  ASSUME Handled, UNCHANGED sets, NEW s \in Signals, Kills(s)
  PROVE  Handled'
<1>0. (\A d : Wanted(d)' = Wanted(d)) /\ Disjoint' = Disjoint BY DEF Wanted, Disjoint
<1>1. /\ disp[s] = "default" /\ by' = s /\ ended' = "killed"
      /\ UNCHANGED <<main, began, todo, disp, handler>>
  BY DEF Kills, Sends
<1>2. SetsOK' /\ Planned' /\ Installed'
  BY <1>0, <1>1 DEF Handled, SetsOK, Planned, Installed
<1>3. began => s \notin Wanted("graceful") \cup Wanted("ignored")
  BY <1>1 DEF Handled, Installed, ToSet
<1> QED BY <1>0, <1>1, <1>2, <1>3 DEF Handled, Unharmed

LEMMA FatalKeeps ==
  ASSUME Handled, UNCHANGED sets, NEW s \in Signals, fatal_signal_handler(s)
  PROVE  Handled'
<1>0. (\A d : Wanted(d)' = Wanted(d)) /\ Disjoint' = Disjoint BY DEF Wanted, Disjoint
<1>1. /\ disp[s] = "fatal" /\ disp' = [disp EXCEPT ![s] = "default"] /\ handler' = s
      /\ UNCHANGED <<main, began, todo, ended, by>>
  BY DEF fatal_signal_handler, Sends
<1>2. /\ disp \in [Signals -> Dispositions \cup {"default"}] /\ s \in Wanted("fatal")
      /\ disp' \in [Signals -> Dispositions \cup {"default"}]
      /\ disp'[s] = "default" /\ \A r \in Signals : r # s => disp'[r] = disp[r]
      /\ Disjoint
  BY <1>1 DEF Handled, SetsOK, Planned
<1>3. SetsOK' BY <1>1, <1>2 DEF Handled, SetsOK
<1>4. Planned' BY <1>0, <1>1, <1>2 DEF Handled, Planned
<1>5. ASSUME NEW c \in {"graceful", "ignored"}, NEW r \in Wanted(c)
      PROVE  r # s /\ r \in Signals
  BY <1>2, WantedTypes DEF Handled, Disjoint, Dispositions
<1>6. Installed' BY <1>0, <1>1, <1>2, <1>5 DEF Handled, Installed
<1> QED BY <1>0, <1>1, <1>3, <1>4, <1>6 DEF Handled, Unharmed

LEMMA HandlerExitsKeeps == Handled /\ UNCHANGED sets /\ HandlerExits => Handled'
<1> SUFFICES ASSUME Handled, UNCHANGED sets, HandlerExits PROVE Handled' OBVIOUS
<1>0. (\A d : Wanted(d)' = Wanted(d)) /\ Disjoint' = Disjoint BY DEF Wanted, Disjoint
<1>1. /\ handler # NoSignal /\ by' = handler /\ ended' = "fatal"
      /\ UNCHANGED <<main, began, todo, disp, handler>>
  BY DEF HandlerExits
<1>2. SetsOK' /\ Planned' /\ Installed'
  BY <1>0, <1>1 DEF Handled, SetsOK, Planned, Installed
<1>3. handler \notin Wanted("graceful") \cup Wanted("ignored")
  BY <1>1 DEF Handled, Planned, Disjoint, Dispositions
<1> QED BY <1>0, <1>1, <1>2, <1>3 DEF Handled, Unharmed

LEMMA HandledStep == Handled /\ [Next]_vars => Handled'
<1> SUFFICES ASSUME Handled, [Next]_vars PROVE Handled' OBVIOUS
<1>1. UNCHANGED sets BY Frame
<1> QED
  BY <1>1, QuietSteps, QuietKeeps, ChecksKeep, InstallsKeep, InitializesKeeps, KillsKeep,
     FatalKeeps, HandlerExitsKeeps DEF Handled
-----------------------------------------------------------------------------
(* The hooks                                                               *)

LEMMA CalledStep == Installed /\ Called /\ [Next]_vars => Called'
<1> SUFFICES ASSUME Installed, Called, [Next]_vars PROVE Called' OBVIOUS
<1>1. CASE UNCHANGED <<main, inited, cleanups, foreign>> BY <1>1 DEF Called
<1>2. CASE load_config \/ SetsUpLogging \/ LoggingFails \/ LoggingThrows \/ ChecksSignals
  <2>1. main \in {"load", "logging", "signals"} /\ main' \in {"logging", "signals", "install", "leave"}
    <3>1. CASE load_config BY <3>1 DEF load_config, Goto
    <3>2. CASE SetsUpLogging \/ LoggingThrows BY <3>2 DEF SetsUpLogging, LoggingThrows, Goto
    <3>3. CASE LoggingFails BY <3>3 DEF LoggingFails, Goto, strict, Is
    <3>4. CASE ChecksSignals BY <3>4 DEF ChecksSignals, Goto, Valid
    <3> QED BY <1>2, <3>1, <3>2, <3>3, <3>4
  <2>2. UNCHANGED <<inited, cleanups, foreign>>
    BY <1>2 DEF load_config, SetsUpLogging, LoggingFails, LoggingThrows, ChecksSignals
  <2> QED BY <2>1, <2>2 DEF Called
<1>3. CASE InstallFails \/ Initializes \/ Initialized \/ InitializeFails
  BY <1>3 DEF InstallFails, Initializes, Initialized, InitializeFails, Goto, Called
<1>4. CASE ExecuteStops \/ ExecuteReturns \/ ExecuteThrowsForeign
  BY <1>4 DEF ExecuteStops, ExecuteReturns, ExecuteThrowsForeign, Goto, Called
<1>5. CASE Cleaned \/ CleanupThrows \/ Leaves
  BY <1>5 DEF Cleaned, CleanupThrows, Leaves, Goto, Called
<1>6. CASE LoadsConfig \/ Installs \/ Exits
  BY <1>1, <1>6 DEF LoadsConfig, Installs, Exits, Goto
<1>7. CASE HandlerExits \/ requestShutdown \/ UNCHANGED vars
  BY <1>1, <1>7 DEF HandlerExits, requestShutdown, vars
<1>8. ASSUME NEW s \in Signals,
             Kills(s) \/ Ignored(s) \/ graceful_signal_handler(s) \/ fatal_signal_handler(s)
      PROVE  Called'
  BY <1>1, <1>8 DEF Kills, Ignored, graceful_signal_handler, fatal_signal_handler
<1> QED BY <1>2, <1>3, <1>4, <1>5, <1>6, <1>7, <1>8 DEF Next, Main
-----------------------------------------------------------------------------
(* The configuration                                                       *)

LEMMA MinIsLeast ==
  ASSUME NEW T, T \subseteq Nat, T # {}
  PROVE  Min(T) \in T /\ \A y \in T : Min(T) <= y
<1> DEFINE Less == {ss \in Nat \X Nat : ss[1] < ss[2]}
<1>1. IsWellFoundedOn(Less, Nat) BY NatLessThanWellFounded DEF OpToRel
<1> HIDE DEF Less
<1>2. PICK x \in T : \A y \in T : ~ (<<y, x>> \in Less) BY <1>1, WFMin
<1>3. \A y \in T : ~(y < x) BY <1>2 DEF Less
<1>4. \E m \in T : \A y \in T : m <= y BY <1>3
<1> QED BY <1>4 DEF Min

\* The file findCommon() finds is one that is used, and so is the project's.
LEMMA CommonIsUsed ==
  ASSUME roots \in Seq(ToSet(roots)), commonEntries # <<>>
  PROVE  HasCommon
<1> DEFINE found == {i \in DOMAIN roots : fileExists(<<roots[i], "common">>)}
<1>1. Len(roots) \in Nat /\ DOMAIN roots = 1..Len(roots) BY LenProperties
<1>2. CASE fileExists(<<Project, "common">>)
  <2>1. Used(<<Project, "common">>) BY DEF Used
  <2> QED BY <1>2, <2>1 DEF fileExists, HasCommon
<1>3. CASE ~fileExists(<<Project, "common">>)
  <2>1. found # {}
    <3>1. SUFFICES ASSUME found = {} PROVE FALSE OBVIOUS
    <3>2. FindFirst("common") = <<>> /\ IfExists(<<Project, "common">>) = <<>>
      BY <1>3, <3>1 DEF FindFirst, IfExists
    <3>3. <<>> \o <<>> = <<>> OBVIOUS
    <3> QED BY <3>2, <3>3 DEF commonEntries
  <2> DEFINE i == Min(found)
             f == <<roots[i], "common">>
  <2>2. i \in found /\ \A j \in found : i <= j
    <3>1. found \subseteq Nat BY <1>1
    <3> HIDE DEF found
    <3> QED BY <2>1, <3>1, MinIsLeast
  <2> HIDE DEF i
  <2>3. /\ i \in DOMAIN roots /\ f \in DOMAIN files
        /\ \A j \in 1..(i - 1) : j \in DOMAIN roots /\ j \notin found
    <3>1. i \in 1..Len(roots) BY <1>1, <2>2
    <3>2. \A j \in 1..(i - 1) : j \in 1..Len(roots) /\ ~(i <= j) BY <1>1, <3>1
    <3>3. \A j \in 1..(i - 1) : j \notin found BY <2>2, <3>2
    <3> QED BY <1>1, <2>2, <3>1, <3>2, <3>3 DEF fileExists
  <2>4. \A j \in 1..(i - 1) : <<roots[j], "common">> \notin DOMAIN files
    BY <2>3 DEF fileExists
  <2>5. f[1] = roots[i] /\ f[2] = "common" OBVIOUS
  <2>6. Used(f) BY <2>3, <2>4, <2>5 DEF Used
  <2> QED BY <2>3, <2>5, <2>6 DEF HasCommon
<1> QED BY <1>2, <1>3

LEMMA LoadedInit == Init => Loaded
<1> USE ApplicationConstants
<1> SUFFICES ASSUME Init PROVE Loaded OBVIOUS
<1>1. PICK d \in Deployments : roots = d.roots BY DEF Init
<1>2. result = "none" /\ main = "load" /\ ~began BY DEF Init, ConfigInit
<1> QED BY <1>1, <1>2 DEF Loaded, isLoaded

LEMMA LoadedStep == Installed /\ Loaded /\ [Next]_vars => Loaded'
<1> SUFFICES ASSUME Installed, Loaded, [Next]_vars PROVE Loaded' OBVIOUS
<1>0. UNCHANGED <<roots, files>> /\ HasCommon' = HasCommon BY Frame DEF HasCommon, Used
<1>1. CASE LoadsConfig
  <2>1. main = "load" /\ main' = "load" /\ ~began /\ began' = began
    BY <1>1 DEF LoadsConfig, Goto, Installed
  <2>2. (isLoaded => Is(snapshot, <<"common", "log">>, "map") /\ entries = <<>>)'
    <3>1. CASE Validates
      BY <1>1, <3>1 DEF Validates, validate, isLoaded, Is
    <3>2. CASE ResolvesPaths \/ LoadsFile \/ LoadFileFails \/ MergesLayer
      BY <1>1, <3>2 DEF ResolvesPaths, LoadsFile, LoadFileFails, MergesLayer, isLoaded
    <3> QED BY <1>1, <3>1, <3>2 DEF LoadsConfig, ConfigNext
  <2>3. result' \in {"reading", "ok"} => HasCommon
    <3>1. CASE ResolvesPaths BY <3>1, CommonIsUsed DEF ResolvesPaths, Loaded
    <3>2. CASE LoadsFile \/ LoadFileFails \/ MergesLayer \/ Validates
      BY <3>2 DEF LoadsFile, LoadFileFails, MergesLayer, Validates, Loaded
    <3> QED BY <1>1, <3>1, <3>2 DEF LoadsConfig, ConfigNext
  <2> QED BY <1>0, <2>1, <2>2, <2>3 DEF Loaded
<1>2. CASE ~LoadsConfig
  <2>1. UNCHANGED configVars
    BY <1>2 DEF Next, Main, vars, load_config, SetsUpLogging, LoggingFails, LoggingThrows,
       ChecksSignals, Installs, InstallFails, Initializes, Initialized, InitializeFails,
       ExecuteStops, ExecuteReturns, ExecuteThrowsForeign, Cleaned, CleanupThrows, Leaves,
       Exits, Kills, Ignored, graceful_signal_handler, fatal_signal_handler, HandlerExits,
       requestShutdown
  <2>2. /\ isLoaded' = isLoaded /\ strict' = strict
        /\ LogConfigValid' = LogConfigValid
    BY <2>1 DEF isLoaded, strict, Is, LogConfigValid, Format, LogKey, Scalar
  <2>3. began' \/ main' \notin {"load", "leave", "gone"} => isLoaded
    <3>1. CASE load_config BY <3>1 DEF load_config, Goto, Installed
    <3>2. CASE UNCHANGED <<main, began>> BY <3>2 DEF Loaded
    <3>3. CASE main \notin {"load", "leave", "gone"} BY <3>3 DEF Loaded
    <3>4. CASE Exits \/ Leaves BY <3>4 DEF Exits, Leaves, Goto, Loaded
    <3> QED
      BY <1>2, <3>1, <3>2, <3>3, <3>4 DEF Next, Main, vars, SetsUpLogging, LoggingFails,
         LoggingThrows, ChecksSignals, Installs, InstallFails, Initializes, Initialized,
         InitializeFails, ExecuteStops, ExecuteReturns, ExecuteThrowsForeign, Cleaned,
         CleanupThrows, Kills, Ignored, graceful_signal_handler, fatal_signal_handler,
         HandlerExits, requestShutdown, Goto
  <2>4. began' \/ main' \notin {"load", "logging", "leave", "gone"}
          => (strict => LogAsConfigured')
    <3>1. CASE load_config BY <3>1 DEF load_config, Goto, Installed
    <3>2. CASE SetsUpLogging BY <3>2, <2>2 DEF SetsUpLogging, LogAsConfigured
    <3>3. CASE LoggingFails BY <3>3 DEF LoggingFails, Goto, Installed
    <3>4. CASE LoggingThrows BY <3>4 DEF LoggingThrows, Goto, Installed
    <3>5. CASE UNCHANGED <<main, began, log>> BY <3>5, <2>2 DEF Loaded, LogAsConfigured
    <3>6. CASE log' = log /\ main \notin {"load", "logging", "leave", "gone"}
      BY <3>6, <2>2 DEF Loaded, LogAsConfigured
    <3>7. CASE Exits \/ Leaves BY <3>7, <2>2 DEF Exits, Leaves, Goto, Loaded, LogAsConfigured
    <3> QED
      BY <1>2, <3>1, <3>2, <3>3, <3>4, <3>5, <3>6, <3>7 DEF Next, Main, vars,
         ChecksSignals, Installs, InstallFails, Initializes, Initialized, InitializeFails,
         ExecuteStops, ExecuteReturns, ExecuteThrowsForeign, Cleaned, CleanupThrows, Kills,
         Ignored, graceful_signal_handler, fatal_signal_handler, HandlerExits,
         requestShutdown, Goto
  <2> QED BY <1>0, <2>1, <2>2, <2>3, <2>4 DEF Loaded
<1> QED BY <1>1, <1>2
-----------------------------------------------------------------------------
(* The theorems                                                            *)

LEMMA CalledInit == Init => Called
BY DEF Init, Called

LEMMA Invariance == Spec => []IInv
<1>1. Init => IInv BY HandledInit, CalledInit, LoadedInit DEF IInv
<1>2. IInv /\ [Next]_vars => IInv' BY HandledStep, CalledStep, LoadedStep DEF IInv, Handled
<1> QED BY <1>1, <1>2, PTL DEF Spec

\* From the first line of initialize() on, no signal of the graceful set and none
\* of the ignored set ends the process: neither before its handler is installed
\* nor by the handler of a fatal signal, whatever the three sets of a service
\* hold that the check of setup_signal_handlers() lets pass.
THEOREM HandledSignalsSpare == Spec => []HandledSignalsDoNotKill
<1>1. IInv => HandledSignalsDoNotKill
  BY DEF IInv, Handled, Unharmed, HandledSignalsDoNotKill, Wanted
<1> QED BY <1>1, Invariance, PTL

\* run() calls cleanup() once if initialize() returned true, and else never,
\* unless a hook throws something that is no std::exception.
THEOREM CleanupOnce == Spec => []CleanupMatchesInitialize
<1>1. IInv => CleanupMatchesInitialize
  BY DEF IInv, Handled, SetsOK, Called, CleanupMatchesInitialize
<1> QED BY <1>1, Invariance, PTL

\* No service's initialize() runs without a configuration: one with common.log in
\* it, read to its last file, with a common file that findCommon() or the project
\* has, and in a strict one with the framework's log set up from it as validate()
\* accepted it, though not always with the file it names.
THEOREM NeverBeginsUnconfigured == Spec => []FailClosed
<1>1. IInv => FailClosed
  <2> SUFFICES ASSUME IInv, began PROVE FailClosed BY DEF FailClosed
  <2>1. isLoaded /\ (strict => LogAsConfigured)
    BY DEF IInv, Handled, Installed, Loaded
  <2>2. Is(snapshot, <<"common", "log">>, "map") /\ entries = <<>> /\ HasCommon
    BY <2>1 DEF IInv, Loaded, isLoaded
  <2> QED BY <2>1, <2>2 DEF HasCommon, FailClosed
<1> QED BY <1>1, Invariance, PTL
-----------------------------------------------------------------------------
(* Paths and documents                                                     *)

Path == Seq(STRING)

LEMMA RestOfPath ==
  ASSUME NEW w \in Path, NEW k \in 0..Len(w)
  PROVE  /\ SubSeq(w, k + 1, Len(w)) \in Path /\ Len(SubSeq(w, k + 1, Len(w))) = Len(w) - k
         /\ \A i \in 1..(Len(w) - k) : SubSeq(w, k + 1, Len(w))[i] = w[k + i]
<1> DEFINE a == k + 1  b == Len(w)  t == SubSeq(w, a, b)
<1>1. b \in Nat /\ \A i \in 1..b : w[i] \in STRING BY LenProperties, ElementOfSeq DEF Path
<1>2. a \in Int /\ b \in Int /\ \A i \in a..b : w[i] \in STRING BY <1>1
<1>3. k \in Nat /\ b - a + 1 = b - k /\ (a <= b => b - a + 1 = b - k) /\ (~(a <= b) => b - k = 0)
      /\ \A i \in 1..(b - k) : a + i - 1 = k + i
  BY <1>1
<1> HIDE DEF a, b
<1>4. /\ t \in Path /\ Len(t) = IF a <= b THEN b - a + 1 ELSE 0
      /\ \A i \in 1..(b - a + 1) : t[i] = w[a + i - 1]
  BY <1>2, SubSeqProperties DEF Path
<1> HIDE DEF t
<1>5. t \in Path /\ Len(t) = b - k /\ \A i \in 1..(b - k) : t[i] = w[k + i] BY <1>3, <1>4
<1> QED BY <1>5 DEF a, b, t

LEMMA JoinsPaths ==
  ASSUME NEW p \in Path, NEW q \in Path
  PROVE  /\ p \o q \in Path /\ <<>> \in Path
         /\ p \o <<>> = p /\ <<>> \o p = p /\ (p \o q = p => q = <<>>)
         /\ SubSeq(p \o q, 1, Len(p)) = p
         /\ SubSeq(p \o q, Len(p) + 1, Len(p \o q)) = q
         /\ Len(p) \in 0..Len(p \o q)
<1>1. /\ p \o q \in Path /\ Len(p \o q) = Len(p) + Len(q) /\ <<>> \in Path
      /\ \A i \in 1..(Len(p) + Len(q)) :
           (p \o q)[i] = IF i <= Len(p) THEN p[i] ELSE q[i - Len(p)]
  BY ConcatProperties, EmptySeq DEF Path
<1>2. p \o <<>> = p /\ <<>> \o p = p /\ (p \o q = p => q = <<>>)
  BY ConcatEmptySeq, ConcatEqualIffEmpty DEF Path
<1>3. /\ Len(p) \in Nat /\ Len(q) \in Nat
      /\ \A i \in 1..Len(p) : p[i] \in STRING
      /\ \A i \in 1..Len(q) : q[i] \in STRING
  BY LenProperties, ElementOfSeq DEF Path
<1>4. SubSeq(p \o q, 1, Len(p)) = p
  <2> DEFINE t == SubSeq(p \o q, 1, Len(p))
  <2>1. \A i \in 1..Len(p) : (p \o q)[i] = p[i] BY <1>1, <1>3
  <2>2. \A i \in 1..Len(p) : (p \o q)[i] \in STRING BY <1>3, <2>1
  <2>3. /\ t \in Path /\ Len(t) = IF 1 <= Len(p) THEN Len(p) - 1 + 1 ELSE 0
        /\ \A i \in 1..(Len(p) - 1 + 1) : t[i] = (p \o q)[1 + i - 1]
    BY <1>3, <2>2, SubSeqProperties DEF Path
  <2>4. Len(t) = Len(p) /\ \A i \in 1..Len(p) : t[i] = p[i] BY <1>3, <2>1, <2>3
  <2> QED BY <2>3, <2>4, SeqEqual DEF Path
<1>5. SubSeq(p \o q, Len(p) + 1, Len(p \o q)) = q
  <2> DEFINE l == Len(p)  m == Len(q)
             t == SubSeq(p \o q, l + 1, l + m)
  <2>0. l \in Nat /\ m \in Nat BY <1>3
  <2>1. \A i \in 1..m : (p \o q)[l + i] = q[i] BY <1>1, <1>3
  <2>3. p \o q \in Path /\ Len(p \o q) = l + m /\ l + m - l = m /\ l \in 0..(l + m)
    BY <1>1, <2>0
  <2>4. t \in Path /\ Len(t) = m /\ \A i \in 1..m : t[i] = (p \o q)[l + i]
    <3>1. PICK w : w = p \o q OBVIOUS
    <3>2. w \in Path /\ l \in 0..Len(w) /\ Len(w) = l + m BY <2>3, <3>1
    <3>3. /\ SubSeq(w, l + 1, Len(w)) \in Path /\ Len(SubSeq(w, l + 1, Len(w))) = Len(w) - l
          /\ \A i \in 1..(Len(w) - l) : SubSeq(w, l + 1, Len(w))[i] = w[l + i]
      BY <3>2, RestOfPath
    <3> QED BY <2>3, <3>1, <3>2, <3>3
  <2> HIDE DEF l, m, t
  <2>5. \A i \in 1..m : t[i] = q[i] BY <2>1, <2>4
  <2>6. t = q BY <2>4, <2>5, SeqEqual DEF Path, m
  <2> QED BY <1>1, <2>6 DEF l, m, t
<1>6. Len(p) \in 0..Len(p \o q) BY <1>1, <1>3
<1>7. p \o q \in Path /\ <<>> \in Path BY <1>1
<1> QED BY <1>2, <1>4, <1>5, <1>6, <1>7, Zenon

LEMMA PrefixesAre ==
  ASSUME NEW p \in Path
  PROVE  /\ \A q : q \in Prefixes(p) <=> q \in Path /\ \E r \in Path : p = q \o r
         /\ \A q \in Prefixes(p) : /\ SubSeq(p, Len(q) + 1, Len(p)) \in Path
                                   /\ p = q \o SubSeq(p, Len(q) + 1, Len(p))
<1>1. ASSUME NEW q \in Path, NEW r \in Path, p = q \o r PROVE q \in Prefixes(p)
  BY <1>1, JoinsPaths DEF Prefixes
<1>2. ASSUME NEW q \in Prefixes(p) PROVE q \in Path /\ \E r \in Path : p = q \o r
  <2>0. Len(p) \in Nat /\ \A i \in 1..Len(p) : p[i] \in STRING
    BY LenProperties, ElementOfSeq DEF Path
  <2>1. PICK l \in 0..Len(p) : q = SubSeq(p, 1, l) BY <1>2 DEF Prefixes
  <2>2. q \in Path BY <2>0, <2>1, SubSeqProperties DEF Path
  <2>3. SubSeq(p, l + 1, Len(p)) \in Path BY <2>0, <2>1, SubSeqProperties DEF Path
  <2>4. SubSeq(p, 1, l) \o SubSeq(p, l + 1, Len(p)) = SubSeq(p, 1, Len(p))
    <3>1. 1 \in 1..(Len(p) + 1) /\ l \in (1 - 1)..Len(p) /\ Len(p) \in l..Len(p)
      BY <2>0, <2>1
    <3>2. p \in Seq(STRING) BY DEF Path
    <3> QED BY <3>1, <3>2, ConcatAdjacentSubSeq, Zenon
  <2>5. SubSeq(p, 1, Len(p)) = p BY SubSeqFull DEF Path
  <2>6. p = q \o SubSeq(p, l + 1, Len(p)) BY <2>1, <2>4, <2>5, Zenon
  <2> QED BY <2>2, <2>3, <2>6, Zenon
<1>3. ASSUME NEW q \in Prefixes(p)
      PROVE  /\ SubSeq(p, Len(q) + 1, Len(p)) \in Path
             /\ p = q \o SubSeq(p, Len(q) + 1, Len(p))
  <2>1. q \in Path BY <1>2
  <2>2. PICK r \in Path : p = q \o r BY <1>2
  <2>3. SubSeq(p, Len(q) + 1, Len(p)) = r BY <2>1, <2>2, JoinsPaths
  <2> QED BY <2>2, <2>3
<1> QED BY <1>1, <1>2, <1>3

LEMMA PrefixFacts ==
  ASSUME NEW p \in Path
  PROVE  /\ p \in Prefixes(p) /\ <<>> \in Prefixes(p) /\ Prefixes(<<>>) = {<<>>}
         /\ \A q \in Prefixes(p) : q \in Path /\ Prefixes(q) \subseteq Prefixes(p)
<1>1. p \in Prefixes(p) /\ <<>> \in Prefixes(p) BY JoinsPaths, PrefixesAre
<1>2. ASSUME NEW q \in Prefixes(p), NEW r \in Prefixes(q) PROVE r \in Prefixes(p)
  <2>1. q \in Path BY PrefixesAre
  <2>2. PICK a \in Path : p = q \o a BY PrefixesAre
  <2>3. r \in Path /\ \E b \in Path : q = r \o b BY <2>1, PrefixesAre
  <2>4. PICK b \in Path : q = r \o b BY <2>3
  <2>5. (r \o b) \o a = r \o (b \o a)
    <3>1. a \in Seq(STRING) /\ b \in Seq(STRING) /\ r \in Seq(STRING)
      BY <2>2, <2>3, <2>4, Zenon DEF Path
    <3> QED BY <3>1, ConcatAssociative
  <2>6. b \o a \in Path BY <2>2, <2>4, JoinsPaths
  <2>7. \E c \in Path : p = r \o c BY <2>2, <2>4, <2>5, <2>6, Zenon
  <2> QED BY <2>3, <2>7, PrefixesAre, Zenon
<1>3. Prefixes(<<>>) = {<<>>}
  <2>1. <<>> \in Path BY JoinsPaths
  <2>2. ASSUME NEW q \in Prefixes(<<>>) PROVE q = <<>>
    <3>1. PICK r \in Path : q \in Path /\ <<>> = q \o r BY <2>1, PrefixesAre
    <3>2. q \o r = <<>> => q = <<>> BY <3>1, ConcatEqualIffEmpty DEF Path
    <3> QED BY <3>1, <3>2
  <2>3. <<>> \in Prefixes(<<>>) BY <2>1, JoinsPaths, PrefixesAre
  <2> QED BY <2>2, <2>3
<1> QED BY <1>1, <1>2, <1>3, PrefixesAre

\* What a document has at a path.
At(d, p) == IF p \in DOMAIN d THEN d[p] ELSE "absent"

Nothing == [p \in {<<>>} |-> "null"]

LEMMA DocumentFacts ==
  ASSUME NEW d, IsDocument(d)
  PROVE  /\ <<>> \in DOMAIN d /\ DOMAIN d \subseteq Path
         /\ \A p \in DOMAIN d : \A q \in Prefixes(p) : q # p => q \in DOMAIN d /\ d[q] = "map"
         /\ d[<<>>] # "map" => DOMAIN d = {<<>>}
<1>1. /\ <<>> \in DOMAIN d /\ DOMAIN d \subseteq Path
      /\ \A p \in DOMAIN d : \A q \in Prefixes(p) : q # p => q \in DOMAIN d /\ d[q] = "map"
  BY DEF IsDocument, Is, Path
<1>2. \A p \in DOMAIN d : <<>> \in Prefixes(p) BY <1>1, PrefixFacts
<1> QED BY <1>1, <1>2

LEMMA NothingIsDocument == IsDocument(Nothing)
<1>1. <<>> \in Path BY EmptySeq DEF Path
<1>2. Prefixes(<<>>) = {<<>>} BY <1>1, PrefixFacts
<1> QED BY <1>1, <1>2 DEF IsDocument, Nothing, Path

\* A merged map has at a path what the override decides, and else what the base has.
LEMMA MergesMaps ==
  ASSUME NEW b, NEW o, IsDocument(b), IsDocument(o), b[<<>>] = "map", o[<<>>] = "map"
  PROVE  /\ IsDocument(mergeMap(b, o))
         /\ \A p \in Path : At(mergeMap(b, o), p) = IF Decides(o, p) THEN At(o, p) ELSE At(b, p)
<1> DEFINE kept == {p \in DOMAIN b : \A q \in Prefixes(p) \cap DOMAIN o :
                                     Is(o, q, "map") /\ Is(b, q, "map")}
           m == mergeMap(b, o)
<1>1. /\ DOMAIN m = kept \cup DOMAIN o
      /\ \A p \in DOMAIN m : m[p] = IF p \in DOMAIN o THEN o[p] ELSE b[p]
  BY DEF mergeMap
<1> HIDE DEF m
<1>2. /\ <<>> \in DOMAIN o /\ DOMAIN o \subseteq Path /\ DOMAIN b \subseteq Path
      /\ \A p \in DOMAIN o : \A q \in Prefixes(p) : q # p => q \in DOMAIN o /\ o[q] = "map"
      /\ \A p \in DOMAIN b : \A q \in Prefixes(p) : q # p => q \in DOMAIN b /\ b[q] = "map"
  BY DocumentFacts
<1>3. ASSUME NEW p \in DOMAIN m, NEW q \in Prefixes(p), q # p
      PROVE  q \in DOMAIN m /\ m[q] = "map"
  <2>1. CASE p \in DOMAIN o BY <1>1, <1>2, <1>3, <2>1
  <2>2. CASE p \in kept /\ q \in DOMAIN o BY <1>1, <1>3, <2>2 DEF Is
  <2>3. CASE p \in kept /\ q \notin DOMAIN o
    <3>1. q \in DOMAIN b /\ b[q] = "map" BY <1>2, <1>3, <2>3
    <3>2. Prefixes(q) \subseteq Prefixes(p) BY <1>2, <1>3, <2>3, PrefixFacts
    <3>3. q \in kept BY <2>3, <3>1, <3>2
    <3> QED BY <1>1, <2>3, <3>1, <3>3
  <2> QED BY <1>1, <2>1, <2>2, <2>3
<1>4. IsDocument(m)
  <2>1. <<>> \in DOMAIN m /\ \A p \in DOMAIN m : p \in Path BY <1>1, <1>2
  <2> QED BY <1>3, <2>1 DEF IsDocument, Is, Path
<1>5. ASSUME NEW p \in Path, Decides(o, p) PROVE At(m, p) = At(o, p)
  <2>1. CASE p \in DOMAIN o BY <1>1, <2>1 DEF At
  <2>2. CASE p \notin DOMAIN o
    <3>1. PICK q \in Prefixes(p) \cap DOMAIN o : o[q] # "map" BY <1>5, <2>2 DEF Decides
    <3>2. p \notin kept BY <3>1 DEF Is
    <3> QED BY <1>1, <2>2, <3>2 DEF At
  <2> QED BY <2>1, <2>2
<1>6. ASSUME NEW p \in Path, ~Decides(o, p) PROVE At(m, p) = At(b, p)
  <2>1. p \notin DOMAIN o /\ \A q \in Prefixes(p) \cap DOMAIN o : o[q] = "map"
    BY <1>6 DEF Decides, Is
  <2>2. p \in DOMAIN b => p \in kept BY <1>2, <2>1 DEF Is
  <2> QED BY <1>1, <2>1, <2>2 DEF At
<1> QED BY <1>4, <1>5, <1>6 DEF m

\* So it is of any two documents: also one that is empty, or a text at the root.
LEMMA Merges ==
  ASSUME NEW b, NEW o, IsDocument(b), IsDocument(o)
  PROVE  /\ IsDocument(merge(b, o))
         /\ \A p \in Path : At(merge(b, o), p) = IF Decides(o, p) THEN At(o, p) ELSE At(b, p)
<1>1. /\ <<>> \in DOMAIN b /\ <<>> \in DOMAIN o
      /\ b[<<>>] # "map" => DOMAIN b = {<<>>}
      /\ o[<<>>] # "map" => DOMAIN o = {<<>>}
      /\ \A p \in Path : <<>> \in Prefixes(p)
  BY DocumentFacts, PrefixFacts
<1>2. CASE b[<<>>] = "map" /\ o[<<>>] = "map"
  <2>1. merge(b, o) = mergeMap(b, o) BY <1>1, <1>2 DEF merge, Is
  <2> QED BY <1>2, <2>1, MergesMaps
<1>3. CASE o[<<>>] = "null" /\ b[<<>>] # "null"
  <2>1. merge(b, o) = b BY <1>1, <1>3 DEF merge, Is
  <2>2. \A p \in Path : ~Decides(o, p) BY <1>1, <1>3 DEF Decides, Is
  <2> QED BY <2>1, <2>2
<1>4. CASE b[<<>>] = "null" \/ (o[<<>>] # "null" /\ ~(b[<<>>] = "map" /\ o[<<>>] = "map"))
  <2>1. merge(b, o) = o BY <1>1, <1>4 DEF merge, Is
  <2>2. ASSUME NEW p \in Path, ~Decides(o, p) PROVE At(o, p) = At(b, p)
    <3>1. CASE o[<<>>] = "null"
      BY <1>1, <1>4, <3>1 DEF At
    <3>2. CASE o[<<>>] # "null"
      <4>1. p \notin DOMAIN o /\ o[<<>>] = "map" BY <1>1, <2>2, <3>2 DEF Decides, Is
      <4>2. DOMAIN b = {<<>>} BY <1>1, <1>4, <4>1
      <4> QED BY <1>1, <4>1, <4>2 DEF At
    <3> QED BY <3>1, <3>2
  <2> QED BY <2>1, <2>2
<1> QED BY <1>2, <1>3, <1>4
-----------------------------------------------------------------------------
(* Which files count, and in which order                                   *)

LEMMA MaxIsGreatest ==
  ASSUME NEW n \in Nat, NEW T, T \subseteq 0..n, T # {}
  PROVE  Max(T) \in T /\ \A y \in T : Max(T) >= y
<1> DEFINE Down == {n - y : y \in T}
<1>1. Down \subseteq Nat /\ Down # {}
  <2>1. \A y \in 0..n : n - y \in Nat OBVIOUS
  <2> QED BY <2>1
<1>2. Min(Down) \in Down /\ \A y \in Down : Min(Down) <= y
  <2> HIDE DEF Down
  <2> QED BY <1>1, MinIsLeast
<1>3. PICK x \in T : Min(Down) = n - x BY <1>2
<1>4. \A y \in T : n - x <= n - y BY <1>2, <1>3
<1>5. \A y \in T : x >= y BY <1>4
<1> QED BY <1>5 DEF Max

FilesOK ==
  /\ roots \in Seq(ToSet(roots))
  /\ \A f \in DOMAIN files : /\ f = <<f[1], f[2]>> /\ f[2] \in {"common", "conf.d", "svc"}
                             /\ IsDocument(files[f])

LEMMA RanksAre ==
  ASSUME FilesOK, NEW f \in DOMAIN files
  PROVE  /\ Rank(f) \in Nat
         /\ f[2] = "common" => Rank(f) = IF f[1] = Project THEN 2 ELSE 1
         /\ f[2] = "conf.d" => Rank(f) = 3
         /\ f[2] = "svc" /\ f[1] = Local => Rank(f) = 5 + Len(roots)
         /\ f[2] = "svc" /\ f[1] # Local =>
              \/ Rank(f) = 4 /\ f[1] \notin ToSet(roots)
              \/ \E i \in 1..Len(roots) : Rank(f) = 4 + i /\ f[1] = roots[i]
         /\ f[2] = "svc" => \A i \in 1..Len(roots) : f[1] = roots[i] => 4 + i <= Rank(f)
<1> DEFINE at == {i \in DOMAIN roots : roots[i] = f[1]}
<1>1. Len(roots) \in Nat /\ DOMAIN roots = 1..Len(roots) BY LenProperties DEF FilesOK
<1>2. Max({0} \cup at) \in {0} \cup at /\ \A y \in {0} \cup at : Max({0} \cup at) >= y
  <2>1. {0} \cup at \subseteq 0..Len(roots) /\ {0} \cup at # {} BY <1>1
  <2> HIDE DEF at
  <2> QED BY <1>1, <2>1, MaxIsGreatest
<1>3. f[2] = "svc" => Rank(f) = IF f[1] = Local THEN 5 + Len(roots) ELSE 4 + Max({0} \cup at)
  BY DEF Rank
<1>4. f[2] = "common" => Rank(f) = IF f[1] = Project THEN 2 ELSE 1 BY DEF Rank
<1>5. f[2] = "conf.d" => Rank(f) = 3 BY DEF Rank
<1>6. f[2] \in {"common", "conf.d", "svc"} BY DEF FilesOK
<1>7. /\ Max({0} \cup at) \in Nat
      /\ \A i \in 1..Len(roots) : f[1] = roots[i] => i <= Max({0} \cup at)
      /\ \/ Max({0} \cup at) = 0
         \/ Max({0} \cup at) \in 1..Len(roots) /\ f[1] = roots[Max({0} \cup at)]
  BY <1>1, <1>2
<1> HIDE DEF at
<1> DEFINE m == Max({0} \cup at)
<1> HIDE DEF m
<1>8. /\ m \in Nat /\ \A i \in 1..Len(roots) : f[1] = roots[i] => i <= m
      /\ m = 0 \/ (m \in 1..Len(roots) /\ f[1] = roots[m])
  BY <1>7 DEF m
<1>9. CASE f[2] = "svc" /\ f[1] # Local
  <2>1. Rank(f) = 4 + m BY <1>3, <1>9 DEF m
  <2>2. \/ m = 0 /\ f[1] \notin ToSet(roots)
        \/ \E i \in 1..Len(roots) : m = i /\ f[1] = roots[i]
    BY <1>1, <1>8 DEF ToSet
  <2> QED BY <1>8, <1>9, <2>1, <2>2
<1>10. CASE f[2] = "svc" /\ f[1] = Local
  <2>1. Rank(f) = 5 + Len(roots) BY <1>3, <1>10
  <2> QED BY <1>1, <1>10, <2>1
<1> QED BY <1>1, <1>4, <1>5, <1>6, <1>9, <1>10

\* s lists files that count, stage by stage: no stage is above the rank of its file,
\* and the files of G are there in the stage that is their rank.
StagedBy(s, st, lo, hi, G) ==
  /\ s \in Seq(DOMAIN files) /\ st \in [1..Len(s) -> lo..hi]
  /\ \A i, j \in 1..Len(s) : i <= j => st[i] <= st[j]
  /\ \A i \in 1..Len(s) : Used(s[i]) /\ st[i] <= Rank(s[i])
  /\ \A f \in G : \E i \in 1..Len(s) : s[i] = f /\ st[i] = Rank(f)

Staged(s, lo, hi, G) == \E st : StagedBy(s, st, lo, hi, G)

LEMMA StagesJoin ==
  ASSUME NEW s, NEW t, NEW G, NEW H, NEW a \in Nat, NEW b \in Nat, NEW c \in Nat, NEW d \in Nat,
         a <= b, b <= c, c <= d, Staged(s, a, b, G), Staged(t, c, d, H)
  PROVE  Staged(s \o t, a, d, G \cup H)
<1>1. PICK u : StagedBy(s, u, a, b, G) BY DEF Staged
<1>2. PICK v : StagedBy(t, v, c, d, H) BY DEF Staged
<1> DEFINE l == Len(s)  m == Len(t)  w == s \o t
           st == [i \in 1..(l + m) |-> IF i <= l THEN u[i] ELSE v[i - l]]
<1>3. /\ l \in Nat /\ m \in Nat /\ w \in Seq(DOMAIN files) /\ Len(w) = l + m
      /\ \A i \in 1..(l + m) : w[i] = IF i <= l THEN s[i] ELSE t[i - l]
  BY <1>1, <1>2, LenProperties, ConcatProperties DEF StagedBy
<1>4. /\ u \in [1..l -> a..b]
      /\ \A i, j \in 1..l : i <= j => u[i] <= u[j]
      /\ \A i \in 1..l : Used(s[i]) /\ u[i] <= Rank(s[i])
      /\ \A f \in G : \E i \in 1..l : s[i] = f /\ u[i] = Rank(f)
  BY <1>1 DEF StagedBy
<1>5. /\ v \in [1..m -> c..d]
      /\ \A i, j \in 1..m : i <= j => v[i] <= v[j]
      /\ \A i \in 1..m : Used(t[i]) /\ v[i] <= Rank(t[i])
      /\ \A f \in H : \E i \in 1..m : t[i] = f /\ v[i] = Rank(f)
  BY <1>2 DEF StagedBy
<1>6. \A i \in 1..(l + m) : st[i] = IF i <= l THEN u[i] ELSE v[i - l] OBVIOUS
<1>7. st = [i \in 1..(l + m) |-> st[i]] OBVIOUS
<1> HIDE DEF l, m, w, st
<1>0. l \in Nat /\ m \in Nat BY <1>3
<1>8. \A i \in 1..(l + m) : \/ i \in 1..l /\ i <= l
                            \/ i - l \in 1..m /\ ~(i <= l)
  BY <1>0
<1>9. \A i \in 1..(l + m) :
        \/ i \in 1..l /\ i <= l /\ w[i] = s[i] /\ st[i] = u[i] /\ st[i] \in a..b
        \/ i - l \in 1..m /\ ~(i <= l) /\ w[i] = t[i - l] /\ st[i] = v[i - l] /\ st[i] \in c..d
  BY <1>3, <1>4, <1>5, <1>6, <1>8
<1>10. st \in [1..(l + m) -> a..d]
  <2>1. \A x \in (a..b) \cup (c..d) : x \in a..d OBVIOUS
  <2>2. \A i \in 1..(l + m) : st[i] \in a..d BY <1>9, <2>1
  <2> QED BY <1>7, <2>2
<1>11. ASSUME NEW i \in 1..(l + m), NEW j \in 1..(l + m), i <= j PROVE st[i] <= st[j]
  <2>1. CASE i <= l /\ j <= l BY <1>4, <1>9, <1>11, <2>1
  <2>2. CASE i <= l /\ ~(j <= l)
    <3>1. st[i] \in a..b /\ st[j] \in c..d BY <1>9, <2>2
    <3> QED BY <3>1
  <2>3. CASE ~(i <= l) /\ ~(j <= l)
    <3>1. i - l \in 1..m /\ j - l \in 1..m /\ st[i] = v[i - l] /\ st[j] = v[j - l]
      BY <1>9, <2>3
    <3>2. i - l <= j - l BY <1>0, <1>11
    <3> QED BY <1>5, <3>1, <3>2
  <2>4. CASE ~(i <= l) /\ j <= l BY <1>0, <1>11, <2>4
  <2> QED BY <2>1, <2>2, <2>3, <2>4
<1>12. \A i \in 1..(l + m) : Used(w[i]) /\ st[i] <= Rank(w[i]) BY <1>4, <1>5, <1>9
<1>13. ASSUME NEW f \in G PROVE \E i \in 1..(l + m) : w[i] = f /\ st[i] = Rank(f)
  <2>1. PICK i \in 1..l : s[i] = f /\ u[i] = Rank(f) BY <1>4
  <2>2. i \in 1..(l + m) /\ i <= l BY <1>0
  <2>3. w[i] = s[i] /\ st[i] = u[i] BY <1>9, <2>2
  <2> QED BY <2>1, <2>2, <2>3
<1>14. ASSUME NEW f \in H PROVE \E i \in 1..(l + m) : w[i] = f /\ st[i] = Rank(f)
  <2>1. PICK i \in 1..m : t[i] = f /\ v[i] = Rank(f) BY <1>5
  <2>2. i + l \in 1..(l + m) /\ ~(i + l <= l) /\ (i + l) - l = i BY <1>0
  <2>3. w[i + l] = t[i] /\ st[i + l] = v[i] BY <1>9, <2>2
  <2> QED BY <2>1, <2>2, <2>3
<1>15. StagedBy(w, st, a, d, G \cup H)
  BY <1>3, <1>10, <1>11, <1>12, <1>13, <1>14 DEF StagedBy
<1> QED BY <1>15 DEF Staged, w

LEMMA EmptyStaged == ASSUME NEW a \in Nat PROVE Staged(<<>>, a, a, {})
<1> DEFINE st == [i \in 1..0 |-> a]
<1>1. <<>> \in Seq(DOMAIN files) /\ Len(<<>>) = 0 BY EmptySeq
<1>2. StagedBy(<<>>, st, a, a, {}) BY <1>1 DEF StagedBy
<1> QED BY <1>2 DEF Staged

LEMMA OneStaged ==
  ASSUME NEW f \in DOMAIN files, NEW a \in Nat, Used(f), a <= Rank(f)
  PROVE  Staged(<<f>>, a, a, {g \in {f} : Rank(g) = a})
<1> DEFINE st == [i \in 1..1 |-> a]
<1>1. <<f>> \in Seq(DOMAIN files) /\ Len(<<f>>) = 1 /\ <<f>>[1] = f OBVIOUS
<1>2. 1..1 = {1} OBVIOUS
<1>3. st \in [1..1 -> a..a] /\ st[1] = a OBVIOUS
<1> HIDE DEF st
<1>4. StagedBy(<<f>>, st, a, a, {g \in {f} : Rank(g) = a}) BY <1>1, <1>2, <1>3 DEF StagedBy
<1> QED BY <1>4 DEF Staged

LEMMA SmallerStaged ==
  ASSUME NEW s, NEW G, NEW H, NEW a \in Nat, NEW b \in Nat, Staged(s, a, b, H), G \subseteq H
  PROVE  Staged(s, a, b, G)
BY DEF Staged, StagedBy

LEMMA IfExistsStaged ==
  ASSUME NEW f, NEW a \in Nat, Used(f), f \in DOMAIN files => a <= Rank(f)
  PROVE  Staged(IfExists(f), a, a, {g \in DOMAIN files : g = f /\ Rank(g) = a})
<1> DEFINE G == {g \in DOMAIN files : g = f /\ Rank(g) = a}
<1> SUFFICES Staged(IfExists(f), a, a, G) OBVIOUS
<1>1. CASE f \in DOMAIN files
  <2>1. IfExists(f) = <<f>> BY <1>1 DEF IfExists, fileExists
  <2>2. Staged(<<f>>, a, a, {g \in {f} : Rank(g) = a}) BY <1>1, OneStaged
  <2>3. {g \in {f} : Rank(g) = a} = G BY <1>1
  <2> HIDE DEF G
  <2> QED BY <2>1, <2>2, <2>3
<1>2. CASE f \notin DOMAIN files
  <2>1. IfExists(f) = <<>> BY <1>2 DEF IfExists, fileExists
  <2>2. G = {} BY <1>2
  <2> HIDE DEF G
  <2> QED BY <2>1, <2>2, EmptyStaged
<1> QED BY <1>1, <1>2

\* A common or conf.d file is found in the first root that has one.
LEMMA FindFirstStaged ==
  ASSUME FilesOK, NEW name \in {"common", "conf.d"}, NEW a \in Nat,
         \A f \in DOMAIN files : f[2] = name => a <= Rank(f)
  PROVE  Staged(FindFirst(name), a, a,
                {g \in DOMAIN files : /\ g[2] = name /\ Used(g) /\ Rank(g) = a
                                      /\ g # <<Project, "common">>})
<1> DEFINE found == {i \in DOMAIN roots : fileExists(<<roots[i], name>>)}
           G == {g \in DOMAIN files : /\ g[2] = name /\ Used(g) /\ Rank(g) = a
                                      /\ g # <<Project, "common">>}
<1> SUFFICES Staged(FindFirst(name), a, a, G) OBVIOUS
<1>1. Len(roots) \in Nat /\ DOMAIN roots = 1..Len(roots) BY LenProperties DEF FilesOK
<1>2. ASSUME NEW g \in G
      PROVE  \E i \in found : g = <<roots[i], name>> /\ \A j \in 1..(i - 1) : j \notin found
  <2>1. g \in DOMAIN files /\ g = <<g[1], g[2]>> /\ g[2] = name /\ Used(g)
        /\ g # <<Project, "common">>
    BY DEF FilesOK
  <2>2. PICK i \in DOMAIN roots : /\ g[1] = roots[i]
                                  /\ \A j \in 1..(i - 1) : <<roots[j], g[2]>> \notin DOMAIN files
    BY <2>1 DEF Used
  <2>3. g = <<roots[i], name>> BY <2>1, <2>2
  <2>4. i \in found BY <2>1, <2>2, <2>3 DEF fileExists
  <2>5. \A j \in 1..(i - 1) : j \notin found BY <2>1, <2>2 DEF fileExists
  <2> QED BY <2>3, <2>4, <2>5
<1>3. CASE found = {}
  <2>1. FindFirst(name) = <<>> BY <1>3 DEF FindFirst
  <2>2. G = {} BY <1>2, <1>3
  <2> HIDE DEF G
  <2> QED BY <2>1, <2>2, EmptyStaged
<1>4. CASE found # {}
  <2> DEFINE i == Min(found)
             f == <<roots[i], name>>
  <2>1. i \in found /\ \A j \in found : i <= j
    <3>1. found \subseteq Nat BY <1>1
    <3> HIDE DEF found
    <3> QED BY <1>4, <3>1, MinIsLeast
  <2>2. FindFirst(name) = <<f>> BY <1>4 DEF FindFirst
  <2> HIDE DEF i
  <2>3. i \in 1..Len(roots) /\ f \in DOMAIN files BY <1>1, <2>1 DEF fileExists
  <2>4. \A j \in 1..(i - 1) : j \in DOMAIN roots /\ j \notin found
    <3>1. \A j \in 1..(i - 1) : j \in 1..Len(roots) /\ ~(i <= j) BY <1>1, <2>3
    <3> QED BY <1>1, <2>1, <3>1
  <2>5. Used(f)
    <3>1. f[1] = roots[i] /\ f[2] = name /\ name # "svc" OBVIOUS
    <3>2. \A j \in 1..(i - 1) : <<roots[j], f[2]>> \notin DOMAIN files
      BY <2>4, <3>1 DEF fileExists
    <3> QED BY <1>1, <2>3, <3>1, <3>2 DEF Used
  <2>6. Staged(<<f>>, a, a, {g \in {f} : Rank(g) = a}) BY <2>3, <2>5, OneStaged
  <2>7. G \subseteq {g \in {f} : Rank(g) = a}
    <3>1. ASSUME NEW g \in G PROVE g = f
      <4>1. PICK k \in found : g = <<roots[k], name>> /\ \A j \in 1..(k - 1) : j \notin found
        BY <1>2
      <4>2. k \in 1..Len(roots) /\ i <= k /\ ~(i \in 1..(k - 1)) BY <1>1, <2>1, <4>1
      <4>3. k = i BY <1>1, <2>3, <4>2
      <4> QED BY <4>1, <4>3
    <3>2. \A g \in G : Rank(g) = a OBVIOUS
    <3> QED BY <3>1, <3>2
  <2> HIDE DEF G, f
  <2> QED BY <2>2, <2>6, <2>7, SmallerStaged
<1> QED BY <1>3, <1>4

-----------------------------------------------------------------------------
(* The loop over the roots                                                 *)

Loops(f, n) ==
  /\ DOMAIN f = 0..n /\ f[0] = <<>>
  /\ \A k \in 1..n : f[k] = f[k - 1] \o IfExists(<<roots[k], "svc">>)

LEMMA RootEntriesAre ==
  ASSUME FilesOK
  PROVE  Loops(rootEntries, Len(roots))
<1> DEFINE L == Len(roots)
           one(k) == IfExists(<<roots[k], "svc">>)
           Solves(f) == f = [n \in 0..L |-> IF n = 0 THEN <<>> ELSE f[n - 1] \o one(n)]
           bad == {n \in Nat : n <= L /\ ~\E f : Loops(f, n)}
<1>1. L \in Nat BY LenProperties DEF FilesOK
<1>2. \E f : Loops(f, L)
  <2>1. CASE bad = {} BY <1>1, <2>1
  <2>2. CASE bad # {}
    <3>1. PICK m \in bad : \A y \in bad : m <= y
      <4> HIDE DEF bad
      <4>1. bad \subseteq Nat BY DEF bad
      <4> QED BY <2>2, <4>1, MinIsLeast
    <3>2. CASE m = 0
      <4>1. Loops([k \in 0..0 |-> <<>>], 0) BY DEF Loops
      <4> QED BY <3>1, <3>2, <4>1
    <3>3. CASE m # 0
      <4>1. m - 1 \in Nat /\ m - 1 <= L /\ ~(m <= m - 1) BY <1>1, <3>1, <3>3
      <4>2. PICK g : Loops(g, m - 1) BY <3>1, <4>1
      <4> DEFINE f == [k \in 0..m |-> IF k = m THEN g[m - 1] \o one(m) ELSE g[k]]
      <4>3. /\ f[0] = g[0] /\ f[m] = g[m - 1] \o one(m)
            /\ \A k \in 0..(m - 1) : f[k] = g[k]
        BY <3>1, <3>3
      <4>4. \A k \in 1..m : /\ k - 1 \in 0..(m - 1)
                            /\ k = m \/ k \in 1..(m - 1)
        BY <3>1
      <4>5. DOMAIN f = 0..m OBVIOUS
      <4> HIDE DEF f
      <4>8. \A k \in 1..(m - 1) : /\ g[k] = g[k - 1] \o one(k)
                                  /\ k \in 0..(m - 1) /\ k - 1 \in 0..(m - 1)
        <5>1. \A k \in 1..(m - 1) : k \in 0..(m - 1) /\ k - 1 \in 0..(m - 1) BY <3>1
        <5> QED BY <4>2, <5>1 DEF Loops
      <4>6. ASSUME NEW k \in 1..m PROVE f[k] = f[k - 1] \o one(k)
        <5>1. CASE k = m BY <4>3, <4>4, <5>1
        <5>2. CASE k \in 1..(m - 1) BY <4>3, <4>8, <5>2
        <5> QED BY <4>4, <5>1, <5>2
      <4>7. Loops(f, m) BY <4>2, <4>3, <4>5, <4>6 DEF Loops
      <4> QED BY <3>1, <4>7
    <3> QED BY <3>2, <3>3
  <2> QED BY <2>1, <2>2
<1>3. PICK f : Loops(f, L) BY <1>2
<1>4. \E g : Solves(g)
  <2> DEFINE g == [n \in 0..L |-> f[n]]
  <2>1. ASSUME NEW n \in 0..L PROVE g[n] = IF n = 0 THEN <<>> ELSE g[n - 1] \o one(n)
    <3>1. n # 0 => n \in 1..L /\ n - 1 \in 0..L BY <1>1
    <3> QED BY <1>3, <3>1 DEF Loops
  <2>2. Solves(g) BY <2>1
  <2> QED BY <2>2
<1>5. Solves(rootEntries)
  <2>1. rootEntries = CHOOSE g : Solves(g) BY DEF rootEntries
  <2> HIDE DEF Solves
  <2> QED BY <1>4, <2>1
<1>6. ASSUME NEW g, Solves(g) PROVE Loops(g, L)
  <2>1. DOMAIN g = 0..L BY <1>6
  <2>2. \A n \in 0..L : g[n] = IF n = 0 THEN <<>> ELSE g[n - 1] \o one(n) BY <1>6
  <2> HIDE DEF Solves
  <2>3. 0 \in 0..L /\ \A n \in 1..L : n \in 0..L /\ n # 0 BY <1>1
  <2>4. g[0] = <<>> BY <2>2, <2>3
  <2>5. \A n \in 1..L : g[n] = g[n - 1] \o one(n) BY <2>2, <2>3
  <2> QED BY <2>1, <2>4, <2>5 DEF Loops
<1> HIDE DEF Solves
<1> QED BY <1>5, <1>6

\* The files of the first n roots, each in its last root.
InRoots(n) ==
  {g \in DOMAIN files : g[2] = "svc" /\ \E i \in 1..n : g[1] = roots[i] /\ Rank(g) = 4 + i}

LEMMA RootEntriesStaged ==
  ASSUME FilesOK
  PROVE  Staged(rootEntries[Len(roots)], 4, 4 + Len(roots), InRoots(Len(roots)))
<1> DEFINE L == Len(roots)
           OK(n) == Staged(rootEntries[n], 4, 4 + n, InRoots(n))
           bad == {n \in Nat : n <= L /\ ~OK(n)}
<1>1. L \in Nat /\ DOMAIN roots = 1..L BY LenProperties DEF FilesOK
<1>2. Loops(rootEntries, L) BY RootEntriesAre
<1>3. OK(0)
  <2>1. rootEntries[0] = <<>> /\ InRoots(0) = {} BY <1>2 DEF Loops, InRoots
  <2>2. Staged(<<>>, 4, 4, {}) BY EmptyStaged
  <2>3. 4 + 0 = 4 OBVIOUS
  <2> QED BY <2>1, <2>2, <2>3
<1>4. ASSUME NEW n \in 1..L, OK(n - 1) PROVE OK(n)
  <2> DEFINE f == <<roots[n], "svc">>
  <2>0. n \in Nat /\ n - 1 \in Nat /\ n - 1 + 1 = n BY <1>1
  <2>1. rootEntries[n] = rootEntries[n - 1] \o IfExists(f) BY <1>2 DEF Loops
  <2>2. f[1] = roots[n] /\ f[2] = "svc" OBVIOUS
  <2>3. Used(f) BY <1>1, <2>2 DEF Used, ToSet
  <2>4. f \in DOMAIN files => 4 + n <= Rank(f) BY <2>2, RanksAre
  <2>5. Staged(IfExists(f), 4 + n, 4 + n, {g \in DOMAIN files : g = f /\ Rank(g) = 4 + n})
    <3>1. 4 + n \in Nat BY <2>0
    <3> HIDE DEF f
    <3> QED BY <2>3, <2>4, <3>1, IfExistsStaged
  <2>6. Staged(rootEntries[n - 1], 4, 4 + (n - 1), InRoots(n - 1)) BY <1>4
  <2>7. InRoots(n) \subseteq InRoots(n - 1) \cup {g \in DOMAIN files : g = f /\ Rank(g) = 4 + n}
    <3>1. ASSUME NEW g \in InRoots(n), g \notin InRoots(n - 1) PROVE g = f /\ Rank(g) = 4 + n
      <4>1. PICK i \in 1..n : g[1] = roots[i] /\ Rank(g) = 4 + i BY DEF InRoots
      <4>2. i \notin 1..(n - 1) BY <3>1, <4>1 DEF InRoots
      <4>3. i = n BY <2>0, <4>2
      <4> QED BY <4>1, <4>3 DEF InRoots, FilesOK
    <3> QED BY <3>1 DEF InRoots
  <2> HIDE DEF f
  <2>8. Staged(rootEntries[n - 1] \o IfExists(f), 4, 4 + n,
               InRoots(n - 1) \cup {g \in DOMAIN files : g = f /\ Rank(g) = 4 + n})
    <3>1. /\ 4 \in Nat /\ 4 + (n - 1) \in Nat /\ 4 + n \in Nat
          /\ 4 <= 4 + (n - 1) /\ 4 + (n - 1) <= 4 + n /\ 4 + n <= 4 + n
      BY <2>0
    <3> QED BY <2>5, <2>6, <3>1, StagesJoin
  <2> QED BY <2>0, <2>1, <2>7, <2>8, SmallerStaged
<1> HIDE DEF OK
<1>5. bad = {}
  <2> SUFFICES ASSUME bad # {} PROVE FALSE OBVIOUS
  <2>1. PICK m \in bad : \A y \in bad : m <= y
    <3>1. bad \subseteq Nat OBVIOUS
    <3> HIDE DEF bad
    <3> QED BY <3>1, MinIsLeast
  <2>2. m # 0 BY <1>3, <2>1
  <2>3. m \in 1..L /\ m - 1 \in Nat /\ m - 1 <= L /\ ~(m <= m - 1) BY <1>1, <2>1, <2>2
  <2>4. OK(m - 1) BY <2>1, <2>3
  <2> QED BY <1>4, <2>1, <2>3, <2>4
<1> QED BY <1>1, <1>5 DEF OK

\* What is to be read: every file that counts, in stages that follow the ranks.
Complete(r) == Staged(r, 1, 5 + Len(roots), {f \in DOMAIN files : Used(f)})

LEMMA ResolvesAll == ASSUME FilesOK PROVE Complete(resolveAll)
<1> DEFINE L == Len(roots)
           Found(name, a) == {g \in DOMAIN files : /\ g[2] = name /\ Used(g) /\ Rank(g) = a
                                                   /\ g # <<Project, "common">>}
           One(f, a) == {g \in DOMAIN files : g = f /\ Rank(g) = a}
           c == <<Project, "common">>  p == <<Project, "svc">>  l == <<Local, "svc">>
<1>1. L \in Nat BY LenProperties DEF FilesOK
<1>2. /\ c[1] = Project /\ c[2] = "common" /\ p[1] = Project /\ p[2] = "svc"
      /\ l[1] = Local /\ l[2] = "svc"
  OBVIOUS
<1>3. Used(c) /\ Used(p) /\ Used(l) BY <1>2 DEF Used
<1>4. /\ \A f \in DOMAIN files : f[2] = "common" => 1 <= Rank(f)
      /\ \A f \in DOMAIN files : f[2] = "conf.d" => 3 <= Rank(f)
  BY RanksAre
<1>5. /\ c \in DOMAIN files => 2 <= Rank(c)
      /\ p \in DOMAIN files => 4 <= Rank(p)
      /\ l \in DOMAIN files => 5 + L <= Rank(l)
  BY <1>1, <1>2, RanksAre, ConfigConstants
<1> HIDE DEF c, p, l
<1>6. Staged(FindFirst("common"), 1, 1, Found("common", 1)) BY <1>4, FindFirstStaged DEF c
<1>7. Staged(IfExists(c), 2, 2, One(c, 2)) BY <1>3, <1>5, IfExistsStaged
<1>8. Staged(FindFirst("conf.d"), 3, 3, Found("conf.d", 3)) BY <1>4, FindFirstStaged DEF c
<1>9. Staged(IfExists(p), 4, 4, One(p, 4)) BY <1>3, <1>5, IfExistsStaged
<1>10. Staged(rootEntries[L], 4, 4 + L, InRoots(L)) BY RootEntriesStaged
<1>11. Staged(IfExists(l), 5 + L, 5 + L, One(l, 5 + L)) BY <1>1, <1>3, <1>5, IfExistsStaged
<1>12. {f \in DOMAIN files : Used(f)} \subseteq
         ((((Found("common", 1) \cup One(c, 2)) \cup Found("conf.d", 3)) \cup One(p, 4))
           \cup InRoots(L)) \cup One(l, 5 + L)
  <2> SUFFICES ASSUME NEW f \in DOMAIN files, Used(f)
               PROVE  \/ f \in Found("common", 1) \/ f \in One(c, 2) \/ f \in Found("conf.d", 3)
                      \/ f \in One(p, 4) \/ f \in InRoots(L) \/ f \in One(l, 5 + L)
    OBVIOUS
  <2>1. f = <<f[1], f[2]>> /\ f[2] \in {"common", "conf.d", "svc"} BY DEF FilesOK
  <2>2. CASE f[2] = "common" BY <2>1, <2>2, RanksAre DEF c
  <2>3. CASE f[2] = "conf.d" BY <2>1, <2>3, RanksAre
  <2>4. CASE f[2] = "svc" /\ f[1] = Local BY <2>1, <2>4, RanksAre DEF l
  <2>5. CASE f[2] = "svc" /\ f[1] # Local
    <3>1. CASE Rank(f) = 4 /\ f[1] \notin ToSet(roots)
      <4>1. f[1] = Project BY <2>5, <3>1 DEF Used
      <4> QED BY <2>1, <2>5, <3>1, <4>1 DEF p
    <3>2. CASE \E i \in 1..L : Rank(f) = 4 + i /\ f[1] = roots[i] BY <2>5, <3>2 DEF InRoots
    <3> QED BY <2>5, <3>1, <3>2, RanksAre
  <2> QED BY <2>1, <2>2, <2>3, <2>4, <2>5
<1> HIDE DEF Found, One, L
<1>13. /\ 1 <= 1 /\ 1 <= 2 /\ 2 <= 2 /\ 2 <= 3 /\ 1 <= 3 /\ 3 <= 3 /\ 3 <= 4 /\ 1 <= 4 /\ 4 <= 4
       /\ 4 + L \in Nat /\ 5 + L \in Nat /\ 4 <= 4 + L /\ 1 <= 4 + L /\ 4 + L <= 5 + L
       /\ 5 + L <= 5 + L
  BY <1>1
<1>14. Staged(commonEntries, 1, 2, Found("common", 1) \cup One(c, 2))
  BY <1>6, <1>7, <1>13, StagesJoin DEF commonEntries, c
<1>15. Staged(commonEntries \o FindFirst("conf.d"), 1, 3,
              (Found("common", 1) \cup One(c, 2)) \cup Found("conf.d", 3))
  BY <1>8, <1>13, <1>14, StagesJoin
<1>16. Staged((commonEntries \o FindFirst("conf.d")) \o IfExists(p), 1, 4,
              ((Found("common", 1) \cup One(c, 2)) \cup Found("conf.d", 3)) \cup One(p, 4))
  BY <1>9, <1>13, <1>15, StagesJoin
<1>17. Staged(((commonEntries \o FindFirst("conf.d")) \o IfExists(p)) \o rootEntries[L], 1, 4 + L,
              (((Found("common", 1) \cup One(c, 2)) \cup Found("conf.d", 3)) \cup One(p, 4))
                \cup InRoots(L))
  BY <1>10, <1>13, <1>16, StagesJoin
<1>18. Staged((((commonEntries \o FindFirst("conf.d")) \o IfExists(p)) \o rootEntries[L])
                \o IfExists(l), 1, 5 + L,
              ((((Found("common", 1) \cup One(c, 2)) \cup Found("conf.d", 3)) \cup One(p, 4))
                \cup InRoots(L)) \cup One(l, 5 + L))
  BY <1>11, <1>13, <1>17, StagesJoin
<1>19. resolveAll = (((commonEntries \o FindFirst("conf.d")) \o IfExists(p)) \o rootEntries[L])
                      \o IfExists(l)
  BY DEF resolveAll, p, l, L
<1> QED BY <1>12, <1>13, <1>18, <1>19, SmallerStaged DEF Complete, L
-----------------------------------------------------------------------------
(* Reading and merging                                                     *)

\* At every path d has what the last of the first n files of r has that decides it.
Follows(d, r, n) ==
  /\ IsDocument(d)
  /\ \A p \in Path :
       /\ (\A i \in 1..n : ~Decides(files[r[i]], p)) => At(d, p) = At(Nothing, p)
       /\ \A i \in 1..n :
            /\ Decides(files[r[i]], p)
            /\ \A j \in (i + 1)..n : ~Decides(files[r[j]], p)
            => At(d, p) = At(files[r[i]], p)

\* Where load() is in the files of r: n are merged, then those read, then those to read.
ReadsFrom(r, n) ==
  /\ entries \in Seq(DOMAIN files) /\ layers \in Seq({files[f] : f \in DOMAIN files})
  /\ n + Len(layers) + Len(entries) = Len(r)
  /\ \A i \in 1..Len(layers) : layers[i] = files[r[n + i]]
  /\ \A i \in 1..Len(entries) : entries[i] = r[n + Len(layers) + i]
  /\ Follows(merged, r, n)

Reads ==
  /\ FilesOK
  /\ result = "none" => merged = Nothing /\ layers = <<>>
  /\ result = "reading" => \E r, n : r \in Seq(DOMAIN files) /\ n \in Nat /\ Complete(r) /\ ReadsFrom(r, n)
  /\ isLoaded => \E r : Complete(r) /\ Follows(snapshot, r, Len(r))

LEMMA ReadsInit == Init => Reads
<1> SUFFICES ASSUME Init PROVE Reads OBVIOUS
<1>1. PICK d \in Deployments : files = d.files /\ roots = d.roots BY DEF Init
<1>2. FilesOK BY <1>1, ApplicationConstants DEF FilesOK
<1>3. result = "none" /\ merged = Nothing /\ layers = <<>> BY DEF Init, ConfigInit, Nothing
<1> QED BY <1>2, <1>3 DEF Reads, isLoaded

\* Files and roots stay as they are, and so does all that is said of them alone.
LEMMA FilesStay ==
  ASSUME UNCHANGED <<files, roots>>
  PROVE  /\ FilesOK' = FilesOK
         /\ \A r : Complete(r) <=> Complete(r)'
         /\ \A d, r, n : Follows(d, r, n) <=> Follows(d, r, n)'
<1>1. FilesOK' = FilesOK BY DEF FilesOK
<1>2. \A f : Used(f) <=> Used(f)' BY DEF Used
<1>3. \A f : Rank(f) = Rank(f)' BY DEF Rank
<1>4. ASSUME NEW r PROVE Complete(r) <=> Complete(r)'
  <2>1. {f \in DOMAIN files : Used(f)} = {f \in DOMAIN files : Used(f)}' BY <1>2
  <2> QED BY <1>2, <1>3, <2>1 DEF Complete, Staged, StagedBy
<1>5. \A d, r, n : Follows(d, r, n) <=> Follows(d, r, n)' BY DEF Follows
<1> QED BY <1>1, <1>4, <1>5

LEMMA FollowsNext ==
  ASSUME FilesOK, NEW r \in Seq(DOMAIN files), NEW n \in Nat, n + 1 <= Len(r), NEW d,
         Follows(d, r, n)
  PROVE  Follows(merge(d, files[r[n + 1]]), r, n + 1)
<1> DEFINE o == files[r[n + 1]]  m == merge(d, o)
<1>1. IsDocument(o) /\ IsDocument(d)
  <2>1. Len(r) \in Nat /\ n + 1 \in 1..Len(r) BY LenProperties
  <2>2. r[n + 1] \in DOMAIN files BY <2>1, ElementOfSeq
  <2> QED BY <2>2 DEF FilesOK, Follows
<1>2. /\ IsDocument(m)
      /\ \A p \in Path : At(m, p) = IF Decides(o, p) THEN At(o, p) ELSE At(d, p)
  <2> HIDE DEF o
  <2> QED BY <1>1, Merges
<1> HIDE DEF m
<1>3. ASSUME NEW p \in Path
      PROVE  /\ (\A i \in 1..(n + 1) : ~Decides(files[r[i]], p)) => At(m, p) = At(Nothing, p)
             /\ \A i \in 1..(n + 1) :
                  /\ Decides(files[r[i]], p)
                  /\ \A j \in (i + 1)..(n + 1) : ~Decides(files[r[j]], p)
                  => At(m, p) = At(files[r[i]], p)
  <2> DEFINE D(i) == Decides(files[r[i]], p)
  <2>1. At(m, p) = IF D(n + 1) THEN At(files[r[n + 1]], p) ELSE At(d, p) BY <1>2
  <2>2. /\ (\A i \in 1..n : ~D(i)) => At(d, p) = At(Nothing, p)
        /\ \A i \in 1..n : D(i) /\ (\A j \in (i + 1)..n : ~D(j)) => At(d, p) = At(files[r[i]], p)
    BY DEF Follows
  <2> HIDE DEF D
  <2>3. (\A i \in 1..(n + 1) : ~D(i)) => At(m, p) = At(Nothing, p)
    <3>1. n + 1 \in 1..(n + 1) /\ \A i \in 1..n : i \in 1..(n + 1) OBVIOUS
    <3> QED BY <2>1, <2>2, <3>1
  <2>4. ASSUME NEW i \in 1..(n + 1), D(i), \A j \in (i + 1)..(n + 1) : ~D(j)
        PROVE  At(m, p) = At(files[r[i]], p)
    <3>1. CASE i = n + 1 BY <2>1, <2>4, <3>1
    <3>2. CASE i \in 1..n
      <4>1. n + 1 \in (i + 1)..(n + 1) /\ \A j \in (i + 1)..n : j \in (i + 1)..(n + 1)
        BY <3>2
      <4> QED BY <2>1, <2>2, <2>4, <3>2, <4>1
    <3>3. i = n + 1 \/ i \in 1..n OBVIOUS
    <3> QED BY <3>1, <3>2, <3>3
  <2> QED BY <2>3, <2>4 DEF D
<1> QED BY <1>2, <1>3 DEF Follows, m, o

LEMMA ReadsOn ==
  ASSUME FilesOK, UNCHANGED <<files, roots>>, NEW r \in Seq(DOMAIN files), NEW n \in Nat,
         ReadsFrom(r, n), LoadsFile \/ MergesLayer
  PROVE  \E m \in Nat : ReadsFrom(r, m)'
<1> DEFINE E == Len(entries)  L == Len(layers)
           Docs == {files[f] : f \in DOMAIN files}
<1>1. /\ entries \in Seq(DOMAIN files) /\ layers \in Seq(Docs) /\ n + L + E = Len(r)
      /\ \A i \in 1..L : layers[i] = files[r[n + i]]
      /\ \A i \in 1..E : entries[i] = r[n + L + i]
      /\ Follows(merged, r, n) /\ E \in Nat /\ L \in Nat
  BY LenProperties DEF ReadsFrom
<1>0. PICK x : x = merged' OBVIOUS
<1>2. Follows(x, r, n)' <=> Follows(x, r, n) BY FilesStay
<1>3. Follows(x, r, n + 1)' <=> Follows(x, r, n + 1) BY FilesStay
<1>4. CASE LoadsFile
  <2> DEFINE d == files[Head(entries)]
  <2>1. /\ entries # <<>> /\ layers' = Append(layers, d) /\ entries' = Tail(entries)
        /\ merged' = merged
    BY <1>4 DEF LoadsFile
  <2>2. /\ Head(entries) = entries[1] /\ entries[1] \in DOMAIN files /\ E >= 1
        /\ entries' \in Seq(DOMAIN files) /\ Len(entries') = E - 1
        /\ \A i \in 1..(E - 1) : entries'[i] = entries[i + 1]
    BY <1>1, <2>1, HeadTailProperties, EmptySeq
  <2>3. d \in Docs BY <2>2
  <2>4. /\ layers' \in Seq(Docs) /\ Len(layers') = L + 1
        /\ \A i \in 1..L : layers'[i] = layers[i]
        /\ layers'[L + 1] = d
    BY <1>1, <2>1, <2>3, AppendProperties
  <2> HIDE DEF E, L, Docs
  <2>5. n + (L + 1) + (E - 1) = Len(r) BY <1>1
  <2>6. ASSUME NEW i \in 1..(L + 1) PROVE layers'[i] = files[r[n + i]]
    <3>1. CASE i \in 1..L BY <1>1, <2>4, <3>1
    <3>2. CASE i = L + 1
      <4>1. 1 \in 1..E /\ n + L + 1 = n + (L + 1) BY <1>1, <2>2
      <4>2. entries[1] = r[n + (L + 1)] BY <1>1, <4>1
      <4> QED BY <2>2, <2>4, <3>2, <4>2
    <3>3. i \in 1..L \/ i = L + 1 BY <1>1
    <3> QED BY <3>1, <3>2, <3>3
  <2>7. ASSUME NEW i \in 1..(E - 1) PROVE entries'[i] = r[n + (L + 1) + i]
    <3>1. i + 1 \in 1..E /\ n + L + (i + 1) = n + (L + 1) + i BY <1>1
    <3> QED BY <1>1, <2>2, <3>1
  <2>8. Follows(merged, r, n)' BY <1>0, <1>1, <1>2, <2>1
  <2>9. ReadsFrom(r, n)' BY <2>2, <2>4, <2>5, <2>6, <2>7, <2>8 DEF ReadsFrom, Docs
  <2> QED BY <2>9
<1>5. CASE MergesLayer
  <2>1. /\ entries = <<>> /\ layers # <<>> /\ merged' = merge(merged, Head(layers))
        /\ layers' = Tail(layers) /\ entries' = entries
    BY <1>5 DEF MergesLayer
  <2>2. /\ Head(layers) = layers[1] /\ L >= 1
        /\ layers' \in Seq(Docs) /\ Len(layers') = L - 1
        /\ \A i \in 1..(L - 1) : layers'[i] = layers[i + 1]
    BY <1>1, <2>1, HeadTailProperties, EmptySeq
  <2>3. E = 0 /\ Len(entries') = 0 BY <2>1
  <2> HIDE DEF E, L, Docs
  <2>4. /\ n + 1 \in Nat /\ n + 1 <= Len(r) /\ (n + 1) + (L - 1) + 0 = Len(r) /\ 1 \in 1..L
    <3>1. n \in Nat /\ E \in Nat /\ L \in Nat /\ L >= 1 /\ E = 0 /\ n + L + E = Len(r)
      BY <1>1, <2>2, <2>3
    <3> DEFINE k == Len(r)
    <3> HIDE DEF k
    <3>2. n + L + E = k BY <3>1 DEF k
    <3>3. n + 1 \in Nat /\ n + 1 <= k /\ (n + 1) + (L - 1) + 0 = k /\ 1 \in 1..L BY <3>1, <3>2
    <3> QED BY <3>3 DEF k
  <2>5. ASSUME NEW i \in 1..(L - 1) PROVE layers'[i] = files[r[(n + 1) + i]]
    <3>1. i + 1 \in 1..L /\ n + (i + 1) = (n + 1) + i BY <1>1
    <3> QED BY <1>1, <2>2, <3>1
  <2>6. Head(layers) = files[r[n + 1]] BY <1>1, <2>2, <2>4
  <2>7. Follows(x, r, n + 1) BY <1>0, <1>1, <2>1, <2>4, <2>6, FollowsNext
  <2>9. Follows(merged, r, n + 1)' BY <1>0, <1>3, <2>7
  <2>8. ReadsFrom(r, n + 1)'
    BY <1>1, <2>1, <2>2, <2>3, <2>4, <2>5, <2>9 DEF ReadsFrom, Docs
  <2> QED BY <2>4, <2>8
<1> QED BY <1>4, <1>5

LEMMA ReadsStep == Reads /\ [Next]_vars => Reads'
<1> SUFFICES ASSUME Reads, [Next]_vars PROVE Reads' OBVIOUS
<1>1. UNCHANGED <<files, roots>> BY Frame
<1>2. /\ FilesOK /\ FilesOK' /\ \A r : Complete(r) <=> Complete(r)'
      /\ \A d, r, n : Follows(d, r, n) <=> Follows(d, r, n)'
  BY <1>1, FilesStay DEF Reads
<1>3. CASE LoadsConfig
  <2>1. CASE ResolvesPaths
    <3>1. /\ result = "none" /\ entries' = resolveAll /\ result' \in {"not_found", "reading"}
          /\ merged' = merged /\ layers' = layers
      BY <2>1 DEF ResolvesPaths
    <3>2. merged' = Nothing /\ layers' = <<>> BY <3>1 DEF Reads
    <3>3. Complete(resolveAll) BY <1>2, ResolvesAll
    <3> DEFINE r == resolveAll
    <3> HIDE DEF r
    <3>4. Complete(r) /\ r \in Seq(DOMAIN files) /\ entries' = r /\ Len(r) \in Nat
      <4>1. r \in Seq(DOMAIN files) BY <3>3 DEF Complete, Staged, StagedBy, r
      <4> QED BY <3>1, <3>3, <4>1, LenProperties DEF r
    <3>5. Follows(Nothing, r, 0) BY NothingIsDocument DEF Follows
    <3>6. \E q, n : q \in Seq(DOMAIN files') /\ n \in Nat /\ Complete(q)' /\ ReadsFrom(q, n)'
      <4>1. PICK q : q = r OBVIOUS
      <4>2. /\ entries' \in Seq(DOMAIN files') /\ layers' \in Seq({files'[f] : f \in DOMAIN files'})
            /\ Len(layers') = 0 /\ Len(entries') = Len(q)
        BY <1>1, <3>2, <3>4, <4>1, EmptySeq
      <4>3. Follows(merged, q, 0)'
        <5>1. PICK x : x = merged' OBVIOUS
        <5>2. Follows(x, q, 0) BY <3>2, <3>5, <4>1, <5>1
        <5> QED BY <1>2, <5>1, <5>2
      <4>4. 0 + 0 + Len(q) = Len(q) /\ \A i \in 1..Len(q) : 0 + 0 + i = i BY <3>4, <4>1
      <4>5. ReadsFrom(q, 0)' BY <3>4, <4>1, <4>2, <4>3, <4>4 DEF ReadsFrom
      <4> QED BY <1>1, <1>2, <3>4, <4>1, <4>5
    <3> QED BY <1>2, <3>1, <3>6 DEF Reads, isLoaded
  <2>2. CASE LoadsFile \/ MergesLayer
    <3>1. result = "reading" /\ result' = "reading" BY <2>2 DEF LoadsFile, MergesLayer
    <3>2. PICK r, n : r \in Seq(DOMAIN files) /\ n \in Nat /\ Complete(r) /\ ReadsFrom(r, n)
      BY <3>1 DEF Reads
    <3>3. \E m \in Nat : ReadsFrom(r, m)' BY <1>1, <1>2, <2>2, <3>2, ReadsOn
    <3>4. r \in Seq(DOMAIN files') /\ Complete(r)' BY <1>1, <1>2, <3>2
    <3> QED BY <1>2, <3>1, <3>3, <3>4 DEF Reads, isLoaded
  <2>3. CASE LoadFileFails
    BY <1>2, <2>3 DEF LoadFileFails, Reads, isLoaded
  <2>4. CASE Validates
    <3>1. CASE result' = "ok"
      <4>1. /\ result = "reading" /\ entries = <<>> /\ layers = <<>> /\ snapshot' = merged
        BY <2>4, <3>1 DEF Validates
      <4>2. PICK r, n : r \in Seq(DOMAIN files) /\ n \in Nat /\ Complete(r) /\ ReadsFrom(r, n)
        BY <4>1 DEF Reads
      <4>3. n = Len(r) /\ Follows(merged, r, n)
        <5>1. n + 0 + 0 = Len(r) /\ Follows(merged, r, n) BY <4>1, <4>2 DEF ReadsFrom
        <5> QED BY <4>2, <5>1
      <4>4. Complete(r)' /\ Follows(snapshot, r, Len(r))'
        <5>1. PICK x : x = snapshot' OBVIOUS
        <5>2. Follows(x, r, Len(r)) BY <4>1, <4>3, <5>1
        <5> QED BY <1>2, <4>2, <5>1, <5>2
      <4> QED BY <1>2, <3>1, <4>4 DEF Reads
    <3>2. CASE result' = "invalid" BY <1>2, <3>2 DEF Reads, isLoaded
    <3>3. result' \in {"ok", "invalid"} BY <2>4 DEF Validates
    <3> QED BY <3>1, <3>2, <3>3
  <2> QED BY <1>3, <2>1, <2>2, <2>3, <2>4 DEF LoadsConfig, ConfigNext
<1>4. CASE ~LoadsConfig
  <2>1. UNCHANGED configVars
    BY <1>4 DEF Next, Main, vars, load_config, SetsUpLogging, LoggingFails, LoggingThrows,
       ChecksSignals, Installs, InstallFails, Initializes, Initialized, InitializeFails,
       ExecuteStops, ExecuteReturns, ExecuteThrowsForeign, Cleaned, CleanupThrows, Leaves,
       Exits, Kills, Ignored, graceful_signal_handler, fatal_signal_handler, HandlerExits,
       requestShutdown
  <2>2. \A r, n : ReadsFrom(r, n) => ReadsFrom(r, n)' BY <1>2, <2>1 DEF ReadsFrom
  <2> QED BY <1>2, <2>1, <2>2 DEF Reads, isLoaded
<1> QED BY <1>3, <1>4
-----------------------------------------------------------------------------
(* What the getters find                                                   *)

\* A section of a document has, below it, what the document has.
LEMMA SectionIs ==
  ASSUME NEW d, DOMAIN d \subseteq Path, NEW s \in Path
  PROVE  \A q \in Path : /\ q \in DOMAIN getSection(d, s) <=> s \o q \in DOMAIN d
                         /\ s \o q \in DOMAIN d => getSection(d, s)[q] = d[s \o q]
<1> DEFINE below == {SubSeq(r, Len(s) + 1, Len(r)) : r \in {t \in DOMAIN d : s \in Prefixes(t)}}
           v == getSection(d, s)
<1>1. DOMAIN v = below /\ \A q \in below : v[q] = d[s \o q] BY DEF getSection
<1>2. ASSUME NEW q \in Path, s \o q \in DOMAIN d PROVE q \in below
  <2>1. SubSeq(s \o q, Len(s) + 1, Len(s \o q)) = q BY JoinsPaths
  <2>2. s \in Prefixes(s \o q) BY <1>2, PrefixesAre
  <2>3. PICK r : r = s \o q OBVIOUS
  <2>4. r \in {t \in DOMAIN d : s \in Prefixes(t)} /\ SubSeq(r, Len(s) + 1, Len(r)) = q
    BY <1>2, <2>1, <2>2, <2>3, Zenon
  <2> QED BY <2>4, Zenon
<1>3. ASSUME NEW q \in Path, q \in below PROVE s \o q \in DOMAIN d
  <2>1. PICK r \in DOMAIN d : s \in Prefixes(r) /\ q = SubSeq(r, Len(s) + 1, Len(r))
    BY <1>3, Zenon
  <2>2. r = s \o SubSeq(r, Len(s) + 1, Len(r)) BY <2>1, PrefixesAre
  <2> QED BY <2>1, <2>2, Zenon
<1> HIDE DEF below, v
<1>4. \A q \in Path : /\ q \in DOMAIN v <=> s \o q \in DOMAIN d
                      /\ s \o q \in DOMAIN d => v[q] = d[s \o q]
  BY <1>1, <1>2, <1>3
<1> QED BY <1>4 DEF v

\* A getter finds what the document has, from the root or through any section above.
LEMMA NodeOfSection ==
  ASSUME NEW d, IsDocument(d), NEW p \in Path, NEW s \in Prefixes(p)
  PROVE  getNode(getSection(d, s), SubSeq(p, Len(s) + 1, Len(p))) = At(d, p)
<1> DEFINE v == getSection(d, s)
           rest == SubSeq(p, Len(s) + 1, Len(p))
<1>1. s \in Path /\ rest \in Path /\ p = s \o rest BY PrefixesAre
<1>2. /\ DOMAIN d \subseteq Path
      /\ \A t \in DOMAIN d : \A q \in Prefixes(t) : q # t => q \in DOMAIN d /\ d[q] = "map"
  BY DocumentFacts
<1>3. \A q \in Path : /\ q \in DOMAIN v <=> s \o q \in DOMAIN d
                      /\ s \o q \in DOMAIN d => v[q] = d[s \o q]
  BY <1>1, <1>2, SectionIs
<1> HIDE DEF v, rest
<1>4. CASE p \in DOMAIN d
  <2>1. rest \in DOMAIN v /\ v[rest] = d[p] BY <1>1, <1>3, <1>4
  <2>2. ASSUME NEW q \in Prefixes(rest), q # rest PROVE q \in DOMAIN v /\ v[q] = "map"
    <3>1. PICK a \in Path : q \in Path /\ rest = q \o a
      <4>1. q \in Path /\ \E r \in Path : rest = q \o r BY <1>1, <2>2, PrefixesAre
      <4> QED BY <4>1
    <3>2. s \o q \in Path /\ p = (s \o q) \o a
      <4>1. (s \o q) \o a = s \o (q \o a)
        <5>1. s \in Seq(STRING) /\ q \in Seq(STRING) /\ a \in Seq(STRING)
          BY <1>1, <3>1, Zenon DEF Path
        <5> QED BY <5>1, ConcatAssociative
      <4>2. s \o q \in Path BY <1>1, <3>1, JoinsPaths
      <4> QED BY <1>1, <3>1, <4>1, <4>2, Zenon
    <3>3. s \o q \in Prefixes(p) BY <3>1, <3>2, PrefixesAre
    <3>4. s \o q # p
      <4>1. SubSeq(s \o q, Len(s) + 1, Len(s \o q)) = q BY <1>1, <3>1, JoinsPaths
      <4>2. SubSeq(s \o rest, Len(s) + 1, Len(s \o rest)) = rest BY <1>1, JoinsPaths
      <4> QED BY <1>1, <2>2, <4>1, <4>2, Zenon
    <3>5. s \o q \in DOMAIN d /\ d[s \o q] = "map" BY <1>2, <1>4, <3>3, <3>4
    <3> QED BY <1>3, <3>1, <3>5
  <2>3. getNode(v, rest) = v[rest] BY <2>1, <2>2 DEF getNode, Is
  <2> QED BY <1>4, <2>1, <2>3 DEF At, v, rest
<1>5. CASE p \notin DOMAIN d
  <2>1. rest \notin DOMAIN v BY <1>1, <1>3, <1>5
  <2>2. getNode(v, rest) = "absent" BY <2>1 DEF getNode
  <2> QED BY <1>5, <2>2 DEF At, v, rest
<1> QED BY <1>4, <1>5

LEMMA ShowsWhatItHas ==
  ASSUME IsDocument(snapshot), NEW p \in Path
  PROVE  Shows(p, At(snapshot, p))
<1> SUFFICES ASSUME NEW s \in Prefixes(p)
             PROVE  LET view == getSection(snapshot, s)
                        rest == SubSeq(p, Len(s) + 1, Len(p))
                        v == At(snapshot, p)
                    IN /\ getNode(view, rest) = v
                       /\ has(view, rest) <=> v \notin {"absent", "null"}
                       /\ getString(view, rest, "default") =
                            IF v \in {"absent", "null", "map"} THEN "default" ELSE v
  BY DEF Shows
<1> DEFINE view == getSection(snapshot, s)
           rest == SubSeq(p, Len(s) + 1, Len(p))
           v == At(snapshot, p)
<1>1. getNode(view, rest) = v BY NodeOfSection
<1> HIDE DEF view, rest, v
<1>2. has(view, rest) <=> v \notin {"absent", "null"} BY <1>1 DEF has
<1>3. getString(view, rest, "default") = IF v \in {"absent", "null", "map"} THEN "default" ELSE v
  BY <1>1 DEF getString
<1> QED BY <1>1, <1>2, <1>3 DEF view, rest, v
-----------------------------------------------------------------------------
(* The snapshot                                                            *)

\* The last of the complete files that decides a path is of the highest rank.
LEMMA LastRanksHighest ==
  ASSUME FilesOK, NEW r, Complete(r), NEW p
  PROVE  LET deciding == {f \in DOMAIN files : Used(f) /\ Decides(files[f], p)}
             D(i) == Decides(files[r[i]], p)
         IN /\ r \in Seq(DOMAIN files)
            /\ deciding = {} => \A i \in 1..Len(r) : ~D(i)
            /\ deciding # {} => \E i \in 1..Len(r) :
                 /\ D(i) /\ \A j \in (i + 1)..Len(r) : ~D(j)
                 /\ r[i] \in deciding /\ \A g \in deciding : Rank(g) <= Rank(r[i])
<1> DEFINE deciding == {f \in DOMAIN files : Used(f) /\ Decides(files[f], p)}
           D(i) == Decides(files[r[i]], p)
           n == Len(r)
           T == {i \in 1..n : D(i)}
<1>1. PICK st : StagedBy(r, st, 1, 5 + Len(roots), {f \in DOMAIN files : Used(f)})
  BY DEF Complete, Staged
<1>2. /\ r \in Seq(DOMAIN files) /\ n \in Nat /\ Len(roots) \in Nat
      /\ \A i \in 1..n : r[i] \in DOMAIN files
  BY <1>1, LenProperties, ElementOfSeq DEF StagedBy, FilesOK
<1>3. /\ \A i \in 1..n : st[i] \in Int
      /\ \A i, j \in 1..n : i <= j => st[i] <= st[j]
      /\ \A i \in 1..n : Used(r[i]) /\ st[i] <= Rank(r[i])
      /\ \A f \in DOMAIN files : Used(f) => \E i \in 1..n : r[i] = f /\ st[i] = Rank(f)
  <2>1. st \in [1..n -> 1..(5 + Len(roots))] BY <1>1 DEF StagedBy
  <2>2. \A i \in 1..n : st[i] \in Int BY <2>1
  <2>3. /\ \A i, j \in 1..n : i <= j => st[i] <= st[j]
        /\ \A i \in 1..n : Used(r[i]) /\ st[i] <= Rank(r[i])
    BY <1>1 DEF StagedBy
  <2>4. \A f \in {g \in DOMAIN files : Used(g)} : \E i \in 1..n : r[i] = f /\ st[i] = Rank(f)
    BY <1>1 DEF StagedBy
  <2> QED BY <2>2, <2>3, <2>4
<1>4. \A f \in deciding : \E i \in T : r[i] = f /\ st[i] = Rank(f)
  <2> SUFFICES ASSUME NEW f \in deciding PROVE \E i \in T : r[i] = f /\ st[i] = Rank(f)
    OBVIOUS
  <2>1. PICK i \in 1..n : r[i] = f /\ st[i] = Rank(f) BY <1>3
  <2>2. i \in T BY <2>1
  <2> QED BY <2>1, <2>2
<1>5. \A i \in T : i \in 1..n /\ r[i] \in deciding BY <1>2, <1>3
<1>6. deciding = {} => \A i \in 1..n : ~D(i) BY <1>5
<1>7. ASSUME deciding # {}
      PROVE  \E i \in 1..n : /\ D(i) /\ \A j \in (i + 1)..n : ~D(j)
                             /\ r[i] \in deciding /\ \A g \in deciding : Rank(g) <= Rank(r[i])
  <2> DEFINE i == Max(T)
  <2>1. T # {} /\ T \subseteq 0..n BY <1>4, <1>7
  <2>2. i \in T /\ \A j \in T : i >= j
    <3> HIDE DEF T
    <3> QED BY <1>2, <2>1, MaxIsGreatest
  <2> HIDE DEF i
  <2>3. i \in 1..n /\ D(i) /\ r[i] \in deciding BY <1>5, <2>2
  <2>4. ASSUME NEW j \in (i + 1)..n PROVE ~D(j)
    <3>1. j \in 1..n /\ ~(i >= j) BY <1>2, <2>3
    <3> QED BY <2>2, <3>1
  <2>5. ASSUME NEW g \in deciding PROVE Rank(g) <= Rank(r[i])
    <3>1. PICK k \in T : r[k] = g /\ st[k] = Rank(g) BY <1>4
    <3>2. k \in 1..n /\ k <= i BY <1>2, <1>5, <2>2, <2>3, <3>1
    <3>3. st[k] <= st[i] /\ st[i] <= Rank(r[i]) /\ st[k] \in Int /\ st[i] \in Int
      BY <1>3, <2>3, <3>2
    <3>4. Rank(r[i]) \in Nat BY <1>2, <2>3, RanksAre
    <3> QED BY <3>1, <3>3, <3>4
  <2> QED BY <2>3, <2>4, <2>5
<1> QED BY <1>2, <1>6, <1>7

LEMMA ReadsInvariance == Spec => [](IInv /\ Reads)
<1>1. Init => Reads BY ReadsInit
<1>2. Reads /\ [Next]_vars => Reads' BY ReadsStep
<1> QED BY <1>1, <1>2, Invariance, PTL DEF Spec

\* Whatever files a service has, in whatever directories, and whatever their
\* documents: when load() has succeeded, a getter finds at a path, asked from the root
\* or through any section above it, what the file of the highest rank has that says
\* anything about the path, and nothing when no file does.
THEOREM SnapshotIsOfHighestRank == Spec => []SnapshotFollowsPrecedence
<1>1. IInv /\ Reads => SnapshotFollowsPrecedence
  <2> SUFFICES ASSUME IInv, Reads, isLoaded, NEW f0 \in DOMAIN files, NEW p \in DOMAIN files[f0]
               PROVE  LET deciding == {f \in DOMAIN files : Used(f) /\ Decides(files[f], p)} IN
                      IF deciding = {} THEN Shows(p, "absent")
                      ELSE \E f \in deciding : /\ \A g \in deciding : Rank(g) <= Rank(f)
                                               /\ Shows(p, IF p \in DOMAIN files[f] THEN files[f][p]
                                                           ELSE "absent")
    BY DEF SnapshotFollowsPrecedence
  <2> DEFINE deciding == {f \in DOMAIN files : Used(f) /\ Decides(files[f], p)}
  <2>1. FilesOK /\ \E r : Complete(r) /\ Follows(snapshot, r, Len(r)) BY DEF Reads
  <2>2. PICK r : Complete(r) /\ Follows(snapshot, r, Len(r)) BY <2>1
  <2>3. p \in Path BY <2>1, DocumentFacts DEF FilesOK
  <2>4. IsDocument(snapshot) BY <2>2 DEF Follows
  <2>5. Shows(p, At(snapshot, p)) BY <2>3, <2>4, ShowsWhatItHas
  <2>6. /\ (\A i \in 1..Len(r) : ~Decides(files[r[i]], p)) => At(snapshot, p) = At(Nothing, p)
        /\ \A i \in 1..Len(r) :
             Decides(files[r[i]], p) /\ (\A j \in (i + 1)..Len(r) : ~Decides(files[r[j]], p))
             => At(snapshot, p) = At(files[r[i]], p)
    BY <2>2, <2>3 DEF Follows
  <2>7. CASE deciding = {}
    <3>1. \A i \in 1..Len(r) : ~Decides(files[r[i]], p) BY <2>1, <2>2, <2>7, LastRanksHighest
    <3>2. At(snapshot, p) = At(Nothing, p) BY <2>6, <3>1
    <3>3. p # <<>>
      <4>1. <<"common", "log">> \in DOMAIN snapshot BY DEF IInv, Loaded, Is
      <4>2. <<"common", "log">> \in Path /\ <<>> \in Prefixes(<<"common", "log">>)
        BY <2>4, <4>1, DocumentFacts, PrefixFacts
      <4>3. <<>> # <<"common", "log">> OBVIOUS
      <4>4. <<>> \in DOMAIN snapshot /\ snapshot[<<>>] = "map"
        BY <2>4, <4>1, <4>2, <4>3, DocumentFacts
      <4>5. At(snapshot, <<>>) = "map" /\ At(Nothing, <<>>) = "null" BY <4>4 DEF At, Nothing
      <4> QED BY <3>2, <4>5
    <3>4. At(Nothing, p) = "absent" BY <3>3 DEF At, Nothing
    <3> QED BY <2>5, <2>7, <3>2, <3>4
  <2>8. CASE deciding # {}
    <3>1. PICK i \in 1..Len(r) :
            /\ Decides(files[r[i]], p) /\ \A j \in (i + 1)..Len(r) : ~Decides(files[r[j]], p)
            /\ r[i] \in deciding /\ \A g \in deciding : Rank(g) <= Rank(r[i])
      BY <2>1, <2>2, <2>8, LastRanksHighest
    <3>2. At(snapshot, p) = At(files[r[i]], p) BY <2>6, <3>1
    <3>3. Shows(p, IF p \in DOMAIN files[r[i]] THEN files[r[i]][p] ELSE "absent")
      BY <2>5, <3>2 DEF At
    <3> QED BY <2>8, <3>1, <3>3
  <2> QED BY <2>7, <2>8
<1> QED BY <1>1, ReadsInvariance, PTL
=============================================================================

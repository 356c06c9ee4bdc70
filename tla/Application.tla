----------------------------- MODULE Application -----------------------------
(***************************************************************************)
(* The life of a service process: main() of APPLICATION_ENTRY,             *)
(* Application::run, the signal handlers, and the service's other threads. *)
(*                                                                         *)
(* The configuration is ConfigManager's.  The service's hooks initialize(), *)
(* execute() and cleanup() end in every way a C++ function can, and the    *)
(* log reports what it reports.                                            *)
(* Signals reach the process between any two steps.                        *)
(***************************************************************************)
EXTENDS ConfigManager

CONSTANTS
  Signals,     \* the signals somebody may send; all end a process by default
  Refused,     \* signals nobody can catch, and values that are none
  Deployments, \* services: their signal sets, files and directories, and as a bound
               \* how many signals each is sent
  NoSignal

ASSUME ApplicationConstants ==
  /\ NoSignal \notin Signals /\ Refused \subseteq Signals
  /\ \A d \in Deployments :
       /\ d.signals \in Nat
       /\ d.sets \in [graceful: Seq(Signals), fatal: Seq(Signals), ignored: Seq(Signals)]
       /\ d.roots \in Seq(ToSet(d.roots))
       /\ \A f \in DOMAIN d.files : /\ f = <<f[1], f[2]>> /\ f[2] \in {"common", "conf.d", "svc"}
                                   /\ IsDocument(d.files[f])

VARIABLES
  sets,     \* gracefulSignals(), fatalSignals() and ignoredSignals()
  main,     \* the main thread
  todo,     \* sigaction() calls setup_signal_handlers() still has to make
  disp,     \* the disposition of each signal
  log,      \* how logging was set up
  flag,     \* shutdown_requested_
  handler,  \* the signal whose fatal handler is running
  ended, by,  \* how the process ended, and the signal that did it
  began, inited, cleanups,  \* initialize() called, returned true; calls of cleanup()
  foreign,  \* a hook threw something that is no std::exception
  left      \* signals still to come

hookVars   == <<began, inited, cleanups, foreign>>
signalVars == <<disp, handler, ended, by, left>>
vars == <<configVars, sets, main, todo, log, flag, hookVars, signalVars>>

Init ==
  /\ ConfigInit
  /\ \E d \in Deployments : /\ sets = d.sets /\ left = d.signals
                          /\ files = d.files /\ roots = d.roots
  /\ main = "load" /\ todo = <<>> /\ disp = [s \in Signals |-> "default"]
  /\ log = "none" /\ flag = FALSE /\ handler = NoSignal
  /\ ended = "no" /\ by = NoSignal
  /\ began = FALSE /\ inited = FALSE /\ cleanups = 0 /\ foreign = FALSE

\* The main thread goes on in a process that has not ended.
Goto(from, to) == ended = "no" /\ main = from /\ main' = to
-----------------------------------------------------------------------------
(* Start: configuration, log, signals                                      *)

LoadsConfig ==
  /\ Goto("load", "load") /\ ConfigNext
  /\ UNCHANGED <<sets, todo, log, flag, hookVars, signalVars>>

load_config ==
  /\ IF isLoaded THEN Goto("load", "logging")
     ELSE result \in {"not_found", "parse_failed", "invalid"} /\ Goto("load", "leave")
  /\ UNCHANGED <<configVars, sets, todo, log, flag, hookVars, signalVars>>

\* The strict of the configuration that was loaded.
strict == Is(snapshot, <<"common", "log", "strict">>, "true")

\* What as<std::string>() and as<uint32_t>() make of a key of the log, by default "".
Scalar(p) == p \in DOMAIN snapshot /\ snapshot[p] \notin {"map", "null"}
LogKey(key) == LET p == <<"common", "log">> \o key IN IF Scalar(p) THEN snapshot[p] ELSE ""

\* The service's format replaces the common one, also when it is not a text.
Format ==
  LET own == <<"svc", "log", "format">> IN
  IF own \notin DOMAIN snapshot THEN LogKey(<<"format">>)
  ELSE IF Scalar(own) THEN snapshot[own] ELSE ""

\* LogConfigAdapter::validate() of what buildLogConfig() has made of the keys: a number or
\* a level that cannot be converted is the default by then, and so in order.  The default
\* sizes of the files are above a budget of "0".
LogConfigValid ==
  /\ LogKey(<<"schema_version">>) \notin {"0", "2"}
  /\ Format \in {"", "standard", "json"} /\ LogKey(<<"async", "queue_size">>) # "0"
  /\ LogKey(<<"file", "enabled">>) = "true" =>
       /\ LogKey(<<"file", "total_budget_mb">>) # "0"
       /\ ~Is(snapshot, <<"common", "log", "file", "root">>, "")

\* LoggerRegistry::init() returns kOk also when the file it shall log to cannot be opened:
\* lines go to the console, or to stderr.  A service may also use a log of its own.
SetsUpLogging ==
  /\ Goto("logging", "signals")
  /\ \/ log' = "own"
     \/ LogConfigValid /\ log' = "configured"
     \/ LogConfigValid /\ LogKey(<<"file", "enabled">>) = "true" /\ log' = "degraded"
  /\ UNCHANGED <<configVars, sets, todo, flag, hookVars, signalVars>>

\* Mutant: the fallback comes before the look at strict.
LoggingFallsBack ==
  /\ Goto("logging", "signals") /\ log' \in {"minimal", "none"}
  /\ UNCHANGED <<configVars, sets, todo, flag, hookVars, signalVars>>

\* validate() refuses the configuration, or init() throws: it has no memory or no thread.
LoggingFails ==
  /\ IF strict THEN Goto("logging", "leave") /\ UNCHANGED log
               ELSE Goto("logging", "signals") /\ log' \in {"minimal", "none"}
  /\ UNCHANGED <<configVars, sets, todo, flag, hookVars, signalVars>>

\* buildLogConfig() throws at a text where it expects a map (at a sequence it does not).
LoggingThrows ==
  /\ Goto("logging", "leave")
  /\ \E p \in {<<"common", "log", key>> : key \in {"async", "console", "file", "redact"}}
                \cup {<<"svc">>, <<"svc", "log">>} : Scalar(p)
  /\ UNCHANGED <<configVars, sets, todo, log, flag, hookVars, signalVars>>

All(s) == s.graceful \o s.fatal \o s.ignored

\* Mutant: each set is looked at alone.
ValidAlone(s) ==
  \A l \in {s.graceful, s.fatal, s.ignored} :
    ToSet(l) \cap Refused = {} /\ IsInjective(l)

Valid(s) == ToSet(All(s)) \cap Refused = {} /\ IsInjective(All(s))

As(l, d) == [i \in DOMAIN l |-> <<l[i], d>>]

ChecksSignals ==
  /\ IF Valid(sets)
     THEN /\ Goto("signals", "install")
          /\ todo' = As(sets.graceful, "graceful") \o As(sets.fatal, "fatal")
                     \o As(sets.ignored, "ignored")
     ELSE Goto("signals", "leave") /\ UNCHANGED todo
  /\ UNCHANGED <<configVars, sets, log, flag, hookVars, signalVars>>

Installs ==
  /\ todo # <<>> /\ Goto("install", "install")
  /\ disp' = [disp EXCEPT ![todo[1][1]] = todo[1][2]] /\ todo' = Tail(todo)
  /\ UNCHANGED <<configVars, sets, log, flag, hookVars, handler, ended, by, left>>

InstallFails ==
  /\ todo # <<>> /\ Goto("install", "leave")
  /\ UNCHANGED <<configVars, sets, todo, log, flag, hookVars, signalVars>>
-----------------------------------------------------------------------------
(* The hooks                                                               *)

Initializes ==
  /\ todo = <<>> /\ Goto("install", "initialize") /\ began' = TRUE
  /\ UNCHANGED <<configVars, sets, todo, log, flag, inited, cleanups, foreign, signalVars>>

\* Mutant: a request from the time of initialize() is forgotten.
InitializedAnew ==
  /\ Goto("initialize", "execute") /\ inited' = TRUE /\ flag' = FALSE
  /\ UNCHANGED <<configVars, sets, todo, log, began, cleanups, foreign, signalVars>>

Initialized ==
  /\ Goto("initialize", "execute") /\ inited' = TRUE
  /\ UNCHANGED <<configVars, sets, todo, log, flag, began, cleanups, foreign, signalVars>>

\* It returns false or throws.
InitializeFails ==
  /\ Goto("initialize", "leave") /\ foreign' \in BOOLEAN
  /\ UNCHANGED <<configVars, sets, todo, log, flag, began, inited, cleanups, signalVars>>

\* execute() waits in waitForShutdown(), or looks at isShutdownRequested().
ExecuteStops ==
  /\ flag /\ Goto("execute", "cleanup") /\ cleanups' = cleanups + 1
  /\ UNCHANGED <<configVars, sets, todo, log, flag, began, inited, foreign, signalVars>>

\* Mutant: an exception leaves run() as one of initialize() does.
ExecuteLeaves ==
  /\ Goto("execute", "leave")
  /\ UNCHANGED <<configVars, sets, todo, log, flag, hookVars, signalVars>>

\* It returns on its own account or throws a std::exception.
ExecuteReturns ==
  /\ Goto("execute", "cleanup") /\ cleanups' = cleanups + 1
  /\ UNCHANGED <<configVars, sets, todo, log, flag, began, inited, foreign, signalVars>>

ExecuteThrowsForeign ==
  /\ Goto("execute", "leave") /\ foreign' = TRUE
  /\ UNCHANGED <<configVars, sets, todo, log, flag, began, inited, cleanups, signalVars>>

\* cleanup() returns, the last events are logged and flushed.
Cleaned ==
  /\ Goto("cleanup", "leave")
  /\ UNCHANGED <<configVars, sets, todo, log, flag, hookVars, signalVars>>

CleanupThrows ==
  /\ Goto("cleanup", "leave") /\ foreign' \in BOOLEAN
  /\ UNCHANGED <<configVars, sets, todo, log, flag, began, inited, cleanups, signalVars>>

\* run() returns or is unwound; the application object goes with main's block.
Leaves ==
  /\ Goto("leave", "gone")
  /\ UNCHANGED <<configVars, sets, todo, log, flag, hookVars, signalVars>>

Exits ==
  /\ Goto("gone", "gone") /\ ended' = "exit"
  /\ UNCHANGED <<configVars, sets, todo, log, flag, hookVars, disp, handler, by, left>>

Main ==
  \/ LoadsConfig \/ load_config \/ SetsUpLogging \/ LoggingFails \/ LoggingThrows
  \/ ChecksSignals
  \/ Installs \/ InstallFails \/ Initializes \/ Initialized \/ InitializeFails
  \/ ExecuteStops \/ Cleaned \/ CleanupThrows \/ Leaves \/ Exits
-----------------------------------------------------------------------------
(* Signals and other threads                                               *)

Sends(s, d) == ended = "no" /\ left > 0 /\ disp[s] = d /\ left' = left - 1

Kills(s) ==
  /\ Sends(s, "default") /\ ended' = "killed" /\ by' = s
  /\ UNCHANGED <<configVars, sets, main, todo, disp, log, flag, handler, hookVars>>

Ignored(s) ==
  /\ Sends(s, "ignored")
  /\ UNCHANGED <<configVars, sets, main, todo, disp, log, flag, handler, ended, by, hookVars>>

\* Once main's block is left, the object behind g_app_instance is no more.
graceful_signal_handler(s) ==
  /\ Sends(s, "graceful") /\ flag' = (flag \/ main # "gone")
  /\ UNCHANGED <<configVars, sets, main, todo, disp, log, handler, ended, by, hookVars>>

\* SA_RESETHAND, and the handler begins.
fatal_signal_handler(s) ==
  /\ Sends(s, "fatal") /\ disp' = [disp EXCEPT ![s] = "default"] /\ handler' = s
  /\ UNCHANGED <<configVars, sets, main, todo, log, flag, ended, by, hookVars>>

\* _exit(): no destructor runs.
HandlerExits ==
  /\ ended = "no" /\ handler # NoSignal /\ ended' = "fatal" /\ by' = handler
  /\ UNCHANGED <<configVars, sets, main, todo, log, flag, hookVars, disp, handler, left>>

requestShutdown ==
  /\ ended = "no" /\ main \in {"initialize", "execute", "cleanup"} /\ flag' = TRUE
  /\ UNCHANGED <<configVars, sets, main, todo, log, hookVars, signalVars>>

Next ==
  \/ Main \/ ExecuteReturns \/ ExecuteThrowsForeign
  \/ HandlerExits \/ requestShutdown
  \/ \E s \in Signals :
       Kills(s) \/ Ignored(s) \/ graceful_signal_handler(s) \/ fatal_signal_handler(s)

Spec == Init /\ [][Next]_vars

\* Hooks return, execute() when it is asked to.
FairSpec == Spec /\ WF_vars(Main)
-----------------------------------------------------------------------------
TypeOK ==
  /\ ConfigTypeOK
  /\ main \in {"load", "logging", "signals", "install", "initialize", "execute",
               "cleanup", "leave", "gone"}
  /\ todo \in Seq(Signals \X {"graceful", "fatal", "ignored"})
  /\ disp \in [Signals -> {"default", "graceful", "fatal", "ignored"}]
  /\ log \in {"none", "configured", "degraded", "minimal", "own"}
  /\ flag \in BOOLEAN /\ handler \in Signals \cup {NoSignal}
  /\ ended \in {"no", "exit", "killed", "fatal"} /\ by \in Signals \cup {NoSignal}
  /\ began \in BOOLEAN /\ inited \in BOOLEAN /\ cleanups \in Nat
  /\ foreign \in BOOLEAN /\ left \in Nat

\* From the first line of initialize() until main's block is left, whatever the
\* service has put into the three sets and wherever the main thread is, no
\* graceful and no ignored signal ends the process.
HandledSignalsDoNotKill ==
  began /\ main # "gone" => by \notin ToSet(sets.graceful) \cup ToSet(sets.ignored)

\* cleanup() is called if and only if initialize() has returned true, and once,
\* on all ways out of run() but that of an exception which is no std::exception.
CleanupMatchesInitialize ==
  /\ cleanups > 0 => inited /\ cleanups = 1
  /\ main = "gone" /\ inited /\ ~foreign => cleanups = 1

\* The framework's log has not fallen back to the default configuration.
LogAsConfigured == log = "own" \/ (log \in {"configured", "degraded"} /\ LogConfigValid)

\* No service begins but with a configuration all of whose files were read, one
\* common file among them, and with a common.log in it; and if that says strict,
\* the framework's log has been set up from it as validate() accepted it, never
\* from the defaults (setup_logging, application.h:101) - though its file may be
\* missing and a value that could not be converted be a default.
FailClosed ==
  began => /\ isLoaded /\ Is(snapshot, <<"common", "log">>, "map")
           /\ entries = <<>> /\ \E f \in DOMAIN files : f[2] = "common" /\ Used(f)
           /\ strict => LogAsConfigured

\* A request to shut down, from a signal or a thread and however early it
\* comes, ends the process.
StopsWhenAsked == flag ~> ended # "no"
=============================================================================

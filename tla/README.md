# Verification of iov-vehicle-tbox-framework

TLA+ models of the framework's stateful parts, TLC runs that check them on
small instances, and TLAPS proofs of all their safety properties for every
instance. All paths are relative to the root of the repository; the sources are
under `src/src/` and `src/include/`.

1. Inventory of the system
2. Modules, and how they correspond to the code
3. Runs: what each checks, its bounds
4. Fairness
5. Proofs
6. Where the code and its documentation disagree
7. Abstractions and limits
8. Plan

## 1. Inventory

The framework is a C++ library that a service of the vehicle's T-Box links. A
service derives from `Application`, which loads the configuration, sets logging
up and waits for a signal; it talks to other services with the IPC library,
keeps small values in the `Store`, and uses hash and string utilities.

| component | sources | state | operations | hard behaviour |
|---|---|---|---|---|
| IPC server | `ipc/ipc_server.cpp` | `m_running`, `m_listenFd`, the wake pipe, `m_clients` (descriptor -> stream and subscriptions), handlers; one mutex plus a `write_mutex` per connection | `start`, `stop`, accept thread, one detached thread per connection, `push_event`, `push_event_to`, `add_subscription`, `remove_subscription` | descriptor numbers are closed and reused while other threads still hold them; `stop()` races accepting, clean-up and pushes; a restart meets threads of the previous run |
| IPC client, calls | `ipc/ipc_client.cpp` (`Client::Impl`) | `m_fd`, `m_connected`, `m_callMutex`, `m_stateMutex` | `connect`, `disconnect`, `call` (one reconnect and retry), `callOnce` | time-out while the answer is under way; `disconnect`/`connect` during a call, and other files taking the number it frees; a server that stops reading |
| IPC client, subscription | `ipc/ipc_client.cpp` (`Subscription::Impl`, `Client::Impl::subscribe`) | `m_active`, `m_fd`, `m_cancelMutex`, the reader thread; the client's `m_subscriptions` under `m_subMutex` | `subscribe`, `start`, `cancel`, `disconnect`, `runLoop` with handshake, event loop, back-off | `cancel()` races connect, handshake, reading and closing; `disconnect()` joins with `m_subMutex` held, also a thread whose callback wants it; events that overtake the handshake Response |
| IPC protocol | `ipc/ipc_protocol.cpp` | the bytes of a frame that are still to be written or read | frames of header and body, base64, length check | partial reads and writes, time-outs inside a frame, the 32-bit length field, the greatest length |
| Store | `store/store.cpp`, `store_atomic_writer.cpp`, `store_file_lock.cpp` | `<key>`, `<key>.tmp`, `<key>.lock`, the directory; `m_lockFds` and `m_ready` per process | `open`, `save`, `load`, `remove`, `loadOr`, `flush`, `cleanup` | several threads and processes, kills, power losses, failing system calls, `cleanup()` under running writers |
| Store helpers | `store_path_resolver.cpp`, `store_serializer.cpp`, `store_flush_policy.cpp` | the flush policy's counters | conversion of keys and values | none that is stateful: `Store` never asks the policy |
| Log dispatcher and registry | `log_async_dispatcher.cpp`, `log_logger.cpp` | bounded queue, worker, `m_running`, dropped count; the registry's loggers | `submit`, `flush`, `stop`, `init`, `shutdown`, `getLogger`, `log`, `fatal` | the queue at its limit; `flush`/`stop` against submits; records overtaking each other; a second `init()` under Loggers of the first |
| Log sinks | `log_rolling_file_sink.cpp`, `log_sink_manager.cpp` | the directory, open file, size, index | `write`, rotation, removal of the oldest, `flush` | kills in the middle of a rotation, restarts with files of an earlier run, `flush` during a rotation |
| Log formatting | `log_*_formatter.cpp`, `log_redactor.cpp`, `log_enricher.cpp` | none | text | none |
| Application | `application.cpp` | where `run()` is, dispositions, `shutdown_requested_` | `run`, the signal handlers, `requestShutdown`, `load_config`, `setup_logging` | hooks that fail or throw, signals at any time |
| Configuration | `config/*.cpp` | `m_snapshot`, `m_loaded`, `m_lastError` | `load`: resolve paths, read, merge, validate; getters of the snapshot | precedence of up to six layers in several directories, keys that change their shape between layers, files that go between `stat` and reading |
| Hash | `hash/sha256.cpp` | block buffer, length, chaining value | `update`, `finalize` | block and padding boundaries |
| Utilities | `utils.cpp` | global key/value files | read and write, hex | boundaries |

How they interact. The server's connection threads and the application's
threads share `m_clients` and the streams (calls and callbacks under
`m_mutex`/`write_mutex`); client and server exchange frames over Unix stream
sockets; a `Client` owns weak references to its subscriptions and cancels them in
`disconnect()`; all of them share the process's descriptor table. Processes share
the `Store`'s directory through the file system and `flock`. `Application` calls the
configuration, the log registry and the service's hooks in sequence.

What makes each correct:

- server: the registry is exact, no thread serves a descriptor that is not its
  own, callbacks of different connections never share a number, a disconnect is
  reported at most once, frames stay whole, `stop()` reaches everybody and returns;
- client: at most one execution per `callOnce`, two per `call`; a response belongs
  to its request; every call returns once the server has read a large request;
- subscription: `cancel()` joins and terminates, hits no other connection, no
  descriptor leaks, events in order, the loop survives everything but a rejection;
- store: a key is a register that changes in one step and survives power losses;
- dispatcher: what is queued is written once and in order, whichever `init()` it falls under,
  `shutdown()` returns with everything written that was queued before it, `flush()`
  leaves at most the batch in hand;
- sinks: the files hold the newest lines, enough of them and within the limit, and
  what was written before a `flush()` is on disk after it;
- application: `cleanup()` runs once, exactly when `initialize()` succeeded, a request to
  shut down ends the process, a handled signal does not;
- configuration: each key is as the layer of highest rank that speaks about it says, no service
  begins without a valid configuration, and none that is strict with a log made from the defaults;
- protocol: frames are returned whole and in order however the stream is cut, and a frame within the limit arrives; the base64
  text is that of the data;
- hash: the digest is that of the padded message, however the message was cut.

The hazards in `PROJECT.json` give the lines where each of these bites.

## 2. Modules

### IpcServer

One action per step between two synchronisation points of `ipc_server.cpp`. Critical
sections of `m_mutex` are one step, because nothing blocks inside them.

| state | code |
|---|---|
| `running`, `ctl`, `ctlFds`, `handlers` | `m_running`, where `start()`/`stop()` is, its local `fds`, the installed handlers (0: none; otherwise the number of the run that installed them) |
| `acc`, `accConn`, `woken` | the accept thread, the connection between `accept()` and `m_clients[fd] = ...`, the byte in the wake pipe |
| `clients`, `subs`, `wlock` | `m_clients`, the subscriptions in its entries, each entry's `write_mutex` (an entry lives as long as a `shared_ptr` to it, hence keyed by connection) |
| `pc`, `fdOf`, `req`, `handler`, `disc` | a connection thread's place, `client_fd`, its request, the handler it has copied, how often it called the disconnect handler |
| `file`, `up`, `inbox`, `stalled` | the kernel: what a descriptor number stands for, which streams are open, requests under way, peers that stopped reading |
| `partial`, `broken`, `strayed` | what peers see: whose frame is half written on a stream, streams with mixed frames, streams that received bytes meant for another |
| `ppc`, `todo`, `cur` | a thread in `push_event`: its targets and the current one |

`Control` is `start()` and `stop()`, `Acceptor` the accept thread, `ConnRuns(c)` the
connection thread of `c` and `Push(p)` a pushing thread; `Environment` has the
peers and the rest of the process, which opens and closes files and so takes
descriptor numbers. A frame is two `send()` calls (`SendPart`), since `writeResponse` and
`writeEvent` may need several for the one buffer they hand to `writeAll`: the write lock is what keeps them
together. A number that was collected under `m_mutex` and used after it is used as
what `file` says it is *then*.

### IpcSubscription

`RunLoop` has the reader thread's steps, from `Checks` (the `while (m_active)`)
through `ConnectOk`, `RequestOk`, `ResponseOk`, `Stores` (m_fd), `ReadOk`,
`CallbackReturns` to `Closes` and `BacksOff`, with a failing alternative for each system
call; `CancelRuns(t)` has `cancel()` (lock, flip `m_active`, take `m_fd`, `shutdown`,
join). `Self` is the callback on the reader thread: it may call `cancel()`, `disconnect()` of its client or
`subscribe()` for another subscription (`CallbackSubscribes`, `CallbackEnlists`). `SubscribeLists` and `SubscribeStarts` are
`Client::subscribe()`, which lists the subscription under `m_subMutex` (`sub`, `listed`) before it starts the thread;
`DisconnectLocks` .. `DisconnectClears` are `Client::disconnect()`, which cancels what is listed with that mutex held. The server
part (`Handles`, `Responds`, `Pushes`) is the order of `connectionLoop`: the handler
subscribes, then the Response is written. A frame is its first word and a number:
`readResponse` would take an event's type for a status, as the code does.
`silent` is a server that hangs: the kernel still takes connections into the backlog (`ConnectOk`) until that is full (`ConnectFails`: the socket is
non-blocking during `connectWithTimeout`, `ipc_client.cpp:29`, so `connect()` fails at once with `EAGAIN` or after `connect_timeout_ms`, and never blocks), small requests go into
the socket's buffer, and one that exceeds it (`LargeParams`) stays in `send()` (`Blocked`), where `cancel()` cannot reach it, `m_fd` being -1.

### IpcProtocol, Base64, Sha256

`IpcProtocol` is one direction of a connection: `WriteBegins`, `Sends` and `SendFails` are `writeRequest` (and the other two) over
`writeAll`, `ReadBegins`, `Recvs`, `HeaderRead` and `BodyRead` are `readRequest` over `readExact`, with the end of the stream and the
time-out at any byte. `out` and `buf` are the bytes behind and before `ptr`, `stream` is what the socket holds. The two words of a header are a unit each,
counted modulo `Modulus` as the `uint32_t` is; a unit is a code, a length or a byte of a body only by its position.

`Base64` has `base64Encode` and `base64Decode` over groups of three and four; `Base64Exact` compares them with the text bit by bit
(`Bit`, `Digit`), also for every beginning of a text. A character is its index in `kBase64Chars`.

`Sha256` has the block buffer of `update()` and `finalize()`. A message is the sequence of its positions, so no byte can stand for
another, and `m_state` is the concatenation of the blocks compressed so far: two digests are equal only if the padded messages are.

### IpcClient

Threads in `call`, `callOnce`, `connect` and `disconnect`; `Locks` to `Returns` are the
stations of a call between its critical sections of `m_stateMutex`. `Sends` and `Waits` enter `send()` and
`recv()` (`Enters`), which hold the file they find under the number, not the number: after a `close()` by
`disconnect()` the stream lives until the call leaves it (`Leaves`). A request of `Large` is larger than the socket's buffer, and its
`send()` ends when the server has read it, which nobody has to. `ForeignOpens` and `ForeignCloses` are the other clients, subscriptions and files of the process:
a number that `disconnect()` frees between `getFd()` and the use of it may stand for one of them, and `SendsAstray`, `ReceivesAstray` and
`LosesData` (its header came from the call's own connection) do with it what an unknown file may do, executing the request elsewhere and giving back a frame of
somebody else included. `CallRuns` are the steps that end by themselves, `CallGoesOn` those that need the server or the foreign file. `Executes` is the server's
thread of one connection.

### Store, StoreRegister

`Runs(t)` has the steps of `save`, `remove`, `load` and `cleanup`, one per system call: `flock`
file (`LockOpens` .. `LockTimesOut`), `open(O_TRUNC)`, `write`, `fsync`, `rename`,
directory `fsync`, unlock, unlink of the lock file. `cleanup()` is `Opendirs`, `CleanupUnlinks` of one entry after the other - those that were there and any
that have been created since - and `Rmdirs`, which fails when the directory has entries again; `Opens` is `Store::open` with
`ensureDirectory()`. `ProcOf` says which threads share a process and so a Store object. `held` is `m_lockFds` of a process,
`mutex` its mutex, `lockPath` the inode the lock's path names, `data`/`disk` what an
inode holds and what of that is on the disk, `names` what the key's path may name
after a power loss. `Killed(p)` stops a process, `PowerFails` all of them, with any
unsynced subset lost. `StoreRegister` is what the guide promises of a key: a register
that changes in one step, and a power loss that takes it back at most to a value
since the last sync. `RegisterSpec` states the refinement. `crossed` is a history variable: the lock has let two threads in at once, in one of the ways
`Crosses` lists (a second thread of the process, two lock files of the same name, a `cleanup()` beside a writer). `LockExcludes` says that there is no
other way, and the promises hold until then.

### LogDispatcher

`AsyncDispatcher` and the parts of `LoggerRegistry` that use it. A record is a thread and
a number; its level is the thread's.

| state | code |
|---|---|
| `queue`, `qlock`, `running` | `m_queue`, the dispatcher's `m_mutex` where it is held over several steps (only `stop()` draining), `m_running` |
| `wpc`, `batch`, `out` | `workerLoop`: its place, the records of `batch` that are not written yet, what the worker and `stop()` have given to `m_writer` |
| `pc`, `line`, `direct`, `stderr` | a thread in `Logger::log` or `forwardRaw`: its place in `submit()`, how many records it has finished, what it wrote past the queue |
| `initialized`, `regLock`, `spc` | `LoggerRegistry::m_initialized`, its `m_mutex`, threads in `shutdown()` |
| `gen`, `async`, `keeps` | how often `init()` has initialised, whether `m_dispatcher` is there, and of which `init()` a thread's `Logger` is |
| `fpc` | threads in `flush()` |
| `fate`, `order`, `goal` | ghosts: what `submit()` decided, the order of queueing, what had been queued when `stop()` or `flush()` began |

`Enqueues`, `Overflows`, `Drops` and `Retries` are the critical sections of `submit()`; the
warning's 10 ms sleep lies between `Overflows` and `Retries`/`Drops`. `WorkerTakes` is one
critical section too; `WorkerWrites` writes record by record without the lock, `StopDrains`
with it. Waits end on their time-outs as well (`WorkerTakes` with an empty queue,
`FlushTimesOut`), so a notification that comes too early costs time, not progress. `BridgeBegins`
is `forwardRaw`'s look at `m_initialized`, apart from the `submit()` that follows it. `Inits` makes a dispatcher or, on the synchronous path, none, and
destroys the one before. A `Logger` that `Gets` gave before that (`LogsStale`), or a call that slept over it, uses what has been destroyed: that
is undefined, and the behaviour ends there (`Stale`).

### RollingFileSink

`files` is the log directory, `handle` and `buffer` are `m_file` and what stdio holds of it, `index`,
`size`, `available` the members of that name. `SinkManager::m_mutex` lets one thread write at a
time, so `wpc` is the place of whoever holds it: `Writes`, then, when the size is reached,
`MakesRoom` (count, remove the smallest index), `Closes` and `Opens`. `flush()` takes no mutex: `FlushReads` and
`FlushRuns` are its look at `m_file` and its use of it. A process `Starts`, `Exits` or is
`Killed`; `told` are the accepted lines a kill has not taken, `inherited` says that a run
found files of an earlier rotation.

### ConfigManager

A file is a pair of directory and name, a document a function from key paths to "map", "null" or a
scalar, with a map above each of its paths (`IsDocument`); a sequence is a scalar here, since the merger treats both alike. `ResolvesPaths` is the
list of the existing files in the order of the layers (`resolveAll`, with `FindFirst` for the files that count in one root only and `rootEntries` for the loop over the roots),
`LoadsFile` and `LoadFileFails` read it one by one, `MergesLayer` is an iteration of `mergeMultiple`, `Validates` the
rule on `common.log` and the snapshot. `mergeMap`, recursive in the code, is one union here: what the base has at a path stays
unless the override has the path, or something above it that is not a map in both. What the snapshot has to be
is defined apart from this, over the files alone: `Used`, `Rank` and `Decides`. `getNode`, `has`, `getString` and `getSection` are the getters, and
`Shows` is what they return for a key, asked from the root or through any section above it. `Rank` is the order of
`path_resolver.h:41`.

### Application (with ConfigManager)

`main` is the main thread between `load_config` and the end of `main()`, with `todo` the
`sigaction` calls still to make and `disp` the dispositions. While it is in `load_config` it takes the steps of
`ConfigManager`, with signals between them; `strict` is read from the snapshot, and
`LogConfigValid` is `LogConfigAdapter::validate()` over what `buildLogConfig` makes of the keys there (`LogKey`, `Format`): a level or number that cannot be converted
is the default before it is looked at. `SetsUpLogging` is `Logger::init()` as it reports success: `log` is "configured", "degraded" when the file sink could not make its
directory or open its file, which it does not report, or "own" for a service with a log of its own; `LoggingFails` is a refusal by `validate()` or an `init()` that throws,
`LoggingThrows` a `buildLogConfig` that does. The hooks return, fail, throw a
`std::exception`, or throw something else (`foreign`), which `run()` does not catch and `main()`
does. `Kills`, `Ignored`, `graceful_signal_handler`, `fatal_signal_handler` deliver a signal by its disposition
between any two steps. `Deployments` are services with what they return for the three sets, wrong ones
included, their files and their directories (`getConfigRoots` and that of `CONFIG_FILE`), and with how many signals each is sent.

### MC modules

`MCIpcServer` adds the symmetry of connections and descriptor numbers, used by
`server_safety` only: the model never orders or names either; `OneEach` gives every connection a request, `OneInAll` one of them. `MCLogDispatcher` gives the logging
threads their levels, `MCStore` says how threads are spread over processes, `MCApplication` has five services, and files of ten shapes; `MCCodecs`
has the three machines of the codecs side by side, one of them at work in each behaviour; `MCIpcSubscription`,
`MCIpcClient` and `MCRollingFileSink` take their constants from the .cfg alone.

The operators marked `Mutant` are plausible bugs of the operator that follows them;
`Next` does not use them. With the operator replaced by the mutant, TLC reports the
property `PROJECT.json` names.

## 3. Runs

| run | instance | states | shows |
|---|---|---|---|
| `server_safety` | 2 connections, 2 numbers, 1 foreign file, 1 pusher, 2 runs of the server, 1 request each | 3.0 M | the six invariants of the server that are also proved |
| `server_live` | 2 connections that share 1 number and may stop reading, 1 pusher, 2 runs, 1 request | 311 k | `StopTerminates`, `ConnectionsReaped`, `PushReleased` |
| `server_stale_push` | 2 connections, 2 numbers, 1 run of the server | - | violation, see 6.1 |
| `subscription` | a cancelling and a disconnecting thread and the callback, 2 numbers, 2 events, 1 foreign file, parameters larger than the buffer, no early events | 247 k | four invariants, `EventsInOrder`, `CancelTerminates`, `Resubscribes` |
| `subscription_early_event` | with early events | - | violation, see 6.2 |
| `client_calls` | `call` with a large request, `callOnce`, `connect`, `disconnect`; 2 numbers, 4 connections, 1 foreign file | 313 k | `ExecutionsBounded`, `ResponseMatches`, `CallsReturn` |
| `store` | 2 threads in one process or two; save, remove, load, cleanup: 3 operations, 2 faults | 190 k | `LockExcludes`, `SavedIsDurable`, `ReadersSeeWholeValues`, the register, `OperationsReturn` |
| `store_processes` | a writer in each of 2 processes, no faults | - | violation, see 6.3 |
| `log_dispatch` | threads that log a warning, an error and a bridged record, queue of 2, batches of 1, 2 `init()`, 2 threads in `shutdown()`, 1 in `flush()` | 291 k | `Fifo`, `ShutdownAndFlushWrite`, `AcceptedIsWritten`, `ShutdownEnds` |
| `file_sink` | 3 files of 2 lines, 10 lines, 3 runs of the process, 1 flushing thread | 787 k | `NewestKept`, `FilesWithinLimit`, `FlushReachesDisk` |
| `application` | 5 services, strict and not, 5 signals, 3 of them sent; any up to two files of 10 shapes, or three of 3, among 7 files, in 1 to 3 directories, with no signal sent | 643 k | `HandledSignalsDoNotKill`, `CleanupMatchesInitialize`, `FailClosed`, `SnapshotFollowsPrecedence`, `StopsWhenAsked` |
| `codecs` | lengths modulo 4, limit 2, 5 bodies of 0 to 4 bytes, 4 frames, 3 bytes on their way; 9 octets, up to 4 of them; blocks of 64 bytes, chunks of any size, messages of up to 130 bytes | 60 k | `FramesInSync`, `FramesArrive`, `Base64Exact`, `DigestOfMessage` |

Why the bounds are enough. Server: two connections and two numbers give every
way in which one number is reused while the other is served, two runs give the
thread that outlives `stop()`; a third connection would only repeat one of the
roles, and the invariants are proved for any number of all of them (section 5).
In the liveness run the two connections share the number: a push that
collected it for one of them may meet the other, also over a restart, which is the way a push can stay blocked. One request is one subscriber; the other
connection need not be one to be met. Subscription: connections are 0 and 1 in turn,
as only the current and the previous one can be confused; `MaxEvents` = 2 is what an
order needs. The disconnecting thread may come before the reader has been started, after it, or while the callback runs. Large parameters have every behaviour of small ones, as a silent server may go on. Client: the two callers make at most three connections, the
connecting thread one; one `disconnect()` frees one number under a call, which one foreign file takes, keeps or gives back. Store: the inodes of `Inodes` are the values before, during and after
a replacement and one that a reader still holds; two faults let a kill be followed by
a power loss; three operations of two threads are a writer, another and a reader or a `cleanup()` beside them, and one value suffices, because what is torn
differs from every value. `store_processes` has two values, to mix them. Dispatcher: a queue of two and three records make it full for every level,
a batch of one makes two batches necessary and lets the second wait while the first is written; two
threads in `shutdown()` give the one that finds `m_running` cleared, two `init()` each order of the asynchronous and the synchronous path. Sink: three files and ten
lines make the first removal and the next rotation happen; the later runs of the process start after every
possible end of the earlier ones, and three of them reach the bound of `FilesWithinLimit`. Codecs: modulus four has a body of the greatest length, one above it, one whose length is cut to zero; 
three bytes on their way cut a frame anywhere; a group of base64 is three bytes, so four bytes are a group and each rest, and the nine octets have every
digit's first and last bits; 130 bytes are two blocks and each boundary of padding in the third. Application: the five services are one with the default sets, one that adds a signal, and
one for each way in which `validateSignalSets` refuses; three signals are a request, a fault and one more. The
files vary with the default signals, none of which comes, and every service whose files are in order reaches its hooks; the signals vary with two configurations, strict and not: the
part after `setup_logging` looks at neither. Three layers let one hide what a lower one has and a higher one partly give it back; the shapes
are an empty file, a text, `common` or `common.log` empty, `common.log` a text, two sets of keys, one of them strict and one with values that cannot be converted, a format that `validate()` refuses,
a text instead of the map of the file sink, and a file sink.
`MaxRuns`, `MaxRequests`, `MaxPushes`, `MaxForeign`, `MaxEvents`,
`MaxConns`, `MaxOps`, `MaxFaults`, `MaxInits`, `MaxFrames`, `MaxOctets`, `MaxBytes`, `MaxLives`, `Lines` and the `signals` of a service cap counters in the guards of the environment's
actions only, never of a thread that has begun.

`CHECK_DEADLOCK FALSE` everywhere: the bounded environments stop, and a stopped server,
finished calls and an idle store are final states. That nobody waits for ever is
what the liveness properties say.

A type invariant is proved (section 5) of eight modules and no run checks it; in the others it documents the state, and the runs are spent on
behaviour.

## 4. Fairness

Threads that can take a step take it (weak fairness per thread): the operating
system schedules them, and the handlers return. Two exceptions are stronger. `RunLoop` of the
subscription is strongly fair, since `SO_RCVTIMEO` ends a wait even if the server
keeps falling silent and recovering. `LockTimesOut` is strongly fair, since
`acquire()` counts time: it gives up after a second although the lock was free now and then. Faults and new operations of the store are not fair.
Nothing is assumed of peers: they need not connect, read, answer, push or
hang up; nobody has to call `stop()`, `cancel()` or `push_event`. `stop()` once called
runs. In `IpcSubscription` a server that is not silent reads and answers, which only
`Resubscribes` needs. `IpcClient` has fairness for a call's own steps (`CallRuns`) and none for the end of a large `send()` or for what a foreign file does
(`CallGoesOn`): `CallsReturn` says that every call returns if none is blocked there for ever, and `CancelTerminates` says the same of the handshake's `send()`. In `LogDispatcher` the worker runs and a `shutdown()` that has
begun goes on, as long as no destroyed object has been used; threads need not log, flush, initialise or shut down. In `IpcProtocol` `send()` and
`recv()` go on while they can; nobody has to begin a frame or hang up. In `Application` the hooks return, and
`execute()` does when it is asked to (`docs/application-migration-guide-cr007.md:132`
demands it of a service).

## 5. Proofs

Eight modules prove what the runs check on small instances for every value of the constants: any number of threads,
connections, descriptor numbers, files, events and records, and any value of the bounds - so that a bound, which has to be passed on the
way to any violation, takes nothing away. `TypeCorrect` (in `CodecProofs` `FramesTyped` and `BufferTyped`; `ApplicationProofs` has none) states the type invariant, which no run checks. No theorem has a hypothesis
but the `ASSUME` of its module, with one exception (`GivesUpOnRejection`). Every safety property of a passing run is in the table.

| module | theorem | property |
|---|---|---|
| `IpcServerProofs` | `RegistryIsExact`, `DescriptorIsOwn`, `CallbacksDoNotShare` | `RegistryExact`, `ServedFdIsOwn`, `CallbacksNeverShareFd` |
| | `DisconnectsOnce`, `StopReaches`, `FramesAreWhole` | `DisconnectOnce`, `StopReachesAll`, `FramesWhole` |
| `IpcClientProofs` | `BoundedExecutions`, `OwnResponses` | `ExecutionsBounded`, `ResponseMatches` |
| `IpcSubscriptionProofs` | `ClosesEveryAttempt`, `ShutsTheLastConnection`, `CancelStops` | `NoDescriptorLeak`, `ShutsNoLaterConnection`, `CancelMeansStopped` |
| | `InOrder` | `EventsInOrder`, an action property |
| | `GivesUpOnRejection` | `EndsOnlyOnRejection`, for a server without early events (`EarlyEvents = FALSE`; with them it is false, 6.2) |
| `StoreProofs` | `LockExcludesWriters`, `SavesAreDurable`, `ReadsAreWhole` | `LockExcludes`, `SavedIsDurable`, `ReadersSeeWholeValues` |
| | `ImplementsRegister` | `RegisterSpec`: `Store` implements `StoreRegister` |
| `LogDispatcherProofs` | `QueueKeepsOrder`, `ReturnsAfterWriting` | `Fifo`, `ShutdownAndFlushWrite` |
| | `AcceptedIsNeverLost` | `Kept /\ Settled`, the safety half of `AcceptedIsWritten` |
| `RollingFileSinkProofs` | `LimitIsKept`, `FlushIsDurable`, `NewestAreKept` | `FilesWithinLimit`, `FlushReachesDisk`, `NewestKept` |
| `ApplicationProofs` | `HandledSignalsSpare`, `CleanupOnce`, `NeverBeginsUnconfigured` | `HandledSignalsDoNotKill`, `CleanupMatchesInitialize`, `FailClosed` |
| | `SnapshotIsOfHighestRank` | `SnapshotFollowsPrecedence` (`ConfigManager`) |
| `CodecProofs` | `FramesStayInSync`, `DigestIsOfMessage`, `TextIsExact` | `FramesInSync` (`IpcProtocol`), `DigestOfMessage` (`Sha256`), `Base64Exact` (`Base64`) |

What is assumed of the constants: the bounds are naturals; sentinels are not members of the sets they are told from (-1 is no
descriptor number, `None` no thread, "transport" and "socket" no callers, "callback" no other thread's name, `Empty` and `Torn` no values of the
application); roles that are different threads in the code are disjoint (who stops the log neither logs nor flushes in that model); a message queue holds
at least one record per batch (`BatchMax`, 64 at `log_async_dispatcher.cpp:92`); a service returns three sequences of signals and a sequence of directories, and
each of its files has one of the three names and holds a document (`IsDocument`: the root is there, and what is above a path is a map, as in any tree of YAML nodes); an octet is below 256; the length at the end of a hashed message
is shorter than a block.

None of the properties but `Fifo` comes near being inductive. Each module defines an inductive invariant `IInv` (`FrameInv` and `HashInv` in `CodecProofs`) as a conjunction of
named parts, which TLC has checked on the bounds of the module's run; one lemma per part shows that a step keeps it, with one case per
action that can disturb it and frame lemmas for the others, `Inductive` puts them together, and each theorem takes its property from `IInv`.

**Server.** `IInv` adds to `TypeOK`: `Owns` (from accept to close a connection's `client_fd` is open and stands for it -
this excludes that two served connections share a number), `Accepting` (exactly the
connection the accept thread is about to register is accepted and not served),
`RegistryExact` itself, `Writing` (a pusher that sends has a target), `Notified` (the
disconnect handler has been called at most once, and only by a thread past it), and
`Stopping` (once `stop()` has joined the accept thread no connection is accepted any more, so what it
collected under the mutex covers every registered connection whose stream is up; this is what fails when
the copy is taken before the join). `FramesWhole` needs a second layer, `FInv`, proved relative to `IInv`: the holder of a
write lock is a thread at a sending station for that very entry (`Locked`), a half
written frame on a stream that did not get strange bytes belongs to the holder of its
lock (`Paired`), and sending threads serve live streams (`Alive`); then a second
writer on the stream of `c` must hold `c`'s lock, so it is the first writer.

**Client calls.** A response is a call's own because a connection that carries another call's frame is never used again: who waits in
vain drops the connection before it lets `m_callMutex` go. `MainClean` says so of the connection `m_fd` names (whoever has a frame on it is still at
it there), `OwnClean` of the connection a call has looked up, which may be another one by now, since
`connect()` and `disconnect()` do not take `m_callMutex`; `Single`, `Descriptors` and `Locked` carry these. The executions are counted by
`Bounded`: those there were and the requests still under way (`Pending`) are at most the attempts so far (`Attempts`). A foreign file is nobody's connection, so none of this speaks of
it; that a call meets one only after a `disconnect()` is an invariant of its own (`Kept`): until a thread of `Closers` has been there, the number of a call stands for a
connection of the client and what it waits on is one (`KeptBy`), because only the call itself, under `m_callMutex`, could close it.

**Subscription.** `Descriptor` (an attempt has one descriptor, which stands for its connection, and `m_fd` names it only in the event loop) gives
`NoDescriptorLeak`. `Flipped` is why `cancel()` hits no later connection: who has taken `m_fd` has cleared `m_active` before, so the
connection it took is the last one. `Started` covers `subscribe()` racing `disconnect()`. `Ordered` says of the frames under way that they are events
in the order of the pushes, all later than what the callback has had, with the one Response before them until it is read; `InOrder` follows step by step. `Handshake`
and `Ended` hold without early events only.

**Store.** Until the lock has let two threads in (`crossed`, the ways `Crosses` names), `Exclusive` says that a process with a writer holds the lock and has no
other writer, `Advances` how far the temporary file of a `save()` is - on the disk before it is renamed, the key's only content before
success is returned -, and `Whole` that whatever the key may name after a power loss is a whole value, the same on the disk. The last is what makes the
mapping to `StoreRegister` work: `Visible` is the value of `<key>`, `Stable` those of what it may name; `rename` is the register's change,
the directory's `fsync` makes it stable, a power loss chooses one of the stable ones, every other step stutters.

**Dispatcher.** `Kept` and `Settled` say where an accepted record is: written, in the worker's batch or queued, and written once `stop()` has drained the queue. They need
that the worker exists only while the dispatcher runs or is being joined (`Working`), that `m_running`, `m_initialized` and `m_dispatcher` agree
outside `init()` and `shutdown()` (`Up`, `Holds`), that a sleeping `submit()` belongs to a dispatcher that is still there (`Sleeping`), and that nobody
decides about a record twice (`Numbered`). `Goals` and `Returned` carry what a `shutdown()` or `flush()` waits for.

**Sink.** `Flushed` strengthens `FlushReachesDisk` to a `flush()` that has looked up a `FILE` which has been closed since: nothing it stands for is buffered any
more, as closing flushes; it needs that line numbers grow (`Numbered`). `Roomy` says that between making room and opening there is
room for one file: a later run of the process has not made any, which is the file per run that `FilesWithinLimit` allows.
`NewestKept` has an invariant of its own, `KInv`: some function `at` says how many accepted lines came before the file of each index (`Laid`), the buffer is
the end of what was accepted (`Tailed`), and `m_currentSize` is what file and buffer hold (`Held`). In the first run the files are those from some index `lo` on without a gap,
each before the current one is full, and nothing has been removed unless there are `max_files - 1` of them (`Full`). A later run needs `Laid` only: it goes on with
the file of index 0, and if it finds another one `inherited` is set. `Content`, a recursive function over the indices, is then what was
accepted from `at[0]` on (`ContentIs`).

**Application.** `Handled`: once the three sets are found valid they are disjoint (`Disjoint`, from the injectivity of their concatenation), every
disposition and every `sigaction` still to make is a wanted one (`Planned`), each graceful and ignored signal has its handler or still waits for it
(`Installed`), so after `initialize()` began what kills is not among them, and a fatal handler's signal is not either (`Unharmed`). `Called` ties the calls of the
hooks to where `run()` is; `Loaded` follows the configuration from `resolveAll` (`CommonIsUsed`: an entry of the layers
"common" and "project/common" is a file that counts) to `initialize()`, with the log that strict demands from `setup_logging` on.
`SnapshotIsOfHighestRank` takes three arguments. Order: what `resolveAll` lists can be divided into stages, none above the rank of its file, and every file that counts is there in the
stage of its rank (`Staged`, `Complete`, `ResolvesAll`) - a file may be listed again in a lower stage, when a service has a file's directory among its roots twice, and that does no harm, as it
is merged again later. Merging: at a path a merged document has what the override says, if it decides the path, and else what the base has (`Merges`), so after the first n files of the
list the result has at each path what the last of them that decides it says (`Follows`, `FollowsNext`), which `Reads` carries from `LoadsFile` through `MergesLayer` to the snapshot.
Together: the last file in the list that decides a path is of the highest rank of those that do (`LastRanksHighest`). Reading: a section shows at the rest of a path what the whole document shows at
the path (`NodeOfSection`, `ShowsWhatItHas`).

**Codecs.** `InFrames` says of a sequence of units that it is the encodings of given frames, one after the other: some function `at` of the frames gives
where each ends. `InStep` says it of what is begun to be read, under way and still to be written (`Unread`) and the frames not yet returned (`FramesLeft`):
`send()` and `recv()` leave `Unread` as it is (`Moved`), a frame written is appended to it (`FrameAppended`), and a frame returned is its first (`FirstFrame`,
`FrameRemoved`) unless its length was cut - from then on `Misread` holds for good, which is the exception `FramesInSync` makes. The hash: until `finalize()` the
blocks are the first bytes of the message and the used part of the buffer the next (`Buffered`), the blocks a multiple of `Block`; that the padding of `finalize()` is
the one FIPS asks for, in one block or two, is that only one number below `Block` completes the length (`OneMultiple`).
base64: the digits of a group are runs of the bits of its octets (`BitsOfOctet`, `OctetOfGroup`, `DigitsOfGroup`), so the text is `TextOf` the data (`EncodeIs`); decoding reads the digits
before the first other character (`ReadsDigits`), octets come back from their digits (`OctetsOfSextets`), of a group that is cut those whose bits are all there (`DecodedIs`, `DecodeIs`).

Induction. The library's induction theorems cannot be used (they take an operator); `MinIsLeast` (`LeastNat` in `CodecProofs`), from `WFMin`, says that a set of naturals has a
least element, which is induction by a least counterexample where the predicate can be written as a set. A recursive function (`Content`, `rootEntries`, the one inside `FlattenSeq`) is a
`CHOOSE`: that some function satisfies its equation, and what every such function computes, are both shown so (`RootEntriesAre`, `ContentIs`, `FlattenJoins`).

Model-checked only: everything under fairness (`StopTerminates`, `ConnectionsReaped`, `PushReleased`, `CancelTerminates`, `Resubscribes`, `CallsReturn`,
`OperationsReturn`, `AcceptedIsWritten`, `ShutdownEnds`, `StopsWhenAsked`, `FramesArrive`): liveness is out of the prover's reach. Of `AcceptedIsWritten` the safety half is proved.
The three violations of section 6 are counterexamples, which TLC finds.

## 6. Where the code and its documentation disagree

Checked by a run that ends in a violation:

1. `server_stale_push`: `connectionLoop` closes without the write lock, so a push that
   collected the number before writes its event to the next connection with that number
   (`ipc_server.cpp:395` says the write fails).
2. `subscription_early_event`: the server subscribes before it writes the Response, the
   client takes the first frame for the Response; an event in between ends the
   subscription for good.
3. `store_processes`: `release()` unlocks, then unlinks. Three lock files of the same name
   exist over time, two processes write the same temporary file.

Seen in the models, without a run of their own:

- with several directories the first that has `common.yaml`, or `conf.d/<service>.yaml`, hides those of all later ones
  (`FindFirst`, `Used`), though a later directory ranks higher for `<service>.yaml`; `config.h:29` promises that in each root
  all three are looked for and later ones override. `CONFIG_FILE` names a directory in effect: the file itself is not read
  unless it has one of the three names (`application.cpp:390`).
- a text where `buildLogConfig` expects a map (`common.log.file: on`) throws and ends the start, strict or not
  (`LoggingThrows`); `application.cpp:104` says that values are kept for `validate` to judge.
- no `SO_SNDTIMEO` is set (`ipc_client.cpp:451`), so a request that exceeds the socket's buffer - a frame may have 10 MiB - waits for as long as the server
  does not read, with `m_callMutex` held and all other calls behind it (`"sending"` in `IpcClient`, excepted in `CallsReturn`); `ipc_types.h:20` has an error for a "read/write timeout".
- an unknown `level` becomes INFO and a `schema_version` that is no number becomes 1 before `validate` looks (`application.cpp:113`), so a strict service begins with
  them (`LogConfigValid` does not see either); `application.cpp:104` says that raw values are kept, illegal ones included, so that strict stops the
  start. `docs/application-migration-guide-cr007.md:59` says as much of unknown keys, which nothing looks at.
- a file sink whose directory cannot be made or whose file cannot be opened (`log_rolling_file_sink.cpp:18`) is not reported: `LoggerRegistry::init` returns
  kOk in every case (`log_logger.cpp:49`), and a strict service begins with its lines on the console or on stderr (`log = "degraded"`); `application.h:101` says that strict fails
  closed when the log cannot be set up. `FailClosed` promises what is left: the configuration was accepted, and the log was not made from the defaults.
- a `disconnect()` during a call frees the number the call has taken from `getFd()` (`ipc_client.cpp:326`, used at 331 outside `m_stateMutex`): another client, subscription or file of the
  process may get it, and the request goes there and the call returns what is read there (`SendsAstray`, `ReceivesAstray`). `ResponseMatches` excepts exactly that, and
  `CallsReturn` a call that such a file blocks.
- the `send()` of a subscription's handshake has no timeout either, and `cancel()` has no number to shut while it lasts: with parameters larger than the socket's buffer `cancel()` and
  `disconnect()` wait in `join()` for a server that does not read (`Blocked` of `IpcSubscription`, excepted in `CancelTerminates`). `connect()` does not block there.
- `call()`'s reconnect (`Connects` at `"reconnect"`) overwrites `m_fd` whatever another `connect()` has put there; when
  it fails the client is "connected" without a socket and the other socket leaks. `ipc_client.cpp:486` says `m_stateMutex`
  protects the two.
- `forwardRaw` looks at `m_initialized` and submits without the registry's mutex (`BridgeBegins`, then `Enqueues`): a
  record that is queued after `stop()` has drained the queue is never written. `log_logger.cpp:100` says bridged logs are not lost.
- after a restart the sink begins at index 0 again. With files 1, 2, 3 of an earlier run it has one file more than
  `max_files` - each further run may add one, which is the bound `FilesWithinLimit` states - and the next rotations remove the file that was just filled, as
  its index is the smallest: `NewestKept` fails without its condition `~inherited`; `docs/application-migration-guide-cr007.md:17` calls `max_files` the
  number of files.
- a `Logger` that is kept over `shutdown()` and a second `init()` points to a destroyed dispatcher and sinks (`LogsStale`, `Stale`); nothing in `log.h` says
  that Loggers end with `shutdown()`.
- `SinkManager::flush()` takes no mutex: it may hand a `FILE` to `fflush()` that a rotation has closed.
- the handlers stay installed when `main` has destroyed the application `g_app_instance` points to: a graceful signal
  then writes into a dead frame (`HandledSignalsDoNotKill` ends with `main = "gone"`).
- `cancel()` joins the reader with `m_cancelMutex` held; when another thread has called it, a callback that
  calls `cancel()` too waits for the mutex, and the join for the callback. `CancelTerminates` excepts exactly
  this state (`cpc[Self] = "lock"`).
- `disconnect()` holds `m_subMutex` over that join: a callback that calls `subscribe()` or `disconnect()` on its client meanwhile waits for the mutex and
  the join for it, for ever (`cpc[Self]` is "enlist" or "sub", excepted too).
- `subscribe()` lists a subscription before it starts its thread: a `disconnect()` in between returns with nothing joined, and the thread starts
  afterwards, to end at its first look at `m_active` (`CancelMeansStopped` says so). That `start()` assigns `m_thread` while `cancel()` may read it is a data race.
- `flush()` returns when the queue is empty, with the worker still writing what it took: a `fatal()` that
  flushes and aborts may lose its own line (`ShutdownAndFlushWrite` says what holds instead).
- `connectionLoop` reads `m_running` before it blocks and calls the handler without another look
  (`ConnHandles` is enabled with `running = FALSE`); `ipc_server.cpp:160` says connection threads check it.
- `stop()` returns with connections still in `m_clients`, because it does not wait for the detached
  threads; `ipc.h:31` says it clears the subscriptions.
- `FileLock::acquire` returns true to a second thread of the same process (`AcquireShared`);
  `docs/framework-store-guide.md:11` promises protection between threads.
- `cleanup()` takes no lock: it removes the lock file a writer holds and the temporary file it writes (`CleanupUnlinks`), and the save fails or, with another
  writer on a new lock file, mixes with it.
- a body of 4 GiB or more gets a header with its length modulo 2^32 (`ipc_protocol.cpp:19`), and the rest of it is read as further frames: `FramesInSync` excepts
  what follows such a body.
- `base64Decode` returns what it decoded before a character that is no digit; the check that would return nothing ("Invalid input, no partial result",
  `ipc_protocol.cpp:265`) is never reached, as the loop has stopped before.
- `write()` reports failure with the new value in place when only the directory sync fails
  (`DirSyncFails`); `store_atomic_writer.h:15` says the original is kept.
- a push that was collected before a restart may block on the new connection with its number until the
  next `stop()`: the number it kept now stands for another connection, as in 6.1. `PushReleased` excepts exactly this (`BlocksAstray`).

## 7. Abstractions and limits

- SIGPIPE is ignored (`application.cpp:222`): a failing `send()` is an error return.
- `start()` stores the handlers without `m_mutex`, a data race with threads of an earlier run; the model
  makes it one step (a torn `std::function` has no value in the model).
- The model of the dispatcher makes `order`, the ghost of what was queued, what has been written at an `init()`: records that come after the queue was drained are lost there
  (section 6) and no longer count in `Fifo`.
- `sha256()` calls `update()` once; that a message may be cut over several calls of it is checked although the public function never does.
- Header and body of an incoming frame are received in one step: nobody else reads that stream.
- One event type, one key, one client per subscription; subscriptions change in the request handler only.
- `start()` and `stop()` of a server are called by one thread, one after the other.
- Records of the log: filtering, redaction and formatting are left out, sinks do not fail. `LoggerRegistry::init` is one step under its mutex; `getLogger` reads
  the registry without it, which the model makes one step too.
- stdio loses nothing but by a kill: a failing write that `fclose()` or `fflush()` would report is not modelled.
- `load()` is called once, by `Application`; keys are scalars; of the getters, the conversions of text to numbers, bools and lists are not modelled.
- Time is abstract: the back-off, time-outs and polls end, their lengths do not matter.
- One subscription per client is followed; another one a callback makes is only its `push_back` under `m_subMutex`.
- The store has one key: keys share `m_mutex` and the directory only. A new directory survives a power loss or not, as its entries do; other services' directories are not there, so
  `rmdir` of the root is part of `Rmdirs`.
- `IpcProtocol` has one direction of one connection, whose frames are written one after the other: that they are is `FramesWhole` of the server and `m_callMutex` of the client.
- The compression function of SHA-256 is injective in the model. `sha256()` refuses what has 2^61 bytes or more, so `m_bitlen` does not wrap.
- Not modelled, by choice: text formatting, the serializer, hex text, the console sink and `utils.cpp` (functions on strings, or wrappers of one system call, without
  state that anything else depends on).

## 8. Plan

Done: `IpcServer`, `IpcSubscription` (composed with `Client::subscribe` and `disconnect`), `IpcClient`, `IpcProtocol`, `Base64`, `Sha256`,
`Store`/`StoreRegister`, `LogDispatcher` with the registry, `RollingFileSink`, `ConfigManager`, `Application`; the proof modules of section 5.

Next, in this order:

1. `Store` with several keys; dispatcher and sink composed, with sinks that fail.
2. The getters' conversions of text, and a second `load()`.

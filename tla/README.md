# yxtweb-cpp: a TLA+ verification project

yxtweb-cpp is a C++ network framework built on coroutines: a scheduler that
multiplexes fibers over threads, an epoll-based IOManager on top of it, timers,
hooked system calls that suspend the calling fiber instead of the thread, and
above that sockets, streams, a TCP server and an HTTP server, with
configuration, logging and byte-buffer utilities beside them.

All source paths below are relative to `src/yxtwebcpp/`.

## 1. Inventory

| component | state | operations | interacts with |
|---|---|---|---|
| Fiber (`fiber.*`) | `m_state` INIT/EXEC/HOLD/TERM, saved context, stack | `swapIn`, `swapOut`, `call`, `back`, `YieldToHold`, `reset` | Scheduler resumes it, its body suspends it |
| Scheduler (`scheduler.*`) | queue `m_fibers`, `m_stopping`, active and idle counters | `schedule`, `start`, `stop`, `run`, `idle`, `stopping`, `switchTo` | threads run `run()`; IOManager overrides `tickle`, `stopping`, `idle` |
| Thread, mutexes (`thread.*`, `mutex.hpp`) | pthread handle, locks | create, join, lock | everything |
| TimerManager (`timer.*`) | ordered set `m_timers`, `m_next`/`m_ms`/`m_cb` of each timer | `addTimer`, `cancel`, `refresh`, `reset`, `getNextTimer`, `listExpiredCb` | IOManager sleeps until the first timer and schedules the callbacks |
| IOManager (`iomanager.*`) | `m_fdContexts`, `m_pendingEventCount`, epoll set, tickle pipe | `addEvent`, `delEvent`, `cancelEvent`, `cancelAll`, `tickle`, `idle` | Scheduler, TimerManager, kernel |
| Hook (`hook.*`) | per call: timer, `timer_info.cancelled` | `do_io`, `sleep`, `connect_with_timeout`, `close`, `ioctl`, `setsockopt` | IOManager, FdManager |
| FdManager (`fd_manager.*`) | vector of `FdCtx` | `get`, `del`, timeouts, non-block flags | Hook |
| Config (`config.*`) | map of ConfigVars, value and listeners of each | `Lookup`, `setValue`, `addListener`, `LoadFromYaml` | Logger, Fiber, TCPServer |
| Logger (`log.*`) | level, appenders, root fallback, logger map | `log`, `addAppender`, `getLogger`, formatter, config listener | Config |
| ByteArray (`bytearray.*`) | linked list of blocks, position, size, capacity | fixed width and varint codecs, `read`, `write`, `setPosition`, buffers | streams |
| Socket, Address (`socket.*`, `address.*`) | fd, connection flag, cached addresses | `bind`, `listen`, `accept`, `connect`, `send`, `recv`, `close` | Hook |
| Streams (`streams/*`) | the socket | `read`, `write`, `readFixSize`, `writeFixSize` | Socket, ByteArray |
| TCPServer (`tcpserver.*`) | listening sockets, `m_isStop` | `bind`, `start`, `stop`, `startAccept`, `handleClient` | IOManager, Socket |
| HTTP (`http/*`) | parser state, request, response, servlet table | `recvRequest`, `sendResponse`, servlet matching, `handleClient` | streams |
| util, env, endian | argument map, pure functions | `UrlEncode`, `UrlDecode`, `Trim`, `init` | everything |

What is hard in this code: fibers are handed between threads through a queue
while they still run; counters are read and written outside the lock that
guards the queue; several threads sleep in one `epoll_wait` set and share one
wakeup pipe; timers expire on a thread other than the one that cancels them; a
timeout and the event it guards race for one suspended fiber; `stop()` must
wait for all of this to become quiet. Descriptor numbers are reused while
suspended calls still hold them. TCP cuts a request anywhere, and the generated
parser keeps offsets into a buffer that the next read replaces. Configuration
and loggers change under the threads that use them.

The properties that make each part correct: the scheduler loses no task, resumes
no fiber twice and stops only when quiet; a timer fires once, in time and never
after its cancellation; a registration of an event is the same in the context,
in epoll and in the pending count; a suspended system call is resumed by exactly
one of event, timeout and close; a byte buffer returns what was put in it; a
server ends everything it started when it is stopped; a servlet gets the request
that was sent, however it was cut; a response can be read back; a configuration
variable and its listeners agree; no log message is lost because its logger is being rebuilt.

## 2. Modules and the code

| module | models | state and actions |
|---|---|---|
| `TaskPool` | what a scheduler promises (abstract) | tasks are new, pending or done; the pool is open, closing or closed |
| `Scheduler` | `scheduler.*`, `fiber.*`, `thread.cpp` | `m_fibers`, both counters, `m_state` of each fiber, the place of every thread in `run()` and of the owner in `stop()`. One action per critical section or atomic access: `FetchTask`, `SwapIn`, `TaskReturned`, `EnterIdle`, `IdleReturned`, `BodySwitchTo`, `YieldToHold`, `SwapOut`, `StopRequest` ... `StopJoin` |
| `TimerManager` | `timer.*`, the sleep of `IOManager::idle()` | clock, set, `m_next`, `m_ms`, `m_cb`, place of each client and sleeper. An insertion is two steps because it holds only the read lock, `reset()` two because it drops the lock |
| `TimerProofs` | | theorems about `TimerManager` |
| `IOManager` | `iomanager.*` as a scheduler | extends `Scheduler`: the pipe, the timers and events as sources of tasks, the three reads of `stopping()`, the stages of `idle()`. `epoll_wait` gives any set of registered fds to any thread; under the mutex of the context a thread finds what is registered by then (`TriggerEvent`) or nothing any more (`SkipEvent`) |
| `SchedulerProofs` | | theorems about `Scheduler` and, on top of them, about `IOManager` |
| `FdEvents` | `FdContext`, `addEvent` with the growth of `m_fdContexts`, `delEvent`, `cancelEvent`, `cancelAll`, reports | `FdContext` objects and the vector that holds them; the copies of a registration: `events`, the `EventContext`, epoll's interest, the count |
| `HookIO` | `do_io`, `sleep`, `close` in `hook.cpp` | one suspended call, its timers, its event, the closing fiber, the queue |
| `FdEventsProofs`, `HookIOProofs` | | theorems about `FdEvents` and `HookIO` |
| `ByteBuffer` | what a ByteArray promises (abstract) | one sequence of bytes and a position |
| `ByteArray` | `bytearray.*`, `SocketStream::read(ba, length)` | the blocks, `m_cur`, `m_position`, `m_size`, `m_capacity`, byte order; the encodings as operators, the loops as recursive functions of the number of iterations |
| `ByteArrayProofs` | | theorems about `ByteArray` |
| `TcpServer` | `tcpserver.*`, `socket.cpp`, `fd_manager.cpp`, the hooked `socket`, `accept`, `recv` and `close` | the queue and threads of one IOManager, the program, accept, client and stop tasks, sockets, descriptors, `FdCtx`s, events. One action per stage of `bind`, `start`, `stop`, `startAccept`, `handleClient` and `close` |
| `TcpServerProofs` | | theorems about `TcpServer` for a server that is not stopped |
| `HttpBytes` | classes of bytes, numbers | operators |
| `HttpRequestMachine`, `HttpResponseMachine` | the ragel machines in `http11_parser.cpp` and `httpclient_parser.cpp` | one operator per group of states, from a state and a byte to the next state and the actions |
| `HttpMessage` | `http.*`, `UrlEncode`, `UrlDecode`, `Trim` | requests and responses as records; `dump`, `init`, parameters and cookies as operators |
| `HttpRequestParser`, `HttpResponseParser` | `http_parser.*`, `execute` with its offsets and callbacks | operators from a parser and a buffer to a parser |
| `HttpServer` | `httpstream.cpp`, `httpserver.cpp`, `servlet.*` | one connection: the bytes under way, the buffer, the parser, the servlet table and its lock, a thread that changes it. A lookup is three sections of the read lock (exact entries, patterns, default); `addGlobServlet(uri, function)` is two steps where its inner call has released the lock. `setDefault`, which nothing calls, is left out |
| `HttpServerProofs` | | the theorem about the lookup of servlets |
| `Config` | `config.*`, the loggers and their listener in `log.cpp` | `ConfigVar` objects, their locks, setters, listeners, the loggers and the threads that log. `setValue` is the comparison, one call per listener, the unlock and the store; the listener of the loggers is one step per level set, appenders cleared and appender added |
| `ConfigProofs` | | theorems about `Config` |
| `MC...` | instances for TLC | sets of threads, tasks, timers and values, symmetry |

`IOManager` composes `Scheduler` (by extension) with its own overriding
functions; `TimerManager`, `FdEvents` and `HookIO` look at the parts that
`IOManager` treats as sources of tasks. `TcpServer` takes the single step of a suspended
call from `HookIO` (an addEvent and its YieldToHold are one step there) and keeps what
`HookIO` has not: many descriptors and their reuse. `HttpServer` composes messages, parsers and
machines. Names of variables and actions follow the
source. Every module carries faulty variants of some of its definitions
("Faulty variant", suffix after an underscore); they are not used by the
specification and show which mistake each property would detect.

Fixed conventions: a critical section is one step; outside of one, every access
to shared state is a step; a failed assertion, an access through a null pointer
or another undefined operation ends the process (`died`, `ruined`) or, where the
build can produce several outcomes (overlapping insertions into a `std::set`), is
a choice over them.

## 3. Runs

| run | instance | shows |
|---|---|---|
| `scheduler` | 2 pool threads and the caller, 2 tasks, pinned to the caller or not, one `switchTo` each | counters exact, `stop()` drains, nobody leaves `run()` early, quiescence is stable; every task handed over runs, `stop()` returns, or the assertion of `swapIn` has ended the process; `Scheduler` implements `TaskPool`, the fair one the fair one |
| `swapin` | 2 pool threads, 1 task, one `switchTo` | refutes the assertion of `swapIn` (section 7) |
| `timer` | 2 clients, 1 idle thread, a one-shot and a recurring timer, delays 1 and 2, one tick | no lost wakeup, nothing fires early, twice or cancelled, due timers leave the list |
| `io_pool` | 2 pool threads and the caller, 2 tasks, one fd for both, reported to any number of threads | pending count covers what is registered, the whole IOManager implements `TaskPool` |
| `io_fair` | 1 pool thread and the caller, 2 tasks that may arm timers and events | nothing queued or armed is forgotten, `stop()` returns |
| `fd` | 3 fds, two of them beyond the initial vector; 1 thread with all operations and both events, or 2 threads with the locked operations, one event and one fd beyond the vector | no assertion fails, the copies of a registration agree, however stale the report and however the vector grew |
| `hook` | 2 workers, up to 3 turns of `do_io`, timeout and close | the call is resumed once, by something that still exists, and returns |
| `hook_timeout` | 1 worker, 2 turns | refutes the assertion of `cancelEvent` (section 7) |
| `bytes` | 3 blocks of 2 bytes of 2 bits, strings of 0, 1 and 4 bytes | cursor in step, values read back, views agree, implements `ByteBuffer` |
| `http` | 2 different requests one after the other on a kept connection, 2 reads per head, a client that may go away, 2 changes of the servlets | what was cut between tokens arrives intact, a servlet that stays registered is found, responses are read back, requests are answered |
| `server` | 2 addresses, one busy at first, 2 clients, 4 descriptors; 1 thread with `stop()` or with another `start()` or `bind()`, or 2 threads | every call uses its own descriptor, `stop()` ends everything, every client is accepted or reset, `bind` succeeds in the end |
| `config` | 1 loading thread, 2 listeners, 1 logging thread, 2 loggers and the root, 3 loads of 8 texts, two of which define the root | between loads the listeners go by the stored value; messages are lost at the root logger only: below its level, while it is rebuilt, or after its definition was removed |

Why the bounds are enough. Two pool threads and the caller give every pair of
roles that can race (taker against publisher, leaver against scheduler, sleeper
against tickler); more tasks and threads are covered by the proofs. One `switchTo` per task already produces the handover race. Two timers and
two clients are needed for overlapping insertions and for a timer that becomes
the first; the clock moves once after any of the others' steps, enough for
"not due", "due" and "advanced past". In `fd` one thread is the most under which
`cancelEvent` and `delEvent` keep the copies together, since they do not lock; two threads may
grow the vector for one fd beyond it, and lose one of two (section 7). In `bytes` a block
holds two bytes, so a write may start inside a block, cover another and end on a
boundary; varints take up to three bytes and a string of four does not fit its length
field, as 65536 does not fit 16 bits. Seeks go to positions 1 and 4 (inside the first
block; to the start of the third, past the end of a short content) and raw reads and
receives take 0, 1 or 4 bytes: every other position is reached by reading and writing.
Fresh memory holds one byte value, 2, which a varint reader takes for a continuation.

In `http` the two requests have between them a query, a fragment, a header, a cookie,
an encoded parameter, a form body, both versions, a method whose name is the end of
another's, and "close"; two reads cut a head at every byte once, which is where each
token can be harmed, and the second request finds whatever the first left behind. One exact
path, one pattern and two changes let an entry move between the two tables during the
lookup. In `server` two clients and four descriptors make the kernel give out a number again
that was in use; the usages that break the server are those of section 7. In `config` three
loads define, change and remove a logger; its texts have a root as in `src/tests/logs.yml`, new, changed and removed definitions,
appenders without a level, no appenders, unknown appenders and a malformed entry.

The type invariants of `Scheduler`, `TimerManager`, `IOManager`, `FdEvents`, `HookIO` and `Config` are
proved; apart from the first they are in no configuration. Those of `TcpServer` (for a server that is not stopped) and
`ByteArray` are parts of the inductive invariants that are proved (`Types`, `Good`).

`MaxHops`, `MaxTime`, `MaxTurns`, `MaxCapacity`, `MaxContexts`, `MaxFds`, `MaxReads`, `MaxRequests`,
`MaxChanges`, `MaxLoads` and `times` of a usage are the only bounds on counters; they appear as
guards. `BufSize` is the size of the buffer of `HttpStream`.

## 4. Fairness

Threads are kernel threads: each is weakly fair (`RunLoop`, `ThreadStep`,
`Sleeper`, `WorkerStep`), and so is the thread inside `stop()`, as long as the process lives: a failed
assertion ends a behaviour, fairness asks nothing of it any more, and the liveness properties say so (`~Alive`,
`died`, `ruined`). Task bodies are assumed
to return (`Body`, `TaskStep`): a callback that never returns holds its thread, and
the framework does not claim otherwise. The program is never obliged to schedule,
arm, cancel or stop. Strong fairness is assumed in three places, all about the same
fact: a timer's expiry and its collection are tried again at every pass of an idle
thread, each pass is enabled only between other steps, and a thread that keeps
making passes does not always miss it (`Expire` in `IOManager` and `HookIO`,
`ListExpiredCb`, which waits for a write lock). No fairness is assumed for the
arrival of data, for events becoming ready or for `close()`.

In `TcpServer` the assumption is weaker than one per task: *some* running task makes a step
(a task that never suspends keeps its thread, and may starve the others), a free thread takes
the first task of the queue, an idle thread handles *some* ready event, a receive timeout
comes, and a busy address is released. Clients are not obliged to do anything; each sends at most
once, since `handleClient` does not give up its thread as long as data is there. In `HttpServer` the fiber
of the connection goes on when it can, and a read that waits ends with data, with the end of
the stream or with the receive timeout that `startAccept` sets. The safety properties of `Config` need
no fairness.

## 5. Proofs

`SchedulerProofs` proves, for every finite set of pool threads, every set of tasks and
every bound on `switchTo`: `TypeCorrect`, `CountersExact`, `QuiescenceIsStable`,
`LeaveIsQuiescent` and `StopDrainsAll`. The invariant `IInv` strengthens them with
* `HandInv`: what each thread has in hand fits its place in `run()`;
* `PhaseInv`: no thread is in `run()` before `start()`, nor the caller's before `stop()`;
* `TokenInv`: a task in progress has one place from which it advances: once in the queue
  or in the hand of one thread, no two threads on one stack;
* `ProgressInv`: a task that started and has not ended has such a place;
* `QuietInv`: whoever acted on `stopping()` is right for ever.

`StopDrains` alone is not inductive: that a thread found the queue empty and the
count zero says nothing about a task another thread has taken out but not yet
counted, so the counters must be tied to the places of the threads first.
The same invariant proves that each step of `Scheduler`
is a step of `TaskPool` or a stutter (`SchedulerImplementsTaskPool`), and that without
`switchTo` (`MaxHops = 0`) no fiber is resumed while it runs (`SwapInIsSafe`); with it
the run `swapin` shows the contrary.

About `IOManager` the module proves, for every pool and every set of callbacks: `IOTypeCorrect` and
`PendingCountExact` (`PendingCountCovers`), from the lemmas about `Scheduler` for the inherited steps and the
finiteness of what is registered. Nothing is assumed about reports: edge-triggered epoll may give one fd to
several threads, and the fd may be registered anew before they look; that each registration is discounted once
follows from the second look at `fdContext->events` under the mutex (`iomanager.cpp:283`) alone.
One event per fd is used; with both, the assertion of `triggerEvent` fails (section 7). With `use_caller`, and callbacks that arm no others
(`Arming = {}`, as in the run `io_pool`), it proves `NothingLeftArmed`
(`NothingArmedAfterStop`) and `IOManagerImplementsTaskPool` (`IOImplementsTaskPool`). Both
hypotheses are needed: without `use_caller` TLC refutes `NothingArmedAfterStop` (section 7), since a pool
thread may have read the timers before `stop()` was called; a callback that arms another may do so
between two of the reads. The argument is in
* `WayInv`: a callback is armed in one place, or queued once, or in one hand, and its `m_state` says which;
* `ReadInv`: what a read of `stopping()` by the owner found empty stays empty, because the owner is
  the one who arms, and it is in `stop()`;
* `RestInv`: when the last thread has seen `stopping()` hold, it does hold.

`TimerProofs` proves, for every set of timers, clients, idle threads and delays:
`TypeCorrect`, `NoLostWakeup` (`CoveredSleep`), `OneShot` (`OneShotOnce`) and `NeverEarly`
(`FiresWhenDue`). Its `IInv` adds to the properties
* `TimeInv`: every `m_next` is at least its `m_ms` (so `reset()` cannot subtract below
  zero) and at most `now` plus `m_ms`, and a clock value read is not in the future;
* `PlaceInv`: a timer being inserted or reset is out of the set and in one hand;
* `SeenInv`: a timer in the set was returned by `addTimer` or is about to be, so that no
  timer is created a second time;
* `CbInv`: short of undefined behaviour, a timer in the set or in a hand has its callback;
* `OnceInv`: a one-shot timer that fired is neither in the set nor in a hand.

`OneShotOnce` is not inductive by itself: `refresh()` and `reset()` put a timer back, and
only `PlaceInv` and `OnceInv` together exclude that one in a hand has fired.
`CoveredSleep` is about three steps of a client (insertion, test for the first place,
tickle) against two of a sleeper (look, sleep), with any number of sleepers sharing
one pipe; it needs the bounds of `TimeInv`.

`HookIOProofs` proves, for every number of workers and turns, with or without a timeout
and a closing fiber: `TypeCorrect`, `OneResumption` (`ResumedOnce`), `NoLostFiber`
(`HeldIsAwaited`) and `NoDuplicateEvent` (`AddAssertion`: the assertion of `addEvent` at
`iomanager.cpp:102` never fails for a hooked call). Its `IInv` adds
* `PlaceInv`: `m_state` of the fiber fits its place in `do_io`;
* `TokenInv`: one thing can resume the fiber, its registration or its one entry in the queue;
* `SleepInv`: for `sleep` it is the timer, until its callback ran;
* `AwaitInv`: `HeldIsAwaited`, from the moment the fiber gives the token away.

`ResumedOnce` alone says nothing of who may put the fiber into the queue: the event, the timeout's
`cancelEvent` and the `cancelAll` of `close` each look at the registration, and only
`TokenInv` says that the first one takes it. The fiber is published before it is suspended, so
`AwaitInv` must begin before "held".

`FdEventsProofs` proves, for every set of fds, events and threads, `FdTypeCorrect`,
`NoAssertionFails` (`NoFailure`) and `RegistrationsAgree` (`Consistent`), under `SafeUse`:
every usage is one thread with all operations, or any number of threads with `addEvent` and
`cancelAll`, one event, and one fd beyond the vector. These are the conditions that the code itself
does not break: `delEvent` and `cancelEvent` change a context without its mutex, and outside
of `SafeUse` TLC shows the assertions fail or a registration be lost (`FdEvents_trigger.cfg` and
its variant). The run `fd` has both kinds of usage. `IInv` adds `TableInv` (the vector only
grows and makes each context once), `PlaceInv` (what a thread that let go of the lock may still rely
on, among it that a stale report names events that were asked for), `AddInv`
(no event is being added twice), `ViewInv` and `CountInv` (how far the views are apart in the
middle of `delEvent` and `cancelEvent`, which change epoll and the count before the context).

`ConfigProofs` proves `ConfigTypeCorrect` for every set of threads, names, levels and texts;
`MessagesLostOnlyAtRoot` (`LostOnlyAtRoot`) for one loading thread (`OneSetter`), any number of writers, and texts
that give the root an appender the process can use where they define it (`RootTextsWrite`, as
`src/tests/logs.yml` does): `AtRootInv` says that the root is without appenders only at level 0 or while a setter still
has some to add to it, so that a logger that is taken apart falls back to a root that writes.
`NothingLostWithoutRootText` is the special case in which nothing at all is lost (`NotLost`), for any number of
setters: no text defines the root (`NoRootText`). And `ListenersFollow`
(`ListenersInSync`) for static initialisers (`MainWaits`) and one loading thread (`OneSetter`), which
is how the repository's programs use it (otherwise `Config_lookup.cfg` and `Config_race.cfg`).
`ListenersInSync` speaks of the moments between loads only; `ToldInv` says for the time in between
which listeners go by the new value already, by the place the setter has reached in `m_cbs`, and
`OneVarInv` that all of them have the one variable that loads set.

`HttpServerProofs` proves `RegisteredServletFound` (`StableServletFound`) for any requests, servlets,
patterns and number of changes: the entries that stay registered through the lookup match the path, after
its first section none of them is an exact one, and after its second there are none (`LookupInv`).

`ByteArrayProofs` proves, for every block size, number of bits in a byte, width of numbers and
lengths, every set of values and any sequence of operations: `CursorStaysInStep`
(`CursorInStep`), `NullBlockOnlyOnEmptyRead` (`DiesOnlyOnEmptyRead`),
`ByteArrayImplementsByteBuffer` (`ImplementsByteBuffer`), `WrittenIsReadBack` (`RoundTrip`) and
`ViewsAlwaysAgree` (`ViewsAgree`). The bound `MaxCapacity` is a constant like the others, and
`ByteBits = 8`, `IntBits = 32` or `64`, `LengthWidth = 2`, `4` or `8` are instances.
* The invariant `Good` is `InStep` with the types and at least one block. Every operation is then
  described by one lemma in terms of the content alone: `AddressesAre` (the loops over the blocks visit
  the positions from `m_position` on, whatever boundaries lie between), `AddCapacityIs`,
  `WriteBytesIs`, `ReadBytesIs`, `SeekToIs`, `ReceiveIs`, `WriteChunksIs`. The refinement and the
  views follow from these.
* The encodings are inverted by lemmas about numbers: `DigitsOfValue` (the digits that shifts take off
  add up to the value), `FixedRoundTrip`, `EncodeUintFacts` with `MaxGroupsFacts` (a varint ends within
  its groups, at the one byte without the high bit), `ZigzagRoundTrip`.
* What the loops compute is proved by induction on their iterations. The library's induction theorems take an
  operator; the lemma `Induction` takes a set instead, and `Iterate` shows that a function defined by
  its previous value exists, from which the recursive functions of the module (`Pow2`, `Shifted`, `ValueOf`,
  `NodeAt`, `WriteChunks`, `WriteToFile`) get their equations.

`TcpServerProofs` proves, for any finite sets of addresses and connections, any number of threads and any
sequence of later calls of `bind` and `start`, `DescriptorsAreOwn` (`OwnDescriptor`) and
`AssertionsHold` (`addEvent` finds no second task on a descriptor, `epoll_ctl` no closed
and no watched one), for a server that is not stopped (`NoStop`). The hypothesis is needed: with `stop()`
on two threads an assertion fails (`TcpServer_stop.cfg`), and `stop()`, `bind`, `start()` makes an
accept use another socket's number (`TcpServer_reopen.cfg`). The usages without `stop()` of the run `server`
satisfy it. `IInv` (theorem `ServerInvariant`) has
* `Descriptors`: `m_sock`, the kernel's table and `FdManager` agree, and no two listening sockets have one address,
  so that the kernel always has a descriptor left (`FreeDescriptor`, by the pigeonhole principle from
  `MaxFds >= Cardinality(Addresses) + Cardinality(Conns)`);
* `AcceptInv`, `AdoptInv`, `ClientInv`: what a task may rely on at every stage; a connection between
  `accept_f` and the end of the hooked `accept` has a descriptor but no context yet, one between
  `FdMgr del` and `close_f` no context any more;
* `PlaceInv` and `EventInv`: a task is once in the queue, on a thread or at one event, and epoll watches
  just these.

`OwnDescriptor` alone is not inductive: that the lowest free number is free for everybody needs that closing
forgets the context before the number, and that nobody waits for a number that is being closed, which
is in the stages of the tasks.

Assumptions: the named `ASSUME`s of the modules that declare the constants, which TLC
evaluates in every run, and the hypotheses named above, which stand in the theorems.

Only model-checked:
* liveness under fairness (`TaskEventuallyRuns`, `StopReturns`, `ImplementsFairTaskPool`, `QueuedRuns`,
  `TimersRun`, `IOStopReturns`, `DueTimersFire`, `CallReturns`, `StopEnds`, `NobodyWaits`,
  `BindSucceeds`, `Answered`), which is out of the prover's reach;
* what the parsers make of a request or a response (`IntactAtTokenCuts`, `ResponseRoundTrip`): an induction over
  the bytes with a case for each of some hundred states and each position of a cut, out of the provers' reach here;
* `OwnDescriptor` of `TcpServer` with `stop()` on one thread, in the run `server`.

The machines were compared with the generated code besides: the tables of transitions and actions of
all reachable states of `http11_parser.cpp` (349, for both values of the uninitialised
`uri_relaxed`) and of `httpclient_parser.cpp` (123) are bisimilar to those of the modules. States 202 to
347 of the former, the same grammar for a JSON body, are the operators with the mode "json".

## 6. Running

In this directory: `tlc -config <run's cfg> <run's module>` for a run,
`tlapm <module>` for a proof module. `PROJECT.json` lists the runs, the definitions
with the lines they model, the mutants, findings and hazards.

## 7. Where the code deviates from what it says

Two runs refute what the code asserts, `swapin` and `hook_timeout`:
* `switchTo` (`scheduler.cpp:158-165`) queues the running fiber before it suspends it; a
  pool thread that takes it at once fails `m_state != EXEC` in `swapIn` (`fiber.cpp:108`).
* the timeout callback of `do_io` (`hook.cpp:116-125`) calls `cancelEvent` for an event that
  the same pass of `idle()` has handled; `iomanager.cpp:163` asserts the event exists.

The following configurations refute further statements. They are kept with the
project and are not part of its runs ("with the invariant" or "the property": in place of what the file names):

| configuration | property | what TLC shows |
|---|---|---|
| `Scheduler_swapin.cfg` with the invariant | `StopJoinsPool` | `stop()` returns early when quiet and joins nobody (`scheduler.cpp:61`, comment at line 79) |
| `Scheduler_fair.cfg` with the property | `IdleOnlyWhenEmpty` | a thread goes idle with work in the queue, where the repository's README says the idle fiber runs when there is none |
| `Timer_cancel.cfg` | `CancelErasesListed` | `cancel()` of an expired one-shot timer erases `end()` (`timer.cpp:28-37`; comment `timer.hpp:27`) |
| `IOManager_sleep.cfg` | `NoSleepWithWork` | a tickle is lost and a thread sleeps up to MAX_TIMEOUT with work queued |
| `IOManager_stopped.cfg` | `StoppedAssertion` | after `stop()` the assertion of `~Scheduler` that the scheduler is stopped can fail |
| `IOManager_stopped.cfg` with the invariant | `NothingArmedAfterStop` | `stop()` returns with a timer or an event armed |
| `FdEvents_trigger.cfg` with `Usages <- TwoGrow` and the invariant | `RegisteredIsFound` | `contextResize(fd * 1.5)` shrinks the vector again when two threads grow it (`iomanager.cpp:97`); a registered event is found no more |
| `FdEvents_trigger.cfg` | `TriggerAssertion` | two threads were given the same event; the second trigger fails the assertion at `iomanager.cpp:38` |
| `FdEvents_trigger.cfg` with `Usages <- UnlockedOperations` and the invariant | `NoFailure` | `delEvent` or `cancelEvent` on one thread, without the mutex, and another operation on a second: an assertion fails |
| `HookIO_timeout.cfg` with the invariant | `CancelledInTime` | `do_io` calls `cancel()` on its timer after that timer has expired, which erases `end()` |
| `HookIO_closed.cfg` | `ClosedNotAwaited` | a fiber registers with a descriptor after `close()` cancelled its events |
| `HttpServer_split.cfg` | `HandledAsSent` | a token of the head that two reads share is altered (below), where `http_parser.hpp:23` says that data not fully parsed is kept |
| `HttpServer_pipelining.cfg` | `Answered` | bytes of the next request that came with the last ones of a body are dropped |
| `TcpServer_stop.cfg` | `StopEnds` | with two threads, an accept task registers its event while the stop task cancels it or closes the descriptor; the assertion on `epoll_ctl` ends the process |
| `TcpServer_restart.cfg` | `ClientsEnd` | `start()` after `stop()`, before its task ran: accept tasks spin on `m_sock == -1`, and keep their thread |
| `TcpServer_reopen.cfg` | `OwnDescriptor` | `stop()`, `bind`, `start()`: a resumed accept retries with its old number, which is another socket now |
| `TcpServer_stop.cfg` with `Usages <- RebindUsages` | `StopEnds` | a `bind` that fails after `start()` clears `m_sockets`, and `stop()` no longer closes the sockets being served |
| `Config_race.cfg` | `ListenersInSync` | two concurrent `setValue`s: the value the listeners were told last is not the one stored (comment at `hook.cpp:65`) |
| `Config_lookup.cfg` | `ListenersInSync` | two concurrent first `Lookup`s make two variables, and one is never set; or the value changes between `getValue` and `addListener` |
| `Config_root.cfg` | `NotLost` | the root logger is defined and rebuilt: between `clearAppenders` and `addAppender` messages are written nowhere |
| `Config.cfg` with the invariant | `RemovedIsUnused` | a removed logger has level 0, "not used any more" (`log.cpp:719`), by which everything passes, to the root |

In `ByteArray` the properties state the exceptions the code has: a read of no bytes
at the end of the capacity goes through a null block (an empty string there);
`writeStringF16` keeps the length modulo 2^16; `getReadBuffers(buffers, len,
position)` limits `len` by what is readable from `m_position`, so that it gives what
`bytearray.hpp:88` says, the bytes from `position` to `m_size`, only if no more are asked for than that
or `position` is `m_position` (`ViewsAgree` claims it for these cases and nothing for the others: at
position 4 of 6 bytes, 4 bytes from position 0 on are cut to 2); `writeToFile` writes the wrong number
of bytes when it starts inside a block with less than a block left, where
`bytearray.hpp:76` says it writes the readable data. The model has no
`read(buf, size, position)` for positions other than `m_position`: it starts in
`m_cur` whatever the position, and `toString()` is its only caller.

In HTTP, what the code does with a head that is cut. Every `execute` resets `mark`,
`field_start` and `field_len` and none resets `query_start`; `recvRequest` asks for the unparsed rest, which is
never any, since `execute` reports everything as parsed until the head is finished or wrong. So the
check of the buffer's size never fires, and a token that continues in a second read is taken for
its second part: another method, an error, the end of the path or of a header's name, or, for a
query, a text measured from an offset into the earlier buffer, of a length that `std::string` refuses
with an exception nobody catches. A version cut right before CR becomes 1.1, whatever it was. The states
in which a cut does no harm are those of `IntactAtTokenCuts`.

Further facts that the HTTP modules keep: `uri_relaxed` is never initialised (either value, chosen once
per parser); control bytes, CR and LF among them, are bytes of a header's name; `HttpResponseParser` is
finished only in one state; `UrlEncode` leaves "=" alone; `dump` may write content-length twice;
names of parameters are not decoded, and parameters and cookies ignore the case of their names; `TrimRight`
drops the last byte it should keep; `addGlobServlet(uri, function)` takes the write lock twice, and
either waits for itself or leaves the lock skewed; a path that moves from a pattern to an exact
entry during the lookup is answered with 404, so `StableServletFound` speaks of entries that stay.

In TCPServer: `m_isClosed` of a descriptor's context is never set, so a suspended call retries after
`close()`; `bind` works on a copy of `failaddrs`; `close()` on a thread without hooks leaves the
context behind. In Config and Logger: listeners are called before the value is stored; the characters of a
name lack "9"; `LogDefine::operator==` compares the appenders with themselves, and a definition that is in both
values is passed over, so that a changed definition is never applied.

## 8. Not modelled, and the plan

Left out for good: formatting and output of logs, the YAML parser, `getaddrinfo` and the
formatting and prefix arithmetic of `Address`, process and file queries, the argument parser,
the context switch itself (`swapcontext`) and stack allocation.

Left out, and worth adding: `connect` and its timeout (one turn of `do_io`), `ioctl` and `setsockopt`
with the flags of `FdCtx`, the growth of the vector in `FdManager::get` (the shape of `contextResize`), `Socket`'s
cached addresses, `SocketStream::write` of a `ByteArray`, and
servlets that block.

Proofs to come: `OwnDescriptor` of `TcpServer` with one `stop()` on one thread, whose invariant has to follow the
cancelled accept tasks up to their end.

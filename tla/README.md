# Formal specification of prescaler

TLA+ specifications of prescaler, model-checked with TLC and, where marked,
proved with the TLA+ proof system (TLAPS).  Paths below are relative to the
repository; line numbers are those of the files beside this directory.

* [The system](#the-system)
* [Modules](#modules)
* [How state and actions correspond to the code](#how-state-and-actions-correspond-to-the-code)
* [Runs, bounds and what they show](#runs-bounds-and-what-they-show)
* [Fairness](#fairness)
* [Proofs](#proofs)
* [Disagreements between code and documentation](#disagreements-between-code-and-documentation)
* [Not modelled](#not-modelled)
* [Plan](#plan)

## The system

prescaler predicts the load of a web service and starts or stops containers
ahead of it.  Its parts are separate processes:

```
 clients ──HTTP──> prescal ──HTTP──> backend containers (Docker)
                   │  ^                  ^
     CPU, memory,  │  │ config.yml       │ docker run / stop
     requests/s    v  │ (inotify)        │
                 InfluxDB ─samples──> scaler (inference/)
                   │
                   └──> event publisher ──SSE──> dashboard
 traffic generator ──HTTP──> prescal
```

Two links carry the design.  *prescal to scaler*: prescal's monitor threads
sample every backend into the database, and the scaler forecasts from it.
*scaler to prescal*: the scaler rewrites `forwards:` in `prescal/config.yml`,
and prescal reloads when inotify reports a modification.

### prescal engine (`src/prescal/src/engine.c`, `main.c`)

* **State.**  `backends` (the list requests are routed over), `rr_counter`, the
  atomic pair `rps_counters_ptr` / `rps_counters_size`, `metric_threads` (one
  handle per backend), `config->mutex`.
* **Threads.**  The main thread (accept, pick a backend, count, forward), the
  watcher (`watch_config`, which calls `reload_config`), the logger, and one
  `request_per_second` monitor per backend.
* **Operations.**  Pick a backend under the mutex; count the request in the
  counter array, without it; forward.  Reload, under the mutex: cancel and join
  all monitors, read the list, replace the counter array, start new monitors.
  Monitor: sample, exchange the counter with 0, write a row, sleep.
* **Hard.**  The counter array is shared without a lock and freed 100 ms after
  it is replaced; its pointer and its size are two atomics; monitors are
  cancelled at arbitrary blocking calls; the same helper starts monitors from
  two threads; any SIGPIPE or stray access kills the process, and systemd
  restarts it on whatever the file holds.
* **Correct when** nobody uses a freed array or an element outside it; monitors
  always match the current list; reloads leak nothing; the last list written is
  adopted; a request goes to a member of the pool in force and is finished.

### prescal connection loop (`engine.c: handle_connections`, `epoll.c`)

* **State.**  The kernel's accept queue, the epoll ready list, the process-wide
  descriptor table, the batch `events[]`, `client_fd`.
* **Hard.**  The listener is edge-triggered, connections are level-triggered;
  descriptors are scarce, shared with the monitors and reused at once; a batch
  of events outlives the descriptors in it.
* **Correct when** an event is only ever applied to the connection it was
  reported for, each descriptor is closed exactly once, slow clients are not cut
  off, waiting connections are accepted, and requests that arrived are served.

### scaler (`src/inference/src/main.py`, `core/docker.py`, `core/harima.py`)

* **State.**  The containers that run (in Docker, not in the process), the
  snapshot `self.containers`, `config.yml`, and the last 15 minutes in the
  database.
* **Operations.**  Once per round: query, forecast, `scale()` (count, pick ports
  or victims, start or stop one after the other), `update_config()` (count again,
  load, truncate, dump).
* **Hard.**  Containers exit between any two calls; any exception ends the
  process, and nothing starts it again; `open(path, 'w')` truncates before
  `yaml.dump()` writes, and the next round must load what was left.
* **Correct when** the number of containers reaches the forecast, ports never
  clash, a round that ends has published what runs, the file catches up with the
  containers, and the loop goes on.

### prescal configuration (`src/prescal/src/configuration.c`, `ds/linkedlist.c`)

* **State.**  The open file and stdio's block of it, `parsing_forwards`,
  `config->port`, the list under construction and the one in use.
* **Operations.**  `read_config()` reads block by block and line by line and
  appends to a new list; `reload_config()` then puts it in use.
* **Hard.**  The scaler truncates and rewrites the file in place, without a lock
  and without renaming, while it is read: after one version's lines may come the
  end of another's.
* **Correct when** the list in use is one version as a whole, its size agrees
  with its chain of nodes, and prescal listens on the port of the file (it does
  not if it starts on a truncated one, see
  [Disagreements](#disagreements-between-code-and-documentation)).

### dashboard (`src/dashboard/src/lib/components/ServerMonitor.svelte`)

* **State.**  `isRealtimeMode`, `selectedDate`, `refreshInterval`, `serverData`,
  `ports`, `loading`, `error`; queries on their way.
* **Hard.**  Polls do not wait for each other, nothing is aborted, and answers
  are applied with the mode of the moment they arrive.
* **Correct when** one interval polls in real time and none otherwise, and the
  page shows what the user asked for.

### prescal monitors (`engine.c: request_per_second`, `metrics.c`, `tsdb.c`, `helper.c`)

* **State.**  Per backend one thread, with a connection to the database, a data
  file, for a moment the socket of a sample, and the CPU seconds of the sample
  before.
* **Operations.**  Connect to the database once; sample the backend until it
  answers, then every second; compute the CPU share from two samples; write a
  line to the file and a row to the database.
* **Hard.**  `pthread_cancel()` acts at any blocking call and there are no
  cleanup handlers; backend and database are stopped and started; descriptors
  run out; results of `send()` and `read_env()` are ignored.
* **Correct when** nothing stays open that is not used, a cancelled monitor ends
  whatever it waits for, a sample claims no CPU time that was not used, and
  samples are recorded again after a disturbance.

### traffic generator (`src/traffic/`)

* **State.**  The configuration, the period (normal or high) and its seconds, a
  semaphore of slots, one thread per slot with the requests it still has to send.
* **Hard.**  Every path between `sem_wait()` and `sem_post()` may fail; a request
  waits for its answer without a timeout, on a proxy that may strand it.
* **Correct when** slots are neither lost nor invented, batches follow a
  validated configuration, and the load goes on.

### Others

| part | state | operations | what would make it correct |
|---|---|---|---|
| HTTP record, Docker client of prescal | none that decides anything | parsing, formatting; no caller | - |
| event publisher (`src/event/`) | subscribers of a subject | poll the database, broadcast | every subscriber gets every event until it leaves |
| forecast, research logging | model files, CSV rows | predict, append | numerical; outside a model checker's reach |

`PROJECT.json` lists every part with its status, and under `hazards` what can
go wrong at which line and which property would notice.

## Modules

| module | what it is |
|---|---|
| `Proxy` | abstract specification of prescal: a pool that follows the file, one request at a time |
| `AtomicRead` | abstract specification of `read_config()`: the list is taken over in one step |
| `Engine` | the threads of `engine.c` and the memory they share; implements `Proxy` |
| `EngineProofs` | its invariants, how much it allocates, and that it implements `Proxy`'s safety |
| `AcceptLoop` | `handle_connections()`, epoll and the descriptor table |
| `AcceptLoopProofs` | its invariants, and that connections go one way |
| `Scaler` | the scaler's rounds and the file it writes |
| `ScalerProofs` | its invariants |
| `System` | `Scaler` in one loop with prescal, its file and its samples |
| `SystemProofs` | that the loop implements `Scaler` and `Proxy`, and its own invariants |
| `Monitor` | one monitor thread: what it holds, waits for and reports |
| `MonitorProofs` | its invariants and what it reports |
| `Traffic` | the traffic generator as the clients of `AcceptLoop` |
| `TrafficProofs` | its slots and its schedule, and both programs together |
| `ConfigFile` | `read_config()` over a file that is rewritten meanwhile, and the list's nodes; implements `AtomicRead` |
| `ConfigFileProofs` | its invariants, how many nodes it needs, and that it implements `AtomicRead` |
| `Dashboard` | the page's event loop: interval, queries, answers, the user |
| `DashboardProofs` | its invariants |
| `MCEngine`, `MCAcceptLoop`, `MCSystem`, `MCMonitor`, `MCTraffic`, `MCConfigFile`, `MCDashboard` | small instances for TLC |

Definitions commented `Mutant of X` are wrong variants of an action; no
specification uses them.  Each is a plausible slip (a forgotten store, a
detach for a join, an off-by-one), kept to show that the property beside it in
`PROJECT.json` would notice.

## How state and actions correspond to the code

### Engine

One action per atomic access to what threads share, and one action for
whatever runs under `config->mutex` and touches only what the mutex protects.

| code | actions |
|---|---|
| `main()` up to `start()`, and a restart by systemd | `Init`, `Crash` |
| `start()` | `SpawnBegin/One/End("req")`, `StartLogger` |
| `handle_request()`, `get_next_backend_port()` | `Receive`, `Pick` |
| the counter update in `process_request()` | `LoadSize`, `LoadPtr`, `Count` |
| `handle_response()`, `close()` | `Forward` |
| `watch_config()` | `AddWatch`, `ReadEvent` |
| `reload_config()` | `LockReload`, `ReadConfig`, `UnlockReload` and the three rows below |
| `stop_metric_threads()` | `StopCancel`, `StopJoin`, `StopEnd` |
| `update_rps_counters()` | `Resize`, `StoreSize`, `FreeOld` |
| `start_metric_threads()` | `SpawnBegin/One/End("wat")` |
| `request_per_second()` | `MonitorStart`, `MonitorSample`, `MonitorCheck`, `MonitorExchange`, `MonitorFail`, `MonitorCancel` |
| `engine_logger()` | `LogLock`, `LogLoadPtr`, `LogPeek`, `LogUnlock` |
| `DockerManager.update_config()`, as prescal sees it | `Truncate`, `Dump` |

Representation:

* A counter array is an address from `Addr` and a function on `0 .. size-1`.  A
  cell holds the *set of ports* whose requests were counted in it since its last
  reset; how many they were is left out.
* A linked list is the sequence of its elements.  `read_config()` reads the
  list in one step; a truncated file holds the empty list.
* `rr_counter` is an `int` read into a `uint32_t`; the modulus `2^32` is the
  constant `RRSpan`.
* `metric_threads` is uninitialised after `malloc()` (`Uninit`), and stays so at
  an index whose `pthread_create()` failed.
* Undefined behaviour is a choice: an access to freed memory may crash, pass
  unnoticed, or hit a cell in use; `pthread_cancel()` on garbage may crash or
  fail; `pthread_join()` on garbage crashes.  A crash leads to a fresh process
  on the file as it is (`run.sh`: `Restart=always`).
* Sleeps are not modelled: a thread may take any time between two steps.  In
  particular the grace period before `free(old_counters)` guarantees nothing.

### AcceptLoop

`Wait` is `epoll_wait()`, `Dispatch` the `for` loop over the batch, `Accept` and
`StopAccepting` the inner `while`, `Serve` `process_request()` seen from
outside, `Close` `EPOLL_CTL_DEL` and `close()`.  `Connect` and `Speak` are a
client; `Take` and `Give` the sockets other threads open and close.
`edge` is the listener's place on the kernel's ready list: set by an arriving
connection, cleared when `epoll_wait()` reports it.  Any failure of `accept()`
breaks the inner loop (`StopAccepting`): for want of connections, of descriptors,
or, `MaxErrors` times, of something else that leaves the connection in the queue
(`ENFILE`, `ENOBUFS`, `ENOMEM`); `errors` counts the last.  Descriptors are numbers
because the kernel hands out the lowest free one, which is what makes reuse
within a batch certain rather than rare.  `owner` is the kernel's view of a
descriptor and `held` that of the other threads: a double close makes them
disagree.

### Scaler

`Forecast`, `Plan`, `StartOne`, `StopOne`, `Refresh`, `Truncate`, `Dump` are the
calls of one round in their order.  A container is its host port.  `Exit` may
happen between any two of them.  `Record` lets the rows of the last 15 minutes
fill the window, or no longer do so, at any time: `System` says when.  The
forecast is any member of `Amount`.  `Abort` is the end of the process between
any two calls or within one, by an exception or a signal.  Within `yaml.dump()`
it leaves what was written by then: any part of the list, and possibly no mapping
(`blank`), so that `safe_load()` returns `None` or raises in the next round
(`Truncate`).  `Restart` is somebody starting `main.py` again; nothing in the
repository does.  `lost` is a history variable: no action's guard reads it.

### System

`System` extends `Scaler` with prescal as the scaler's loop needs it and joins
the two at both ends.

| code | actions |
|---|---|
| `update_config()`, and the watch it sets off | `Write` (`Truncate` or `Dump` of `Scaler`), `Publish`, `Notify` |
| `main()` up to `start()`, restart by systemd | `SysInit`, `Crash` |
| `watch_config()` | `AddWatch`, `ReadEvent` |
| `reload_config()` | `Reload` (stop monitors, read the file), `StartMonitors` |
| a failed sample of `request_per_second()` | `MonitorFails` |
| rows in the database, and their age | `Sample`, `Expire`, `dry` |
| the rest of a round | `NewRound`, `Scale` |
| exceptions and kills, whose last write may set off the watch | `Break` (`Abort` with `Publish`) |
| exits of containers; the scaler is started again | `Disturb` |

* A backend is sampled if a monitor of it lives and its container runs
  (`Sampled`).  `dry` counts the rounds begun since then; after `Window` of them
  no row is young enough for a forecast.  That replaces the clock: a round takes
  `WINDOW * STEP` seconds.
* `missed` is history: the file changed between `read_config()` in `main()` and
  `inotify_add_watch()`.
* The list is a set of ports, as nothing here depends on its order; `ConfigFile`
  and `Engine` have the order.

### Monitor

One action per blocking call of `request_per_second()`, since those are the
points where it can be cancelled, can hang, and where others act.

| code | actions |
|---|---|
| `init_tsdb()`, `tsdb_connect()`, `fopen()` | `Start`, `Connect`, `OpenFile` |
| `request_metrics()` | `Socket`, `TalkFails`, `Answered` |
| the retry loop and the sampling loop | `Failed`, `Sleep`, `primed` |
| `get_value()`, `cpu_percentages()`, `cpu_t0` | `Parsed`, `Evaluate` |
| `write_metrics()` | `Write` |
| `tsdb_write()` with its two calls of `read_env()`, for token and host | `OpenEnv`, `CloseEnv`, `AfterEnv`, `Post`, `Killed` |
| the end of the thread | `Close` |
| `stop_metric_threads()`, `start_metric_threads()` | `Cancel`, `Heed`, `Replace` |

* `open` counts descriptors; `left` is what cancelled monitors left open, `busy`
  what the rest of the process uses.  Opening one fails when all `Fds` are used.
* `link` is the connection to the database: after a restart of the database it is
  `stale`; the first `send()` on it succeeds and makes the peer reset it, the next
  raises SIGPIPE, whose default action ends prescal (`Killed`), after which
  monitors connect afresh.
* `CORES` is 1 and two samples are taken to be a second apart, as in the call of
  `cpu_percentages()`.  A sample may be cut short by the one `recv()`: the value is
  then 0, or what the stack held (`Parsed`).
* `blind` and `used` are history variables.

### Traffic

`Traffic` extends `AcceptLoop`: `Call` is its `Connect`, `Send` its `Speak`, and
`Receive` waits for `conn` to be closed.  `Tick` is a turn of `traffic_worker()` up
to `sem_wait()`, `TakeSlot` the return of that, `Spawn` and `SpawnFails` the rest of
the turn; `Finish` is the end of `traffic_forwarder()`.  `Forget` lets the kernel
use a connection's name again, so that a few clients make any number of requests.
Integers wrap at `MaxInt`, which is `RAND_MAX`, too.

### ConfigFile

`Truncate` and `Dump` are the scaler's `open(path, 'w')` and the end of its
`with` block, where the text reaches the file at once (it is shorter than
Python's buffer).  `Boot` and `Reload` open the file, `Fill` is the `read()`
behind `fgets()`, `Parse` one turn of the `while` loop with every call it makes,
`Finish` the end of the file with what the caller does next: `start()` listens,
`reload_config()` puts the list in use.  `Die` is the end of the process.

* The text is a sequence of lines, each a key or an item; how many bytes each
  takes matters, because the reader's offset into one version is applied to
  another.  A line cut off at its front matches no key and no item
  (`Fragment`): none of the keys is a suffix of another, and an item without its
  dash is no item.
* A block holds the whole file (4096 bytes are more than 200 backends).
* A list node is an address from `Node` whose fields keep their old contents
  until they are assigned.  The list a reload replaces is never freed
  (`engine.c:447`), which leaks it; here its addresses may be used again, since
  nothing refers to them, so that a finite heap is enough.  `malloc()` does not
  fail.
* `seen` is history: the lists the file held since it was opened.

`Engine` and `System` take the same `read_config()` as one step.  `AtomicRead` is
that step, and `ReadsAtomically` says that `ConfigFile` implements it, with the
file as `published` and as `pool` the list read last (`Pool`): from the first
block of a read on, what was appended and what the block still holds (`Coming`);
before that, the list in use.  The step that reads is thus the first `Fill`, or
`Finish` when the file is empty; the lines parsed later change nothing any more.
A write that comes after it has its event still queued, as in `Engine`.

### Dashboard

One action per handler of the component, run to its end or to its first
`await`; `Arrive` is the rest of `fetchServerData()`.  Both awaits of a query
are one, since nothing happens between them.  `pending` keeps the queries in
the order they were asked, and `Arrive` takes any of them.  `late` is history:
a younger query was answered before.  `Load` is the browser loading the page
again.  Points in time are left out: in real time any subset of the ports
found may be recent enough to be drawn.

## Runs, bounds and what they show

| run | expected | shows |
|---|---|---|
| `engine_safety` | pass | All invariants of `Engine` and, step by step, the safety part of `Proxy`, in every interleaving of a request, reloads, logger and monitors, with `calloc`, `pthread_create` failing and SIGPIPE |
| `engine_liveness` | pass | `Engine` implements `Proxy` with its fairness: the last list written is adopted, a picked request is finished, also across crashes |
| `engine_bounds` | violation | see [Disagreements](#disagreements-between-code-and-documentation) |
| `engine_early` | violation | see [Disagreements](#disagreements-between-code-and-documentation) |
| `accept_loop` | pass | Events stay current, descriptors have one owner, slow clients are kept; the queue drains while a descriptor is free and `accept()` does not fail otherwise, and accepted requests are served in any case |
| `system` | pass | With an exit, two exceptions or kills, and a crash or an ended monitor: the scaler's plan is reached on free ports, a round that ends has published it; prescal's pool is the file's list whenever it is at rest.  Stopped backends leave it, running ones come to be monitored, the file catches up and rounds go on, but for the three ways to stop named under [Fairness](#fairness) |
| `system_stall` | violation | see [Disagreements](#disagreements-between-code-and-documentation) |
| `config` | pass | The read is as good as one that happens at an instant; the list in use is one version of the file as a whole and agrees with its nodes, and prescal listens on another port than the file's only if the file was truncated at the end of its first read, with the file rewritten three times at any moment and the process dying |
| `dashboard` | pass | One interval polls, the page shows what was asked for unless the last answer was overtaken, does not load for ever, and comes back to real-time data |
| `monitor` | pass | A monitor holds what it uses, claims neither CPU time that was not used nor a negative one, heeds every cancellation, retries its first sample, and after any disturbance records samples or had ended |
| `traffic` | pass | Slots are kept on every path, batches follow the configuration, and the load goes on if prescal always has a descriptor free and `accept()` does not fail |
| `traffic_stuck` | violation | see [Disagreements](#disagreements-between-code-and-documentation) |

Bounds, all of them constants in the `.cfg` files:

* **Engine.**  Two ports and the lists `<<>>`, `<<p1>>`, `<<p2, p1>>`: growing,
  shrinking, emptying, and a port whose index changes.  Two monitors are enough
  for two backends because a reload joins the old ones first (that this is so is
  `OldMonitorsStopped`; `engine_early`, where it is not, has four): `ThreadsSuffice`
  proves that the model never runs out of them.  Two addresses: at most an old and
  a new array exist (`ArraysAreBounded`), and an address is reused
  after it is freed, which is the interesting case.  Two rewrites, each
  a truncation and a dump: a reload can be overtaken by the next write in every
  phase, and one may see the truncated file.  `RRSpan = 2` makes the wrap happen.
  `engine_liveness` has one monitor and lists of at most one element, since
  liveness does not depend on how many there are.
* **AcceptLoop.**  Three clients, three descriptors, one of which other threads
  may hold, batches of two: more ready descriptors than a batch holds, reuse of
  a descriptor inside a batch, and a full table all occur.  One failure of
  `accept()` for another reason (`MaxErrors`): it may strand all three.
* **System.**  Three ports, forecasts of 2 and 3, one exit, two exceptions or kills,
  one crash or ended monitor: gaps between used ports, growth into a gap,
  shrinking, and a fault in each phase of a round and of a reload.  The second
  fault hits the round that would repair what the first one left.  Forecasts start
  at 2 so that one exit leaves a container.  `Window = 1`: one round without
  samples is enough for a forecast to fail; a longer window only delays that.
  `system_stall` needs two ended monitors and nothing else; it assumes a scaler
  that is always started again (`TendedSpec`), which does not help.
* **Monitor.**  Six descriptors: two cancelled monitors leave up to six, so that a
  third meets a full table, for good or until others close one.  Two CPU seconds
  between samples tell a difference from a total.
* **Traffic.**  Two slots, two connections, and two descriptors at the proxy, one
  of which (in `traffic_stuck` both) other threads take for a while; batches of
  none to two requests, `MaxInt = 2`, and no failure of `accept()` but for want of
  descriptors: `accept_loop` has those.  The files make a range as wide as an `int`,
  a maximum below its minimum and a negative value.

* **ConfigFile.**  Lists of none, one and two hosts: the file of a longer list
  goes on where that of a shorter one ended, at the beginning and in the middle
  of a line.  Three rewrites: one before, one during and one after a block.  Four
  nodes: the list in use and the one under construction at their longest, which is
  enough (`NodesSuffice`): the heap's size keeps nothing from happening.
* **Dashboard.**  Two days, two ports, three queries on their way: a poll, a
  day's history and a poll again can be answered in every order.  One failure.
  Two timer identifiers, so that a lost interval and a new one can both run.

`Truncate`, `Dump` of `Engine` have the guard `"early" \in Faults \/ Booted`:
without `"early"` the file is not rewritten before prescal has finished starting.
The start-up window is real (`engine_early`), but with it most invariants are
false, so the passing runs exclude it by that one named switch.

`CHECK_DEADLOCK` is on in every run.

## Fairness

* **Engine.**  Every thread keeps running (weak fairness of its steps).  The
  request thread and the watcher get the mutex although others keep taking it
  (strong fairness of `Pick` and `LockReload`): the logger, the only repeated
  taker, sleeps a second between two short critical sections.  A cancelled
  monitor reaches a blocking call and ends there (strong fairness of
  `MonitorCancel`): every blocking call of `request_per_second()` is a
  cancellation point.  `WF(Forward)` assumes that a backend answers or closes:
  its `recv()` has no timeout, and a backend that does neither stops the proxy.
  Nothing is assumed of clients, of the file, of samples succeeding, or of the
  logger taking the mutex.
* **AcceptLoop.**  The loop's thread runs, and the other threads close the
  sockets they opened.  The second assumption is not needed for the passing
  properties; it makes the counterexample of `traffic_stuck` stronger.
* **System.**  The scaler's loop and the watcher run, samples that are taken are
  recorded, and rows expire.  Nothing is assumed of `Plan` and the other calls one
  by one: they are one thread.  *Nobody* is assumed to start a scaler that has ended,
  since the repository has no service unit for it: the first exception may end
  scaling.  The temporal properties therefore have three ways out (`Stopped`): the
  scaler has ended for good; the file has no mapping for good (`FileLost`); or no
  running backend is sampled for good.  All three are real, and what the
  properties say is that there is no fourth: whoever does start the scaler again
  finds it going on after every fault that left the file a mapping, with whatever
  list in it, after a crash of prescal, and after the end of some monitors.  Only
  `system_stall` assumes more (`TendedSpec`: the scaler is always started again),
  which makes its counterexample stronger.
* **Monitor.**  The thread runs (weak fairness of `Step`) unless it waits for an
  answer: `TalkFails` has no fairness, so a sample may hang for ever.  A cancelled
  thread ends at one of the blocking calls it comes by (strong fairness of `Heed`,
  as it may be between two of them), and the watcher then joins it and starts
  another.  Nothing is assumed of backend, database or the other threads;
  `RetriesUntilSampled` and `RecordsOrHasEnded` have as premise that they are well
  from some point on.
* **Traffic.**  Generator and accept loop run, other threads of prescal close what
  they opened.  That `send_request()` reaches its next call needs nothing of the
  network: the answer, or the end of the connection, comes from the modelled loop.
  `TrafficGoesOn` has the premise that prescal always has a descriptor free and
  `accept()` does not fail otherwise (`Admits`);
  `traffic_stuck` is the counterexample without.
* **Dashboard.**  The browser mounts the page and lets intervals elapse, and
  *some* query on its way is answered or fails sooner or later.  No particular
  one is: a query may hang for ever.

## Proofs

Each theorem holds for every value of the constants that satisfies the
module's `ASSUME`: any number of ports, lists, threads, clients, descriptors.

**Engine** (`EngineProofs`).  `TypeCorrect` needs no further assumption.  The
safety invariants do not hold by themselves: that a monitor uses an allocated
array depends on the watcher having joined it, which depends on its handle
being in `metric_threads`, which depends on where the thread that spawns is.
`Inductive` proves the conjunction that closes under every step: who holds the
mutex at which `pc`, that the handles up to the current spawn index are exactly
the running monitors, that `todo` is the rest of `backends`, that the array the
pointer names is allocated with the stored size outside `update_rps_counters()`,
and that what each thread loaded is that array.  From it follow
`SizesAgree`, `MonitorsSafe`, `LoggerSafe`, `ReloadStopsMonitors`,
`MonitorsMatch` and `ReloadFreesCounters`.  They assume `"early" \notin Faults`,
and need to: `engine_early` is the counterexample without.

The same invariant bounds what is allocated, however often the file is rewritten.
`ArraysAreBounded`: at most the current counter array and the one a reload
replaces.  `MonitorsAreBounded`: the running monitors have different indices, all
below the length of the list, so there is at most one for each backend; it counts
them by that injection.  During a reload, those started have indices below the
one to come, which is `ThreadsSuffice`: a set of threads as large as the longest
list never keeps `pthread_create()` from succeeding.

**Engine implements Proxy** (`EngineProofs`).  `EngineImplementsProxy`: with
`published <- file`, `active <- backends`, `serving <- req.port`, every step is a
step of `Proxy` or a stutter, with all faults and *without* the start-up
assumption.  Routing is correct although the counters are not.

**AcceptLoop** (`AcceptLoopProofs`).  The inductive invariant says that the
queue holds exactly the queued connections, once each; that every open
connection has exactly one descriptor; and that a batch names no descriptor
twice and none being served.  `EventsCurrent`, `SlowClientsKept` and
`DescriptorsOwned` follow, and `ConnectionsAdvance`: a connection is queued, opened,
then answered or dropped, each at most once, although its descriptor number is
soon that of another.

**Scaler** (`ScalerProofs`).  The inductive invariant balances the books of a
round: what runs plus what is to be started (or less what is to be stopped)
equals the forecast less what was lost; and that the list about to be written
has every running container, and besides them no more than were lost (`Listed`).
`ForecastReached` and `FreePortsAreFree` follow, and `RoundPublished`: a round
that ends has written what runs.  Containers only exit after the list was taken,
which is why the list may have too many but never too few.

**System** (`SystemProofs`).  `SystemImplementsScaler`: for the scaler, a behaviour
of the composition is one of `Scaler`; the step that needs an argument is `Sample`,
which is `Record` or a stutter.  So everything proved in `ScalerProofs` carries over
(`ScalerStaysSafe`).  `PoolStaysCurrent` is inductive only with what happens between
the event and the read: an unread event, or a reload about to read, excuses a pool
that is behind, and the file can change without either only before the watch.
`SystemImplementsProxy`: prescal as it stands here is the `Proxy` that `Engine`
implements, without requests, so the two views of prescal promise the same of its pool.

**Monitor** (`MonitorProofs`).  `Inductive` ties `open` to the place where the thread
is, counts what cancelled monitors left by the reloads completed, and bounds the
CPU counter by the base of the next difference and what was used since, which is
what `CpuNotOverstated` needs when the process behind a port is replaced: the
difference neither exceeds what was used nor is negative.

**Traffic** (`TrafficProofs`).  `SlotsKept` needs that only a thread with a request
to send has a connection: otherwise an answer could count a finished thread down
and lose its slot.  `BatchesInRange` rests on `DrawnInRange`, arithmetic of integers
that wrap: of the ranges a valid configuration allows only `0 .. INT_MAX` overflows, to
`INT_MIN`, and the remainder by that is the one intended.  The defaults are assumed to
pass `validate_config()`, as those of the code do.

`Traffic` lets the name of a finished connection be used again (`Forget`), which no
action of `AcceptLoop` does, so it does not implement `AcceptLoop`.  Its invariant
is nevertheless preserved: a connection is forgotten only when no descriptor has
it any more.  `JointInductive` joins both invariants with `Pairing`: threads have
different connections, whose clients are still there, and every connection queued
or open belongs to a thread.  From it follow `TrafficTypeCorrect`; that everything
proved of the accept loop holds under this load (`ProxyKeepsItsPromises`); and that
the proxy never has more connections than slots are taken (`LoadIsBounded`).

**ConfigFile** (`ConfigFileProofs`).  Why a read that is not atomic gives one
version: `yaml.dump()` sorts the keys, so `entry:` and `forwards:` take the first
30 bytes at least, and a version takes 41.  The first block is a whole version,
and ends with `port:`, which ends the list; a later block starts at byte 41 or
beyond and cannot contain `forwards:` any more, so its items are ignored.
`Inductive` says so: in the first block the list holds the items before the
current line (`InFirstBlock`), after it nothing can be added (`PastFirstBlock`).
`AppendExtends` is the lemma about `append_node()`: on a well-formed chain it
appends to the sequence the chain stands for.  `OneVersionRead` follows, and
`ListensOnFilePort`: a first block that is a whole version sets the port, so only
a first read that found nothing at all, and thus no backends, leaves it unset.

`IndexesHaveNodes` is about the walk of `get_node_at()`, a recursive function over
indices, for lists of any length.  Instead of an induction, which the provers
cannot instantiate, it takes the least index at which the walk leaves the chain:
that is not the first, and at the one before it the walk was on the chain, whose
`next` is then the node it should have reached.  Also needed is that building one
list does not disturb the other (`ListsApart`).

`ReadImplementsAtomicRead` rests on the same facts.  At the first block the items
to come are those of the version that was read (`FirstFill`); a line moves one
item from `Coming` to the list and leaves `Pool` alone (`ParseKeeps`); a later
block has no items to come (`LaterFill`); and the end of the file puts in use what
`Pool` already was (`FinishKeeps`).  `NodesSuffice` counts the nodes of both lists.

The argument needs the order of the keys and the
block size: a file written by hand with `port:` first, or one longer than a
block, is outside it.

**Dashboard** (`DashboardProofs`).  The inductive invariant follows the query
asked last: either it is the right one and still to come, or all that is to come
was overtaken and what is shown is right, late or marked as an error.

Liveness and `ENABLED` are out of the prover's reach: `ImplementsProxy`,
`BacklogDrainsWithRoom`, `RequestsAreServed`, `ScalingGoesOn`, `GoneBackendsLeave`, `BackendsAreMonitored`,
`CancelIsHeeded`, `RetriesUntilSampled`, `RecordsOrHasEnded`, `TrafficGoesOn` and
`RealtimeReturns` are only model-checked.  Every other property of the passing runs is
stated by a theorem: all invariants, all action properties and both refinements
of a safety specification.  The other way round, the types of `AcceptLoop`, `Scaler`,
`ConfigFile` and `Dashboard` by themselves are only proved; TLC checks the first two
within `TrafficTypeOK` and `SysTypeOK`.

## Disagreements between code and documentation

1. `engine_bounds` (`engine.c:571`): a request loads the size before a shrinking
   reload and the pointer after it, and adds past the end of the new array.  The
   comment at `engine.c:422` calls the update atomic; it is two stores.
2. `engine_early` (`engine.c:507`): a reload during start-up finds no monitors to
   stop, then both threads start them.  `engine.c:442` promises otherwise.
3. `system_stall` (`harima.py:60`): monitors end with one failed sample and are
   started again only by a reload; the scaler forecasts only with samples, and
   writes the file, which brings the reload, only after a forecast.  When the
   monitors of all running backends have ended before the next write, nothing
   happens any more.  `prescal/README.md:7` promises that instances are started when
   load increases.
4. `traffic_stuck` (`engine.c:252`): after `EMFILE`, waiting connections are stranded
   until another client connects, although descriptors become free; `engine.c:244`:
   "Accept all pending connections in this iteration".  If the clients that would
   connect next all wait for those connections, as the generator's threads do, it
   is for ever.  `traffic/src/http.c:137`: "Wait for a thread slot to become
   available".

More are known from the models and have no run of their own:

* A reload that keeps the number of backends keeps their counts
  (`engine.c:409`), so a monitor reports requests that went to another port, against
  `engine.c:105`: "Get RPS for THIS specific port".  `CountsOwnPort` of `Engine` states it.
* If `yaml.dump()` raises, or the scaler dies in it, the file stays empty or cut off
  (`docker.py:118`), and if `safe_load()` finds no mapping in it every later
  `update_config()` raises (`docker.py:114`), against its "Update prescal/config.yml
  with current container ports" (`docker.py:106`).  `FileCatchesUp` of `Scaler` states
  what is lost; `FileLost` is one of the ways out of the temporal properties.  A file
  cut off before `port:` is loaded without complaint and has no port from then on.
* Any exception in a round ends the scaler (`main.py:113` catches only
  `KeyboardInterrupt`), and nothing in the repository starts it again.
* A forecast of no traffic stops every container, and without samples no later
  forecast is possible: the state of `system_stall` by another way.
* `init_listener()` binds `config->port` (`engine.c:212`), which `config_init()` leaves
  uninitialised and only a line `port:` sets (`configuration.c:82`).  Started on the
  truncated file, prescal listens on an arbitrary port, without backends; the next
  reload brings backends and the right `config->port`, but binds nothing again, so
  the proxy stays where nobody asks, against `prescal/README.md:14`.
  `ListensElsewhereOnlyIfTruncated` says that this is the only way.
* A real-time query answered after the user has picked a day replaces that day's
  history (`ServerMonitor.svelte:116`), although the handler sets out to "Stop
  realtime updates when viewing historical data" (line 274): it stops the
  interval, not the query on its way.  The overtaken answer stays until the user
  acts; `ShowsTheSelection` does not catch that, as it excludes it by `late`.
* A sample cut short by its one `recv()` (`metrics.c:60`) counts as 0 CPU seconds, and
  the next difference is a total; `CpuIsNotOverstated` excludes both by `blind`.

## Not modelled

* `recv()` and `send()` contents, HTTP and YAML text, timestamps, log lines.
* Failures of `epoll_create1`, `epoll_ctl`, `fcntl`, `inotify_init`, of
  `pthread_create` for the watcher and the logger.
* `destroy_engine()`: it runs only after `handle_connections()` returns, and that
  never returns.
* Failures of `accept()` that take the connection out of the queue
  (`ECONNABORTED`).  The loop breaks on them as on the others (`errors`).
* Configuration files that are not as `yaml.dump()` writes them, or that it was
  interrupted in (`System` has those, as the list they hold; an item whose port is
  cut off to another number is left out there, too); `config_destroy()`, which
  nothing calls before the end.
* The points, colours and mouse positions of the dashboard's charts.
* The forecast itself (`harima.py`): trained models.  `Scaler` takes any number.
* `tsdb_read()`, `run_container()`, `split_equal()`, `dclient.c`: no caller.
* The event publisher: one sequential loop that queries a row, publishes it and
  sleeps.  It shares nothing and nothing interleaves with it; that it counts queries
  instead of rows from 995 on and ends at the first error is visible in each line.
* The memory a monitor leaves behind when it is cancelled (`Monitor` counts
  descriptors): it has no limit that anything else meets.
* Buffers filled to their last byte (`engine.c:141`, `metrics.c:66`): single
  expressions without a state space; listed as hazards.

## Plan

Done: `Proxy`, `AtomicRead`, `Engine`, `AcceptLoop`, `Scaler`, `ConfigFile`, `Dashboard`, `System`,
`Monitor` and `Traffic` with their proofs.  What would come next:

1. **Monitor composed with AcceptLoop**, whose `Take` and `Give` stand for it.
2. **RoundRobin**: how evenly requests are spread, across reloads and the wrap.

# BMF verification project

TLA+ models, TLC runs and TLAPS proofs for the Brickadia Modding Framework (BMF) and
the Omegga runtime it works with. The repository carries a command from an Omegga
plugin to the game thread of a Brickadia server through several queues, timers and
processes; this project models those steps and checks what each promises the next.

## 1. The system

| Component | State it keeps | Operations | Talks to |
| --- | --- | --- | --- |
| Connection readiness tracker (`bmf/connection_readiness.lua`) | per player: current generation, entries with state, paths, trust, repair window | `sync`, `note_check`, `invalidate`, `invalidate_paths`, `note_path_reuse`, `repair_decision`, `admission`, `execution_decision` | called by the tunnel and the player cache |
| Unified socket scheduler and game command tunnel (`bmf/runtime.lua` 27500-29640) | two transports x two lanes of queued requests, hand-kept counters, active and completed tables, idempotency keys, slot cursor, cooldown | admit, reject, requeue, dispatch, wake, fail closed | reads the tracker; fed by the worker |
| Socket worker and watchdog (`runtime.lua` 29880-30565) | generation, poll link, watchdog link, heartbeat, mode flags | poll, reschedule, stale test, restart in place | UE4SS delayed callbacks and EngineTick |
| Socket broker: requests (`bmfSocketBridge.ts`) | sockets, native clients in order, tunnel routes and core commands with their timers | connect, route, answer, time out, disconnect, stop | plugins, native client, Omegga |
| Socket broker: motion feed (`bmfSocketBridge.ts`, `motionLatestValueLane.ts`) | advertised schema, per companion: lease, rate timer, latest-value lane | advertise, withdraw, subscribe, forward, flush, drain | native client, companions |
| Write admission (`ue4ssAdmission.ts`) | job queue, active job, scheduled flag | enqueue, run, clear | the server's console writer |
| UE4SS bridge (`ue4ssBridge.ts`, OmeggaBridge `main.lua`) | pending requests, inbox and outbox files with offsets | request, poll, answer, stop | game process through files |
| Omegga event engine (`omegga/*.ts`) | matchers, players, join correlation | log lines to events | plugins, broker |
| Server process (`omegga/server.ts`, `brickadia/server.ts`, `cli/terminal.ts`, `metrics.ts`) | three flags, the child process with its listeners and bridges | start, stop, update, boot, exit | operator, web server, game process |
| Plugin loader and worker transports (`omegga/plugin*`) | per plugin: worker thread, event passthrough, commands, outstanding calls | load, unload, crash, emit, call | plugins |
| Omegga plugins (`packages/omegga-plugins`) | caches and timers | poll, publish | broker |
| Orchestrator transactions (`packages/orchestrator-core/src/transactions.js`) | plan, rollback list, journal file, backups | plan, apply, roll back | file system |
| Orchestrator, the rest (`packages/orchestrator-core/src`) | manifests, profiles, telemetry, pid files | validate, aggregate, start and stop services | file system, services |
| Native socket client (`native/bmf_socket/bmf_socket.cpp` 23568-23905) | worker thread, `running_`, outbound and inbound queue, connection | start, stop, queue, receive, reconnect | Lua on the game thread, the broker |
| Native modules, the rest (`native/*`) | hooks | detour, trace | game binary |
| Web server, CLI, desktop application | database rows, views | requests | orchestrator, Omegga |

### What is hard in it

* **One queue, two transports, one slot per tick.** Direct commands and tunnel requests
  share budgets whose counters are kept by hand, lanes whose order is a cursor over ten
  slots, and a cooldown that makes some slots ineligible (`runtime.lua:28108-28125`).
* **Repeats.** Clients resend, and may resend under a new id with an old idempotency
  key; answers are remembered in bounded caches that forget (`27764-27834`, `29412-29466`).
* **Sessions that change under a request.** A player reconnects, a probe answers late,
  a snapshot omits the paths it listed before (`connection_readiness.lua:188-289`).
* **A pump that can break.** Its links may be refused or lost silently; a watchdog
  decides from a heartbeat, and old links overlap with new ones (`30037-30047`).
* **Timers racing answers** in the broker and the bridges: a result may come after the
  route or the request was given up.
* **A journal that may be older than the disk** in orchestrator transactions: a step is
  applied first and journaled after, and the process may be killed in between.
* **Two threads on one socket.** The client's worker sends batches it has taken out of the
  queue while Lua fills it, and may block in a send while the game thread joins it
  (`bmf_socket.cpp:23596-23609`, `23813-23833`).
* **Callers that do not know of each other** load and unload one plugin, or start, stop
  and update the server, and each of them awaits half way (`plugin_node_safe.ts:366-489`,
  `omegga/server.ts:3396-3455`).

`PROJECT.json` lists the hazards at their lines, with the properties that cover them or
the reason none does yet.

## 2. Modules

| Module | Models | Proved in |
| --- | --- | --- |
| `ConnectionReadiness` | the readiness tracker, every operation | `ConnectionReadinessProofs` |
| `SessionReadiness` | abstract: a session may execute only after a probe of it, while it is current | |
| `SocketScheduler` | the unified scheduler and the tunnel's queue | `SocketSchedulerProofs` |
| `RequestDelivery` | abstract: accepted before executed, executed once while remembered | |
| `SocketWorker` | the poll chain, its generations and the watchdog | `SocketSchedulerProofs` |
| `SocketBroker` | the broker's tunnel routes and core commands, with their sockets and timers | `SocketBrokerProofs` |
| `MotionBroker` | the broker's motion feed: schema, leases, rate timers and lanes | `MotionBrokerProofs` |
| `MotionRenewal` | the motion feed with a history of the lease a parked sample was queued under | |
| `WriteAdmission` | the bounded queue of console writes | `WriteAdmissionProofs` |
| `Transactions` | the orchestrator's transactions on a disk: apply, journal, fail, crash, roll back | `TransactionsProofs` |
| `PluginHost` | one safe plugin's worker thread and its callers | `PluginHostProofs` |
| `ServerLifecycle` | start, stop and update of the server process | `ServerLifecycleProofs` |
| `NativeClient` | the loopback client inside the game process: game thread, worker, connection | `SocketBrokerProofs` |
| `LossyChannel` | abstract: an ordered channel of numbered lines that may lose some | |
| `MC*` | instances of the above for TLC | |

### ConnectionReadiness

`entries[u][g]` is `tracker.byUuid[u].generations[g]`, `currentGeneration[u]` the
bucket's field. `Sync` takes a set of listed players with a record each and follows
`M.sync`: other generations are disconnected, paths are taken, preserved or cleared, and
players that are not listed lose their current generation. The intermediate state
`disconnecting` never outlives a call and is left out. `proven` is a history variable:
the paths a successful probe saw, forgotten when the entry's paths change. The tracker
implements `SessionReadiness` under the mapping `CurrentSessions`, `ExecutableSessions`.

### SocketScheduler

`queue[t][c]` are the four lane FIFOs, `queuedCount` and `queuedBytes` the counters kept
beside them, `active`/`activeKey` and `completed`/`completedKey`/`order` the tables.
The runtime is single threaded, so a callback is one step. `ExecuteOne` is
`execute_one`: it picks the first runnable slot at or after the cursor, and a direct
command is executed or expired, while a tunnel request may be requeued (deferred for
readiness), expired, rejected or dispatched. What the dispatched command does is a
nondeterministic outcome. `Finish` is the common end of `send_terminal`: the request
leaves the active tables, the result is remembered and the oldest results are forgotten
down to the retention; forgetting more stands for the byte budget of the cache.
`live` is the set of sessions the tracker calls current (see `SessionReadiness`). A
remembered result is "completed" for the statuses `completed` and `failed` alike: nothing
in the scheduler tells them apart.
`FailClosed`, `ChainLost` and `Restart` are what a pump error, a lost link and the
watchdog do to the scheduler. `ran` is a history variable: how often an id was
dispatched since it was last forgotten.

Left out: ids longer than 128 bytes, answers (acks, replays and unrecorded tunnel
rejections change no state), ingress cost, telemetry and the reflective work of the
dispatched command. `Interval` is 0 in the runs: one clock unit is far longer than a
dispatch interval, so the estimated wait never decides admission there.

### SocketWorker

A link of a chain is a delayed callback: `delayed[c][f]` counts the links of chain `c`
that have `f` frames left and `queued[c]` those waiting in the EngineTick queue. A
chain is the watchdog or one generation of the poll worker. `LinkLost`, refused
registrations, `Hitch` (a frame longer than the stale limit) and `PollFailed` are
disturbances, bounded by `MaxDisturbances`. `polls` is a history variable. The named
assumption says what the constants of the code give: a poll asks for 25 to 100 ms, less
than the stale limit and less than the watchdog's interval of a second or more
(`runtime.lua:3063-3068`, `29993-30029`).

### SocketBroker

A socket is `closed` (not in `#clients`), `open`, or `destroyed`: no longer writable,
still in the tables until its close or error event runs `RemoveClient`.
`order` is the insertion order of `#bmfClients`; the first writable native gets each
request. `routes[id]` is the entry of `#pendingTunnelRoutes`, `timers[id]` the armed
route timers with the two sockets each captured, `command`, `target` and `armed` the
same for `#pendingCommands`. A request the broker refuses changes no table and is no
step. The natives are an arbitrary environment: they may answer any id at any time, and
two of them overlap during a reconnect. `owed` is a history variable: which requests
were forwarded for a plugin, and to whom, without a terminal having been written back.

### MotionBroker

`client[c]` holds the fields of a companion's `ClientState`: attached, lease and player,
rate, last forward, the armed rate timer and the lane's latest sample and backpressure
flag. A sample is its number, player and generation. A write may leave the socket in
need of a drain; `Drain` and `TimerFires` both end in `flushMotionLane`. `forwarded`
(the last sample written to a companion since it connected) is a history variable.
`MotionRenewal` adds another, `leaked`: the companions whose parked sample was queued
under a lease that has lapsed since and been renewed. The question it answers is apart
from `ForwardsScoped`, which looks at the lease of the moment as the code does.

### WriteAdmission

`queue`, `active` and `scheduled` are the private fields of `BoundedAdmissionQueue`.
`Microtask` is the queued microtask up to the `await` of the write, so that an expired
job is rejected and the queue looked at again in the same step; `Finish` is the rest of
`#run`. `late` says which queued jobs are past their deadline. Jobs are submitted again
after they settle, so the load never ends.

### Transactions

`disk` is a function from paths to nodes, `backup[t]` the copy of target `t`,
`entries` the rollback list in memory and `journal` the one in the file. A step is
`BackUp`, `Replace`, `Log` (or `Ensure`, `Verify`, then `Log`), so that an exception
(`Fail`) or a kill (`Crash`) may come between any two, and leaves a target that was
being replaced in any half-done state. `BeginRollback`, `UndoStep`, `UndoHalts` and
`UndoDone` undo the journal's entries in reverse order; a rollback may stop half way and
be run again. `before` is a history variable, the disk the transaction found.

### PluginHost

What the host does between two awaits is one action. `op[c]` says where the load or
unload of caller `c` waits, and for which worker; `current` is `#worker`. A thread that
has ended is `gone` until its exit event is handled. `listeners` counts the
registrations of the event passthrough. The port of a thread is first in, first out, and a
thread without an instance answers a stop at once (`worker.ts:568-575`): a stop that was
posted before the load's last message ("stopFirst") is answered before that message is
(`InTurn`). A plugin with `emitConfig` awaits a file between the test for a worker and its
creation, one without does not. What a plugin asks of the host is left out.

### ServerLifecycle

`started`, `starting` and `stopping` are Omegga's flags. `stopper` says where the one
`stop()` that runs stands, `launch[s]` where each `start()` in flight does, `update`
where the update procedure does; `child` is `#child`, `heard` the processes whose
listeners are attached. The game may log its exit (`ShutsDown`), end (`Dies`) and have
its exit event handled (`Closed`) in three steps with anything between them.
`cleanup()` detaches whatever the current child is, as in the code. `overlapped` is a
history variable: a start met a server, a start or a stop, or a stop met a start.
The terminal's start and the restart of a stopped server are `StartCommand`: they test
the same flags. What a caller does after its `stop()` (`process.exit` in the terminal's
stop and in the handler of uncaught exceptions) is left out.

### NativeClient

`game` is what the thread that runs Lua does: it runs, waits in `join`, has unloaded the
module, or was terminated. `worker` is the place `worker_loop` has reached, between two
tests of `running_` or two uses of a lock. `outbound` and `inbound` are the queues,
`batch` the lines `drain_outbound` has swapped out, `wire` and `inwire` what the kernel
holds each way. A line is its number, so a channel that neither repeats nor reorders
hands out growing numbers: `LossyChannel`, once for each direction, with `heard` and
`handed` as the lines taken. A connection that breaks is `broken` before the worker
notices: its next sends may still succeed (`Swallowed`), which loses those lines.
`recv` is taken line by line; parts of lines and the hello are left out. Lua has a binding
for `stop()` and never calls it, so `StopRuntime` is the unloading of the module.

## 3. Runs

| Run | Question | Bounds and why they are enough |
| --- | --- | --- |
| `readiness_tracker` | trust, paths, current generation, repair windows, refinement | one player (the tracker never relates two), two generations, two paths and names, a window of two ticks |
| `socket_scheduler` | budgets, tables, at-most-once, final and honest answers, refinement; every accepted request is answered | two ids shared by both transports, six envelopes (one malformed and conflicting, two sharing a key), retention 1 and 2 so eviction happens; a cooldown of two ticks, the built-in one, so that tunnel slots come round while it runs, and deferrals of three; deadlines on both sides of the end of the clock, so that requests expire and the interactive load of both transports goes on for ever; one pump loss |
| `socket_worker` | one link per chain, one poll per frame, restarts are paid for; the socket is polled again after any disturbance, unless the watchdog chain is lost or the pump has thrown (for which the document asks a restart of the process) | four disturbances; generations are bounded by `RestartsPaid`, below `MaxGeneration` |
| `socket_broker` | tables and timers agree, one terminal per forwarded request, everything settles | two plugins, two overlapping natives, three ids for two routes, so that a table fills up and ids are reused; one call of `execCommand` |
| `motion_feed` | leases and lanes are current; nothing is forwarded without a lease, out of its generation or out of order; no lost wakeup | one companion (the broker never relates two), two players, generations and natives, four samples, so that one can be parked, one overtake it and one follow |
| `motion_renewal` | a renewed lease gets no sample queued under the lapsed one: violated | one companion, two samples |
| `write_admission` | one writer, no lost wakeup, budgets, everybody served | three reserved jobs for a depth of two, two regular ones over the byte limit, all resubmitted for ever |
| `transactions` | the journal covers the disk, backups keep originals, a completed rollback restores | the plan of `update-stack` with a step of each kind and targets inside one another, three disks to begin with, any number of failed and repeated rollbacks |
| `update_unverified` | an update stages nothing over a failed verification: violated | the same plan, its verification blocked |
| `plugin_host` | one thread per plugin, events once, every unload ends | three callers, three threads: a crashed load may keep a caller for good, and the other two replace the thread it lost, twice |
| `server_lifecycle` | truthful flags, no lost server, every stop completes | two starts in flight, one update, three processes: an old one, its replacement and one started beside it |
| `native_client` | ordered channels both ways, losses only where the code or a break makes them, nothing waits for ever | four lines from Lua, so that a batch of three can break in the middle with one queued behind it; three from the broker for an inbound queue of two; two breaks or refusals, one line of kernel buffer each way, so that a send blocks |

### Fairness

`SocketScheduler!FairSpec` runs the pump while it is up (each tick schedules the next),
the watchdog while it is down, and lets time pass. It says nothing of arrivals,
snapshots or which outcome a dispatch has. `SocketWorker!FairWorkerSpec` lets frames pass and
every link that is due run: UE4SS calls the EngineTick queue in each frame.
`SocketBroker!FairSpec` fires every armed timer and delivers the close event of every
destroyed socket, which Node does; it asks nothing of plugins and natives.
`MotionBroker!FairSpec` also lets time pass and drains the socket of a companion that
stays connected; one that stops reading is the case `ParkedLeaves` leaves out.
`WriteAdmission!FairSpec` runs queued microtasks and lets the running write end: the
writer in `server.ts` gives up after its own timeouts. Regular writes are promised
service only when reserved ones pause: the code always prefers a reserved one.
`PluginHost!FairSpec` fires the five-second timer of an unload, resumes a wait for
`terminate()` and delivers the exit event of a thread that has ended; it asks nothing of
the plugin. `ServerLifecycle!FairSpec` lets the unloading of plugins end (which
`PluginHost` shows of one plugin), fires the ten-second timer, has a process killed once
its stop armed the five-second timer, and delivers exit events. Starts, commands and the
game itself are under no fairness.
`NativeClient!FairClientSpec` runs the worker, has the broker read what it was sent (Node reads an
attached socket as data comes) and lets `join` return once the thread has ended; breaks
end because they are bounded. It asks nothing of Lua.

### What the violations show

* `update_unverified`: apply passes over a step that is not ready
  (`transactions.js:115`), a blocked verification too, and stages the steps after it.
* `motion_renewal`: `motion.subscribe` (`bmfSocketBridge.ts:745-750`) clears the lane only
  when the player changes and never looks at the old expiry. A sample that waits for a
  drain event when its lease lapses is forwarded under the lease that replaces it, which
  `bmfSocketBridge.test.ts:557` ("expires leases without leaking a queued sample into a
  renewal") excludes by its name. The test sends its sample after the lease is over, when the
  next look at the lease clears the client.

### Seen while modelling, without a run of their own

* Starts and stops of the server overlap. A stop during a start does not end the start:
  the process is spawned after the stop has reported (`omegga/server.ts:3410`). A stop
  returns on the `LogExit` line while the process still runs; if an update spawns the
  next process before the old one's exit event, `exitListener`
  (`brickadia/server.ts:1905`) calls `cleanup()` without comparing the child, which
  detaches the new process and forgets it, so no stop reaches it. These are the
  behaviours that `overlapped` marks; `OneServer` and the second part of `StopCompletes`
  hold without them only, `FlagsTruthful` and the first part with them too.
* A `start()` that throws leaves `starting` true: the web's start, stop and restart
  refuse from then on, and only the terminal's kill and stop reset it.
* A console write while there is no child resolves as if it had been written
  (`brickadia/server.ts:1777`).
* A forced watchdog restart keeps the tunnel-ready flag of the chain it replaces and
  advertises the tunnel before the new chain has run (`runtime.lua:30338`; cf.
  `docs/architecture/game-command-tunnel.md:137-140`). The watchdog registers a new chain
  after a pump error (`30442`), which the same document excludes (140-143): the model has the
  restart, as the code does, and `Recovers` promises nothing once the pump has thrown. The
  managed launch turns the watchdog off.
* `update-stack` writes its component snapshot into the runtime directory and then
  replaces the mod directory around it (`transactions.js:498-505`, `619-625`), so the
  record of the update is lost.
* Two loads of a plugin with `emitConfig` both find no worker and make two threads. A
  load whose worker crashes while it is awaited never settles, and the start of Omegga
  that reloads the plugins hangs on it. `calculateLoadOrder` throws on an optional
  dependency that is missing, and its sort by priority may undo the dependency order.
  A failing `store.get`, or `emitPlugin` to a plugin that is not there, never answers.
* With the built-in dispatch interval (50 ms, two ticks of 25 ms) a tunnel request can
  starve: the cursor moves past every slot it serves and a tunnel slot is passed over while
  the cooldown runs (`runtime.lua:28112-28120`). Under steady interactive load on both
  transports the cursor comes to the tunnel's bulk slot on cooldown ticks only, and under
  steady bulk load on both to its interactive slots only then. A request that is passed over
  is not looked at, so its deadline does not end it either; a pump error, which answers
  everything, or a snapshot that clears the cooldown does.
  `docs/architecture/game-command-tunnel.md:183-184` says that interactive traffic has
  reserved capacity and that the fairness burst prevents bulk starvation.
  `Answered` states the case as its exception (`Crowded`): TLC violates the property in
  `socket_scheduler` when the exception is taken out. The managed launch sets an interval of
  one tick, where it does not happen.
* An unload waits up to five seconds with the worker it took at the start. If that worker
  dies and the plugin is loaded again meanwhile, the end of the old unload
  (`plugin_node_safe.ts:473-474`) removes the event listener and the commands of the worker
  that replaced it. An event handler that awaited (`517-529`) answers whatever worker is
  current then, under the number of the request alone.
* The OmeggaBridge checks deadlines in whole seconds: a command may run up to a second
  after the host has reported its time-out.
* In the native socket client a failed send drops the lines behind it in the batch without
  a trace (`bmf_socket.cpp:23821-23829`): results that the scheduler has committed reach
  nobody until the caller asks again. A worker that fails `WSAStartup` leaves its thread
  joinable; a later start assigns to it, which terminates the process (`StartTerminates`),
  and so does the end of the process, since `stop()` returns early (`StopRuntime`).

## 4. Proofs

`ConnectionReadinessProofs` proves, for any players, generations, paths, names and
window, that the tracker keeps `TypeOK`, `LiveIsCurrent`, `PathsMatchState` and
`TrustIsProven`. The inductive invariant `IInv` adds to the type invariant and
`LiveIsCurrent` that every entry is `EntryGood`: its paths match its state, trust implies
paths and a proof of those paths. `TrustIsProven` alone is not inductive: a blank
snapshot preserves paths because they are *validated*, so the induction needs that a
validated entry has paths, and that an entry with paths is live. The argument goes entry
by entry: lemmas say what each operation does to one entry, and one lemma lifts an
entry step to the tables.

The assumptions are the named ones of the module: generations are positive, and the
blank path, the invalid path and the blank name are not ordinary values.

Two results are about steps. `RepairWindowHeld` follows from what each operation does to
one entry's window, with no invariant but the types. The refinement,
`ImplementsSessionReadiness`, maps a step to a change of the abstract sessions, to a proof
of one of them, or to a stutter: only `note_check` makes an entry callable, and it proves
a session that is current; all else can only take sessions away or add unproven ones,
which is where `LiveIsCurrent` is needed.

`SocketSchedulerProofs` proves everything the runs check of the scheduler but liveness:
`TypeOK`, `Bounded`, `OneHome`, `CachesCoherent`, `AtMostOnce`, `HonestResults`,
`AnswersStand` and the refinement of `RequestDelivery`, for any ids, keys, sessions,
envelopes, limits, retention and delays. None of the safety properties is inductive
alone. That an id which is admitted has not run rests on `ran` being zero for what is
neither active nor remembered; that a key table points to the right request rests on
`OneHome`; that the counters stay within the budgets on their being equal to what is
queued. So the invariant `IInv` is their conjunction, with the types, split into the
queue's part and the caches' part (`CacheInv`). The argument has three layers. Lemmas on
data say what a lane's bytes become when a request is appended, taken or put back, and
what the retained order is after a batch. Lemmas on operators (`Enqueued`, `Answering`,
`Requeued`, `FailedClosed`, `FinishKeepsCaches`) say what these do to the invariant. Then
`StepInv` shows that each action is one of four kinds (quiet, one request admitted, one
answered, all answered) and keeps `IInv`; `AnswersStand` and the refinement look at the
four kinds only. Two constants are restricted: a retention of at least one, which the code
enforces, and envelopes of direct commands without key and session.

Bytes in a lane and unseen ids are sums: recursive functions on the interval up to a
length. What they compute is shown by `Induction`, a lemma for intervals derived from the
well-foundedness of the strict subsets of a finite set, because the library's induction
takes an operator that the provers cannot instantiate.

The same module proves `OneLink`, `OnePollPerFrame` and `RestartsPaid` of the worker for
any frame counts, stale limit, number of disturbances and generations. The invariant
(`WorkerInv`) says that some function `left` gives the place of the one link of each
chain: frames to go, in the queue, or gone. `OnePollPerFrame` needs that a chain which has
polled in this frame has its link in a later one; `RestartsPaid` is a potential argument: `Need(left)` bounds
the restarts until the next poll, is zero while the poll will come before the heartbeat is
stale or before the watchdog looks, and grows by at most `DelayedAfter` in a disturbance,
which `Budget` pays for. That the new chain's first poll comes before the next check is
the assumption on the watchdog's interval.

`MotionBrokerProofs` proves `TypeOK`, `LaneIsCurrent`, `NoLostWakeup` and
`ForwardsScoped` for any companions, players, generations, leases and rates.
`NoLostWakeup` is not inductive by itself: a flush by the rate timer that finds the lane
backpressured arms no timer, so the invariant has to say that not only a parked
sample but also a backpressured lane always has a timer, a drain event or its socket's
removal pending; `ForwardsScoped` needs that sample numbers grow and that a parked one is newer than
the last one written. The argument goes client by client: lemmas say what each operation
does to one client record.

`WriteAdmissionProofs` proves `TypeOK`, `OneWriter`, `NoLostWakeup` and `WithinBudgets`
for any jobs, sizes and limits. The first three are inductive together: that a microtask
starts a job only when none runs is what `NoLostWakeup` says of `scheduled`. The budgets
are inductive on top of them: `Held` counts the queue and the running write, an enqueue adds
a job that fits, and the microtask moves one from the queue to the running place. The sums
are recursive functions on an interval, with the same `Induction` as above.

`SocketBrokerProofs` proves `TypeOK`, `TablesAgree`, `OwedIsRouted` and `Bounded` for
any plugins, natives, ids, calls and limits. The strengthening says that a plugin that
is gone is owed nothing: without it a plugin that connects again could start with a debt
that no route carries. Its lemmas say what dropping routes, settling calls and answering
do, once for every operation that does them. `Bounded` rests on a second invariant, that
the tables are finite, and on what a step may add.

The same module proves `TypeOK` (`ClientTypeOK`), `LossIsAccounted` and the refinement of
`LossyChannel` in both directions for the native client, for any number of lines, limits
and breaks. The invariant says that the lines of a direction rise through all the queues
they cross, from the last one taken to the last one offered; a requeued line goes in
front of lines that were queued later, which keeps the order. `LossIsAccounted`
needs `ThreadInv`, which ties the worker's place to the connection: a worker that closes a
connection has seen it broken or has been told to stop, and a connection that is not up holds
no line for the broker while the client runs.

`TransactionsProofs` proves `TypeOK`, `JournalCovers`, `BackupsKeepOriginals` and
`RollbackRestores` for every plan, disk and directory layout. The assumptions are that no
two steps of a plan replace the same target (each builder names paths of its own), that
directories form trees, and that what exists lies in directories that exist.
The strengthening says that the backups of the listed steps are whole trees, that each
keeps the original of every path no earlier step covers, and, during a rollback, that
every path not covered by a step still to be undone is as it was.

`PluginHostProofs` proves `TypeOK`, `OneThread` and `EventsOnce` for any callers
and threads. The invariant is that of a plugin without `emitConfig`: nobody
waits for a file, who waits waits for a thread that was made, one load at most waits for
the answers of a worker, and a worker hears nothing before its load has got that far.

`ServerLifecycleProofs` proves `TypeOK`, `FlagsTruthful` and `OneServer` for any number
of processes and of starts in flight. `FlagsTruthful` is inductive: only `Closed` takes
a listener away, and it either begins a stop or meets one. `OneServer` needs that,
without overlap, a start in flight is alone: no other start, no process around, and the
bridge it waits for is the one that is up.

Every safety invariant, action property and refinement that a passing run checks is
proved. Only model-checked are the eight liveness properties (`Answered`, `Recovers`,
`ParkedLeaves`, `EverySettles`, `Served`, `UnloadEnds`, `StopCompletes`, `NothingHangs`):
they rest on fairness, and `ENABLED` is out of the prover's reach. The two runs that expect a
violation are counterexamples and have nothing to prove.

A module of proofs covers two components where they are the two sides of one thing (the
scheduler and the worker that pumps it; the two ends of the broker's socket). That is why
the worker's and the client's definitions have names of their own (`WorkerInit`,
`ClientNext`).

## 5. Not modelled

Each component left out is listed in `PROJECT.json` with its reason. The other native
modules depend on a game binary that is not in the repository; manifests, permissions, metrics
and status parsing are pure functions; user interfaces keep no protocol state. Most of
the implementation's lines are of these kinds: metric and status formatting, database
handlers, views, reflection over engine objects.

In the components that are modelled: two orchestrator processes on one journal (nothing
locks it) and the parent directories `mkdir -p` leaves behind; JSON-RPC plugins, the
load order, plugin storage, what plugins ask of the host and of each other; loading a world in place, and
what ends Omegga itself after a stop.

## 6. Plan

Done: readiness, scheduler, worker, both halves of the socket broker, write admission,
orchestrator transactions, the plugin host, the server's lifecycle, the native client.

1. Broker, native client and tunnel composed: `SocketBroker`'s routes with the scheduler
   behind them at the level of `RequestDelivery` and `LossyChannel` between them, so
   that what a plugin is told can be compared with what was executed (duplicates
   answered as rejected, outcome-unknown terminals, lost lines).
2. The UE4SS file bridge behind the write queue and the lifecycle.
3. The pid files of the service actions; Lua timers and event bus; join correlation; the
   plugins' load order.
4. Proofs: that a plugin is never told of a success that was not executed, once 1 is
   modelled, from the refinements of `RequestDelivery` and `LossyChannel` alone.

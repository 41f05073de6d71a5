# A TLA+ model of the VLESS Card VPN client

The repository is an Android VPN client (Kotlin, `app/src/main/java/com/vlesscardvpn`)
around three native engines: Xray-core (AAR), the hev TUN-to-SOCKS engine and the
ByeDPI / zapret anti-DPI child processes. The modules cover the concurrent parts of the
Kotlin code and the two C engines that every connection of the phone goes through: the TUN
engine (`native/hev-socks5-tunnel`) and ByeDPI (`native/byedpi`). To the Kotlin modules an
engine is something that starts, fails to start or dies; the modules of the engines see the
app as a caller of start and stop.

## 1. Inventory

| Part | State it keeps | Operations | What is hard about it |
|---|---|---|---|
| `vpn/TunnelService.kt` | `tun`, `core`, `dpi`, one `Job` variable per background loop, `pauseJob`, `handoff`, `networkSignal`, the heal counters, `Tunnel.status/socks/pausedUntil` | commands START, STOP, PAUSE, revoke, destroy; `connect`, `teardown`, `pause`, `verifySoon`, `heal`, `hardRestart`, `rescueLater`, `scheduleOptimize`, `watchdog`, `standbyScout`, `queueNetworkRefresh` | ten coroutines on `Dispatchers.IO` share unsynchronised fields; only `connect`, `pause` and `teardown` are under a fair mutex; most loops end by queueing another `connect`; cancellation is the only way a loop is stopped |
| `core/NetworkHandoff.kt` | current snapshot, revision | `seed`, `update`, `valid`, `reset` | tickets of an old network must not act on the new one |
| `core/ProbeRace.kt`, `CancellableProbe.kt`, `ProbeTasks.kt` | jobs, permits, success counter | bounded race of probes with early stop | cancellation against results that are already there |
| `core/Dpi.kt` (`DpiProxy`, `DpiSet`) | child process, port, last start arguments, watch job | `start`, `reviveIfDead`, `watch`, `close` | crash of a child, revival on the same port, `close` racing a revival |
| `core/Actions.kt` | the running job, progress, auto-connect ticket, subscriptions | tests, mask search, `autoConnect`, `autoRescue`, `optimize`, `quickRecheck` | a cancelled job still reports, late results of an old network |
| `core/Store.kt`, `LocalSecrets.kt` | the app state, the debounced save job, encrypted file, key | `init`, `update`, `save`, `wipe`, migration | process death between an update and its save, migration of the old file |
| `core/Updater.kt`, `UpdatePolicy.kt` | release state, `ready` / digest, prefetch job | `check`, `prefetch`, `download`, `install` | two downloads of two versions, a file replaced between check and install |
| `core/Cloud*.kt` | manifest generations, trust | fetch, verify, merge | stale or partial cloud data |
| `core/PhonePower.kt`, `PowerPolicy.kt`, `AppWatch.kt`, `Brain.kt` | power state, statistics | policies | hysteresis, bounded memory |
| `tor/*` | exit history, blacklist, cadence | `record`, `pick`, `shouldRotate`, `tick` | TTL, thresholds, control port errors |
| `core/AutoEligibility.kt`, `ServerChoice.kt`, `AutoSelection.kt`, `SpeedBalance.kt`, `PublicCloudQueue.kt` | none (pure) | ordering, filtering, weights | ties, empty pools, freshness limits |
| `xray/*`, `model/*` | none (pure) | config building, link parsing | text formats |
| `ui/*` | screen state | Compose screens | presentation |
| `desktop/*` | session, selection | Windows preview | child process life cycle |
| `native/hev-socks5-tunnel/src` | the worker thread, `tsync`, the task of every session, `session_set`, the event socket; per TCP session the lwIP connection, `queue`, the ring buffer and two results | `start`, `stop`; accept, receive, sent and error callbacks of lwIP; connect, handshake, splice, drain | the JNI thread against the worker through one atomic word; coroutines that wait, time out and are terminated; lwIP frees connections on its own and sends from memory that the session reuses |
| `native/byedpi` | the event pool, pairs of slots, saved first requests, timers, the cache of addresses | accept, request, connect, tunnel, datagrams, reconnect | callbacks that delete or replace slots while events for them are still in the batch; first bytes that are sent again; a cache all connections write |
| `native/tpws`, lwIP, YAML, task system | - | vendored | only what the two engines above use of lwIP and of the task system |

How they interact. The UI, the tile, the widget and the boot receiver send intents to
`TunnelService`; its coroutines read `Store.state`, call `Actions` (tests, searches) and
`AppWatch`, and end by asking for `lock` to `connect()`. `connect()` starts a `DpiSet`,
then an Xray core that dials through it, then the TUN engine that forwards to the core's
SOCKS port. Android calls back with networks, which go through `NetworkHandoff`. `Actions`
runs one job at a time, whose tests use `ProbeRace` and `DpiSet`s of their own, and writes
results with `Store.update`. A packet of an app on the phone is read from the TUN by hev, becomes a connection
in lwIP and a session that speaks SOCKS5 to Xray; Xray dials the server through the SOCKS
port of ByeDPI when the strategy asks for it.

What makes each part correct:

* service: TUN and core agree about the port; what is shown as off is off; a connect that
  is cancelled half way is repaired; the lock is always released; a change of network
  reaches the core in the end; a pause lasts; a destroyed service starts nothing.
* handoff: a ticket of an old network is never acted on.
* race: no more probes succeed than permits allow beyond the goal; a cancelled probe never
  becomes a bad verdict about a server; every candidate is reported once or has a reason
  not to be; the race ends.
* engines: one child per engine, on the port Xray was told; nothing outlives its set; a
  crash is noticed.
* TUN engine: start and stop in any order neither abort nor hang; a stop ends every session
  and only the run it is meant for; a session relays two byte streams whole and in order, uses
  no connection that lwIP freed, overwrites nothing lwIP may send again, and misses no wakeup.
* ByeDPI: an event reaches only the socket it was reported for; a connection is closed as a
  whole; every server it tries gets the client's bytes from the first on; the client sees the
  answer of one server; what was learned leaves a group to try.
* store: nothing is lost between the old file, the encrypted one and the key; every update
  reaches the file; the panic button erases.

The hazards behind these properties, with their lines, are listed in `PROJECT.json`. The
ones that no property covers and that are not repeated there: the retry of a soft reconnect
closes the TUN (`TunnelService.kt:304`); START between the teardown of a STOP and
`stopSelf()` (112); background jobs that copy the status, change its note and write it back
(601); `heal()` that gives up after six DPI repairs (686); an `AppWatch` job of an earlier
service (`AppWatch.kt:316`); `onDestroy()` that closes a set whose `start()` still adds to it
(`Dpi.kt:283`); `Updater.check()` that replaces the state of a running `install()`
(`Updater.kt:84`).

## 2. Modules

| Module | Code | Uses |
|---|---|---|
| `NetworkHandoff` | `core/NetworkHandoff.kt` | |
| `TunnelService` | `vpn/TunnelService.kt`, the life of `core/AppWatch.kt` | `NetworkHandoff` (INSTANCE) |
| `ProbeRace` | `core/ProbeRace.kt` | |
| `Dpi` | `DpiProxy`, `DpiSet` of `core/Dpi.kt` | |
| `HevTunnel` | `hev-jni.c`, `hev-main.c`, `hev-socks5-tunnel.c`, `hev-socks5-session.c`, the yielder and timeouts of `core/`, tasks of hev-task-system | |
| `Relay` | what a relayed TCP session promises (abstract) | |
| `HevSession` | `hev-socks5-session-tcp.c`, `hev-ring-buffer.c`, what lwIP's `tcp*.c` do to a connection | `Relay` (INSTANCE, refinement) |
| `ByeDpi` | `conev.c`, `extend.c`, `proxy.c`, the result of `desync.c` | |
| `Store` | `core/Store.kt`, the state file of `core/LocalSecrets.kt`, what `Actions.kt` does to them | |
| `MC...` | instances for TLC | |
| `...Proofs` | theorems about the module of that name | TLAPS |

Operators after a comment "Mutant" are wrong versions of the next one that a
property must catch; they are used by nothing else.

### TunnelService

One instance of the service from `onCreate` to `onDestroy`. A step is what one thread does
between two suspension points, since cancellation is noticed nowhere else.

* `lock` is `queue` (waiting coroutines, in order: `kotlinx` mutexes are fair) and `holder`.
  A task is a kind of coroutine and whether it is still alive; cancelling marks it, and it is
  dropped when its turn comes (`DropCancelled`) or notices at its next suspension point
  (`AbortConnect`).
* `connect()` is `BeginConnect`, `InitDone`, `PinDone`, `DpiDone`, `CoreStarted`,
  `TunStarted`, `Publish`, with `RetryConnect` and `GiveUp` for the catch block. The last
  three do not suspend; they are separate because the teardown of `onDestroy()`, which does
  not wait for the lock longer than 1.5 s, can fall between them (`DestroyForced`).
* `teardown(error, keepTun)` is `TeardownEngines` and, with an error, `TeardownFinal`.
* `StartCommand` ... `Revoke` are the intents, `RunStop` and `RunPause` what they do once
  they have the lock, `PauseOver` the timer.
* `running` holds the jobs that are active outside the lock: healing, optimizer, rescue, the
  network job before and after its recheck, the pause timer. `monitors` stands for the check
  loops: on, off, or "late", cancelled inside a blocking call such as `Actions.online()`
  from which they still act. What a job finds out is not modelled; it may ask for the lock
  or end (`JobConnects`, `JobEnds`, `Launched`, `Heal`, `CheckPassed`).
* `NetworkChanges`, `RefreshSame`, `RefreshChange`, `NetSettled`, `NetRechecked` are the
  callback, its debounced refresh and the network job with its ticket.

### ProbeRace

One coroutine per candidate with its place in `run`, the jobs that were cancelled, the
success counter, what a probe returned and what `onEach` was told. Cancellation is noticed
only where the code suspends, and a probe that has returned reports whatever is cancelled.

### Dpi

One `DpiSet`. `pc`, `eng`, `arg` and `child` are the frame of `DpiProxy.start` in its two
callers, `DpiSet.start` (which is at engine `at`) and the watch loop (which has `todo` left
of its round). `process`, `xray` and `port` are the fields of the proxies, `alive` the
children the system runs. `Throws` is every exception inside the `try` of `start`;
`StartReturns` and `Revived` are the return through `withContext`, which throws if the
coroutine was cancelled inside it. `close()` cancels the loop and then, per proxy, reads
`process` (`CloseReads`) and clears it (`CloseWrites`), because no lock covers the two.
`snatched` is a history: the children that were assigned between these two steps.

### Store

A state is the number of updates it has seen and its servers, each with its kind of source
(a subscription, or the cloud) and the number of wipes there had been when it came into the
state. `init()` is
`OpenSealed`, `OpenEmpty`, `MigrateWrite` then `MigrateDone`, or `OpenFails`; it is cut where
a process death leaves both files. `update()` is two steps, the change (`UserUpdate`,
`JobStores`, `ImportUpdate`, `RequestStores`, `CloudStores`) and the scheduling under `lock` (`Schedule`); the save job waits
(`DelayOver`), saves (`JobSaves`) and is over a moment later (`JobDone`). `late` counts
threads that will save although their job was cancelled. Servers come from the job of
`Actions` (`JobStarts`, whoever asked for it), unasked from `Actions.init()`, which loads a
default source that has none in a job of its own that neither `busy` nor `cancel()` knows
(`RequestStarts`), and from the cloud (`CloudStores`). `missed` is a history: the state whose
update was left to a save job that had already saved. `enc`, `legacy` and `key` survive `Die`.

### HevTunnel

`call` is the place of the JNI call that holds the pthread mutex; `stop_announce` ...
`stop_leave` are the accesses of `hev_socks5_tunnel_stop` to `tsync` and to the event socket,
one action each, because the worker runs beside them. `worker` is the place of the worker:
configuration, `init`, `run`, scheduler, `fini`. Inside the scheduler the tasks are coroutines
on one thread, so an action is what a task does from one yield to the next, with one
exception: the reader of the TUN (`lwip_io_task_entry`) yields only when the TUN is empty and
handles many packets before that. Each packet is an action, and `reading` keeps the thread for
the reader until `io_idle`; a read that fails (`io_fail`) is repeated at once. `event_read` is
the quit: `run` becomes 0, every session gets timeout 0 and a wakeup, and the tasks of the
reader and of the timer are joined one after the other. A session goes `new`, `connect`,
`handshake`, `splice`, `drain`; it ends by an error, a timeout, a terminate or both ends of
its streams. `WakesStopped` is the `abort()` of the scheduler. `Burst` caps what a session can
do without hearing from its client.

### Relay and HevSession

`HevSession` is one TCP session. `Slice` is one turn of the loop of
`hev_socks5_session_tcp_splice`, with `tcp_splice_f` (client to server) and `tcp_splice_b`
(server to ring to lwIP) as the code has them: results below, at and above zero, the shared
`yield` or `wait`, the drain after it. `ok` says which of the one or two `tcp_write` calls
succeed, and whether the `tcp_output` behind them does: if not, lwIP has the bytes and sends
them later, but the result of `tcp_splice_b` is -1 and it never runs again (`unflushed`). The ring is modelled cell by cell, since `tcp_write` keeps pointers into it: `outq`
are the cells lwIP still holds. The client's side is what lwIP sees of it: data within the
window, acknowledgements of any prefix, FIN, the acknowledgement of ours, a reset. `state` is
the TCP state; `FREED` and `EXPIRED` tell apart a connection lwIP freed with and without a call
of the error handler.

`Relay` is the abstract specification: two streams, each delivered in order without a gap, an
orderly end only behind a whole stream or one that the relay broke off. `RelayOf` maps the
session to it: what both ends sent and received, a reset as the end of a stream, a failed
`tcp_write` as the one way in which the stream to the client is damaged, and a terminate or a
timeout (`timedOut`) as what breaks off the stream to the server. `close()` of a session that
did not call `shutdown()` sends a FIN like any other (`server_sees_end`), or a reset when bytes
of the server are unread (`server_sees_reset`); downwards nothing breaks off, since lwIP resets
what it aborts. `ImplementsRelay` is the refinement.

### ByeDpi

`ev` is the pool: a slot has its callback, the events it waits for, its pair, its pending
buffer, the saved first request (`sq`), group and mask, and its socket. One callback is one
step. The functions of the code nest deeply and each may fail, so an operator with the name of
a function yields the set of its outcomes, and `Loop` takes one of them and deletes the slot of
a callback that failed. `batch` is what `epoll_wait` reported; an entry remembers whether its
socket is still open, which the program does not know: it has `touched` (`mod_iter`). Peers
connect, send, read, end or reset at any time. `stream` and `fed` are histories.

## 3. Runs

Passing runs:

| Run | Instance | Shows |
|---|---|---|
| `probe_race` | 4 candidates, 2 permits, goal 2 | overshoot, verdicts, silence and termination under every cancellation |
| `service_safety` | 2 ports, 2 networks, 2 commands, 1 network event, 1 background reconnect; 760 000 states | `TunFollowsCore`, `IdleIsDown`, `RepairPending`, `DestroyStopsConnect` |
| `service_liveness` | 1 port, 2 networks, 1 command, 2 network events, 1 background reconnect; 540 000 states | `NewNetworkApplied`, `LockReleased` |
| `dpi_set` | 3 engines (one inside the app), 3 ports, 2 crashes; 203 000 states | `OneChild` (and on the announced port), `MembersReachable`, `SkippedIsDown`, `ClosedIsDown`, `CrashNoticed` |
| `store_files` | 2 updates, 1 death, 2 keystore faults, 1 check, 1 load, 1 wipe; 744 000 states | `NothingLost`, `FileIsNotAhead`, `PanicErases`, `EveryUpdateSaved` |
| `hev_tunnel` | 2 sessions, session limit 2, bursts of 1; 186 000 states | `NeverAborts`, `QuitReachesAll`, `OwnQuit`, `EventAnswered` |
| `hev_session` | ring of 3, window 2, socket of 1, 2 bytes up, 4 down; 318 000 states | `SendQueueStable`, `PcbValid`, `UploadKept`, `ImplementsRelay`, `NeverStalls` |
| `byedpi` | 4 slots, 3 groups, clients one after the other, 3 segments up, 1 down, first request below 3; 595 000 states | `PairsLive`, `EventOwned`, `StreamsWhole` |
| `byedpi_cache` | 5 slots, 3 groups, 2 clients at once that send nothing; 79 000 states | `CacheUsable` |

Runs that show a disagreement between the code and what it says of itself (details under
"findings" in `PROJECT.json`):

| Run | Property | What happens |
|---|---|---|
| `service_pause` | `PauseHolds` | a check asks for a reconnect in a coroutine of its own, which waits for the lock and which `pause()` cannot cancel: START, PAUSE behind it, the connection is made and its checks begin, the PAUSE runs, a check that it cancelled in a blocking call launches the coroutine, and it connects during the pause. Longer traces end the same way with the healing, rescue or network job |
| `hev_stop` | `StopReturns` | `stop()` that begins before `init` is over sets SYNC_STOP behind a `run()` that has already looked: nobody ends the engine, and the JNI call never returns |
| `byedpi_assert` | `AssertHolds` | a send fails, the reconnect inside it succeeds and frees the old slot, and `on_tunnel` calls `mod_etype` on it: the assertion aborts the proxy |

Known deviations that the models contain and that have no run of their own. The properties are
worded so that they leave exactly these out.

* Service. The unlocked teardown of `onDestroy()` is overtaken by a `connect()` that starts a
  core afterwards, though docs/android-stability-update.md says the two are serialised
  (`DestroyForced`). A network that goes and returns within the debounce while `connect()`
  reads its profile is no change to `handoff` (`RefreshSame`). The retry of a failed soft
  reconnect closes the TUN (`RetryConnect`).
* Engines of the app. After one failed revival an engine has no process, which
  `reviveIfDead()` takes for an engine inside the app: it answers true and never tries again
  (`LookAt`). A start of an engine of the masks that is cancelled when its child already
  answers leaves the child outside the set (`StartReturns`), so `SkippedIsDown` and
  `ClosedIsDown` speak of starts that were not cancelled. A child assigned between the read
  and the clearing of `process` outlives `close()` (`snatched`).
* Store. During a check, an update that finds a save job which has saved and is not over yet
  schedules nothing, and its state is stored with the next update only; `EveryUpdateSaved`
  names the state of such an update (`missed`). `Actions.kt:1828` says of the panic button
  "stop everything and erase servers", but `wipe()` stops neither a download that is under way
  nor `requestedSourceJob`, and the next `Actions.init()` loads the default sources unasked:
  there may be servers again at once. `PanicErases` therefore says that what was erased stays
  erased, and not that the state stays empty.
* TUN engine. A STOP meant for a worker that failed to start, or was already leaving, ends the
  next run at once (`leftStop`). As long as packets come faster than they are read, or a read
  of the TUN fails for ever, the reader does not yield, no other task runs and `stop()` waits
  (`reading`, `io_fail`). With a session limit of 1 the engine would abort
  (`LimitAssumption`).
* TCP session. `tcp_splice_b` goes on after a failed `tcp_write`, so that the second part of
  a wrapped ring may be queued without the first, although tcp_out.c:379 says the application
  should wait and try again; such a stream never gets an orderly end, and the drain waits for a
  timeout. When both sides have closed, the client's last ACK terminates the session and drops
  what the server's socket did not take yet (`UploadKept`). The end of TIME_WAIT frees the
  connection without a call while a session whose server does not read still holds it
  (`PcbValid`). A reset is passed on as an orderly end. An error of `tcp_output`
  loses nothing, but nobody reads the server any more until the session times out
  (`NeverStalls`). A session that was terminated or timed out closes the server's socket with a
  FIN, behind which bytes of the client may be missing (`Relay`, `broken`).
* ByeDPI. A reconnect that fails after it made the first request pending again leads to a
  second request to the same server ("again"); a short last `send()` of desync loses bytes
  ("lost"); a server that speaks first and then resets is replaced behind the client's back
  ("first"). The timer of a desync wait may be taken for the timeout of an answer
  (`timer_due`). An `accept()` that fails ends the proxy. Two clients at once whose connections
  fail in different ways, with groups that differ in their `--auto` sets, leave a cache entry
  that drops every later client; with uniform sets, as in the app's strategies (`Dpi.kt`), they
  do not. Seen while reading and not modelled: interests that never fire after a blocked send
  (`proxy.c:685`, 723).

Bounds. Every bound is a constant called `Max...` (or `N`, `Parallel`, `StopAfter`) and caps
what the environment does, never what the code does in answer: retries, timers, queued
coroutines and saves are not bounded. The values are the smallest at which the interesting
cases meet: two commands so that a STOP, PAUSE or START meets a connect of an earlier START;
two networks and two changes so that a change overtakes the handling of another; a background
reconnect that waits for the lock while both happen; three engines so that one is current,
one fixed and one inside the app; two crashes so that a revived engine dies again; two
updates so that one falls into or behind the save of another; two sessions at their limit so that
one is terminated by the other; a ring that wraps with more bytes than cells and a socket
smaller than the window, so that every buffer is full at some time; four slots so that a
reconnect needs a fourth one beside a stale one, three groups so that two reconnects follow
each other, and three segments so that the saved request reaches its limit; a fifth slot
so that one of two clients that are both connected can reconnect. Two clients that also send are
beyond TLC here: in `byedpi_cache` connections are refused, reset or ended before any byte. For
safety the proofs remove the bounds; those of `ByeDpi` also cover any number of clients at once,
sending or not. Ports, networks and slots are symmetric in the safety runs: no action tells
them apart. `CHECK_DEADLOCK FALSE` is set where the system may really come to rest: a destroyed
service, a closed set, a store with nothing left to save, a session that has ended, a proxy that
has exited. The TUN engine can always be started or stopped, and its deadlocks are checked.

Fairness. `TunnelService`: the lock is handed to the next waiting coroutine, the suspended
calls of `connect()` return or throw (each has a timeout or is local), the refresh and settle
delays end, the recheck of servers ends (it is bounded by its own timeouts). Nothing is
assumed of the user, of networks, of checks or of background jobs. `ProbeRace`: every
coroutine goes on. `Dpi`: the watch loop goes on and its `start` ends within its 3 s.
`Store`: threads go on and the delay of the save job ends. `HevTunnel`: both threads run, and
a scheduler that has the thread again and again runs every ready task, since the key it sorts by
grows with a task's run time, and lets epoll report the event socket (strong fairness: the reader
may take the thread in between). That the reader of the TUN gives the thread back is no fairness
of the code; it is the premise `ReaderYields` of `EventAnswered` and `StopReturns`. No timeout,
client or server is assumed to help.
`HevSession`: a ready task runs, the server reads, and the client acknowledges what lwIP sends
again and again; no timeout is assumed. `ByeDpi` states no fairness: only safety is checked.

## 4. Proofs

TLAPS proves, for every value of the constants that satisfies the named assumptions, the
invariants and action properties that the runs check on small instances.

* `ProbeRaceProofs`: `TypeCorrect`, `Overshoot`, `TrueNegatives`, `SilenceHasReason`,
  `OneReport`. The goal alone does not bound successes: a probe in flight may still succeed.
  `Budget` therefore counts successes together with probes in flight, and `Permits` bounds
  those by the semaphore; `Reported` and `Reasons` tie a report to the place in the coroutine.
* `TunnelServiceProofs`: `TypeCorrect`, `TunAndCoreAgree`, `OffIsOff`, `RepairIsPending`,
  `DestroyedStartsNothing`. The invariant `IInv` adds: `LockInv` (a coroutine is inside
  exactly when `connect()` has a place), `PortsAgree` (while `connect()` runs, TUN, proxy and
  core know no port but its own, which is what a soft reconnect relies on), `CoreUp`,
  `OffInv` (a running `connect()` shows as up), `Quiet` (a destroyed service has no coroutine
  that can start another) and `Repair`, which counts a cancelled `connect()` as lost from the
  moment it is cancelled and not when it notices.
* `StoreProofs`: `TypeCorrect`, `NoNewerFile`, `OldDataSurvives`, `PanicHolds`. The invariant
  adds:
  `Asleep` (nothing but `init()` runs before the process is up), `Counted` (every job that
  loads, a cancelled one too, is in its busy section, so the counter stays natural), and
  `Twins`, `Copied`, `Moved`: both files are there only as the copies of a migration that is
  not over, and an app that opened its storage has no old file. Without `Twins` the deletion
  of the old file after a restart could lose the newer of two states. `Erased` is what
  `PanicErases` needs: the servers in memory, from where a late save would write them, and those
  in a file are all from after the last wipe, which deletes both files with the memory.
* `DpiProofs`: `TypeCorrect`, `AtMostOneChild`, `SetKnowsItsChildren`,
  `SkippedEnginesAreDown`, `ClosedSetIsDown`. The invariant adds: `Order` (start, watch loop
  and `close()` follow each other), `Launched` (a frame of `DpiProxy.start` is the only one that
  has a child of its engine, and has none before the launch), `Proxies` (a `process` is a child
  of its own engine, and a revival is on the announced port), `Untouched` (nothing runs of an
  engine that `DpiSet.start` has not come to), `Failed` (what a start that threw leaves) and
  `Shutting` (what runs during `close()` is what it will find or has found, a child that the
  watch loop is bringing back and will itself close, or one of `snatched`). `OneChild` alone is not inductive: that no second child is
  launched needs `Launched`. The lemma `FirstIn` (the next engine of a round exists) rests on
  the well-foundedness of `<`.
* `HevTunnelProofs`: `TypeCorrect`, `EngineNeverAborts`, `QuitReachesEverySession`,
  `QuitIsOwn`. The invariant adds: `Handshake` (the values of `tsync` against the places of
  the worker and of `stop()`: who has seen SYNC_SEND finds the event socket open, because
  `fini` waits for SYNC_WAIT to go), `StopOwned` (a SYNC_STOP is that of the call under way or
  the left-over one), `Engine` (the three tasks of the engine end in order, and none before
  `run` is 0) and `Listed` (`session_set` has every session with a living task, once, and no
  other, which is why no wakeup meets a stopped one). `Unlinked` removes from that list; its
  lemmas say what stays.
* `HevSessionProofs`: `TypeCorrect`, `SendQueueIsStable`, `ConnectionValid`,
  `UploadSurvives` and the refinement `RefinesRelay`. The invariant adds: `Connection` (the
  TCP states against `pcb`, `cliSaw` and the end of the server's stream: the send side is shut
  down once, never after a failed `tcp_write`), `Ring` (as long as none failed, the cells that
  lwIP holds are the `use` cells before `rp`, cyclically, and `wp = rp`), `Down` (received and
  queued bytes are increasing, and without a gap unless a `tcp_write` failed), `Up` (what the
  server has, its socket and the session's queue hold are together the client's bytes) and
  `Waiting` (a task that waits has nothing it could move) and `Left` (a session out of its
  loop has shut the server's socket down, was reset by the server, was terminated or timed out). `SendQueueStable` alone is not
  inductive: that a `readv` overwrites no queued cell needs their place, which `Ring` gives.
  The lemmas about a slice (`FilledCells`, `AcceptedCells`, `FreshCells`, `QueuedBytes`) state
  what `readv` and the two `tcp_write` calls do to the ring. For the refinement,
  `NextRelaysUp` and `NextRelaysDown` map every step to a step of its stream or to none;
  `DownArrived` is why a FIN is only acknowledged behind a whole stream.
* `ByeDpiProofs`: `EventsReachTheirSocket`, `ConnectionsAreWhole`. The inductive invariant is
  `Good`: `Owned` (an event still to be given out belongs to the socket in its slot, which is
  in use) and `Wired` (what a callback says of the slots it is paired with: `on_connect` with
  `on_ignore`, two `on_tunnel`, or three slots in a ring; a free slot and one before its request
  point nowhere). `PairsLive` alone is not inductive: that a deletion reaches all of a
  connection, and nothing of another one, needs to know which of the three forms it has. As
  the functions of the code are sets of outcomes, the proof goes along the calls: each operator
  yields only `Good` pools from a `Good` one. Most change nothing that `Good` is about
  (`Same`); the others are a slot that is taken, a connection that is made (`Made`), one that
  replaces another (`Replaced`), two slots that become a tunnel (`Joined`), a ring
  (`RingGood`) and a deletion (`DelGood`). Of the constants it uses `PoolAssumption` only.

* `ByeDpiStreamProofs`: `TypeCorrect`, `StreamsAreWhole`, `CacheStaysUsable`. The invariant
  `SInv` adds `Fine` to `Good`. Of a slot alone (`SlotOK`): its buffer ends at or before what
  was read, a saved request is everything that was read, no stream is wrong, a client that was
  answered has no saved request left. Of the pool (`Pool`): all slots are so, and the cache is
  (`CacheOK`). Of a server and its client (`Linked`): as long as nothing was lost, the server
  has exactly what the client's slot has passed on, which is what was read less what its buffer
  still holds. `UploadWhole` alone is not inductive: that the next send goes on where the
  last one ended is `Linked`, and that a reconnect starts from the first byte is the saved
  request of `SlotOK`. The proof again goes along the calls. `Pool` holds after each of them.
  `Linked` does not: a call that fails may have read bytes that nobody gets any more. It then
  returns -1, the damage is confined to its own pair (`Torn`, `Done`), and `loop_event` deletes
  both (`Settled`, `LoopFine`). For the cache, `GroupOK` and `CacheOK` say that with one `--auto` set
  for all groups after the first (`Uniform`) every mask is a prefix of the list of groups,
  that of the cache a proper one; `FindNext` is what `find_dp` chooses then. The least group
  at or after another (`Least`, `Distance`) rests on the well-foundedness of `<`. Of the constants it
  uses all three assumptions of `ByeDpi`; `Uniform` is a hypothesis of `CacheStaysUsable` only.

Assumptions: `RaceAssumption`, `ServiceAssumption`, `StoreAssumption`, `NoFileAssumption`,
those of `Dpi` and `BoundsAssumption` say that bounds are natural numbers and that "no port",
"no network", "no file" and the like are none of the real ones. `SizesAssumption`: the ring,
the window and the socket buffer are not empty. `LimitAssumption`: the session limit is not
1 (see the deviations above). `PoolAssumption`: the pool of ByeDPI is finite and the null
pointer is no slot. `GroupAssumption`: there is a group, and the first, which stands before
every `--auto` of the command line, has an empty set. `Uniform` holds of every strategy in `Dpi.kt`.

Only model-checked: liveness (`RaceEnds`, `NewNetworkApplied`, `LockReleased`,
`CrashNoticed`, `EveryUpdateSaved`, `EventAnswered`, `NeverStalls`), which the prover does not
handle. `CacheUsable` is proved under `Uniform` only: with groups of different `--auto` sets
it is no fact, since two clients that fail in different ways can rule out all groups between them.

## 5. Plan

1. Self-healing: the ladder of `heal()` (`healStep`, `dpiHeals`, `autoDpiOnly`), the
   counters of `watchdog` and `verifySoon`, split reads and writes of the status notes, and
   the check-then-act on `healJob`; an abstract specification (a dead connection is repaired,
   or the user is told) that it implements.
2. `Actions`: the job and its progress, tickets of `autoConnect`, `autoRescue`, `optimize`
   against a network that changes, results of a cancelled job; composed with `Store`. With
   it `Tester` (pool of permits, pauses, a stopped run) and the rounds of `AppWatch`. These
   are the largest parts of the app that no module covers yet.
3. `Updater`: `check`, `prefetch`, `download`, `install` over one state and one file.
4. Choice of servers: `AutoEligibility`, `ServerChoice`, `AutoSelection`, `SpeedBalance`,
   `PublicCloudQueue` as operators against reference definitions; `PowerPolicy` with its
   hysteresis; `TorRotation` with its blacklist and cadence.
5. Two instances of the service one after the other, with the `AppWatch` of the first.

## 6. Left out

* Xray, zapret (tpws) and Tor: external; they start, fail, answer or die. Of the vendored
  libraries under `native/` only what a session sees of lwIP's TCP and of the task system is
  modelled. lwIP's own protocols, its socket API, PPP and IPv6 parts (mostly not even built),
  the YAML parser and tpws are more than nine tenths of the C code; they are not this
  program's logic, and most of it handles formats.
* In `HevTunnel`: the mutex of the tasks, which no task holds across a yield; statistics; the
  configuration; the mapped DNS. The splice of a UDP session is a
  session that works, waits and ends.
* In `HevSession`: segments, loss and retransmission inside TCP, window scaling; the memory of
  lwIP's pools, whose exhaustion is a `tcp_write` that may fail at any time.
* In `ByeDpi`: failures of `epoll_ctl(MOD)` on a socket the pool watches (`proxy.c:477`) and of
  `getsockname()` on an open socket (`proxy.c:511`), which Linux does not produce; their error
  paths would leave a slot without a pair, on which the next callback would fault. What desync does to packets; filters of groups by host, address or protocol;
  sorting of groups; the expiry of cache entries (the address is then unknown as at the
  start); SOCKS4, HTTP, transparent and shadowsocks modes and delayed connects, which the app
  does not use; the answer timeout, 0 in the app's strategies; several addresses.
* In `TunnelService`: texts, notifications, traffic counters, the notes that background jobs
  copy into the status, cover traffic and the Tor loop. A START after `stopSelf()` and before
  `onDestroy()` is Android's business; the model takes no command then.
* In `Dpi`: the strategies and their evolution; the unlocked `close()` of `onDestroy()`
  against a `start()` that is still adding engines; stale reads of fields that are not
  volatile beyond the split read and write of `close()`.
* In `Store`: the debug build, the flows for the UI, the JSON text, encryption itself (a
  sealed file opens with its key and no other), the cloud token and the phone model.
* Screens, configuration building, link parsing, HTTP and Android calls without a state
  machine of their own; the Windows preview.

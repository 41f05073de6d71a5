---------------------------- MODULE TunnelService ----------------------------
(***************************************************************************)
(* vpn/TunnelService.kt: the life of one instance of the VPN service.      *)
(*                                                                         *)
(* Commands arrive on the main thread; everything else is a coroutine of   *)
(* `scope`, which runs on many threads.  connect(), pause() and teardown() *)
(* run under `lock`, a fair mutex, except for the teardown of an           *)
(* onDestroy() that waited 1.5 s in vain.  A coroutine can be cancelled,   *)
(* and notices it only where it suspends.  A step below is what one thread *)
(* does between two suspension points; the last stretch of connect() has   *)
(* none, and is cut where the unlocked teardown can fall into it.          *)
(*                                                                         *)
(* What a reconnect is started for (checks, watchdog, healing, speed-up)   *)
(* is the business of other modules: here such a coroutine is a job that   *)
(* may end or ask for the lock.                                            *)
(***************************************************************************)
EXTENDS Integers, Sequences

CONSTANTS Ports,         \* local SOCKS ports: randomPort()
          NoPort,        \* null
          Networks,      \* snapshots of physical networks
          NoNet,         \* null
          AutoMode,      \* settings.mode == Mode.AUTO
          ProxyOnly,     \* settings.proxyOnly
          MaxCommands,   \* bound: intents and revocations
          MaxNetEvents,  \* bound: changes of the physical network
          MaxTriggers    \* bound: reconnects asked for by background jobs

ASSUME ServiceAssumption ==
  /\ NoPort \notin Ports
  /\ NoNet \notin Networks
  /\ AutoMode \in BOOLEAN /\ ProxyOnly \in BOOLEAN
  /\ MaxCommands \in Nat /\ MaxNetEvents \in Nat /\ MaxTriggers \in Nat

VARIABLES
  service,       \* alive, stopping (stopSelf was called), destroyed
  status,        \* Tunnel.status.value.state
  paused,        \* Tunnel.pausedUntil.value != 0
  tun,           \* port the TUN engine forwards to, NoPort when tun == null
  socks,         \* Tunnel.socks
  core,          \* port the Xray core listens on, NoPort when core == null
  coreNet,       \* the network core was configured for
  dpi,           \* dpi != null: a set of anti-DPI engines is up
  connectFails,
  running,       \* jobs that are active outside lock.withLock
  queue,         \* lock: the coroutines waiting for it, first come first served
  holder,        \* lock: the coroutine inside
  phase,         \* where connect() is
  keepTun, port, forNet,  \* locals of connect()
  monitors,      \* checkJob, watchJob, scoutJob and the like: on, off, or late
                 \* (cancelled, in a blocking call such as Actions.online())
  appWatch,      \* the job of AppWatch, which teardown() does not cancel
  net,           \* the physical network
  callback,      \* netCallback != null
  refresh,       \* networkRefreshJob is active
  current, revision,      \* handoff
  ticket,        \* change.revision of netJob
  commands, netEvents, triggers

lockVars == <<queue, holder>>
engineVars == <<tun, socks, core, coreNet, dpi>>
connectVars == <<phase, keepTun, port, forNet>>
netVars == <<net, callback, refresh, current, revision, ticket>>
bounds == <<commands, netEvents, triggers>>
vars == <<service, status, paused, engineVars, connectFails, running, lockVars,
          connectVars, monitors, appWatch, netVars, bounds>>

Handoff == INSTANCE NetworkHandoff

\* The coroutines that ask for the lock.  netJob is "net" while it waits for
\* the network to settle and "recheck" while it tests servers before the lock.
Jobs == {"heal", "opt", "rescue", "net", "recheck", "resume"}
NetJob == {"net", "recheck"}
Soft == {"heal", "opt", "rescue", "net", "soft"}
Kinds == Soft \union {"start", "resume", "hard", "stop", "revoke", "pause"}
Tasks == [kind : Kinds \union {"none"}, live : BOOLEAN]
Task(k) == [kind |-> k, live |-> TRUE]
Free == [kind |-> "none", live |-> FALSE]
Up == {"CONNECTING", "CONNECTED"}

Init ==
  /\ service = "alive" /\ status = "IDLE" /\ paused = FALSE
  /\ tun = NoPort /\ socks = NoPort /\ core = NoPort /\ coreNet = NoNet
  /\ dpi = FALSE
  /\ connectFails = 0
  /\ running = {} /\ queue = <<>> /\ holder = Free
  /\ phase = "none" /\ keepTun = FALSE /\ port = NoPort /\ forNet = NoNet
  /\ monitors = "off" /\ appWatch = FALSE
  /\ net \in Networks
  /\ callback = FALSE /\ refresh = FALSE
  /\ current = NoNet /\ revision = 0 /\ ticket = 0
  /\ commands = 0 /\ netEvents = 0 /\ triggers = 0
-----------------------------------------------------------------------------
(* Cancellation: a waiting coroutine leaves the queue (it is marked and      *)
(* dropped when its turn comes), the one inside goes on to its next          *)
(* suspension point.                                                         *)

Unless(task, ks) == IF task.kind \in ks THEN [task EXCEPT !.live = FALSE] ELSE task

Cancelled(ks) == [i \in DOMAIN queue |-> Unless(queue[i], ks)]

\* job.isActive
Active(k) ==
  \/ k \in running
  \/ \E i \in DOMAIN queue : queue[i].kind = k /\ queue[i].live
  \/ holder.kind = k /\ holder.live

-----------------------------------------------------------------------------
(* Commands: onStartCommand and onRevoke.                                    *)

Command(q) ==
  /\ service = "alive"
  /\ commands < MaxCommands
  /\ commands' = commands + 1
  /\ queue' = q
  /\ UNCHANGED <<service, status, engineVars, connectVars, monitors, appWatch,
                 netVars, netEvents, triggers>>

\* Every intent but PAUSE ends a pause.
EndPause == /\ paused' = FALSE
            /\ running' = running \ {"resume"}
            /\ holder' = Unless(holder, {"resume"})

StartCommand ==
  /\ Command(Append(Cancelled({"resume"}), Task("start")))
  /\ EndPause
  /\ connectFails' = 0

StopCommand ==
  /\ Command(Append(Cancelled({"resume"}), Task("stop")))
  /\ EndPause
  /\ UNCHANGED connectFails

PauseCommand ==
  /\ Command(Append(queue, Task("pause")))
  /\ UNCHANGED <<paused, running, holder, connectFails>>

Revoke ==
  /\ Command(Append(queue, Task("revoke")))
  /\ UNCHANGED <<paused, running, holder, connectFails>>
-----------------------------------------------------------------------------
(* teardown(error, keepTun)                                                  *)

\* checkJob?.cancel() and so on.
CancelMonitors == monitors' = IF monitors = "off" THEN "off" ELSE "late"

\* The part that every teardown does.
TeardownEngines(keep) ==
  /\ CancelMonitors
  /\ core' = NoPort /\ coreNet' = NoNet
  /\ dpi' = FALSE
  /\ tun' = IF keep THEN tun ELSE NoPort
  /\ socks' = IF keep THEN socks ELSE NoPort

\* The jobs that only a teardown with an error, or another network, cancels.
FinalJobs == {"heal", "rescue", "opt"} \union NetJob

\* error != null: the jobs go, the network observer goes, the status is set.
TeardownFinal(state, q) ==
  /\ TeardownEngines(FALSE)
  /\ running' = running \ FinalJobs
  /\ queue' = q
  /\ callback' = FALSE /\ refresh' = FALSE
  /\ Handoff!Reset
  /\ status' = state

-----------------------------------------------------------------------------
(* The lock is free: the first waiting coroutine runs.                       *)

First(ks) ==
  /\ holder = Free
  /\ queue # <<>>
  /\ Head(queue).live
  /\ Head(queue).kind \in ks

\* A cancelled coroutine never gets the lock, and netJob leaves it at once if the
\* network changed again.
DropCancelled ==
  /\ holder = Free
  /\ queue # <<>>
  /\ Head(queue).live => Head(queue).kind = "net" /\ ~Handoff!Valid(ticket)
  /\ queue' = Tail(queue)
  /\ UNCHANGED <<service, status, paused, engineVars, connectFails, running, holder,
                 connectVars, monitors, appWatch, netVars, bounds>>

\* lock.withLock { teardown("") }; stopSelf(), or the same with a message.
RunStop ==
  /\ First({"stop", "revoke"})
  /\ TeardownFinal(IF Head(queue).kind = "stop" THEN "IDLE" ELSE "ERROR",
                   Tail(Cancelled(FinalJobs)))
  /\ service' = "stopping"
  /\ UNCHANGED <<paused, connectFails, holder, connectVars, appWatch, net, ticket,
                 bounds>>

\* Mutant of RunPause: the TUN is kept for the resume.
RunPauseKeepsTun ==
  /\ First({"pause"})
  /\ TeardownEngines(TRUE)
  /\ paused' = TRUE
  /\ status' = "IDLE"
  /\ running' = running \union {"resume"}
  /\ queue' = Tail(Cancelled({"resume"}))
  /\ UNCHANGED <<service, connectFails, holder, connectVars, appWatch, netVars, bounds>>

\* pause(): teardown(null), and pauseJob is started anew.
RunPause ==
  /\ First({"pause"})
  /\ TeardownEngines(FALSE)
  /\ paused' = TRUE
  /\ status' = "IDLE"
  /\ running' = running \union {"resume"}
  /\ queue' = Tail(Cancelled({"resume"}))
  /\ UNCHANGED <<service, connectFails, holder, connectVars, appWatch, netVars, bounds>>
-----------------------------------------------------------------------------
(* connect(soft)                                                             *)

\* Mutant of EnterConnect: every connect() draws a port of its own.
EnterConnectFreshPort(task, keep, old) ==
  /\ TeardownEngines(keep)
  /\ holder' = task
  /\ phase' = "init"
  /\ keepTun' = keep
  /\ port' \in Ports
  /\ forNet' = NoNet
  /\ status' = IF keep /\ old = "CONNECTED" THEN old ELSE "CONNECTING"

\* Up to the first suspension: the old engines are torn down; TUN and its
\* local proxy stay if the reconnect is soft.
EnterConnect(task, keep, old) ==
  /\ TeardownEngines(keep)
  /\ holder' = task
  /\ phase' = "init"
  /\ keepTun' = keep
  /\ IF keep THEN port' = socks ELSE port' \in Ports
  /\ forNet' = NoNet
  /\ status' = IF keep /\ old = "CONNECTED" THEN old ELSE "CONNECTING"

BeginConnect ==
  /\ First(Kinds \ {"stop", "revoke", "pause"})
  /\ LET task == Head(queue)
         keep == task.kind \in Soft /\ tun # NoPort /\ socks # NoPort /\ ~ProxyOnly
     IN /\ task.kind = "net" => Handoff!Valid(ticket)
        /\ EnterConnect(task, keep, status)
  /\ queue' = Tail(queue)
  /\ UNCHANGED <<service, paused, connectFails, running, appWatch, netVars, bounds>>

\* watchNetwork(): Android reports the networks that are up to a new callback
\* (which launches nothing in a scope that was cancelled).
WatchNetwork ==
  IF callback THEN UNCHANGED <<callback, refresh, current, revision>>
  ELSE /\ callback' = TRUE
       /\ refresh' = (net # NoNet /\ service # "destroyed")
       /\ Handoff!Seed(net)

\* XrayCore.init is done: the network is watched and its profile is read.
InitDone ==
  /\ phase = "init" /\ holder.live
  /\ WatchNetwork
  /\ forNet' = net
  /\ phase' = "pin"
  /\ UNCHANGED <<service, status, paused, engineVars, connectFails, running, lockVars,
                 keepTun, port, monitors, appWatch, net, ticket, bounds>>

\* pinCertificates is done: DpiSet.start begins.
PinDone ==
  /\ phase = "pin" /\ holder.live
  /\ dpi' = TRUE
  /\ phase' = "dpi"
  /\ UNCHANGED <<service, status, paused, tun, socks, core, coreNet, connectFails,
                 running, lockVars, keepTun, port, forNet, monitors, appWatch,
                 netVars, bounds>>

\* DpiSet.start is done.  A cancellation that hits one of the engines of the
\* masks is swallowed by its runCatching: a cancelled connect goes on too.
DpiDone ==
  /\ phase = "dpi"
  /\ phase' = "core"
  /\ UNCHANGED <<service, status, paused, engineVars, connectFails, running, lockVars,
                 keepTun, port, forNet, monitors, appWatch, netVars, bounds>>

\* The core runs, and its listener is published.
CoreStarted ==
  /\ phase = "core"
  /\ core' = port /\ coreNet' = forNet /\ socks' = port
  /\ phase' = "tun"
  /\ UNCHANGED <<service, status, paused, tun, dpi, connectFails, running, lockVars,
                 keepTun, port, forNet, monitors, appWatch, netVars, bounds>>

\* startTun, unless the TUN is still there or not wanted.
TunStarted ==
  /\ phase = "tun"
  /\ tun' = IF ProxyOnly \/ keepTun THEN tun ELSE port
  /\ phase' = "publish"
  /\ UNCHANGED <<service, status, paused, socks, core, coreNet, dpi, connectFails,
                 running, lockVars, keepTun, port, forNet, monitors, appWatch,
                 netVars, bounds>>

\* verifySoon(0), which starts nothing in a scope that was cancelled.
StartMonitors ==
  monitors' = IF service = "destroyed" THEN monitors ELSE "on"

\* CONNECTED; the checks start; the lock is released
\* and optJob, whose loop this was, goes on.
Publish ==
  /\ phase = "publish"
  /\ status' = "CONNECTED"
  /\ StartMonitors
  /\ WatchNetwork
  /\ holder' = Free
  /\ phase' = "none"
  /\ running' = IF holder = Task("opt") THEN running \union {"opt"} ELSE running
  /\ UNCHANGED <<service, paused, engineVars, connectFails, queue, keepTun, port,
                 forNet, appWatch, net, ticket, bounds>>

\* Mutant of AbortConnect: the lock is not released when connect() throws.
AbortConnectKeepsLock ==
  /\ phase \in {"init", "pin", "dpi"} /\ ~holder.live
  /\ phase' = "none"
  /\ UNCHANGED <<service, status, paused, engineVars, connectFails, running, lockVars,
                 keepTun, port, forNet, monitors, appWatch, netVars, bounds>>

\* The coroutine was cancelled: the exception is rethrown, nothing is undone.
AbortConnect ==
  /\ phase \in {"init", "pin", "dpi"} /\ ~holder.live
  /\ holder' = Free
  /\ phase' = "none"
  /\ UNCHANGED <<service, status, paused, engineVars, connectFails, running, queue,
                 keepTun, port, forNet, monitors, appWatch, netVars, bounds>>

\* Anything but a cancellation: no server, an engine that does not start, the
\* system refusing the TUN.
CanFail == phase \in {"core", "tun"} \/ (phase \in {"init", "pin", "dpi"} /\ holder.live)

\* Mutant of RetryConnect: the limit is one too high.
RetryConnectThrice ==
  /\ CanFail
  /\ AutoMode /\ connectFails <= 2
  /\ connectFails' = connectFails + 1
  /\ EnterConnect(holder, FALSE, "CONNECTING")
  /\ UNCHANGED <<service, paused, running, queue, appWatch, netVars, bounds>>

\* Auto mode tries again with safer settings, from the start and not softly.
RetryConnect ==
  /\ CanFail
  /\ AutoMode /\ connectFails < 2
  /\ connectFails' = connectFails + 1
  /\ EnterConnect(holder, FALSE, "CONNECTING")
  /\ UNCHANGED <<service, paused, running, queue, appWatch, netVars, bounds>>

GiveUp ==
  /\ CanFail
  /\ ~(AutoMode /\ connectFails < 2)
  /\ TeardownFinal("ERROR", Cancelled(FinalJobs))
  /\ service' = IF service = "alive" THEN "stopping" ELSE service
  /\ holder' = Free
  /\ phase' = "none"
  /\ UNCHANGED <<paused, connectFails, keepTun, port, forNet, appWatch, net, ticket,
                 bounds>>
-----------------------------------------------------------------------------
(* onDestroy: the system destroys the service after stopSelf().              *)

\* teardown(null), the callback and the whole scope go; the status stays.
Destroy(h) ==
  /\ service = "stopping"
  /\ service' = "destroyed"
  /\ TeardownEngines(FALSE)
  /\ callback' = FALSE /\ refresh' = FALSE
  /\ running' = {} /\ queue' = <<>>
  /\ holder' = h
  /\ UNCHANGED <<status, paused, connectFails, connectVars, appWatch, net, current,
                 revision, ticket, bounds>>

DestroyLocked == holder = Free /\ Destroy(Free)

\* Mutant of DestroyForced: scope.cancel() is missing.
DestroyForcedKeepsScope == holder # Free /\ Destroy(holder)

\* The lock was not to be had within 1.5 s: teardown without it.
DestroyForced == holder # Free /\ Destroy([holder EXCEPT !.live = FALSE])
-----------------------------------------------------------------------------
(* The pause timer, background jobs and the network.                         *)

PauseOver ==
  /\ "resume" \in running
  /\ running' = running \ {"resume"}
  /\ paused' = FALSE
  /\ queue' = IF paused THEN Append(queue, Task("resume")) ELSE queue
  /\ UNCHANGED <<service, status, engineVars, connectFails, holder, connectVars,
                 monitors, appWatch, netVars, bounds>>

\* The phone is unlocked: one light check, then verifySoon or the watchdog.  Whether
\* healJob was active is seconds old by then.
ScreenOn ==
  /\ status = "CONNECTED" /\ socks # NoPort
  /\ monitors # "on"
  /\ StartMonitors
  /\ UNCHANGED <<service, status, paused, engineVars, connectFails, running, lockVars,
                 connectVars, appWatch, netVars, bounds>>

\* A cancelled check notices.
MonitorsEnd ==
  /\ monitors = "late"
  /\ monitors' = "off"
  /\ UNCHANGED <<service, status, paused, engineVars, connectFails, running, lockVars,
                 connectVars, appWatch, netVars, bounds>>

\* A check that is active, or that was cancelled after its last suspension.
Monitor == monitors # "off" /\ service # "destroyed"

\* verifySoon: the check passed, with the core it was started for.  AppWatch and the
\* optimizer start, and without servers the rescue loop, which ends at once if
\* nothing is connected.
CheckPassed ==
  /\ Monitor
  /\ monitors = "on" => core # NoPort
  /\ monitors' = IF monitors = "on" THEN "on" ELSE "off"
  /\ connectFails' = 0
  /\ appWatch' = TRUE
  /\ \E r \in {{}, {"rescue"}} :
       /\ r # {} => status = "CONNECTED"
       /\ running' = running \union {k \in {"opt"} \union r : ~Active(k)}
  /\ UNCHANGED <<service, status, paused, engineVars, lockVars, connectVars, netVars,
                 bounds>>

\* A check or the watchdog saw a dead connection: heal().
Heal ==
  /\ Monitor
  /\ ~Active("heal")
  /\ running' = running \union {"heal"}
  /\ UNCHANGED <<service, status, paused, engineVars, connectFails, lockVars,
                 connectVars, monitors, appWatch, netVars, bounds>>

\* A background job asks for the lock to reconnect.  optJob looks at the status
\* first; healJob, when it looked for servers, resets the retry counter.
JobConnects(k) ==
  /\ k \in running \intersect {"heal", "opt", "rescue"}
  /\ triggers < MaxTriggers
  /\ triggers' = triggers + 1
  /\ k = "opt" => status = "CONNECTED"
  /\ connectFails' \in {connectFails} \union {0 : j \in {k} \intersect {"heal"}}
  /\ running' = running \ {k}
  /\ queue' = Append(queue, Task(k))
  /\ UNCHANGED <<service, status, paused, engineVars, holder, connectVars, monitors,
                 appWatch, netVars, commands, netEvents>>

\* healJob has nothing to do; rescueLater sees that there are servers again, or
\* like optJob that nothing is connected.
JobEnds(k) ==
  /\ k \in running \intersect {"heal", "opt", "rescue"}
  /\ k = "opt" => status # "CONNECTED"
  /\ running' = running \ {k}
  /\ UNCHANGED <<service, status, paused, engineVars, connectFails, lockVars,
                 connectVars, monitors, appWatch, netVars, bounds>>

\* scope.launch { lock.withLock { connect(..) } } of hardRestart, of the YouTube
\* check, of the standby scout, and of AppWatch.
Launched(k) ==
  /\ service # "destroyed"
  /\ Monitor \/ (k = "soft" /\ appWatch)
  /\ triggers < MaxTriggers
  /\ triggers' = triggers + 1
  /\ queue' = Append(queue, Task(k))
  /\ UNCHANGED <<service, status, paused, engineVars, connectFails, running, holder,
                 connectVars, monitors, appWatch, netVars, commands, netEvents>>

AppWatchEnds ==
  /\ appWatch /\ status # "CONNECTED"
  /\ appWatch' = FALSE
  /\ UNCHANGED <<service, status, paused, engineVars, connectFails, running, lockVars,
                 connectVars, monitors, netVars, bounds>>

NetworkChanges ==
  /\ netEvents < MaxNetEvents
  /\ netEvents' = netEvents + 1
  /\ net' \in (Networks \union {NoNet}) \ {net}
  /\ refresh' = (refresh \/ (callback /\ service # "destroyed"))
  /\ UNCHANGED <<service, status, paused, engineVars, connectFails, running, lockVars,
                 connectVars, monitors, appWatch, callback, current, revision, ticket,
                 commands, triggers>>

\* networkRefreshJob after the last callback of a burst: nothing changed.
RefreshSame ==
  /\ refresh
  /\ ~callback \/ ~Handoff!IsChange(net)
  /\ refresh' = FALSE
  /\ UNCHANGED <<service, status, paused, engineVars, connectFails, running, lockVars,
                 connectVars, monitors, appWatch, net, callback, current, revision,
                 ticket, bounds>>

\* Mutant of RefreshChange: netJob gets the revision before the update.
RefreshChangeOldTicket ==
  /\ refresh /\ callback
  /\ refresh' = FALSE
  /\ Handoff!Update(net)
  /\ CancelMonitors
  /\ queue' = Cancelled(FinalJobs)
  /\ holder' = Unless(holder, FinalJobs)
  /\ running' = (running \ FinalJobs) \union (IF net # NoNet THEN {"net"} ELSE {})
  /\ ticket' = IF net # NoNet THEN revision ELSE ticket
  /\ UNCHANGED <<service, status, paused, engineVars, connectFails, connectVars,
                 appWatch, net, callback, bounds>>

\* ... or another network: every job of the old one is cancelled, and netJob is
\* started if there is a network at all.
RefreshChange ==
  /\ refresh /\ callback
  /\ refresh' = FALSE
  /\ Handoff!Update(net)
  /\ CancelMonitors
  /\ queue' = Cancelled(FinalJobs)
  /\ holder' = Unless(holder, FinalJobs)
  /\ running' = (running \ FinalJobs) \union (IF net # NoNet THEN {"net"} ELSE {})
  /\ ticket' = IF net # NoNet THEN revision' ELSE ticket
  /\ UNCHANGED <<service, status, paused, engineVars, connectFails, connectVars,
                 appWatch, net, callback, bounds>>

\* Mutant of NetSettled: a connect() that is still under way is left alone.
NetSettledConnectedOnly ==
  /\ "net" \in running
  /\ LET go == Handoff!Valid(ticket) /\ status = "CONNECTED"
     IN /\ running' = (running \ {"net"}) \union (IF go THEN {"recheck"} ELSE {})
        /\ connectFails' = IF go THEN 0 ELSE connectFails
  /\ UNCHANGED <<service, status, paused, engineVars, lockVars, connectVars, monitors,
                 appWatch, netVars, bounds>>

\* netJob: the network settled.  It gives up if the network changed again or
\* nothing is connected.
NetSettled ==
  /\ "net" \in running
  /\ LET go == Handoff!Valid(ticket) /\ status \in Up
     IN /\ running' = (running \ {"net"}) \union (IF go THEN {"recheck"} ELSE {})
        /\ connectFails' = IF go THEN 0 ELSE connectFails
  /\ UNCHANGED <<service, status, paused, engineVars, lockVars, connectVars, monitors,
                 appWatch, netVars, bounds>>

\* netJob: the servers were tested on the new network.
NetRechecked ==
  /\ "recheck" \in running
  /\ running' = running \ {"recheck"}
  /\ queue' = IF Handoff!Valid(ticket) THEN Append(queue, Task("net")) ELSE queue
  /\ UNCHANGED <<service, status, paused, engineVars, connectFails, holder,
                 connectVars, monitors, appWatch, netVars, bounds>>
-----------------------------------------------------------------------------
Commands == StartCommand \/ StopCommand \/ PauseCommand \/ Revoke

Locked == DropCancelled \/ RunStop \/ RunPause \/ BeginConnect

Connecting ==
  \/ InitDone \/ PinDone \/ DpiDone \/ CoreStarted \/ TunStarted \/ Publish
  \/ AbortConnect \/ RetryConnect \/ GiveUp

Background ==
  \/ ScreenOn \/ MonitorsEnd \/ CheckPassed \/ Heal \/ AppWatchEnds
  \/ \E k \in {"heal", "opt", "rescue"} : JobConnects(k) \/ JobEnds(k)
  \/ \E k \in {"soft", "hard"} : Launched(k)

Network == RefreshSame \/ RefreshChange \/ NetSettled \/ NetRechecked

Next ==
  \/ Commands \/ Locked \/ Connecting \/ Background \/ Network
  \/ NetworkChanges \/ PauseOver \/ DestroyLocked \/ DestroyForced

\* Timers fire, suspended calls return and the lock is handed on; nothing makes
\* the user, the networks or the checks do anything.
Fairness ==
  /\ WF_vars(Locked)
  /\ WF_vars(Connecting)
  /\ WF_vars(RefreshSame \/ RefreshChange)
  /\ WF_vars(NetSettled)
  /\ WF_vars(NetRechecked)

Spec == Init /\ [][Next]_vars /\ Fairness
-----------------------------------------------------------------------------
FlagsOK ==
  /\ paused \in BOOLEAN /\ dpi \in BOOLEAN /\ keepTun \in BOOLEAN
  /\ appWatch \in BOOLEAN
  /\ callback \in BOOLEAN /\ refresh \in BOOLEAN

ValuesOK ==
  /\ service \in {"alive", "stopping", "destroyed"}
  /\ status \in {"IDLE", "CONNECTING", "CONNECTED", "ERROR"}
  /\ tun \in Ports \union {NoPort} /\ socks \in Ports \union {NoPort}
  /\ core \in Ports \union {NoPort} /\ port \in Ports \union {NoPort}
  /\ net \in Networks \union {NoNet} /\ current \in Networks \union {NoNet}
  /\ coreNet \in Networks \union {NoNet} /\ forNet \in Networks \union {NoNet}
  /\ connectFails \in 0..2
  /\ running \subseteq Jobs /\ monitors \in {"on", "late", "off"}
  /\ queue \in Seq(Tasks) /\ holder \in Tasks
  /\ phase \in {"none", "init", "pin", "dpi", "core", "tun", "publish"}
  /\ revision \in Nat /\ ticket \in Nat
  /\ commands \in Nat /\ netEvents \in Nat /\ triggers \in Nat

\* Types; connect() is retried at most twice in a row.
TypeOK == FlagsOK /\ ValuesOK

\* The TUN engine is started once and keeps its SOCKS port over any number of
\* soft reconnects, aborted ones included, while every connect starts a new
\* core: the two never disagree about the port, or the phone has no network.
TunFollowsCore ==
  /\ tun # NoPort /\ core # NoPort => tun = core
  /\ socks # NoPort /\ core # NoPort => socks = core

\* A queued coroutine that will end in a new connection or a clean stop.
WillRun(i) ==
  /\ queue[i].live
  /\ queue[i].kind = "net" => Handoff!Valid(ticket)

\* Someone is going to connect or to stop cleanly: a coroutine in the queue,
\* netJob with a valid ticket, or the next network.
RepairComes ==
  \/ \E i \in DOMAIN queue : WillRun(i)
  \/ running \intersect NetJob # {} /\ Handoff!Valid(ticket)
  \/ current = NoNet

\* A cancelled connect() rethrows and leaves its half torn down tunnel behind.
\* When nobody is connecting and the status says the VPN is up though it has no
\* core, a repair is on its way.
RepairPending ==
  (status \in Up /\ core = NoPort /\ holder = Free /\ service = "alive") => RepairComes

\* What the user sees as off is off: no engine, TUN or local proxy survives
\* a stop, a pause or a failed start, whatever was connecting before.
IdleIsDown ==
  (status \in {"IDLE", "ERROR"} /\ holder = Free) =>
    tun = NoPort /\ core = NoPort /\ socks = NoPort /\ ~dpi

\* onDestroy() may overtake a connect() that holds the lock; the cancelled scope
\* then keeps one that has no engine yet from starting any.
DestroyStopsConnect ==
  [][service = "destroyed" /\ phase \in {"none", "init", "pin"}
       => UNCHANGED engineVars]_vars

\* A network change that was noticed is applied: while the service lives and is
\* connected, and the network stays, the core is eventually one configured for
\* it, even if the change fell into a connect() or cancelled one.
NewNetworkApplied ==
  \A n \in Networks :
    ("net" \in running /\ current = n /\ net = n /\ status \in Up /\ service = "alive")
      ~> (coreNet = n \/ net # n \/ status \notin Up \/ service # "alive")

\* Nobody keeps the lock: cancelled, failing and retrying connects release it.
LockReleased == (holder # Free) ~> (holder = Free)

\* The comment of pause(): "VPN off, the service waits and switches it back on by
\* itself".  As long as a pause lasts only the user's START connects.
PauseHolds ==
  [][paused /\ holder = Free /\ holder' # Free => holder'.kind = "start"]_vars
=============================================================================

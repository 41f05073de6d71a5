------------------------------ MODULE HevTunnel ------------------------------
(***************************************************************************)
(* Life cycle of hev-socks5-tunnel, the engine between the TUN device and  *)
(* the local SOCKS port: the JNI calls start and stop (hev-jni.c), the     *)
(* worker thread they create (hev-main.c, hev-socks5-tunnel.c), and on     *)
(* that thread the coroutines of hev-task-system: one event task, one that *)
(* reads the TUN, one for the timers of lwIP, and one for every session.   *)
(*                                                                         *)
(* A JNI call holds a pthread mutex from its first to its last line, so    *)
(* `call` is the one call that is under way.  It runs against the worker:  *)
(* every access to the atomic tsync is a step of its own.  The coroutines  *)
(* are not preempted: what a task does from one yield to the next is one   *)
(* step, but for the reader of the TUN, which goes from packet to packet   *)
(* without a yield (`reading`) until there is none; nobody else runs then. *)
(* The mutex the tasks share is never held across a yield, and is left     *)
(* out.  What travels through a session is the subject of HevSession.      *)
(***************************************************************************)
EXTENDS Integers, Sequences, SequencesExt, FiniteSets

CONSTANTS
  Sessions,         \* sessions that may exist at the same time
  MaxSessionCount,  \* misc/max-session-count of the configuration, 0: no limit
  Burst             \* slices a session can work on one packet of the client

\* With a limit of 1 hev_socks5_tunnel_insert_session would terminate the session
\* it has just inserted, whose task does not run yet, and the engine would abort.
ASSUME SessionsAssumption == IsFiniteSet(Sessions) /\ Sessions # {}
ASSUME LimitAssumption == MaxSessionCount \in Nat \ {1}
ASSUME BurstAssumption == Burst \in Nat \ {0}
ASSUME NamesAssumption == Sessions \cap {"event", "io", "timer"} = {}

VARIABLES
  call,         \* where the JNI call that holds the mutex is
  joinable,     \* thread_joinable
  isRunning,    \* is_running
  tsync,        \* the bits of tsync
  worker,       \* where the worker thread is
  evOpen,       \* event_fds are open
  evByte,       \* stop() wrote to them and nobody read yet
  run,          \* run
  task,         \* state of every task
  evpc,         \* where event_task_entry is
  sessionSet,   \* session_set, oldest first
  phase,        \* where hev_socks5_session_run is, per session
  timeout,      \* timeout of the session: -1, positive or 0
  pcb,          \* the session has its lwIP connection
  work,         \* slices the session can still do without a packet
  reading,      \* the reader of the TUN has not yielded since its last read
  aborted,      \* abort() or a failed assert() ended the process
  leftStop      \* history: a quit set SYNC_STOP for a worker that did not come to run,
                \* or was past it

engineVars == <<evpc, sessionSet, phase, timeout, pcb, work, reading>>
vars == <<call, joinable, isRunning, tsync, worker, evOpen, evByte, run, task,
          engineVars, aborted, leftStop>>

SyncBits == {"SEND", "SENT", "WAIT", "STOP"}
Tasks == {"event", "io", "timer"} \cup Sessions
Calls == {"idle", "quit", "send", "write", "stop", "leave", "join"}
Workers == {"none", "config", "init", "run", "sched", "fini", "exited"}

TypeOK ==
  /\ call \in Calls /\ joinable \in BOOLEAN /\ isRunning \in BOOLEAN
  /\ tsync \in SUBSET SyncBits
  /\ worker \in Workers /\ evOpen \in BOOLEAN /\ evByte \in BOOLEAN /\ run \in BOOLEAN
  /\ task \in [Tasks -> {"STOPPED", "RUNNING", "WAITING"}]
  /\ evpc \in {"read", "joinIo", "joinTimer"}
  /\ sessionSet \in Seq(Sessions)
  /\ phase \in [Sessions -> {"none", "new", "connect", "handshake", "splice", "drain"}]
  /\ timeout \in [Sessions -> {"none", "set", "zero"}]
  /\ pcb \in [Sessions -> BOOLEAN] /\ work \in [Sessions -> 0..Burst]
  /\ reading \in BOOLEAN
  /\ aborted \in BOOLEAN /\ leftStop \in BOOLEAN

Init ==
  /\ call = "idle" /\ joinable = FALSE /\ isRunning = FALSE
  /\ tsync = {} /\ worker = "none" /\ evOpen = FALSE /\ evByte = FALSE /\ run = FALSE
  /\ task = [t \in Tasks |-> "STOPPED"]
  /\ evpc = "read" /\ sessionSet = <<>>
  /\ phase = [s \in Sessions |-> "none"]
  /\ timeout = [s \in Sessions |-> "none"]
  /\ pcb = [s \in Sessions |-> FALSE]
  /\ work = [s \in Sessions |-> 0] /\ reading = FALSE
  /\ aborted = FALSE /\ leftStop = FALSE

-----------------------------------------------------------------------------
(* The JNI calls.                                                          *)

\* Refused while a worker runs; one that has ended is joined first.  pthread_create
\* may fail (then nothing but the join is left of the call).
native_start_service ==
  /\ call = "idle" /\ ~isRunning
  /\ joinable => worker = "exited"
  /\ \/ /\ isRunning' = TRUE /\ joinable' = TRUE /\ worker' = "config"
     \/ /\ joinable /\ joinable' = FALSE /\ worker' = "none" /\ UNCHANGED isRunning
  /\ UNCHANGED <<call, tsync, evOpen, evByte, run, task, engineVars, aborted, leftStop>>

native_stop_service ==
  /\ call = "idle" /\ joinable
  /\ call' = IF isRunning THEN "quit" ELSE "join"
  /\ UNCHANGED <<joinable, isRunning, tsync, worker, evOpen, evByte, run, task, engineVars,
                 aborted, leftStop>>

\* hev_socks5_tunnel_stop, one action per access to tsync or to the event socket.
stop_announce ==
  /\ call = "quit" /\ "WAIT" \notin tsync
  /\ tsync' = tsync \cup {"WAIT"}
  /\ call' = IF "SEND" \in tsync THEN "send" ELSE "stop"
  /\ UNCHANGED <<joinable, isRunning, worker, evOpen, evByte, run, task, engineVars,
                 aborted, leftStop>>

stop_mark_sent ==
  /\ call = "send"
  /\ tsync' = tsync \cup {"SENT"}
  /\ call' = IF "SENT" \in tsync THEN "leave" ELSE "write"
  /\ UNCHANGED <<joinable, isRunning, worker, evOpen, evByte, run, task, engineVars,
                 aborted, leftStop>>

\* The assert() of the code fails when the socket is closed.
stop_write ==
  /\ call = "write"
  /\ call' = "leave"
  /\ evByte' = evOpen
  /\ aborted' = (aborted \/ ~evOpen)
  /\ UNCHANGED <<joinable, isRunning, tsync, worker, evOpen, run, task, engineVars,
                 leftStop>>

stop_before_run ==
  /\ call = "stop"
  /\ call' = "leave"
  /\ tsync' = tsync \cup {"STOP"}
  /\ leftStop' = (leftStop \/ worker \in {"fini", "exited"})
  /\ UNCHANGED <<joinable, isRunning, worker, evOpen, evByte, run, task, engineVars,
                 aborted>>

stop_leave ==
  /\ call = "leave"
  /\ call' = "join"
  /\ tsync' = tsync \ {"WAIT"}
  /\ UNCHANGED <<joinable, isRunning, worker, evOpen, evByte, run, task, engineVars,
                 aborted, leftStop>>

\* pthread_join and the end of native_stop_service.
stop_join ==
  /\ call = "join" /\ worker = "exited"
  /\ call' = "idle"
  /\ worker' = "none" /\ joinable' = FALSE /\ isRunning' = FALSE
  /\ UNCHANGED <<tsync, evOpen, evByte, run, task, engineVars, aborted, leftStop>>

-----------------------------------------------------------------------------
(* The worker thread up to the scheduler and after it.                     *)

\* hev_config_init_from_file, the loggers and hev_task_system_init: an error ends
\* the thread before anything of the tunnel exists.
worker_config ==
  /\ worker = "config"
  /\ \/ worker' = "init" /\ UNCHANGED <<isRunning, leftStop>>
     \/ worker' = "exited" /\ isRunning' = FALSE /\ leftStop' = ("STOP" \in tsync)
  /\ UNCHANGED <<call, joinable, tsync, evOpen, evByte, run, task, engineVars, aborted>>

\* An error in one of the parts goes to hev_socks5_tunnel_fini; SYNC_SEND is the
\* last thing set.
hev_socks5_tunnel_init ==
  /\ worker = "init"
  /\ \/ /\ worker' = "run" /\ evOpen' = TRUE /\ tsync' = tsync \cup {"SEND"}
        /\ UNCHANGED leftStop
     \/ /\ worker' = "fini" /\ evOpen' \in BOOLEAN /\ UNCHANGED tsync
        /\ leftStop' = ("STOP" \in tsync)
  /\ UNCHANGED <<call, joinable, isRunning, evByte, run, task, engineVars, aborted>>

\* Mutant: SYNC_STOP is looked at and not cleared.
RunKeepsStop ==
  /\ worker = "run"
  /\ leftStop' = FALSE
  /\ \/ "STOP" \in tsync /\ worker' = "fini" /\ UNCHANGED <<run, task, evpc>>
     \/ /\ "STOP" \notin tsync
        /\ worker' = "sched" /\ run' = TRUE /\ evpc' = "read"
        /\ task' = [t \in Tasks |-> IF t \in Sessions THEN task[t] ELSE "RUNNING"]
  /\ UNCHANGED <<call, joinable, isRunning, tsync, evOpen, evByte, sessionSet, phase, timeout,
                 pcb, work, reading, aborted>>

\* Returns at once when SYNC_STOP was set, and clears it in the same access.
hev_socks5_tunnel_run ==
  /\ worker = "run"
  /\ tsync' = tsync \ {"STOP"}
  /\ leftStop' = FALSE
  /\ \/ "STOP" \in tsync /\ worker' = "fini" /\ UNCHANGED <<run, task, evpc>>
     \/ /\ "STOP" \notin tsync
        /\ worker' = "sched" /\ run' = TRUE /\ evpc' = "read"
        /\ task' = [t \in Tasks |-> IF t \in Sessions THEN task[t] ELSE "RUNNING"]
  /\ UNCHANGED <<call, joinable, isRunning, evOpen, evByte, sessionSet, phase, timeout, pcb,
                 work, reading, aborted>>

\* hev_task_system_schedule: all tasks have exited.
scheduler_returns ==
  /\ worker = "sched" /\ \A t \in Tasks : task[t] = "STOPPED"
  /\ worker' = "fini"
  /\ UNCHANGED <<call, joinable, isRunning, tsync, evOpen, evByte, run, task, engineVars,
                 aborted, leftStop>>

\* Mutant: does not wait for a stop() that is under way.
FiniWithoutWait ==
  /\ worker = "fini"
  /\ tsync' = tsync \ {"SEND", "SENT"}
  /\ worker' = "exited" /\ evOpen' = FALSE /\ evByte' = FALSE /\ isRunning' = FALSE
  /\ UNCHANGED <<call, joinable, run, task, engineVars, aborted, leftStop>>

\* No event can be sent any more; waits for a stop() that is under way, then frees
\* everything and ends the thread.
hev_socks5_tunnel_fini ==
  /\ worker = "fini"
  /\ tsync' = tsync \ {"SEND", "SENT"}
  /\ \/ "WAIT" \in tsync /\ UNCHANGED <<worker, evOpen, evByte, isRunning>>
     \/ /\ "WAIT" \notin tsync
        /\ worker' = "exited" /\ evOpen' = FALSE /\ evByte' = FALSE /\ isRunning' = FALSE
  /\ UNCHANGED <<call, joinable, run, task, engineVars, aborted, leftStop>>

-----------------------------------------------------------------------------
(* The tasks.                                                              *)

\* hev_task_wakeup: aborts on a task that is stopped.
Woken(ts) == [t \in Tasks |-> IF t \in ts THEN "RUNNING" ELSE task[t]]
WakesStopped(ts) == \E t \in ts : task[t] = "STOPPED"

\* Mutant: a later phase replaces the 0 of a terminate.
SetTimeoutAlways(old, new) == new

\* hev_socks5_set_timeout: 0 stays 0.
SetTimeout(old, new) == IF old = "zero" THEN old ELSE new

\* The scheduler has the thread: no task is between two reads.
Scheduling == worker = "sched" /\ ~reading /\ ~aborted

\* Constraint of a step of task t.
Slice(t) == /\ worker = "sched" /\ task[t] = "RUNNING" /\ ~aborted
            /\ reading => t = "io"

threadVars == <<call, joinable, isRunning, worker, evOpen, leftStop>>

\* hev_task_io_read finds nothing: the task waits for the socket.
event_wait ==
  /\ Slice("event") /\ evpc = "read" /\ ~evByte
  /\ task' = [task EXCEPT !["event"] = "WAITING"]
  /\ UNCHANGED <<threadVars, tsync, evByte, run, engineVars, aborted>>

\* Mutant: the reader of the TUN is joined but not woken.
ReadWithoutWakeup ==
  /\ Slice("event") /\ evpc = "read" /\ evByte
  /\ evByte' = FALSE /\ run' = FALSE
  /\ tsync' = tsync \ {"SENT"}
  /\ timeout' = [s \in Sessions |-> IF s \in Range(sessionSet) THEN "zero" ELSE timeout[s]]
  /\ aborted' = WakesStopped(Range(sessionSet))
  /\ task' = [Woken(Range(sessionSet)) EXCEPT !["event"] = "WAITING"]
  /\ evpc' = "joinIo"
  /\ UNCHANGED <<threadVars, sessionSet, phase, pcb, work, reading>>

\* The event is there: no new session from here on, every session is terminated,
\* and hev_task_join (task_lwip_io) wakes the reader of the TUN and waits.
event_read ==
  /\ Slice("event") /\ evpc = "read" /\ evByte
  /\ evByte' = FALSE /\ run' = FALSE
  /\ tsync' = tsync \ {"SENT"}
  /\ timeout' = [s \in Sessions |-> IF s \in Range(sessionSet) THEN "zero" ELSE timeout[s]]
  /\ LET ts == Range(sessionSet) \cup {"io"}
     IN /\ aborted' = WakesStopped(ts)
        /\ task' = [Woken(ts) EXCEPT !["event"] = "WAITING"]
  /\ evpc' = "joinIo"
  /\ UNCHANGED <<threadVars, sessionSet, phase, pcb, work, reading>>

\* The reader has ended (its end is what wakes the event task): the same join with
\* the timer task, and then the end.
event_join ==
  /\ Slice("event") /\ evpc # "read" /\ task["io"] = "STOPPED"
  /\ \/ /\ task["timer"] # "STOPPED"
        /\ evpc' = "joinTimer"
        /\ task' = [Woken({"timer"}) EXCEPT !["event"] = "WAITING"]
     \/ /\ task["timer"] = "STOPPED"
        /\ UNCHANGED evpc
        /\ task' = [task EXCEPT !["event"] = "STOPPED"]
  /\ UNCHANGED <<threadVars, tsync, evByte, run, sessionSet, phase, timeout, pcb, work,
                 reading, aborted>>

\* hev_task_executer: the end of a task that is joined wakes its joiner.
Joiner(t) == IF evpc = (IF t = "io" THEN "joinIo" ELSE "joinTimer") THEN {"event"} ELSE {}

Exits(t) ==
  /\ aborted' = WakesStopped(Joiner(t))
  /\ task' = [Woken(Joiner(t)) EXCEPT ![t] = "STOPPED"]

\* lwip_io_task_entry without a packet: it leaves when run is 0, or waits.
io_idle ==
  /\ Slice("io")
  /\ \/ run /\ task' = [task EXCEPT !["io"] = "WAITING"] /\ UNCHANGED aborted
     \/ ~run /\ Exits("io")
  /\ reading' = FALSE
  /\ UNCHANGED <<threadVars, tsync, evByte, run, evpc, sessionSet, phase, timeout, pcb, work>>

\* The read, or the allocation of the buffer before it, fails: the loop goes on.
io_fail ==
  /\ Slice("io") /\ run
  /\ reading' = TRUE
  /\ UNCHANGED <<threadVars, tsync, evByte, run, task, evpc, sessionSet, phase, timeout,
                 pcb, work, aborted>>

\* A packet opens a connection: tcp_accept_handler or udp_recv_handler make the
\* session and its task; hev_socks5_tunnel_insert_session terminates the oldest
\* session when there are too many.
io_accept(s) ==
  /\ Slice("io") /\ run /\ phase[s] = "none" /\ task[s] = "STOPPED"
  /\ LET ss == Append(sessionSet, s)
         full == MaxSessionCount # 0 /\ Len(ss) >= MaxSessionCount
         oldest == IF full THEN {Head(ss)} ELSE {}
     IN /\ sessionSet' = ss
        /\ timeout' = [x \in Sessions |-> IF x \in oldest THEN "zero"
                                          ELSE IF x = s THEN "none" ELSE timeout[x]]
        /\ aborted' = WakesStopped(oldest \cup {"timer"})
        /\ task' = [Woken(oldest \cup {"timer"}) EXCEPT ![s] = "RUNNING"]
  /\ phase' = [phase EXCEPT ![s] = "new"]
  /\ pcb' = [pcb EXCEPT ![s] = TRUE]
  /\ work' = [work EXCEPT ![s] = 0]
  /\ reading' = TRUE
  /\ UNCHANGED <<threadVars, tsync, evByte, run, evpc>>

\* A packet of a client: tcp_recv_handler, tcp_sent_handler or the UDP one give the
\* session something to do.
io_packet(s) ==
  /\ Slice("io") /\ run /\ pcb[s]
  /\ aborted' = WakesStopped({s})
  /\ task' = Woken({s})
  /\ work' = [work EXCEPT ![s] = Burst]
  /\ reading' = TRUE
  /\ UNCHANGED <<threadVars, tsync, evByte, run, evpc, sessionSet, phase, timeout, pcb>>

\* tcp_err_handler, on the reader's task (a reset) or the timer's (a connection
\* that died): the connection is gone and the session terminated.
ConnectionLost(s) ==
  /\ pcb[s]
  /\ pcb' = [pcb EXCEPT ![s] = FALSE]
  /\ timeout' = [timeout EXCEPT ![s] = "zero"]
  /\ aborted' = WakesStopped({s})

io_reset(s) ==
  /\ Slice("io") /\ run /\ ConnectionLost(s)
  /\ task' = Woken({s})
  /\ reading' = TRUE
  /\ UNCHANGED <<threadVars, tsync, evByte, run, evpc, sessionSet, phase, work>>

\* lwip_timer_task_entry: tcp_tmr(), then it sleeps, or waits when there is no
\* session; with run 0 it leaves.
timer_tick ==
  /\ Slice("timer")
  /\ \/ run /\ task' = [task EXCEPT !["timer"] = "WAITING"] /\ UNCHANGED aborted
     \/ ~run /\ Exits("timer")
  /\ UNCHANGED <<threadVars, tsync, evByte, run, engineVars>>

timer_abort(s) ==
  /\ Slice("timer") /\ run /\ ConnectionLost(s)
  /\ task' = [Woken({s}) EXCEPT !["timer"] = "WAITING"]
  /\ UNCHANGED <<threadVars, tsync, evByte, run, evpc, sessionSet, phase, work, reading>>

-----------------------------------------------------------------------------
(* A session: hev_socks5_session_task_entry.                               *)

\* hev_list_del of the node of a session.
Unlinked(s) ==
  RemoveAt(sessionSet, CHOOSE i \in DOMAIN sessionSet : sessionSet[i] = s)

\* The end of the task: out of the list, the object destroyed (its connection is
\* aborted and its callbacks are gone), the task stopped.
SessionEnds(s) ==
  /\ sessionSet' = Unlinked(s)
  /\ phase' = [phase EXCEPT ![s] = "none"]
  /\ timeout' = [timeout EXCEPT ![s] = "none"]
  /\ pcb' = [pcb EXCEPT ![s] = FALSE]
  /\ work' = [work EXCEPT ![s] = 0]
  /\ task' = [task EXCEPT ![s] = "STOPPED"]

sessionFrame == <<threadVars, tsync, evByte, run, evpc, reading, aborted>>

\* The operation at hand succeeds.  The phases set their own timeouts: the one of
\* the connect when it begins, the one of the handshake when that begins.
\* hev_socks5_session_tcp_splice returns at once when the connection is gone.
session_progress(s) ==
  /\ Slice(s)
  /\ \/ /\ phase[s] \in {"new", "connect"}
        /\ phase' = [phase EXCEPT ![s] = IF @ = "new" THEN "connect" ELSE "handshake"]
        /\ timeout' = [timeout EXCEPT ![s] = SetTimeout(@, "set")]
        /\ UNCHANGED <<task, sessionSet, pcb, work>>
     \/ /\ phase[s] = "handshake" /\ pcb[s]
        /\ phase' = [phase EXCEPT ![s] = "splice"]
        /\ work' = [work EXCEPT ![s] = Burst]
        /\ UNCHANGED <<task, sessionSet, timeout, pcb>>
     \/ phase[s] = "handshake" /\ ~pcb[s] /\ SessionEnds(s)
  /\ UNCHANGED sessionFrame

\* hev_socks5_tunnel_update_session, on the way back from a yield of the splice:
\* with a limit the session is now the last one to be terminated.
Touched(s) == IF MaxSessionCount = 0 THEN sessionSet
              ELSE Append(Unlinked(s), s)

\* Mutant: goes on although there is nothing to move.
SpliceUnchecked(s) ==
  /\ Slice(s) /\ phase[s] = "splice"
  /\ work' = [work EXCEPT ![s] = @ - 1]
  /\ sessionSet' = Touched(s)
  /\ UNCHANGED <<sessionFrame, task, phase, timeout, pcb>>

\* The splice moved data: HEV_TASK_YIELD, which does not look at the timeout.
session_splice(s) ==
  /\ Slice(s) /\ phase[s] = "splice" /\ work[s] > 0
  /\ work' = [work EXCEPT ![s] = @ - 1]
  /\ sessionSet' = Touched(s)
  /\ UNCHANGED <<sessionFrame, task, phase, timeout, pcb>>

\* Both directions are done; the drain ends when the client has acknowledged all,
\* or at once when its connection is gone.
session_eof(s) ==
  /\ Slice(s)
  /\ \/ /\ phase[s] = "splice" /\ pcb[s]
        /\ phase' = [phase EXCEPT ![s] = "drain"]
        /\ sessionSet' = Touched(s)
        /\ UNCHANGED <<task, timeout, pcb, work>>
     \/ phase[s] = "splice" /\ ~pcb[s] /\ SessionEnds(s)
     \/ phase[s] = "drain" /\ SessionEnds(s)
  /\ UNCHANGED sessionFrame

\* A refused connect, a bad answer or an error of the socket.
session_error(s) ==
  /\ Slice(s) /\ phase[s] \in {"connect", "handshake", "splice"}
  /\ SessionEnds(s)
  /\ UNCHANGED sessionFrame

\* Nothing is ready: hev_socks5_task_io_yielder gives up at once when the timeout
\* is 0, and waits otherwise.
session_blocks(s) ==
  /\ Slice(s) /\ phase[s] \in {"connect", "handshake", "splice", "drain"}
  /\ \/ timeout[s] = "zero" /\ SessionEnds(s)
     \/ /\ timeout[s] # "zero"
        /\ task' = [task EXCEPT ![s] = "WAITING"]
        /\ sessionSet' = IF phase[s] \in {"splice", "drain"} THEN Touched(s) ELSE sessionSet
        /\ UNCHANGED <<phase, timeout, pcb, work>>
  /\ UNCHANGED sessionFrame

\* The sleep of the yielder is over and nothing happened.
session_timeout(s) ==
  /\ Scheduling /\ task[s] = "WAITING" /\ timeout[s] = "set"
  /\ SessionEnds(s)
  /\ UNCHANGED sessionFrame

\* hev_task_system_io_poll: the descriptor of a waiting task is ready, or its sleep
\* is over (the timer task sleeps only while there are sessions).
io_poll(t) ==
  /\ Scheduling /\ task[t] = "WAITING"
  /\ t = "event" => evpc = "read" /\ evByte
  /\ t = "timer" => sessionSet # <<>>
  /\ task' = Woken({t})
  /\ UNCHANGED <<threadVars, tsync, evByte, run, engineVars, aborted>>

-----------------------------------------------------------------------------

JniStep == \/ stop_announce \/ stop_mark_sent \/ stop_write \/ stop_before_run
           \/ stop_leave \/ stop_join

WorkerStep == \/ worker_config \/ hev_socks5_tunnel_init \/ hev_socks5_tunnel_run
              \/ scheduler_returns \/ hev_socks5_tunnel_fini

EventStep == event_wait \/ event_read \/ event_join
IoStep == io_idle \/ io_fail \/ \E s \in Sessions : io_accept(s) \/ io_packet(s) \/ io_reset(s)
TimerStep == timer_tick \/ \E s \in Sessions : timer_abort(s)
SessionStep(s) == \/ session_progress(s) \/ session_splice(s) \/ session_eof(s)
                  \/ session_error(s) \/ session_blocks(s)

Next ==
  \/ native_start_service \/ native_stop_service
  \/ JniStep \/ WorkerStep \/ EventStep \/ IoStep \/ TimerStep
  \/ \E s \in Sessions : SessionStep(s) \/ session_timeout(s)
  \/ \E t \in Tasks : io_poll(t)

\* The threads run.  Whenever it has the thread again and again the scheduler comes to
\* every task that is ready (the keys it sorts them by grow with their run time), and to
\* epoll, which reports the event socket.  That the reader of the TUN gives the thread
\* back is not assumed, nor is anything of clients, servers or timeouts, and nobody has
\* to call start or stop.
Fairness ==
  /\ WF_vars(JniStep) /\ WF_vars(WorkerStep) /\ WF_vars(IoStep)
  /\ SF_vars(EventStep) /\ SF_vars(TimerStep)
  /\ \A s \in Sessions : SF_vars(SessionStep(s))
  /\ SF_vars(io_poll("event"))

Spec == Init /\ [][Next]_vars /\ Fairness
-----------------------------------------------------------------------------
(* Properties.                                                             *)

\* The engine never aborts: stop() writes to the event socket only while it is open
\* (the assert of hev_socks5_tunnel_stop), which SYNC_SEND and SYNC_WAIT are for, and
\* hev_task_wakeup never meets a task that has stopped.
NeverAborts == ~aborted

\* Once the event is read no session escapes the end: every one that is left has
\* timeout 0 whatever it does next, because 0 stays 0 when a later phase sets its
\* own timeout and because no session is accepted any more.
QuitReachesAll ==
  worker = "sched" /\ ~run => \A s \in Sessions : phase[s] # "none" => timeout[s] = "zero"

\* hev_socks5_tunnel_run returns at once only for a quit of this very run, or for one
\* that came when an earlier worker had failed to start or was already leaving.
OwnQuit ==
  [][worker = "run" /\ worker' = "fini" => call \in {"leave", "join"} \/ leftStop]_vars

\* The TUN is empty again and again, so that its reader yields.  Otherwise, with packets
\* that come faster than they are read or a read that fails for ever, no other task runs.
ReaderYields == []<>~reading

\* A quit that reached the event socket ends the worker, and native_stop_service
\* returns, with no help of a timeout, a client or a server, if the reader of the TUN
\* yields.
EventAnswered == ReaderYields => (evByte ~> call = "idle")

\* Every native_stop_service returns: "blocks until the hev_socks5_tunnel_quit is
\* called" (hev-main.h), even if the reader of the TUN yields.
StopReturns == ReaderYields => (call # "idle" ~> call = "idle")
=============================================================================

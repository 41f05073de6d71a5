--------------------------------- MODULE Dpi ---------------------------------
(***************************************************************************)
(* core/Dpi.kt: one DpiSet, the anti-DPI engines that a connection or a    *)
(* test needs.  Each engine is a DpiProxy around a child process (ByeDPI,  *)
(* zapret) or an Xray core inside the app.                                 *)
(*                                                                         *)
(* DpiSet.start runs in a coroutine that may be cancelled; the watch loop  *)
(* of the VPN service brings crashed engines back; close() runs on another *)
(* thread, once start() is over (both are called under the lock of the     *)
(* service, or one after the other).  Nothing guards the fields of a       *)
(* DpiProxy, so close() is cut between reading `process` and clearing it.  *)
(* The operating system, which runs and kills children, is external.       *)
(***************************************************************************)
EXTENDS Integers, FiniteSets

CONSTANTS N,            \* engines 1..N, in the order in which they are started
          NeedCurrent,  \* engine 1 is the one of the current strategy
          InProcess,    \* engines that are an Xray core (DpiEngine.XRAY)
          Ports, NoPort, NoChild,
          MaxCrashes    \* bound: crashes of children

Engines == 1..N
Threads == {"start", "watch"}
Children == [engine : Engines, id : Nat \ {0}, port : Ports]

ASSUME DpiAssumption ==
  /\ N \in Nat /\ NeedCurrent \in BOOLEAN /\ InProcess \subseteq Engines
  /\ NoPort \notin Ports /\ NoChild \notin Children
  /\ MaxCrashes \in Nat

VARIABLES
  at,           \* engine DpiSet.start is at; N + 1: it returned, 0: it threw
  pc, eng, arg, child,  \* DpiProxy.start of a thread: place, engine, port p, child
  cancelled,    \* cancelled coroutines
  watch, todo,  \* watch loop: none, active, over; engines left in this round
  procs,        \* members of the set
  announced,    \* currentPort and ports: what Xray is told
  process, xray, port,  \* fields of each DpiProxy
  alive, spawned,       \* children that run; number of children ever
  close, rest, old,     \* close(): open, closing, swap (`old` is read), closed; the
                        \* proxies left
  snatched,     \* children assigned to a `process` between its read and its clearing
  crashes

threadVars == <<pc, eng, arg, child>>
watchVars == <<watch, todo>>
proxyVars == <<process, xray, port>>
closeVars == <<close, rest, old, snatched>>
vars == <<at, threadVars, cancelled, watchVars, procs, announced, proxyVars, alive,
          spawned, closeVars, crashes>>

Init ==
  /\ at = 1
  /\ pc = [t \in Threads |-> "idle"] /\ eng = [t \in Threads |-> 0]
  /\ arg = [t \in Threads |-> NoPort] /\ child = [t \in Threads |-> NoChild]
  /\ cancelled = {}
  /\ watch = "none" /\ todo = {}
  /\ procs = {} /\ announced = [e \in Engines |-> NoPort]
  /\ process = [e \in Engines |-> NoChild] /\ xray = {}
  /\ port = [e \in Engines |-> NoPort]
  /\ alive = {} /\ spawned = 0
  /\ close = "open" /\ rest = {} /\ old = NoChild /\ snatched = {}
  /\ crashes = 0
-----------------------------------------------------------------------------
(* DpiProxy.                                                                 *)

\* alive
Up(e) == process[e] \in alive \/ e \in xray

\* close(), in the thread that runs start(): port is reset if there was anything.
CloseProxy(e) ==
  /\ process' = [process EXCEPT ![e] = NoChild]
  /\ xray' = xray \ {e}
  /\ port' = IF process[e] # NoChild \/ e \in xray THEN [port EXCEPT ![e] = NoPort]
                                                   ELSE port
  /\ alive' = alive \ {process[e]}

\* start(s, mask, allowLocal, fixedPort) up to the launch of the engine.
EnterStart(t, e, p) ==
  /\ pc' = [pc EXCEPT ![t] = "launch"]
  /\ eng' = [eng EXCEPT ![t] = e]
  /\ arg' = [arg EXCEPT ![t] = p]
  /\ CloseProxy(e)
  /\ UNCHANGED child

\* The engine that a walk over procs is at.
First(S) == CHOOSE e \in S : \A f \in S : e <= f

Free == Ports \ {c.port : c \in alive}

\* b.start()
Launch(t) ==
  /\ pc[t] = "launch" /\ eng[t] \notin InProcess
  /\ LET c == [engine |-> eng[t], id |-> spawned + 1, port |-> arg[t]]
     IN child' = [child EXCEPT ![t] = c] /\ alive' = alive \union {c}
  /\ spawned' = spawned + 1
  /\ pc' = [pc EXCEPT ![t] = "assign"]
  /\ UNCHANGED <<at, eng, arg, cancelled, watchVars, procs, announced, proxyVars,
                 closeVars, crashes>>

\* process = child
Assign(t) ==
  /\ pc[t] = "assign"
  /\ process' = [process EXCEPT ![eng[t]] = child[t]]
  /\ pc' = [pc EXCEPT ![t] = "poll"]
  /\ snatched' = IF close = "swap" /\ eng[t] = First(rest) THEN snatched \union {child[t]}
                                                           ELSE snatched
  /\ UNCHANGED <<at, eng, arg, child, cancelled, watchVars, procs, announced, xray,
                 port, alive, spawned, close, rest, old, crashes>>

\* The child answers on its port; a cancelled withTimeout { } throws instead.
Answers(t) ==
  /\ pc[t] = "poll" /\ child[t] \in alive /\ t \notin cancelled
  /\ port' = [port EXCEPT ![eng[t]] = arg[t]]
  /\ pc' = [pc EXCEPT ![t] = "return"]
  /\ UNCHANGED <<at, eng, arg, child, cancelled, watchVars, procs, announced, process,
                 xray, alive, spawned, closeVars, crashes>>

\* Mutant of LaunchXray: every engine is taken for one inside the app.
LaunchXrayAny(t) ==
  /\ pc[t] = "launch"
  /\ xray' = xray \union {eng[t]}
  /\ port' = [port EXCEPT ![eng[t]] = arg[t]]
  /\ pc' = [pc EXCEPT ![t] = "return"]
  /\ UNCHANGED <<at, eng, arg, child, cancelled, watchVars, procs, announced, process,
                 alive, spawned, closeVars, crashes>>

\* An engine inside the app starts at once.
LaunchXray(t) ==
  /\ pc[t] = "launch" /\ eng[t] \in InProcess
  /\ xray' = xray \union {eng[t]}
  /\ port' = [port EXCEPT ![eng[t]] = arg[t]]
  /\ pc' = [pc EXCEPT ![t] = "return"]
  /\ UNCHANGED <<at, eng, arg, child, cancelled, watchVars, procs, announced, process,
                 alive, spawned, closeVars, crashes>>
-----------------------------------------------------------------------------
(* DpiSet.start: how it takes what a DpiProxy.start throws or returns.       *)

Current(e) == NeedCurrent /\ e = 1

\* The current engine is needed; a fixed one is skipped.
StartThrows == at' = IF Current(at) THEN 0 ELSE at + 1

\* A member is watched and closed; the current engine is one before it starts.
Begin ==
  /\ at \in Engines /\ pc["start"] = "idle"
  /\ "start" \notin cancelled
  /\ \E p \in Free : EnterStart("start", at, p)
  /\ procs' = IF Current(at) THEN procs \union {at} ELSE procs
  /\ UNCHANGED <<at, cancelled, watchVars, announced, spawned, closeVars, crashes>>

\* withContext in a cancelled coroutine, a strategy that is not known any more, an
\* engine that this phone does not have.
NotBegun ==
  /\ at \in Engines /\ pc["start"] = "idle"
  /\ StartThrows
  /\ procs' = IF Current(at) THEN procs \union {at} ELSE procs
  /\ UNCHANGED <<threadVars, cancelled, watchVars, announced, proxyVars, alive,
                 spawned, closeVars, crashes>>

\* Mutant of Throws: an engine that did not come up is left to itself.
ThrowsUnclosed(t) ==
  /\ pc[t] \in {"launch", "poll"}
  /\ UNCHANGED <<proxyVars, alive>>
  /\ pc' = [pc EXCEPT ![t] = "idle"]
  /\ IF t = "start" THEN StartThrows /\ UNCHANGED todo
                    ELSE at' = at /\ todo' = todo \ {eng[t]}
  /\ UNCHANGED <<eng, arg, child, cancelled, watch, procs, announced, spawned,
                 closeVars, crashes>>

\* Mutant of Throws: the child is forgotten and not killed.
ThrowsKeepsChild(t) ==
  /\ pc[t] \in {"launch", "poll"}
  /\ process' = [process EXCEPT ![eng[t]] = NoChild]
  /\ UNCHANGED <<xray, port, alive>>
  /\ pc' = [pc EXCEPT ![t] = "idle"]
  /\ IF t = "start" THEN StartThrows /\ UNCHANGED todo
                    ELSE at' = at /\ todo' = todo \ {eng[t]}
  /\ UNCHANGED <<eng, arg, child, cancelled, watch, procs, announced, spawned,
                 closeVars, crashes>>

\* The engine does not start, dies, does not answer in 3 s, or the coroutine was
\* cancelled: what was started is closed.  reviveIfDead() answers false.
Throws(t) ==
  /\ pc[t] \in {"launch", "poll"}
  /\ CloseProxy(eng[t])
  /\ pc' = [pc EXCEPT ![t] = "idle"]
  /\ IF t = "start" THEN StartThrows /\ UNCHANGED todo
                    ELSE at' = at /\ todo' = todo \ {eng[t]}
  /\ UNCHANGED <<eng, arg, child, cancelled, watch, procs, announced, spawned,
                 closeVars, crashes>>

\* withContext { } returns, unless the coroutine was cancelled in it: then it throws,
\* past the catch that closes.
StartReturns ==
  /\ pc["start"] = "return"
  /\ pc' = [pc EXCEPT !["start"] = "idle"]
  /\ IF "start" \in cancelled
       THEN StartThrows /\ UNCHANGED <<procs, announced>>
       ELSE /\ at' = at + 1
            /\ procs' = procs \union {at}
            /\ announced' = [announced EXCEPT ![at] = arg["start"]]
  /\ UNCHANGED <<eng, arg, child, cancelled, watchVars, proxyVars, alive, spawned,
                 closeVars, crashes>>

\* A change of network, the user's Cancel.
Cancel ==
  /\ at \in Engines /\ "start" \notin cancelled
  /\ cancelled' = cancelled \union {"start"}
  /\ UNCHANGED <<at, threadVars, watchVars, procs, announced, proxyVars, alive, spawned,
                 closeVars, crashes>>
-----------------------------------------------------------------------------
(* DpiSet.watch and reviveIfDead.                                            *)

Watch ==
  /\ at = N + 1 /\ close = "open" /\ watch = "none"
  /\ watch' = "active"
  /\ UNCHANGED <<at, threadVars, cancelled, todo, procs, announced, proxyVars,
                 alive, spawned, closeVars, crashes>>

Looping == watch = "active" /\ pc["watch"] = "idle"

\* Mutant of Round: only the first engine is looked at.
RoundFirst ==
  /\ Looping /\ todo = {} /\ "watch" \notin cancelled
  /\ todo' = procs \intersect {1}
  /\ UNCHANGED <<at, threadVars, cancelled, watch, procs, announced, proxyVars,
                 alive, spawned, closeVars, crashes>>

\* delay(2000); procs.toList()
Round ==
  /\ Looping /\ todo = {} /\ "watch" \notin cancelled
  /\ todo' = procs
  /\ UNCHANGED <<at, threadVars, cancelled, watch, procs, announced, proxyVars,
                 alive, spawned, closeVars, crashes>>

WatchEnds ==
  /\ Looping /\ todo = {} /\ "watch" \in cancelled
  /\ watch' = "over"
  /\ UNCHANGED <<at, threadVars, cancelled, todo, procs, announced, proxyVars,
                 alive, spawned, closeVars, crashes>>

Dead(e) == process[e] # NoChild /\ process[e] \notin alive

\* An engine that runs, one without a process ("true"), one without a port, or one
\* whose start is refused because the loop was cancelled.
LookAt ==
  /\ Looping /\ todo # {}
  /\ LET e == First(todo)
     IN /\ Dead(e) /\ e \notin xray => port[e] = NoPort \/ "watch" \in cancelled
        /\ todo' = todo \ {e}
  /\ UNCHANGED <<at, threadVars, cancelled, watch, procs, announced, proxyVars, alive,
                 spawned, closeVars, crashes>>

\* Mutant of Revive: no look at the old child, and no close() of it.
ReviveAny ==
  /\ Looping /\ todo # {} /\ "watch" \notin cancelled
  /\ LET e == First(todo)
     IN /\ e \notin xray /\ port[e] # NoPort
        /\ pc' = [pc EXCEPT !["watch"] = "launch"]
        /\ eng' = [eng EXCEPT !["watch"] = e]
        /\ arg' = [arg EXCEPT !["watch"] = port[e]]
        /\ UNCHANGED <<child, proxyVars, alive>>
  /\ UNCHANGED <<at, cancelled, watch, todo, procs, announced, spawned, closeVars,
                 crashes>>

\* The child died: start() on the same port.
Revive ==
  /\ Looping /\ todo # {} /\ "watch" \notin cancelled
  /\ LET e == First(todo)
     IN /\ Dead(e) /\ e \notin xray /\ port[e] # NoPort
        /\ EnterStart("watch", e, port[e])
  /\ UNCHANGED <<at, cancelled, watch, todo, procs, announced, spawned, closeVars,
                 crashes>>

Revived ==
  /\ pc["watch"] = "return"
  /\ pc' = [pc EXCEPT !["watch"] = "idle"]
  /\ todo' = todo \ {eng["watch"]}
  /\ UNCHANGED <<at, eng, arg, child, cancelled, watch, procs, announced, proxyVars,
                 alive, spawned, closeVars, crashes>>
-----------------------------------------------------------------------------
(* DpiSet.close.                                                             *)

CloseBegins ==
  /\ at \notin Engines /\ close = "open"
  /\ close' = "closing"
  /\ rest' = procs
  /\ cancelled' = IF watch = "active" THEN cancelled \union {"watch"} ELSE cancelled
  /\ UNCHANGED <<at, threadVars, watchVars, procs, announced, proxyVars, alive, spawned,
                 old, snatched, crashes>>

\* process.also { process = null }: the read,
CloseReads ==
  /\ close = "closing" /\ rest # {}
  /\ old' = process[First(rest)]
  /\ close' = "swap"
  /\ UNCHANGED <<at, threadVars, cancelled, watchVars, procs, announced, proxyVars,
                 alive, spawned, rest, snatched, crashes>>

\* Mutant of CloseWrites: what is destroyed is the cleared field.
CloseWritesLate ==
  /\ close = "swap"
  /\ LET e == First(rest)
     IN /\ process' = [process EXCEPT ![e] = NoChild]
        /\ xray' = xray \ {e}
        /\ port' = IF old # NoChild \/ e \in xray THEN [port EXCEPT ![e] = NoPort]
                                                      ELSE port
        /\ alive' = alive \ {process'[e]}
        /\ rest' = rest \ {e}
  /\ close' = "closing"
  /\ UNCHANGED <<at, threadVars, cancelled, watchVars, procs, announced, spawned, old,
                 snatched, crashes>>

\* the write, and the end of what was read.
CloseWrites ==
  /\ close = "swap"
  /\ LET e == First(rest)
     IN /\ process' = [process EXCEPT ![e] = NoChild]
        /\ xray' = xray \ {e}
        /\ port' = IF old # NoChild \/ e \in xray THEN [port EXCEPT ![e] = NoPort]
                                                      ELSE port
        /\ alive' = alive \ {old}
        /\ rest' = rest \ {e}
  /\ close' = "closing"
  /\ UNCHANGED <<at, threadVars, cancelled, watchVars, procs, announced, spawned, old,
                 snatched, crashes>>

CloseEnds ==
  /\ close = "closing" /\ rest = {}
  /\ close' = "closed"
  /\ procs' = {}
  /\ announced' = [e \in Engines |-> NoPort]
  /\ UNCHANGED <<at, threadVars, cancelled, watchVars, proxyVars, alive, spawned, rest,
                 old, snatched, crashes>>

\* External: a child dies by itself.
Crash ==
  /\ crashes < MaxCrashes
  /\ crashes' = crashes + 1
  /\ \E c \in alive : alive' = alive \ {c}
  /\ UNCHANGED <<at, threadVars, cancelled, watchVars, procs, announced, proxyVars,
                 spawned, closeVars>>
-----------------------------------------------------------------------------
Starting(t) == Launch(t) \/ Assign(t) \/ Answers(t) \/ LaunchXray(t) \/ Throws(t)

Watching == Round \/ WatchEnds \/ LookAt \/ Revive \/ Revived

Closing == CloseBegins \/ CloseReads \/ CloseWrites \/ CloseEnds

Next ==
  \/ \E t \in Threads : Starting(t)
  \/ Begin \/ NotBegun \/ StartReturns \/ Cancel
  \/ Watch \/ Watching \/ Closing \/ Crash

\* The watch loop goes on: its delay ends, start() ends within its 3 s.
Fairness == WF_vars(Watching) /\ WF_vars(Starting("watch"))

Spec == Init /\ [][Next]_vars /\ Fairness
-----------------------------------------------------------------------------
\* Types.
TypeOK ==
  /\ at \in 0..(N + 1)
  /\ pc \in [Threads -> {"idle", "launch", "assign", "poll", "return"}]
  /\ eng \in [Threads -> 0..N] /\ arg \in [Threads -> Ports \union {NoPort}]
  /\ child \in [Threads -> Children \union {NoChild}]
  /\ cancelled \subseteq Threads
  /\ watch \in {"none", "active", "over"} /\ todo \subseteq Engines
  /\ procs \subseteq Engines
  /\ announced \in [Engines -> Ports \union {NoPort}]
  /\ process \in [Engines -> Children \union {NoChild}] /\ xray \subseteq InProcess
  /\ port \in [Engines -> Ports \union {NoPort}]
  /\ alive \subseteq Children /\ spawned \in Nat
  /\ close \in {"open", "closing", "swap", "closed"} /\ rest \subseteq Engines
  /\ old \in Children \union {NoChild} /\ snatched \subseteq Children
  /\ crashes \in 0..MaxCrashes

\* Two children of an engine would fight for its port: there is never a second one,
\* whoever starts, revives and closes, and "start it again on the same port, so Xray's
\* dialer and the SOCKS clients keep working": it is where Xray was told.
OneChild ==
  /\ \A c, d \in alive : c.engine = d.engine => c = d
  /\ \A c \in alive : announced[c.engine] # NoPort => c.port = announced[c.engine]

\* Until it is closed, the set knows the children of its members: each is the
\* `process` of its proxy or about to be, so that close() can reach it.
MembersReachable ==
  close = "open" =>
    \A c \in alive : c.engine \in procs =>
      \/ process[c.engine] = c
      \/ \E t \in Threads : pc[t] = "assign" /\ child[t] = c

\* "Every 2 s: a crashed ByeDPI / zapret process is restarted on its port": the crash
\* of a member is noticed, and a restart is tried, as long as the set is open.
CrashNoticed ==
  \A e \in Engines :
    (watch = "active" /\ e \in procs /\ Dead(e)) ~> (close # "open" \/ ~Dead(e))

\* "Engines that fail to start are skipped": an engine of the masks that failed, and
\* whose start was not cancelled, runs nowhere.  (One that is cancelled when its child
\* already answers is skipped too, and runs on outside the set.)
SkippedIsDown ==
  "start" \notin cancelled =>
    \A e \in Engines \ procs :
      (at > e /\ close = "open") => e \notin xray /\ \A c \in alive : c.engine # e

\* Once a set is closed and its watch loop is over nothing of it runs, whatever
\* crashed, failed, was revived or was cancelled before or meanwhile, but for a child
\* outside the set as above and for one case: close() clears `process` after having read
\* an older one, and the child that the loop assigned in between is nobody's.
ClosedIsDown ==
  (close = "closed" /\ watch # "active" /\ "start" \notin cancelled) =>
    xray = {} /\ alive \subseteq snatched
=============================================================================

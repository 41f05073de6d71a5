------------------------- MODULE TunnelServiceProofs -------------------------
(***************************************************************************)
(* Safety of TunnelService for every set of ports and networks and every   *)
(* bound: types, the agreement of TUN and core about the port, "off is     *)
(* off", the quiet of a destroyed service and the repair of a tunnel that  *)
(* a cancelled connect() left half torn down.                              *)
(***************************************************************************)
EXTENDS TunnelService, TLAPS

\* The lock and the place in connect(): somebody is inside exactly when
\* connect() has a place.
LockInv == IF phase = "none" THEN holder = Free ELSE holder.kind \in Kinds

\* While connect() runs, TUN, local proxy and core know no port but its own.
PortsAgree ==
  /\ phase # "none" => /\ port \in Ports
                       /\ tun \in {port, NoPort}
                       /\ socks \in {port, NoPort}
                       /\ core \in {port, NoPort}
  /\ tun # NoPort /\ socks # NoPort => tun = socks
  /\ TunFollowsCore

\* Only the unlocked teardown of onDestroy() takes a core away that connect()
\* has started.
CoreUp == phase \in {"tun", "publish"} /\ service # "destroyed" => core # NoPort

\* The status is IDLE or ERROR only when nothing runs and nobody connects.
OffInv ==
  /\ phase # "none" => status \in Up
  /\ IdleIsDown

\* onDestroy() leaves no coroutine that could start another.
Quiet ==
  service = "destroyed" =>
    queue = <<>> /\ running = {} /\ ~refresh /\ ~holder.live

\* A cancelled connect() counts as lost from the moment it is cancelled.
Repair ==
  (service = "alive" /\ status \in Up /\ ~holder.live /\ (core = NoPort \/ holder # Free))
    => RepairComes

IInv == TypeOK /\ LockInv /\ PortsAgree /\ CoreUp /\ OffInv /\ Quiet /\ Repair
-----------------------------------------------------------------------------
(* Lemmas about the queue.                                                   *)

\* Cancelling a coroutine changes its mark and nothing else.
LEMMA UnlessType ==
  ASSUME NEW t \in Tasks, NEW ks
  PROVE  /\ Unless(t, ks) \in Tasks
         /\ Unless(t, ks).kind = t.kind
         /\ Unless(t, ks).live => t.live
         /\ t.kind \notin ks => Unless(t, ks) = t
  BY DEF Unless, Tasks

\* Cancelled leaves a queue of tasks with the same places.
LEMMA CancelledType ==
  ASSUME queue \in Seq(Tasks), NEW ks
  PROVE  /\ Cancelled(ks) \in Seq(Tasks)
         /\ Len(Cancelled(ks)) = Len(queue)
         /\ DOMAIN Cancelled(ks) = DOMAIN queue
         /\ \A i \in DOMAIN queue : Cancelled(ks)[i] = Unless(queue[i], ks)
  <1>1. DOMAIN queue = 1..Len(queue) /\ Len(queue) \in Nat
    OBVIOUS
  <1>2. \A i \in 1..Len(queue) : Unless(queue[i], ks) \in Tasks
    BY UnlessType
  <1>3. Cancelled(ks) \in [1..Len(queue) -> Tasks]
    BY <1>1, <1>2 DEF Cancelled
  <1>4. Cancelled(ks) \in Seq(Tasks)
    BY <1>1, <1>3
  <1> QED
    BY <1>1, <1>3, <1>4 DEF Cancelled

\* New coroutines are tasks.
LEMMA TaskType ==
  /\ \A k \in Kinds : Task(k) \in Tasks /\ Task(k).kind = k /\ Task(k).live
  /\ Free \in Tasks /\ Free.kind = "none" /\ ~Free.live
  BY DEF Task, Free, Tasks

LEMMA KindNone == "none" \notin Kinds
  BY DEF Kinds, Soft
-----------------------------------------------------------------------------
(* Types.                                                                    *)

\* Every step leaves the flags Boolean.
LEMMA FlagsStep ==
  ASSUME FlagsOK, [Next]_vars
  PROVE  FlagsOK'
  <1>1. CASE StartCommand
    BY <1>1, Zenon DEF StartCommand, Command, EndPause, FlagsOK, lockVars,
       engineVars, connectVars, netVars, bounds
  <1>2. CASE StopCommand
    BY <1>2, Zenon DEF StopCommand, Command, EndPause, FlagsOK, lockVars,
       engineVars, connectVars, netVars, bounds
  <1>3. CASE PauseCommand
    BY <1>3, Zenon DEF PauseCommand, Command, FlagsOK, lockVars, engineVars,
       connectVars, netVars, bounds
  <1>4. CASE Revoke
    BY <1>4, Zenon DEF Revoke, Command, FlagsOK, lockVars, engineVars,
       connectVars, netVars, bounds
  <1>5. CASE DropCancelled
    BY <1>5, Zenon DEF DropCancelled, FlagsOK, lockVars, engineVars, connectVars,
       netVars, bounds
  <1>6. CASE RunStop
    BY <1>6, Zenon DEF RunStop, TeardownFinal, TeardownEngines, FlagsOK, lockVars,
       engineVars, connectVars, netVars, bounds
  <1>7. CASE RunPause
    BY <1>7, Zenon DEF RunPause, TeardownEngines, FlagsOK, lockVars, engineVars,
       connectVars, netVars, bounds
  <1>9. CASE BeginConnect
    BY <1>9, Zenon DEF BeginConnect, EnterConnect, TeardownEngines, FlagsOK,
       lockVars, engineVars, connectVars, netVars, bounds
  <1>10. CASE InitDone
    BY <1>10, Zenon DEF InitDone, WatchNetwork, FlagsOK, lockVars, engineVars,
       connectVars, netVars, bounds
  <1>11. CASE PinDone
    BY <1>11, Zenon DEF PinDone, FlagsOK, lockVars, engineVars, connectVars,
       netVars, bounds
  <1>12. CASE DpiDone
    BY <1>12, Zenon DEF DpiDone, FlagsOK, lockVars, engineVars, connectVars,
       netVars, bounds
  <1>13. CASE CoreStarted
    BY <1>13, Zenon DEF CoreStarted, FlagsOK, lockVars, engineVars, connectVars,
       netVars, bounds
  <1>14. CASE TunStarted
    BY <1>14, Zenon DEF TunStarted, FlagsOK, lockVars, engineVars, connectVars,
       netVars, bounds
  <1>15. CASE Publish
    BY <1>15, Zenon DEF Publish, WatchNetwork, FlagsOK, lockVars, engineVars,
       connectVars, netVars, bounds
  <1>16. CASE AbortConnect
    BY <1>16, Zenon DEF AbortConnect, FlagsOK, lockVars, engineVars, connectVars,
       netVars, bounds
  <1>17. CASE RetryConnect
    BY <1>17, Zenon DEF RetryConnect, EnterConnect, TeardownEngines, FlagsOK,
       lockVars, engineVars, connectVars, netVars, bounds
  <1>18. CASE GiveUp
    BY <1>18, Zenon DEF GiveUp, TeardownFinal, TeardownEngines, FlagsOK, lockVars,
       engineVars, connectVars, netVars, bounds
  <1>19. CASE PauseOver
    BY <1>19, Zenon DEF PauseOver, FlagsOK, lockVars, engineVars, connectVars,
       netVars, bounds
  <1>20. CASE CheckPassed
    BY <1>20, Zenon DEF CheckPassed, FlagsOK, lockVars, engineVars, connectVars,
       netVars, bounds
  <1>8. CASE ScreenOn \/ MonitorsEnd
    BY <1>8, Zenon DEF ScreenOn, MonitorsEnd, FlagsOK, lockVars, engineVars,
       connectVars, netVars, bounds
  <1>21. CASE Heal
    BY <1>21, Zenon DEF Heal, FlagsOK, lockVars, engineVars, connectVars, netVars,
       bounds
  <1>22. CASE AppWatchEnds
    BY <1>22, Zenon DEF AppWatchEnds, FlagsOK, lockVars, engineVars, connectVars,
       netVars, bounds
  <1>23. CASE NetworkChanges
    BY <1>23, Zenon DEF NetworkChanges, FlagsOK, lockVars, engineVars,
       connectVars, netVars, bounds
  <1>24. CASE RefreshSame
    BY <1>24, Zenon DEF RefreshSame, FlagsOK, lockVars, engineVars, connectVars,
       netVars, bounds
  <1>25. CASE RefreshChange
    BY <1>25, Zenon DEF RefreshChange, FlagsOK, lockVars, engineVars, connectVars,
       netVars, bounds
  <1>26. CASE NetSettled
    BY <1>26, Zenon DEF NetSettled, FlagsOK, lockVars, engineVars, connectVars,
       netVars, bounds
  <1>27. CASE NetRechecked
    BY <1>27, Zenon DEF NetRechecked, FlagsOK, lockVars, engineVars, connectVars,
       netVars, bounds
  <1>28. CASE DestroyLocked
    BY <1>28, Zenon DEF DestroyLocked, Destroy, TeardownEngines, FlagsOK,
       lockVars, engineVars, connectVars, netVars, bounds
  <1>29. CASE DestroyForced
    BY <1>29, Zenon DEF DestroyForced, Destroy, TeardownEngines, FlagsOK,
       lockVars, engineVars, connectVars, netVars, bounds
  <1>30. ASSUME NEW k \in {"heal", "opt", "rescue"}, JobConnects(k)
         PROVE  FlagsOK'
    BY <1>30, Zenon DEF JobConnects, FlagsOK, lockVars, engineVars, connectVars,
       netVars, bounds
  <1>31. ASSUME NEW k \in {"heal", "opt", "rescue"}, JobEnds(k)
         PROVE  FlagsOK'
    BY <1>31, Zenon DEF JobEnds, FlagsOK, lockVars, engineVars, connectVars,
       netVars, bounds
  <1>32. ASSUME NEW k \in {"soft", "hard"}, Launched(k)
         PROVE  FlagsOK'
    BY <1>32, Zenon DEF Launched, FlagsOK, lockVars, engineVars, connectVars,
       netVars, bounds
  <1>33. CASE UNCHANGED vars
    BY <1>33, Zenon DEF vars, FlagsOK, lockVars, engineVars, connectVars, netVars,
       bounds
  <1> QED
    BY <1>1, <1>2, <1>3, <1>4, <1>5, <1>6, <1>7, <1>9, <1>10, <1>11, <1>12,
       <1>13, <1>14, <1>15, <1>16, <1>17, <1>18, <1>19, <1>20, <1>8, <1>21, <1>22,
       <1>23, <1>24, <1>25, <1>26, <1>27, <1>28, <1>29, <1>30, <1>31, <1>32, <1>33
       DEF Next, Commands, Locked, Connecting, Background, Network

\* What the shared parts of the actions leave behind.
LEMMA EnginesType ==
  ASSUME ValuesOK, NEW keep, TeardownEngines(keep)
  PROVE  /\ tun' \in Ports \union {NoPort} /\ socks' \in Ports \union {NoPort}
         /\ core' \in Ports \union {NoPort}
         /\ coreNet' \in Networks \union {NoNet}
         /\ monitors' \in {"on", "late", "off"}
  BY DEF ValuesOK, TeardownEngines, CancelMonitors

LEMMA FinalType ==
  ASSUME ValuesOK, NEW s \in {"IDLE", "ERROR"}, NEW q \in Seq(Tasks), TeardownFinal(s, q)
  PROVE  /\ tun' \in Ports \union {NoPort} /\ socks' \in Ports \union {NoPort}
         /\ core' \in Ports \union {NoPort}
         /\ coreNet' \in Networks \union {NoNet}
         /\ running' \subseteq Jobs /\ queue' \in Seq(Tasks)
         /\ monitors' \in {"on", "late", "off"}
         /\ current' \in Networks \union {NoNet} /\ revision' \in Nat
         /\ status' = s
  <1>1. /\ tun' \in Ports \union {NoPort} /\ socks' \in Ports \union {NoPort}
        /\ core' \in Ports \union {NoPort}
        /\ coreNet' \in Networks \union {NoNet}
        /\ monitors' \in {"on", "late", "off"}
    BY EnginesType DEF TeardownFinal
  <1>2. /\ running' \subseteq Jobs /\ queue' \in Seq(Tasks)
        /\ current' = NoNet /\ revision' = revision + 1
        /\ status' = s
    BY Zenon DEF ValuesOK, TeardownFinal, Handoff!Reset
  <1> QED
    BY <1>1, <1>2 DEF ValuesOK

LEMMA EnterType ==
  ASSUME ValuesOK, NEW t \in Tasks, NEW keep \in BOOLEAN, NEW old,
         EnterConnect(t, keep, old)
  PROVE  /\ tun' \in Ports \union {NoPort} /\ socks' \in Ports \union {NoPort}
         /\ core' \in Ports \union {NoPort}
         /\ coreNet' \in Networks \union {NoNet}
         /\ monitors' \in {"on", "late", "off"}
         /\ holder' \in Tasks /\ phase' = "init"
         /\ port' \in Ports \union {NoPort} /\ forNet' \in Networks \union {NoNet}
         /\ status' \in Up
  BY EnginesType DEF ValuesOK, EnterConnect, Up

LEMMA WatchType ==
  ASSUME ValuesOK, WatchNetwork
  PROVE  /\ current' \in Networks \union {NoNet} /\ revision' \in Nat
  BY DEF ValuesOK, WatchNetwork, Handoff!Seed

LEMMA HeadType ==
  ASSUME queue \in Seq(Tasks), queue # <<>>
  PROVE  Head(queue) \in Tasks /\ Tail(queue) \in Seq(Tasks)
  OBVIOUS

\* Every step keeps every other variable in its set.
LEMMA ValuesStep ==
  ASSUME ValuesOK, [Next]_vars
  PROVE  ValuesOK'
  <1>1. CASE StartCommand
    BY <1>1, CancelledType, UnlessType, TaskType DEF StartCommand, Command,
       EndPause, Kinds, Soft, ValuesOK, lockVars, engineVars, connectVars, netVars,
       bounds
  <1>2. CASE StopCommand
    BY <1>2, CancelledType, UnlessType, TaskType DEF StopCommand, Command,
       EndPause, Kinds, Soft, ValuesOK, lockVars, engineVars, connectVars, netVars,
       bounds
  <1>3. CASE PauseCommand
    BY <1>3, TaskType DEF PauseCommand, Command, Kinds, Soft, ValuesOK, lockVars,
       engineVars, connectVars, netVars, bounds
  <1>4. CASE Revoke
    BY <1>4, TaskType DEF Revoke, Command, Kinds, Soft, ValuesOK, lockVars,
       engineVars, connectVars, netVars, bounds
  <1>5. CASE DropCancelled
    BY <1>5, HeadType DEF DropCancelled, ValuesOK, lockVars, engineVars,
       connectVars, netVars, bounds
  <1>7. CASE InitDone
    BY <1>7, WatchType DEF InitDone, ValuesOK, lockVars, engineVars, connectVars,
       netVars, bounds
  <1>8. CASE PinDone
    BY <1>8 DEF PinDone, ValuesOK, lockVars, engineVars, connectVars, netVars,
       bounds
  <1>9. CASE DpiDone
    BY <1>9 DEF DpiDone, ValuesOK, lockVars, engineVars, connectVars, netVars,
       bounds
  <1>10. CASE CoreStarted
    BY <1>10 DEF CoreStarted, ValuesOK, lockVars, engineVars, connectVars, netVars,
       bounds
  <1>11. CASE TunStarted
    BY <1>11 DEF TunStarted, ValuesOK, lockVars, engineVars, connectVars, netVars,
       bounds
  <1>12. CASE Publish
    BY <1>12, WatchType, TaskType DEF Publish, StartMonitors, Jobs, ValuesOK, lockVars, engineVars,
       connectVars, netVars, bounds
  <1>13. CASE AbortConnect
    BY <1>13, TaskType DEF AbortConnect, ValuesOK, lockVars, engineVars,
       connectVars, netVars, bounds
  <1>14. CASE PauseOver
    BY <1>14, TaskType DEF PauseOver, Kinds, Soft, ValuesOK, lockVars, engineVars,
       connectVars, netVars, bounds
  <1>15. CASE CheckPassed
    <2>1. PICK r \in {{}, {"rescue"}} :
            running' = running \union {k \in {"opt"} \union r : ~Active(k)}
      BY <1>15 DEF CheckPassed
    <2>2. running' \subseteq Jobs
      BY <2>1 DEF ValuesOK, Jobs
    <2> QED
      BY <1>15, <2>2 DEF CheckPassed, ValuesOK, lockVars, engineVars, connectVars,
         netVars, bounds
  <1>6. CASE ScreenOn \/ MonitorsEnd
    BY <1>6 DEF ScreenOn, MonitorsEnd, StartMonitors, ValuesOK, lockVars, engineVars,
       connectVars, netVars, bounds
  <1>16. CASE Heal
    BY <1>16 DEF Heal, Jobs, ValuesOK, lockVars, engineVars, connectVars, netVars,
       bounds
  <1>17. CASE AppWatchEnds
    BY <1>17 DEF AppWatchEnds, ValuesOK, lockVars, engineVars, connectVars, netVars,
       bounds
  <1>18. CASE NetworkChanges
    BY <1>18 DEF NetworkChanges, ValuesOK, lockVars, engineVars, connectVars,
       netVars, bounds
  <1>19. CASE RefreshSame
    BY <1>19 DEF RefreshSame, ValuesOK, lockVars, engineVars, connectVars, netVars,
       bounds
  <1>20. CASE RefreshChange
    <2>1. queue' \in Seq(Tasks) /\ holder' \in Tasks
      BY <1>20, CancelledType, UnlessType DEF RefreshChange, ValuesOK
    <2>2. running' \subseteq Jobs
      BY <1>20 DEF RefreshChange, ValuesOK, Jobs
    <2>3. current' = net /\ revision' = revision + 1 /\ ticket' \in {revision', ticket}
      BY <1>20 DEF RefreshChange, Handoff!Update
    <2>4. UNCHANGED <<service, status, paused, engineVars, connectFails, connectVars,
                      appWatch, net, callback, bounds>>
      BY <1>20 DEF RefreshChange
    <2>5. monitors' \in {"on", "late", "off"}
      BY <1>20 DEF RefreshChange, CancelMonitors, ValuesOK
    <2> QED
      BY <2>1, <2>2, <2>3, <2>4, <2>5 DEF ValuesOK, engineVars, connectVars, bounds
  <1>21. CASE NetSettled
    BY <1>21 DEF NetSettled, Jobs, ValuesOK, lockVars, engineVars, connectVars,
       netVars, bounds
  <1>22. CASE NetRechecked
    BY <1>22, TaskType DEF NetRechecked, Kinds, Soft, ValuesOK, lockVars,
       engineVars, connectVars, netVars, bounds
  <1>23. ASSUME NEW h \in Tasks, Destroy(h)
         PROVE  ValuesOK'
    <2>1. /\ service' = "destroyed" /\ running' = {} /\ queue' = <<>> /\ holder' = h
          /\ core' = NoPort /\ coreNet' = NoNet /\ tun' = NoPort /\ socks' = NoPort
      BY <1>23 DEF Destroy, TeardownEngines
    <2>2. UNCHANGED <<status, paused, connectFails, connectVars, appWatch, net, current,
                      revision, ticket, bounds>>
      BY <1>23 DEF Destroy
    <2>3. monitors' \in {"on", "late", "off"}
      BY <1>23 DEF Destroy, TeardownEngines, CancelMonitors, ValuesOK
    <2> QED
      BY <2>1, <2>2, <2>3 DEF ValuesOK, connectVars, bounds
  <1>24. CASE DestroyLocked
    BY <1>23, <1>24, TaskType DEF DestroyLocked
  <1>25. CASE DestroyForced
    BY <1>23, <1>25 DEF DestroyForced, ValuesOK, Tasks
  <1>26. CASE RunStop
    <2>1. Tail(Cancelled(FinalJobs)) \in Seq(Tasks)
      BY CancelledType, <1>26 DEF RunStop, First, ValuesOK
    <2> QED
      BY <1>26, <2>1, FinalType DEF RunStop, ValuesOK, lockVars, connectVars, bounds
  <1>27. CASE RunPause
    <2>1. Tail(Cancelled({"resume"})) \in Seq(Tasks)
      BY CancelledType, <1>27 DEF RunPause, First, ValuesOK
    <2> QED
      BY <1>27, <2>1, EnginesType DEF RunPause, Jobs, ValuesOK, connectVars, netVars, bounds
  <1>28. CASE BeginConnect
    <2>1. Head(queue) \in Tasks /\ Tail(queue) \in Seq(Tasks)
      BY <1>28, HeadType DEF BeginConnect, First, ValuesOK
    <2> QED
      BY <1>28, <2>1, EnterType DEF BeginConnect, Up, ValuesOK, netVars, bounds
  <1>29. CASE RetryConnect
    <2>1. connectFails' \in 0..2
      BY <1>29 DEF RetryConnect, ValuesOK
    <2> QED
      BY <1>29, <2>1, EnterType DEF RetryConnect, Up, ValuesOK, netVars, bounds
  <1>30. CASE GiveUp
    <2>1. Cancelled(FinalJobs) \in Seq(Tasks)
      BY CancelledType DEF ValuesOK
    <2> QED
      BY <1>30, <2>1, FinalType, TaskType DEF GiveUp, ValuesOK, bounds
  <1>31. ASSUME NEW k \in {"heal", "opt", "rescue"}, JobConnects(k)
         PROVE  ValuesOK'
    <2>1. Task(k) \in Tasks
      BY TaskType DEF Kinds, Soft
    <2> QED
      BY <1>31, <2>1 DEF JobConnects, ValuesOK, lockVars, engineVars, connectVars, netVars, bounds
  <1>32. ASSUME NEW k \in {"heal", "opt", "rescue"}, JobEnds(k)
         PROVE  ValuesOK'
    BY <1>32 DEF JobEnds, ValuesOK, lockVars, engineVars, connectVars, netVars, bounds
  <1>33. ASSUME NEW k \in {"soft", "hard"}, Launched(k)
         PROVE  ValuesOK'
    <2>1. Task(k) \in Tasks
      BY TaskType DEF Kinds, Soft
    <2> QED
      BY <1>33, <2>1 DEF Launched, ValuesOK, lockVars, engineVars, connectVars, netVars, bounds
  <1>34. CASE UNCHANGED vars
    BY <1>34 DEF vars, ValuesOK, lockVars, engineVars, connectVars, netVars, bounds
  <1> QED
    BY <1>1, <1>2, <1>3, <1>4, <1>5, <1>7, <1>8, <1>9, <1>10, <1>11, <1>12,
       <1>13, <1>14, <1>15, <1>6, <1>16, <1>17, <1>18, <1>19, <1>20, <1>21, <1>22,
       <1>24, <1>25, <1>26, <1>27, <1>28, <1>29, <1>30, <1>31, <1>32, <1>33, <1>34
      DEF Next, Commands, Locked, Connecting, Background, Network

\* Types are kept.
LEMMA TypeStep ==
  ASSUME TypeOK, [Next]_vars
  PROVE  TypeOK'
  BY FlagsStep, ValuesStep DEF TypeOK
-----------------------------------------------------------------------------
(* Most steps are made outside the lock: they leave engines, status and the  *)
(* place in connect() alone, and at most cancel the coroutine inside.        *)

Aside ==
  /\ UNCHANGED <<service, status, engineVars, connectVars>>
  /\ holder' \in {holder, Unless(holder, {"resume"}), Unless(holder, FinalJobs)}

\* The steps under the lock, and the destruction of the service.
Inside ==
  \/ RunStop \/ RunPause \/ BeginConnect \/ Connecting \/ DestroyLocked \/ DestroyForced

LEMMA InsideOrAside ==
  ASSUME [Next]_vars
  PROVE  Inside \/ Aside
  <1>1. CASE Commands
    <2>1. CASE StartCommand
      BY <2>1 DEF StartCommand, Command, EndPause, Aside
    <2>2. CASE StopCommand
      BY <2>2 DEF StopCommand, Command, EndPause, Aside
    <2>3. CASE PauseCommand
      BY <2>3 DEF PauseCommand, Command, Aside
    <2>4. CASE Revoke
      BY <2>4 DEF Revoke, Command, Aside
    <2> QED
      BY <1>1, <2>1, <2>2, <2>3, <2>4 DEF Commands
  <1>2. CASE Background
    <2>1. CASE CheckPassed
      BY <2>1 DEF CheckPassed, Aside, lockVars
    <2>2. CASE Heal
      BY <2>2 DEF Heal, Aside, lockVars
    <2>3. CASE ScreenOn \/ MonitorsEnd \/ AppWatchEnds
      BY <2>3 DEF ScreenOn, MonitorsEnd, AppWatchEnds, Aside, lockVars
    <2>4. ASSUME NEW k, JobConnects(k) PROVE Aside
      BY <2>4 DEF JobConnects, Aside
    <2>5. ASSUME NEW k, JobEnds(k) PROVE Aside
      BY <2>5 DEF JobEnds, Aside, lockVars
    <2>6. ASSUME NEW k, Launched(k) PROVE Aside
      BY <2>6 DEF Launched, Aside
    <2> QED
      BY <1>2, <2>1, <2>2, <2>3, <2>4, <2>5, <2>6 DEF Background
  <1>3. CASE Network
    <2>1. CASE RefreshSame
      BY <2>1 DEF RefreshSame, Aside, lockVars
    <2>2. CASE RefreshChange
      BY <2>2 DEF RefreshChange, Aside
    <2>3. CASE NetSettled
      BY <2>3 DEF NetSettled, Aside, lockVars
    <2>4. CASE NetRechecked
      BY <2>4 DEF NetRechecked, Aside
    <2> QED
      BY <1>3, <2>1, <2>2, <2>3, <2>4 DEF Network
  <1>4. CASE DropCancelled
    BY <1>4 DEF DropCancelled, Aside
  <1>6. CASE NetworkChanges
    BY <1>6 DEF NetworkChanges, Aside, lockVars
  <1>7. CASE PauseOver
    BY <1>7 DEF PauseOver, Aside
  <1>8. CASE UNCHANGED vars
    BY <1>8 DEF vars, Aside, lockVars, engineVars, connectVars
  <1> QED
    BY <1>1, <1>2, <1>3, <1>4, <1>6, <1>7, <1>8 DEF Next, Locked, Inside
-----------------------------------------------------------------------------
(* The lock.                                                                 *)

\* A coroutine inside the lock is cancelled without losing its place.
LEMMA HolderAside ==
  ASSUME TypeOK, Aside
  PROVE  /\ holder'.kind = holder.kind
         /\ holder = Free => holder' = Free
         /\ holder'.live => holder.live
  BY UnlessType, TaskType DEF Aside, TypeOK, ValuesOK, FinalJobs, NetJob

\* Somebody inside means a place in connect(), and the other way round.
LEMMA LockFree ==
  ASSUME TypeOK, LockInv
  PROVE  holder = Free <=> phase = "none"
  BY KindNone, TaskType DEF LockInv

LEMMA LockStep ==
  ASSUME TypeOK, LockInv, [Next]_vars
  PROVE  LockInv'
  <1>1. CASE Aside
    BY <1>1, HolderAside DEF LockInv, Aside, connectVars
  <1>2. CASE RunStop
    BY <1>2 DEF RunStop, LockInv, connectVars
  <1>3. CASE RunPause
    BY <1>3 DEF RunPause, LockInv, connectVars
  <1>4. CASE BeginConnect
    BY <1>4, KindNone DEF BeginConnect, First, EnterConnect, LockInv
  <1>5. CASE Connecting
    <2>1. CASE InitDone
      BY <2>1 DEF InitDone, LockInv, lockVars
    <2>2. CASE PinDone
      BY <2>2 DEF PinDone, LockInv, lockVars
    <2>3. CASE DpiDone
      BY <2>3 DEF DpiDone, LockInv, lockVars
    <2>4. CASE CoreStarted
      BY <2>4 DEF CoreStarted, LockInv, lockVars
    <2>5. CASE TunStarted
      BY <2>5 DEF TunStarted, LockInv, lockVars
    <2>6. CASE Publish \/ AbortConnect \/ GiveUp
      BY <2>6 DEF Publish, AbortConnect, GiveUp, LockInv
    <2>7. CASE RetryConnect
      BY <2>7 DEF RetryConnect, CanFail, EnterConnect, LockInv
    <2> QED
      BY <1>5, <2>1, <2>2, <2>3, <2>4, <2>5, <2>6, <2>7 DEF Connecting
  <1>6. CASE DestroyLocked
    BY <1>6, LockFree DEF DestroyLocked, Destroy, LockInv, connectVars
  <1>7. CASE DestroyForced
    <2>1. holder' = [holder EXCEPT !.live = FALSE] /\ phase' = phase
      BY <1>7 DEF DestroyForced, Destroy, connectVars
    <2>2. holder'.kind = holder.kind
      BY <2>1 DEF TypeOK, ValuesOK, Tasks
    <2> QED
      BY <1>7, <2>1, <2>2, LockFree DEF LockInv, DestroyForced
  <1> QED
    BY <1>1, <1>2, <1>3, <1>4, <1>5, <1>6, <1>7, InsideOrAside DEF Inside
-----------------------------------------------------------------------------
(* TUN, local proxy and core.                                                *)

\* A teardown that keeps nothing leaves no port.
LEMMA TeardownPorts ==
  ASSUME TeardownEngines(FALSE)
  PROVE  tun' = NoPort /\ socks' = NoPort /\ core' = NoPort /\ dpi' = FALSE
  BY DEF TeardownEngines

LEMMA PortsStep ==
  ASSUME TypeOK, LockInv, PortsAgree, [Next]_vars
  PROVE  PortsAgree'
  <1> USE ServiceAssumption
  <1>0. ASSUME TeardownEngines(FALSE), (phase' = phase /\ port' = port) \/ phase' = "none"
        PROVE  PortsAgree'
    BY <1>0, TeardownPorts DEF PortsAgree, TunFollowsCore
  <1>1. CASE Aside
    BY <1>1 DEF Aside, engineVars, connectVars, PortsAgree, TunFollowsCore
  <1>2. CASE RunStop
    BY <1>0, <1>2 DEF RunStop, TeardownFinal, connectVars
  <1>3. CASE RunPause
    BY <1>0, <1>3 DEF RunPause, connectVars
  <1>4. ASSUME NEW t, NEW keep, NEW old, EnterConnect(t, keep, old),
               keep => tun # NoPort /\ socks # NoPort
        PROVE  PortsAgree'
    <2>1. CASE keep
      BY <1>4, <2>1 DEF EnterConnect, TeardownEngines, PortsAgree, TunFollowsCore,
         TypeOK, ValuesOK
    <2>2. CASE ~keep
      BY <1>4, <2>2 DEF EnterConnect, TeardownEngines, PortsAgree, TunFollowsCore
    <2> QED
      BY <2>1, <2>2
  <1>5. CASE BeginConnect
    BY <1>4, <1>5 DEF BeginConnect
  <1>6. CASE Connecting
    <2>1. CASE InitDone
      BY <2>1 DEF InitDone, engineVars, PortsAgree, TunFollowsCore
    <2>2. CASE PinDone
      BY <2>2 DEF PinDone, PortsAgree, TunFollowsCore
    <2>3. CASE DpiDone
      BY <2>3 DEF DpiDone, engineVars, PortsAgree, TunFollowsCore
    <2>4. CASE CoreStarted
      BY <2>4 DEF CoreStarted, PortsAgree, TunFollowsCore
    <2>5. CASE TunStarted
      BY <2>5 DEF TunStarted, PortsAgree, TunFollowsCore
    <2>6. CASE Publish
      BY <2>6 DEF Publish, engineVars, PortsAgree, TunFollowsCore
    <2>7. CASE AbortConnect
      BY <2>7 DEF AbortConnect, engineVars, PortsAgree, TunFollowsCore
    <2>8. CASE RetryConnect
      BY <1>4, <2>8 DEF RetryConnect
    <2>9. CASE GiveUp
      BY <1>0, <2>9 DEF GiveUp, TeardownFinal
    <2> QED
      BY <1>6, <2>1, <2>2, <2>3, <2>4, <2>5, <2>6, <2>7, <2>8, <2>9 DEF Connecting
  <1>7. CASE DestroyLocked
    BY <1>0, <1>7 DEF DestroyLocked, Destroy, connectVars
  <1>8. CASE DestroyForced
    BY <1>0, <1>8 DEF DestroyForced, Destroy, connectVars
  <1> QED
    BY <1>1, <1>2, <1>3, <1>5, <1>6, <1>7, <1>8, InsideOrAside DEF Inside

\* What connect() has started stays until the service is destroyed.
LEMMA CoreUpStep ==
  ASSUME TypeOK, LockInv, PortsAgree, CoreUp, [Next]_vars
  PROVE  CoreUp'
  <1> USE ServiceAssumption
  <1>1. CASE Aside
    BY <1>1 DEF Aside, engineVars, connectVars, CoreUp
  <1>2. CASE RunStop
    BY <1>2, LockFree DEF RunStop, First, connectVars, CoreUp
  <1>3. CASE RunPause
    BY <1>3, LockFree DEF RunPause, First, connectVars, CoreUp
  <1>4. CASE BeginConnect
    BY <1>4 DEF BeginConnect, EnterConnect, CoreUp
  <1>5. CASE Connecting
    <2>1. CASE InitDone \/ PinDone \/ DpiDone
      BY <2>1 DEF InitDone, PinDone, DpiDone, CoreUp
    <2>2. CASE CoreStarted
      BY <2>2 DEF CoreStarted, CoreUp, PortsAgree
    <2>3. CASE TunStarted
      BY <2>3 DEF TunStarted, CoreUp
    <2>4. CASE Publish \/ AbortConnect \/ GiveUp
      BY <2>4 DEF Publish, AbortConnect, GiveUp, CoreUp
    <2>5. CASE RetryConnect
      BY <2>5 DEF RetryConnect, EnterConnect, CoreUp
    <2> QED
      BY <1>5, <2>1, <2>2, <2>3, <2>4, <2>5 DEF Connecting
  <1>6. CASE DestroyLocked
    BY <1>6 DEF DestroyLocked, Destroy, CoreUp
  <1>7. CASE DestroyForced
    BY <1>7 DEF DestroyForced, Destroy, CoreUp
  <1> QED
    BY <1>1, <1>2, <1>3, <1>4, <1>5, <1>6, <1>7, InsideOrAside DEF Inside
-----------------------------------------------------------------------------
(* Off is off.                                                               *)

LEMMA OffStep ==
  ASSUME TypeOK, LockInv, OffInv, [Next]_vars
  PROVE  OffInv'
  <1>0. LockInv' /\ TypeOK'
    BY LockStep, TypeStep
  <1>a. holder' = Free <=> phase' = "none"
    BY <1>0, KindNone, TaskType DEF LockInv
  <1>b. ASSUME TeardownEngines(FALSE), phase' # "none" => status' \in Up
        PROVE  OffInv'
    BY <1>b, TeardownPorts DEF OffInv, IdleIsDown
  <1>c. ASSUME phase' # "none", status' \in Up
        PROVE  OffInv'
    BY <1>c DEF OffInv, IdleIsDown, Up
  <1>1. CASE Aside
    BY <1>1, <1>a, LockFree DEF Aside, engineVars, connectVars, OffInv, IdleIsDown
  <1>2. CASE RunStop
    BY <1>2, <1>b, LockFree DEF RunStop, First, TeardownFinal, connectVars
  <1>3. CASE RunPause
    BY <1>3, <1>b, LockFree DEF RunPause, First, connectVars
  <1>4. CASE BeginConnect
    BY <1>4, <1>c DEF BeginConnect, EnterConnect, Up
  <1>5. CASE Connecting
    <2>1. CASE InitDone \/ PinDone \/ DpiDone \/ CoreStarted \/ TunStarted
      BY <2>1, <1>c DEF InitDone, PinDone, DpiDone, CoreStarted, TunStarted, OffInv
    <2>2. CASE Publish
      BY <2>2 DEF Publish, OffInv, IdleIsDown
    <2>3. CASE AbortConnect
      BY <2>3 DEF AbortConnect, OffInv, IdleIsDown, Up
    <2>4. CASE RetryConnect
      BY <2>4, <1>c DEF RetryConnect, EnterConnect, Up
    <2>5. CASE GiveUp
      BY <2>5, <1>b DEF GiveUp, TeardownFinal
    <2> QED
      BY <1>5, <2>1, <2>2, <2>3, <2>4, <2>5 DEF Connecting
  <1>6. CASE DestroyLocked
    BY <1>6, <1>b DEF DestroyLocked, Destroy, connectVars, OffInv
  <1>7. CASE DestroyForced
    BY <1>7, <1>b DEF DestroyForced, Destroy, connectVars, OffInv
  <1> QED
    BY <1>1, <1>2, <1>3, <1>4, <1>5, <1>6, <1>7, InsideOrAside DEF Inside
-----------------------------------------------------------------------------
(* A destroyed service.                                                      *)

\* All that can still happen: a connect() the destruction overtook runs out, the
\* network changes, and checks and AppWatch end.
Dying ==
  \/ DpiDone \/ CoreStarted \/ TunStarted \/ Publish \/ AbortConnect
  \/ (RetryConnect \/ GiveUp) /\ phase \in {"core", "tun"}
  \/ NetworkChanges \/ ScreenOn \/ MonitorsEnd \/ AppWatchEnds \/ UNCHANGED vars

LEMMA DyingStep ==
  ASSUME TypeOK, LockInv, Quiet, service = "destroyed", [Next]_vars
  PROVE  Dying
  <1>0. queue = <<>> /\ running = {} /\ ~refresh /\ ~holder.live
    BY DEF Quiet
  <1>1. ~Commands
    BY DEF Commands, StartCommand, StopCommand, PauseCommand, Revoke, Command
  <1>2. ~Locked
    BY <1>0 DEF Locked, DropCancelled, RunStop, RunPause, BeginConnect, First
  <1>3. ~(InitDone \/ PinDone)
    BY <1>0 DEF InitDone, PinDone
  <1>4. (RetryConnect \/ GiveUp) => phase \in {"core", "tun"}
    BY <1>0 DEF RetryConnect, GiveUp, CanFail
  <1>5. Background => ScreenOn \/ MonitorsEnd \/ AppWatchEnds
    BY <1>0 DEF Background, Monitor, CheckPassed, Heal, JobConnects, JobEnds, Launched
  <1>6. ~Network
    BY <1>0 DEF Network, RefreshSame, RefreshChange, NetSettled, NetRechecked
  <1>7. ~(PauseOver \/ DestroyLocked \/ DestroyForced)
    BY <1>0 DEF PauseOver, DestroyLocked, DestroyForced, Destroy
  <1> QED
    BY <1>1, <1>2, <1>3, <1>4, <1>5, <1>6, <1>7 DEF Next, Connecting, Dying

LEMMA QuietStep ==
  ASSUME TypeOK, LockInv, Quiet, [Next]_vars
  PROVE  Quiet'
  <1>1. CASE service = "destroyed"
    <2>0. queue = <<>> /\ running = {} /\ ~refresh /\ ~holder.live
      BY <1>1 DEF Quiet
    <2>1. CASE DpiDone \/ CoreStarted \/ TunStarted
      BY <2>0, <2>1 DEF DpiDone, CoreStarted, TunStarted, Quiet, lockVars, netVars
    <2>2. CASE Publish
      <3>1. holder # Task("opt")
        BY <2>0 DEF Task
      <3>2. ~refresh'
        BY <2>0, <2>2, <1>1, Zenon DEF Publish, WatchNetwork
      <3> QED
        BY <1>1, <2>0, <2>2, <3>1, <3>2, TaskType DEF Publish, Quiet
    <2>3. CASE AbortConnect
      BY <2>0, <2>3, TaskType DEF AbortConnect, Quiet, netVars
    <2>4. CASE RetryConnect
      BY <2>0, <2>4 DEF RetryConnect, EnterConnect, TeardownEngines, Quiet, netVars
    <2>5. CASE GiveUp
      <3>1. Cancelled(FinalJobs) = <<>>
        BY <2>0, CancelledType DEF TypeOK, ValuesOK
      <3> QED
        BY <2>0, <2>5, <3>1, TaskType DEF GiveUp, TeardownFinal, TeardownEngines, Quiet
    <2>6. CASE NetworkChanges
      BY <1>1, <2>0, <2>6 DEF NetworkChanges, Quiet, lockVars
    <2>7. CASE ScreenOn \/ MonitorsEnd \/ AppWatchEnds
      BY <2>0, <2>7 DEF ScreenOn, MonitorsEnd, AppWatchEnds, Quiet, lockVars, netVars
    <2>8. CASE UNCHANGED vars
      BY <2>0, <2>8 DEF vars, Quiet, lockVars, netVars
    <2> QED
      BY <1>1, <2>1, <2>2, <2>3, <2>4, <2>5, <2>6, <2>7, <2>8, DyingStep DEF Dying
  <1>2. CASE service # "destroyed"
    <2>1. CASE DestroyLocked
      BY <2>1, TaskType DEF DestroyLocked, Destroy, TeardownEngines, Quiet
    <2>2. CASE DestroyForced
      <3>1. [holder EXCEPT !.live = FALSE].live = FALSE
        BY DEF TypeOK, ValuesOK, Tasks
      <3> QED
        BY <2>2, <3>1 DEF DestroyForced, Destroy, TeardownEngines, Quiet
    <2>3. CASE RunStop \/ RunPause \/ BeginConnect \/ Connecting
      BY <1>2, <2>3 DEF RunStop, RunPause, BeginConnect, Connecting, InitDone, PinDone,
         DpiDone, CoreStarted, TunStarted, Publish, AbortConnect, RetryConnect, GiveUp,
         Quiet
    <2>4. CASE Aside
      BY <1>2, <2>4 DEF Aside, Quiet
    <2> QED
      BY <2>1, <2>2, <2>3, <2>4, InsideOrAside DEF Inside
  <1> QED
    BY <1>1, <1>2
-----------------------------------------------------------------------------
(* The repair of a tunnel that a cancelled connect() left behind.            *)

Lost == /\ service = "alive" /\ status \in Up /\ ~holder.live
        /\ core = NoPort \/ holder # Free

\* A repair on its way is not lost as long as queue, netJob and gate stay.
LEMMA RepairStays ==
  ASSUME RepairComes, UNCHANGED <<queue, current, revision, ticket>>,
         running \intersect NetJob \subseteq running'
  PROVE  RepairComes'
  BY DEF RepairComes, WillRun, Handoff!Valid

\* A coroutine that asks for the lock is a repair itself.
LEMMA RepairAsked ==
  ASSUME NEW q \in Seq(Tasks), NEW t \in Tasks, t.live,
         t.kind = "net" => Handoff!Valid(ticket)', queue' = Append(q, t)
  PROVE  RepairComes'
  <1>1. /\ Len(q) + 1 \in DOMAIN queue'
        /\ queue'[Len(q) + 1] = t
    OBVIOUS
  <1> QED
    BY <1>1 DEF RepairComes, WillRun

\* Nor is it lost when a coroutine that would not have run leaves the queue.
LEMMA RepairShifts ==
  ASSUME queue \in Seq(Tasks), queue # <<>>, ~WillRun(1), RepairComes,
         queue' = Tail(queue), UNCHANGED <<running, current, revision, ticket>>
  PROVE  RepairComes'
  <1>1. CASE \E i \in DOMAIN queue : WillRun(i)
    <2>1. PICK i \in DOMAIN queue : WillRun(i)
      BY <1>1
    <2>2. i \in 2..Len(queue)
      BY <2>1
    <2>3. i - 1 \in DOMAIN queue' /\ queue'[i - 1] = queue[i]
      BY <2>2
    <2>4. WillRun(i - 1)'
      BY <2>1, <2>3 DEF WillRun, Handoff!Valid
    <2> QED
      BY <2>3, <2>4 DEF RepairComes
  <1>2. CASE running \intersect NetJob # {} /\ Handoff!Valid(ticket)
    BY <1>2 DEF RepairComes, Handoff!Valid
  <1>3. CASE current = NoNet
    BY <1>3 DEF RepairComes
  <1> QED
    BY <1>1, <1>2, <1>3 DEF RepairComes

LEMMA RepairStep ==
  ASSUME TypeOK, LockInv, CoreUp, OffInv, Repair, [Next]_vars
  PROVE  Repair'
  <1> SUFFICES ASSUME Lost' PROVE RepairComes'
    BY DEF Repair, Lost
  <1>a. Lost => RepairComes
    BY DEF Repair, Lost
  <1>b. ASSUME UNCHANGED <<service, status, holder, core>> PROVE Lost
    BY <1>b DEF Lost
  <1>c. ASSUME UNCHANGED <<service, status, holder, core, queue, netVars>>,
               running \intersect NetJob \subseteq running'
        PROVE  RepairComes'
    BY <1>a, <1>b, <1>c, RepairStays DEF netVars
  <1>q. queue \in Seq(Tasks) /\ \A ks : Cancelled(ks) \in Seq(Tasks)
    BY CancelledType DEF TypeOK, ValuesOK
  <1>t. \A k \in {"start", "stop", "pause", "revoke", "heal", "opt", "rescue", "resume",
                  "soft", "hard"} :
          Task(k) \in Tasks /\ Task(k).live /\ Task(k).kind # "net"
    BY TaskType DEF Kinds, Soft
  <1>1. CASE StartCommand
    BY <1>1, <1>q, <1>t, RepairAsked DEF StartCommand, Command
  <1>2. CASE StopCommand
    BY <1>2, <1>q, <1>t, RepairAsked DEF StopCommand, Command
  <1>3. CASE PauseCommand
    BY <1>3, <1>q, <1>t, RepairAsked DEF PauseCommand, Command
  <1>4. CASE Revoke
    BY <1>4, <1>q, <1>t, RepairAsked DEF Revoke, Command
  <1>5. CASE DropCancelled
    <2>1. ~WillRun(1)
      BY <1>5, <1>q DEF DropCancelled, WillRun
    <2>2. Lost
      BY <1>5, <1>b DEF DropCancelled, engineVars
    <2> QED
      BY <1>5, <1>a, <1>q, <2>1, <2>2, RepairShifts DEF DropCancelled, netVars
  <1>7. CASE RunStop
    BY <1>7 DEF RunStop, Lost
  <1>8. CASE RunPause
    BY <1>8 DEF RunPause, Lost, Up
  <1>9. CASE BeginConnect
    BY <1>9 DEF BeginConnect, First, EnterConnect, Lost
  <1>10. CASE InitDone \/ PinDone
    BY <1>10 DEF InitDone, PinDone, lockVars, Lost
  <1>11. CASE DpiDone
    BY <1>11, <1>c DEF DpiDone, lockVars, engineVars
  <1>12. CASE CoreStarted \/ TunStarted
    <2>1. holder # Free
      BY <1>12, LockFree DEF CoreStarted, TunStarted
    <2>2. Lost
      BY <1>12, <2>1 DEF CoreStarted, TunStarted, lockVars, Lost
    <2> QED
      BY <1>12, <1>a, <2>2, RepairStays DEF CoreStarted, TunStarted, lockVars, netVars
  <1>13. CASE Publish
    BY <1>13 DEF Publish, CoreUp, engineVars, Lost
  <1>14. CASE AbortConnect
    <2>1. holder # Free
      BY <1>14, LockFree DEF AbortConnect
    <2>2. Lost
      BY <1>14, <2>1 DEF AbortConnect, Lost
    <2> QED
      BY <1>14, <1>a, <2>2, RepairStays DEF AbortConnect, netVars
  <1>15. CASE RetryConnect
    <2>1. holder # Free /\ phase # "none"
      BY <1>15, LockFree DEF RetryConnect, CanFail
    <2>2. Lost
      BY <1>15, <2>1 DEF RetryConnect, EnterConnect, OffInv, Lost
    <2> QED
      BY <1>15, <1>a, <2>2, RepairStays DEF RetryConnect, netVars
  <1>16. CASE GiveUp
    BY <1>16 DEF GiveUp, Lost
  <1>17. CASE DestroyLocked \/ DestroyForced
    BY <1>17 DEF DestroyLocked, DestroyForced, Destroy, Lost
  <1>18. CASE PauseOver
    <2>1. CASE paused
      BY <1>18, <2>1, <1>q, <1>t, RepairAsked DEF PauseOver
    <2>2. CASE ~paused
      BY <1>18, <2>2, <1>c DEF PauseOver, NetJob, engineVars
    <2> QED
      BY <2>1, <2>2
  <1>19. CASE CheckPassed
    BY <1>19, <1>c DEF CheckPassed, lockVars, engineVars
  <1>20. CASE Heal
    BY <1>20, <1>c DEF Heal, lockVars, engineVars
  <1>21. CASE ScreenOn \/ MonitorsEnd \/ AppWatchEnds
    BY <1>21, <1>c DEF ScreenOn, MonitorsEnd, AppWatchEnds, lockVars, engineVars
  <1>22. ASSUME NEW k \in {"heal", "opt", "rescue"}, JobConnects(k)
         PROVE  RepairComes'
    BY <1>22, <1>q, <1>t, RepairAsked DEF JobConnects
  <1>23. ASSUME NEW k \in {"heal", "opt", "rescue"}, JobEnds(k)
         PROVE  RepairComes'
    BY <1>23, <1>c DEF JobEnds, NetJob, lockVars, engineVars
  <1>24. ASSUME NEW k \in {"soft", "hard"}, Launched(k)
         PROVE  RepairComes'
    BY <1>24, <1>q, <1>t, RepairAsked DEF Launched
  <1>25. CASE NetworkChanges
    BY <1>25, <1>a, <1>b, RepairStays DEF NetworkChanges, lockVars, engineVars
  <1>26. CASE RefreshSame
    BY <1>26, <1>a, <1>b, RepairStays DEF RefreshSame, lockVars, engineVars
  <1>27. CASE RefreshChange
    <2>1. current' = net
      BY <1>27 DEF RefreshChange, Handoff!Update
    <2>2. net # NoNet => "net" \in running' /\ ticket' = revision'
      BY <1>27 DEF RefreshChange
    <2> QED
      BY <2>1, <2>2 DEF RepairComes, NetJob, Handoff!Valid
  <1>28. CASE NetSettled
    <2>1. UNCHANGED <<service, status, holder, core, queue, current, revision, ticket>>
      BY <1>28 DEF NetSettled, lockVars, engineVars, netVars
    <2>2. Lost /\ RepairComes
      BY <1>a, <1>b, <2>1
    <2>3. CASE Handoff!Valid(ticket)
      <3>1. "recheck" \in running'
        BY <1>28, <2>2, <2>3 DEF NetSettled, Lost
      <3> QED
        BY <2>1, <2>3, <3>1 DEF RepairComes, NetJob, Handoff!Valid
    <2>4. CASE ~Handoff!Valid(ticket)
      BY <2>1, <2>2, <2>4 DEF RepairComes, WillRun, Handoff!Valid
    <2> QED
      BY <2>3, <2>4
  <1>29. CASE NetRechecked
    <2>1. UNCHANGED <<service, status, holder, core, current, revision, ticket>>
      BY <1>29 DEF NetRechecked, engineVars, netVars
    <2>2. CASE Handoff!Valid(ticket)
      <3>1. queue' = Append(queue, Task("net")) /\ Task("net") \in Tasks /\ Task("net").live
        BY <1>29, <2>2, TaskType DEF NetRechecked, Kinds, Soft
      <3>2. Handoff!Valid(ticket)'
        BY <2>1, <2>2 DEF Handoff!Valid
      <3> QED
        BY <1>q, <3>1, <3>2, RepairAsked
    <2>3. CASE ~Handoff!Valid(ticket)
      <3>1. queue' = queue
        BY <1>29, <2>3 DEF NetRechecked
      <3>2. RepairComes
        BY <1>a, <1>b, <2>1
      <3> QED
        BY <2>1, <2>3, <3>1, <3>2 DEF RepairComes, WillRun, Handoff!Valid
    <2> QED
      BY <2>2, <2>3
  <1>30. CASE UNCHANGED vars
    BY <1>30, <1>c DEF vars, lockVars, engineVars
  <1> QED
    BY <1>1, <1>2, <1>3, <1>4, <1>5, <1>7, <1>8, <1>9, <1>10, <1>11, <1>12,
       <1>13, <1>14, <1>15, <1>16, <1>17, <1>18, <1>19, <1>20, <1>21, <1>22, <1>23,
       <1>24, <1>25, <1>26, <1>27, <1>28, <1>29, <1>30
       DEF Next, Commands, Locked, Connecting, Background, Network
-----------------------------------------------------------------------------
(* The theorems.                                                             *)

LEMMA IInvInit ==
  ASSUME Init
  PROVE  IInv
  <1>1. FlagsOK
    BY Zenon DEF Init, FlagsOK
  <1>2. ValuesOK
    BY TaskType DEF Init, ValuesOK
  <1>3. LockInv /\ PortsAgree /\ CoreUp
    BY DEF Init, LockInv, PortsAgree, TunFollowsCore, CoreUp
  <1>4. OffInv /\ Quiet /\ Repair
    BY DEF Init, OffInv, IdleIsDown, Quiet, Repair, Up
  <1> QED
    BY <1>1, <1>2, <1>3, <1>4 DEF IInv, TypeOK

LEMMA IInvStep ==
  ASSUME IInv, [Next]_vars
  PROVE  IInv'
  BY TypeStep, LockStep, PortsStep, CoreUpStep, OffStep, QuietStep, RepairStep DEF IInv

\* The inductive invariant holds in every reachable state.
LEMMA Invariance == Spec => []IInv
  BY IInvInit, IInvStep, PTL DEF Spec

\* TypeOK: in particular connect() never retries more than twice in a row.
THEOREM TypeCorrect == Spec => []TypeOK
  <1>1. IInv => TypeOK
    BY DEF IInv
  <1> QED
    BY <1>1, Invariance, PTL

\* The TUN engine, the published local proxy and the core of the service never
\* know different ports, over any sequence of soft and hard reconnects, retries,
\* cancellations and the unlocked teardown of onDestroy().
THEOREM TunAndCoreAgree == Spec => []TunFollowsCore
  <1>1. IInv => TunFollowsCore
    BY DEF IInv, PortsAgree
  <1> QED
    BY <1>1, Invariance, PTL

\* After a stop, a pause, a revocation or a failed start nothing runs that the
\* status does not show.
THEOREM OffIsOff == Spec => []IdleIsDown
  <1>1. IInv => IdleIsDown
    BY DEF IInv, OffInv
  <1> QED
    BY <1>1, Invariance, PTL

\* A tunnel without a core that calls itself connected, or connecting with nobody
\* at it, is always about to be rebuilt or stopped.
THEOREM RepairIsPending == Spec => []RepairPending
  <1>1. IInv => RepairPending
    BY TaskType DEF IInv, Repair, RepairPending
  <1> QED
    BY <1>1, Invariance, PTL

\* scope.cancel() keeps a connect() that onDestroy() overtook before it had an
\* engine from starting any.
THEOREM DestroyedStartsNothing == Spec => DestroyStopsConnect
  <1>1. ASSUME IInv, [Next]_vars,
               service = "destroyed", phase \in {"none", "init", "pin"}
        PROVE  UNCHANGED engineVars
    <2>1. Dying
      BY <1>1, DyingStep DEF IInv
    <2>2. CASE DpiDone \/ CoreStarted \/ TunStarted \/ Publish
      BY <1>1, <2>2 DEF DpiDone, CoreStarted, TunStarted, Publish
    <2>3. CASE AbortConnect
      BY <2>3 DEF AbortConnect
    <2>4. CASE NetworkChanges \/ ScreenOn \/ MonitorsEnd \/ AppWatchEnds
      BY <2>4 DEF NetworkChanges, ScreenOn, MonitorsEnd, AppWatchEnds
    <2>5. CASE UNCHANGED vars
      BY <2>5 DEF vars
    <2> QED
      BY <1>1, <2>1, <2>2, <2>3, <2>4, <2>5 DEF Dying
  <1>2. IInv /\ [Next]_vars =>
          [service = "destroyed" /\ phase \in {"none", "init", "pin"}
             => UNCHANGED engineVars]_vars
    BY <1>1
  <1> QED
    BY <1>2, Invariance, PTL DEF Spec, DestroyStopsConnect
=============================================================================

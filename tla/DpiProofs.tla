------------------------------ MODULE DpiProofs ------------------------------
(***************************************************************************)
(* Proofs about Dpi for any number of engines, ports and crashes.          *)
(***************************************************************************)
EXTENDS Dpi, WellFoundedInduction, TLAPS

\* Who runs when: start() is over before the watch loop begins and before close(),
\* and the loop starts nothing once close() has cancelled it.
Order ==
  /\ pc["start"] # "idle" => at \in Engines /\ eng["start"] = at
  /\ pc["start"] # "idle" /\ Current(at) => at \in procs
  /\ at \in Engines => watch = "none" /\ close = "open"
  /\ pc["watch"] # "idle" => watch = "active" /\ eng["watch"] \in todo
  /\ todo # {} => watch = "active"
  /\ watch # "none" => at = N + 1
  /\ close # "open" /\ watch = "active" => "watch" \in cancelled
  /\ close = "open" => todo \subseteq procs
  /\ close = "swap" => rest # {}
  /\ close = "closed" => rest = {}

\* A thread in DpiProxy.start is the only one that has a child of its engine, none
\* before the launch.
Launched ==
  \A t \in Threads :
    /\ pc[t] # "idle" => /\ arg[t] \in Ports
                         /\ \A c \in alive : c.engine = eng[t] =>
                              pc[t] # "launch" /\ c = child[t] /\ c.port = arg[t]
    /\ pc[t] \in {"assign", "poll"} =>
         /\ child[t] \in Children /\ child[t].engine = eng[t]
         /\ eng[t] \notin InProcess

\* The fields of the proxies: a `process` is a child of its engine; a member's port is
\* the announced one or none, and a revival is on the announced port.
Proxies ==
  /\ \A e \in Engines : process[e] # NoChild => process[e].engine = e /\ e \notin InProcess
  /\ \A c \in alive : c.engine \notin InProcess
  /\ \A e \in Engines : announced[e] # NoPort => port[e] \in {NoPort, announced[e]}
  /\ pc["watch"] # "idle" =>
       /\ eng["watch"] \notin InProcess
       /\ announced[eng["watch"]] # NoPort => arg["watch"] = announced[eng["watch"]]
  /\ pc["watch"] \in {"poll", "return"} /\ close = "open" =>
       process[eng["watch"]] = child["watch"]
  /\ pc["start"] = "poll" => process[at] = child["start"]
  /\ pc["start"] = "return" =>
       /\ port[at] = arg["start"]
       /\ at \notin InProcess => process[at] = child["start"]

\* Of the engines that start() has not come to nothing runs and nothing is announced.
Untouched ==
  at \in Engines =>
    /\ \A c \in alive : c.engine < at \/ (c.engine = at /\ pc["start"] # "idle")
    /\ \A e \in xray : e < at \/ (e = at /\ pc["start"] = "return")
    /\ \A e \in Engines : announced[e] # NoPort => e < at

\* A start() that threw has nothing but the current engine, which is a member.
Failed ==
  at = 0 /\ close = "open" =>
    1 \in procs /\ xray \subseteq {1} /\ \A c \in alive : c.engine = 1

\* While the set is being closed: what runs is of an engine that close() has still to
\* come to, and is what close() will find there or has found, or it is in the hands of
\* the watch loop, which assigns it and then, being cancelled, closes it, or it was
\* snatched.
Coming(c) == pc["watch"] = "assign" /\ c = child["watch"]
Loose(c) ==
  \/ c \in snatched
  \/ Coming(c)
  \/ pc["watch"] = "poll" /\ c = child["watch"] /\ process[c.engine] = c
Shutting ==
  /\ close # "open" =>
       \A c \in alive : c.engine \in rest => process[c.engine] = c \/ Loose(c)
  /\ close = "swap" =>
       \A c \in alive : c.engine = First(rest) => c = old \/ c \in snatched \/ Coming(c)
  /\ close # "open" /\ "start" \notin cancelled =>
       /\ xray \subseteq rest
       /\ \A c \in alive : c.engine \in rest \/ Loose(c)

IInv == /\ TypeOK /\ Order /\ Launched /\ Proxies /\ Untouched /\ Failed /\ Shutting
        /\ OneChild /\ MembersReachable /\ SkippedIsDown
-----------------------------------------------------------------------------
(* Facts used throughout.                                                  *)

\* A set of engines that is not empty has a first one: the order in which procs is
\* walked is well defined.
LEMMA FirstIn ==
  ASSUME NEW S, S \subseteq Engines, S # {}
  PROVE  First(S) \in S
<1>1. S \subseteq Nat
  BY DpiAssumption DEF Engines
<1>2. \E x \in S : \A y \in S : ~(<<y, x>> \in OpToRel(<, Nat))
  BY <1>1, NatLessThanWellFounded, WFMin
<1>3. PICK x \in S : \A y \in S : ~(y < x)
  BY <1>1, <1>2 DEF OpToRel
<1>4. \E e \in S : \A f \in S : e <= f
  BY <1>1, <1>3
<1> QED
  BY <1>4 DEF First

\* Engines are numbers.
LEMMA Numbers ==
  ASSUME IInv
  PROVE  /\ at \in Int /\ Engines \subseteq Int
         /\ \A c \in alive : c.engine \in Int
         /\ \A e \in xray : e \in Int
<1>1. at \in Int /\ Engines \subseteq Int
  BY DpiAssumption DEF IInv, TypeOK, Engines
<1>2. alive \subseteq Children /\ xray \subseteq Engines
  BY DpiAssumption DEF IInv, TypeOK
<1> QED
  BY <1>1, <1>2 DEF Children

\* What DpiProxy.close leaves of one proxy; the others are not touched.
Shuts(e) ==
  /\ process' \in [Engines -> Children \union {NoChild}] /\ process'[e] = NoChild
  /\ port' \in [Engines -> Ports \union {NoPort}] /\ port'[e] \in {NoPort, port[e]}
  /\ \A f \in Engines \ {e} : process'[f] = process[f] /\ port'[f] = port[f]
  /\ xray' = xray \ {e} /\ alive' = alive \ {process[e]}

\* A thread enters DpiProxy.start.
Enters(t, e, p) ==
  /\ pc' = [pc EXCEPT ![t] = "launch"] /\ eng' = [eng EXCEPT ![t] = e]
  /\ arg' = [arg EXCEPT ![t] = p] /\ child' = child
  /\ Shuts(e)

\* What DpiProxy.close does.
LEMMA CloseEffect ==
  ASSUME TypeOK, NEW e \in Engines, CloseProxy(e)
  PROVE  Shuts(e)
BY DEF CloseProxy, Shuts, TypeOK

\* A thread in DpiProxy.start has its engine and its port.
LEMMA Busy ==
  ASSUME IInv, NEW t \in Threads, pc[t] # "idle"
  PROVE  eng[t] \in Engines /\ arg[t] \in Ports
BY DEF IInv, TypeOK, Order, Launched, Threads

\* One thread at a time is in DpiProxy.start: the watch loop begins after start().
LEMMA Alone ==
  ASSUME IInv, NEW t \in Threads, pc[t] # "idle"
  PROVE  \A u \in Threads \ {t} : pc[u] = "idle"
BY DEF IInv, Order, Threads

\* DpiSet.start enters DpiProxy.start with a free port.
LEMMA BeginEffect ==
  ASSUME IInv, Begin
  PROVE  at \in Engines /\ \E p \in Ports : Enters("start", at, p)
<1>1. at \in Engines
  BY DEF Begin
<1>2. PICK p \in Free : EnterStart("start", at, p)
  BY DEF Begin
<1>3. Shuts(at)
  BY <1>1, <1>2, CloseEffect DEF EnterStart, IInv
<1>4. p \in Ports /\ Enters("start", at, p)
  BY <1>2, <1>3 DEF EnterStart, Enters, Free
<1> QED
  BY <1>1, <1>4

\* reviveIfDead enters it with the port of the engine that died.
LEMMA ReviveEffect ==
  ASSUME IInv, Revive
  PROVE  \E e \in todo : Enters("watch", e, port[e]) /\ port[e] # NoPort /\ Dead(e)
<1> DEFINE e == First(todo)
<1>1. e \in todo /\ e \in Engines
  BY FirstIn DEF Revive, IInv, TypeOK
<1>2. EnterStart("watch", e, port[e]) /\ port[e] # NoPort /\ Dead(e)
  BY DEF Revive
<1> HIDE DEF e
<1>3. Shuts(e)
  BY <1>1, <1>2, CloseEffect DEF EnterStart, IInv
<1>4. Enters("watch", e, port[e])
  BY <1>2, <1>3 DEF EnterStart, Enters
<1> QED
  BY <1>1, <1>2, <1>4

\* A start that fails closes its proxy.
LEMMA ThrowsEffect ==
  ASSUME IInv, NEW t \in Threads, Throws(t)
  PROVE  eng[t] \in Engines /\ Shuts(eng[t])
<1>1. eng[t] \in Engines /\ CloseProxy(eng[t])
  BY Busy DEF Throws
<1> QED
  BY <1>1, CloseEffect DEF IInv

\* The state before start().
LEMMA InitIInv == Init => IInv
<1> SUFFICES ASSUME Init PROVE IInv
  OBVIOUS
<1>1. TypeOK
  BY DpiAssumption DEF Init, TypeOK, Threads, Engines
<1>2. Order /\ Launched /\ Proxies
  BY DpiAssumption DEF Init, Order, Launched, Proxies, Threads, Engines
<1>3. Untouched /\ Failed /\ Shutting
  BY DpiAssumption DEF Init, Untouched, Failed, Shutting, Engines
<1>4. OneChild /\ MembersReachable /\ SkippedIsDown
  BY DpiAssumption DEF Init, OneChild, MembersReachable, SkippedIsDown, Engines
<1> QED
  BY <1>1, <1>2, <1>3, <1>4 DEF IInv

\* Types.
LEMMA TypeOKStep ==
  ASSUME IInv, [Next]_vars
  PROVE  TypeOK'
<1> USE DpiAssumption DEF Engines
<1>1. ASSUME NEW t \in Threads, Launch(t) PROVE TypeOK'
  <2>1. eng[t] \in Engines /\ arg[t] \in Ports
    BY <1>1, Busy DEF Launch
  <2>2. [engine |-> eng[t], id |-> spawned + 1, port |-> arg[t]] \in Children
    BY <2>1 DEF IInv, TypeOK, Children
  <2>3. child' \in [Threads -> Children \union {NoChild}] /\ alive' \subseteq Children
    BY <1>1, <2>2 DEF Launch, IInv, TypeOK
  <2> QED
    BY <1>1, <2>3 DEF Launch, watchVars, proxyVars, closeVars, IInv, TypeOK
<1>2. ASSUME NEW t \in Threads, Assign(t) PROVE TypeOK'
  <2>1. child[t] \in Children
    BY <1>2 DEF Assign, IInv, Launched
  <2>2. snatched' \subseteq Children
    BY <1>2, <2>1 DEF Assign, IInv, TypeOK
  <2> QED
    BY <1>2, <2>2 DEF Assign, watchVars, IInv, TypeOK, Order, Threads
<1>3. ASSUME NEW t \in Threads, Answers(t) PROVE TypeOK'
  BY <1>3 DEF Answers, watchVars, closeVars, IInv, TypeOK, Order, Threads
<1>4. ASSUME NEW t \in Threads, LaunchXray(t) PROVE TypeOK'
  BY <1>4 DEF LaunchXray, watchVars, closeVars, IInv, TypeOK, Order, Threads
<1>5. ASSUME NEW t \in Threads, Throws(t) PROVE TypeOK'
  <2>1. eng[t] \in Engines /\ Shuts(eng[t])
    BY <1>5, ThrowsEffect
  <2>2. xray' \subseteq InProcess /\ alive' \subseteq Children
    BY <2>1 DEF Shuts, IInv, TypeOK
  <2>3. at' \in 0..(N + 1) /\ todo' \subseteq Engines
    <3>1. CASE t = "start"
      <4>1. at \in Engines /\ (at' = 0 \/ at' = at + 1) /\ todo' = todo
        BY <1>5, <3>1 DEF Throws, StartThrows, IInv, Order
      <4> QED
        BY <4>1 DEF IInv, TypeOK
    <3>2. CASE t # "start"
      BY <1>5, <3>2 DEF Throws, IInv, TypeOK
    <3> QED
      BY <3>1, <3>2
  <2> QED
    BY <1>5, <2>1, <2>2, <2>3 DEF Throws, Shuts, closeVars, IInv, TypeOK
<1>6. CASE Begin
  <2>1. PICK p \in Ports : Enters("start", at, p)
    BY <1>6, BeginEffect
  <2>2. /\ xray' \subseteq InProcess /\ alive' \subseteq Children
        /\ pc' \in [Threads -> {"idle", "launch", "assign", "poll", "return"}]
        /\ eng' \in [Threads -> 0..N] /\ arg' \in [Threads -> Ports \union {NoPort}]
    <3>1. at \in 0..N
      BY <1>6 DEF Begin
    <3> QED
      BY <2>1, <3>1 DEF Enters, Shuts, IInv, TypeOK
  <2> QED
    BY <1>6, <2>1, <2>2 DEF Begin, Enters, Shuts, watchVars, closeVars, IInv, TypeOK
<1>7. CASE NotBegun
  <2>1. at' \in 0..(N + 1) /\ procs' \subseteq Engines
    BY <1>7 DEF NotBegun, StartThrows, IInv, TypeOK
  <2> QED
    BY <1>7, <2>1 DEF NotBegun, threadVars, watchVars, proxyVars, closeVars, IInv, TypeOK
<1>8. CASE StartReturns
  <2>1. at \in Engines
    BY <1>8 DEF StartReturns, IInv, Order
  <2>2. at' \in 0..(N + 1) /\ procs' \subseteq Engines
    <3>1. at' = 0 \/ at' = at + 1
      BY <1>8 DEF StartReturns, StartThrows
    <3>2. procs' = procs \/ procs' = procs \union {at}
      BY <1>8 DEF StartReturns
    <3>3. at' \in 0..(N + 1)
      BY <2>1, <3>1
    <3> QED
      BY <2>1, <3>2, <3>3 DEF IInv, TypeOK
  <2>3. announced' \in [Engines -> Ports \union {NoPort}]
    BY <1>8, <2>1 DEF StartReturns, StartThrows, IInv, TypeOK, Threads
  <2> QED
    BY <1>8, <2>2, <2>3 DEF StartReturns, watchVars, proxyVars, closeVars, IInv, TypeOK
<1>9. CASE Cancel
  BY <1>9 DEF Cancel, threadVars, watchVars, proxyVars, closeVars, IInv, TypeOK, Order,
       Threads
<1>10. CASE Watch
  BY <1>10 DEF Watch, threadVars, proxyVars, closeVars, IInv, TypeOK, Order, Threads
<1>11. CASE Round
  BY <1>11 DEF Round, Looping, threadVars, proxyVars, closeVars, IInv, TypeOK, Order,
       Threads
<1>12. CASE WatchEnds
  BY <1>12 DEF WatchEnds, Looping, threadVars, proxyVars, closeVars, IInv, TypeOK,
       Order, Threads
<1>13. CASE LookAt
  BY <1>13 DEF LookAt, Looping, threadVars, proxyVars, closeVars, IInv, TypeOK, Order,
       Threads
<1>14. CASE Revive
  <2>1. PICK e \in todo : Enters("watch", e, port[e]) /\ port[e] # NoPort
    BY <1>14, ReviveEffect
  <2>2. /\ xray' \subseteq InProcess /\ alive' \subseteq Children
        /\ pc' \in [Threads -> {"idle", "launch", "assign", "poll", "return"}]
        /\ eng' \in [Threads -> 0..N] /\ arg' \in [Threads -> Ports \union {NoPort}]
    <3>1. e \in 0..N /\ port[e] \in Ports \union {NoPort}
      BY <2>1 DEF IInv, TypeOK
    <3> QED
      BY <2>1, <3>1 DEF Enters, Shuts, IInv, TypeOK
  <2> QED
    BY <1>14, <2>1, <2>2 DEF Revive, Enters, Shuts, closeVars, IInv, TypeOK
<1>15. CASE Revived
  BY <1>15 DEF Revived, proxyVars, closeVars, IInv, TypeOK, Order, Threads
<1>16. CASE CloseBegins
  BY <1>16 DEF CloseBegins, threadVars, watchVars, proxyVars, IInv, TypeOK, Order,
       Threads
<1>17. CASE CloseReads
  <2>1. old' \in Children \union {NoChild}
    BY <1>17, FirstIn DEF CloseReads, IInv, TypeOK
  <2> QED
    BY <1>17, <2>1 DEF CloseReads, threadVars, watchVars, proxyVars, IInv, TypeOK
<1>18. CASE CloseWrites
  BY <1>18 DEF CloseWrites, threadVars, watchVars, IInv, TypeOK, Order, Threads
<1>19. CASE CloseEnds
  BY <1>19 DEF CloseEnds, threadVars, watchVars, proxyVars, IInv, TypeOK, Order, Threads
<1>20. CASE Crash
  <2>1. crashes' \in 0..MaxCrashes /\ alive' \subseteq Children
    BY <1>20 DEF Crash, IInv, TypeOK
  <2> QED
    BY <1>20, <2>1 DEF Crash, threadVars, watchVars, proxyVars, closeVars, IInv, TypeOK
<1>21. CASE UNCHANGED vars
  BY <1>21 DEF vars, threadVars, watchVars, proxyVars, closeVars, IInv, TypeOK, Order,
       Threads
<1> QED
  BY <1>1, <1>2, <1>3, <1>4, <1>5, <1>6, <1>7, <1>8, <1>9, <1>10, <1>11, <1>12, <1>13,
       <1>14, <1>15, <1>16, <1>17, <1>18, <1>19, <1>20, <1>21 DEF Next, Starting,
       Watching, Closing

\* The order of the threads.
LEMMA OrderStep ==
  ASSUME IInv, [Next]_vars
  PROVE  Order'
<1> USE DpiAssumption DEF Engines
<1>1. ASSUME NEW t \in Threads, Launch(t) PROVE Order'
  BY <1>1 DEF Launch, watchVars, proxyVars, closeVars, IInv, TypeOK, Order, Threads
<1>2. ASSUME NEW t \in Threads, Assign(t) PROVE Order'
  BY <1>2 DEF Assign, watchVars, closeVars, IInv, TypeOK, Order, Threads
<1>3. ASSUME NEW t \in Threads, Answers(t) PROVE Order'
  BY <1>3 DEF Answers, watchVars, closeVars, IInv, TypeOK, Order, Threads
<1>4. ASSUME NEW t \in Threads, LaunchXray(t) PROVE Order'
  BY <1>4 DEF LaunchXray, watchVars, closeVars, IInv, TypeOK, Order, Threads
<1>5. ASSUME NEW t \in Threads, Throws(t) PROVE Order'
  BY <1>5 DEF Throws, closeVars, StartThrows, IInv, TypeOK, Order, Threads
<1>6. CASE Begin
  <2>1. PICK p \in Ports : Enters("start", at, p)
    BY <1>6, BeginEffect
  <2> QED
    BY <1>6, <2>1 DEF Begin, Enters, watchVars, closeVars, IInv, TypeOK, Order, Threads
<1>7. CASE NotBegun
  BY <1>7 DEF NotBegun, threadVars, watchVars, proxyVars, closeVars, StartThrows, IInv,
       TypeOK, Order, Threads
<1>8. CASE StartReturns
  BY <1>8 DEF StartReturns, watchVars, proxyVars, closeVars, StartThrows, IInv, TypeOK,
       Order, Threads
<1>9. CASE Cancel
  BY <1>9 DEF Cancel, threadVars, watchVars, proxyVars, closeVars, IInv, TypeOK, Order,
       Threads
<1>10. CASE Watch
  BY <1>10 DEF Watch, threadVars, proxyVars, closeVars, IInv, TypeOK, Order, Threads
<1>11. CASE Round
  BY <1>11 DEF Round, Looping, threadVars, proxyVars, closeVars, IInv, TypeOK, Order,
       Threads
<1>12. CASE WatchEnds
  BY <1>12 DEF WatchEnds, Looping, threadVars, proxyVars, closeVars, IInv, TypeOK,
       Order, Threads
<1>13. CASE LookAt
  BY <1>13 DEF LookAt, Looping, threadVars, proxyVars, closeVars, IInv, TypeOK, Order,
       Threads
<1>14. CASE Revive
  <2>1. PICK e \in todo : Enters("watch", e, port[e])
    BY <1>14, ReviveEffect
  <2> QED
    BY <1>14, <2>1 DEF Revive, Looping, closeVars, Enters, IInv, TypeOK, Order, Threads
<1>15. CASE Revived
  BY <1>15 DEF Revived, proxyVars, closeVars, IInv, TypeOK, Order, Threads
<1>16. CASE CloseBegins
  BY <1>16 DEF CloseBegins, threadVars, watchVars, proxyVars, IInv, TypeOK, Order,
       Threads
<1>17. CASE CloseReads
  BY <1>17 DEF CloseReads, threadVars, watchVars, proxyVars, IInv, TypeOK, Order,
       Threads
<1>18. CASE CloseWrites
  BY <1>18 DEF CloseWrites, threadVars, watchVars, IInv, TypeOK, Order, Threads
<1>19. CASE CloseEnds
  BY <1>19 DEF CloseEnds, threadVars, watchVars, proxyVars, IInv, TypeOK, Order, Threads
<1>20. CASE Crash
  BY <1>20 DEF Crash, threadVars, watchVars, proxyVars, closeVars, IInv, TypeOK, Order,
       Threads
<1>21. CASE UNCHANGED vars
  BY <1>21 DEF vars, threadVars, watchVars, proxyVars, closeVars, IInv, TypeOK, Order,
       Threads
<1> QED
  BY <1>1, <1>2, <1>3, <1>4, <1>5, <1>6, <1>7, <1>8, <1>9, <1>10, <1>11, <1>12, <1>13,
       <1>14, <1>15, <1>16, <1>17, <1>18, <1>19, <1>20, <1>21 DEF Next, Starting,
       Watching, Closing

\* The children of a thread in DpiProxy.start.
LEMMA LaunchedStep ==
  ASSUME IInv, [Next]_vars
  PROVE  Launched'
<1>1. ASSUME NEW t \in Threads, Launch(t) PROVE Launched'
  <2>1. eng[t] \in Engines /\ arg[t] \in Ports
    BY <1>1, Busy DEF Launch
  <2> DEFINE c == [engine |-> eng[t], id |-> spawned + 1, port |-> arg[t]]
  <2>2. c \in Children
    BY <2>1 DEF IInv, TypeOK, Children
  <2>3. /\ child' = [child EXCEPT ![t] = c] /\ alive' = alive \union {c}
        /\ pc' = [pc EXCEPT ![t] = "assign"] /\ UNCHANGED <<eng, arg>>
        /\ pc[t] = "launch" /\ eng[t] \notin InProcess
    BY <1>1 DEF Launch
  <2>4. c.engine = eng[t] /\ c.port = arg[t]
    OBVIOUS
  <2> HIDE DEF c
  <2>5. \A u \in Threads \ {t} : pc[u] = "idle"
    BY <1>1, <2>3, Alone
  <2> QED
    BY <1>1, <2>2, <2>3, <2>4, <2>5 DEF IInv, TypeOK, Launched
<1>2. ASSUME NEW t \in Threads, Assign(t) PROVE Launched'
  BY <1>2 DEF Assign, watchVars, closeVars, IInv, TypeOK, Order, Launched, Threads
<1>3. ASSUME NEW t \in Threads, Answers(t) PROVE Launched'
  BY <1>3 DEF Answers, watchVars, closeVars, IInv, TypeOK, Order, Launched, Threads
<1>4. ASSUME NEW t \in Threads, LaunchXray(t) PROVE Launched'
  BY <1>4 DEF LaunchXray, watchVars, closeVars, IInv, TypeOK, Order, Launched, Threads
<1>5. ASSUME NEW t \in Threads, Throws(t) PROVE Launched'
  <2>1. Shuts(eng[t])
    BY <1>5, ThrowsEffect
  <2> QED
    BY <1>5, <2>1 DEF Throws, Shuts, IInv, TypeOK, Launched
<1>6. CASE Begin
  <2>1. PICK p \in Ports : Enters("start", at, p)
    BY <1>6, BeginEffect
  <2>2. \A c \in alive : c.engine # at
    BY <1>6 DEF Begin, IInv, TypeOK, Untouched, Children, Engines
  <2> QED
    BY <1>6, <2>1, <2>2 DEF Begin, Enters, Shuts, IInv, TypeOK, Launched
<1>7. CASE StartReturns
  BY <1>7 DEF StartReturns, watchVars, proxyVars, closeVars, StartThrows, IInv, TypeOK,
       Order, Launched, Threads
<1>8. CASE Revive
  <2>1. PICK e \in todo : Enters("watch", e, port[e]) /\ port[e] # NoPort /\ Dead(e)
    BY <1>8, ReviveEffect
  <2>2. close = "open" /\ e \in procs /\ pc["start"] = "idle" /\ pc["watch"] = "idle"
    BY <1>8, <2>1, DpiAssumption DEF Revive, Looping, IInv, TypeOK, Order, Engines
  <2>3. \A c \in alive : c.engine # e
    BY <2>1, <2>2 DEF Dead, IInv, MembersReachable, Threads
  <2>4. port[e] \in Ports
    BY <2>1 DEF IInv, TypeOK
  <2> QED
    BY <1>8, <2>1, <2>3, <2>4 DEF Revive, Enters, Shuts, IInv, TypeOK, Launched
<1>9. CASE Revived
  BY <1>9 DEF Revived, proxyVars, closeVars, IInv, TypeOK, Order, Launched, Threads
<1>10. CASE CloseWrites
  BY <1>10 DEF CloseWrites, threadVars, watchVars, IInv, TypeOK, Order, Launched,
       Threads
<1>11. CASE Crash
  BY <1>11 DEF Crash, threadVars, watchVars, proxyVars, closeVars, IInv, TypeOK, Order,
       Launched, Threads
<1>12. CASE Cancel \/ Watch \/ Round \/ WatchEnds \/ LookAt \/ NotBegun \/ CloseBegins
         \/ CloseReads \/ CloseEnds \/ UNCHANGED vars
  <2>1. UNCHANGED <<pc, eng, arg, child, alive>>
    BY <1>12 DEF vars, threadVars, watchVars, proxyVars, closeVars, Cancel, Watch,
         Round, WatchEnds, LookAt, NotBegun, CloseBegins, CloseReads, CloseEnds
  <2> QED
    BY <2>1 DEF IInv, Launched
<1> QED
  BY <1>1, <1>2, <1>3, <1>4, <1>5, <1>6, <1>7, <1>8, <1>9, <1>10, <1>11, <1>12 DEF Next,
       Starting, Watching, Closing

\* The fields of the proxies.
LEMMA ProxiesStep ==
  ASSUME IInv, [Next]_vars
  PROVE  Proxies'
<1>1. ASSUME NEW t \in Threads, Launch(t) PROVE Proxies'
  <2> DEFINE n == [engine |-> eng[t], id |-> spawned + 1, port |-> arg[t]]
  <2>1. /\ alive' = alive \union {n} /\ child' = [child EXCEPT ![t] = n] /\ n.engine = eng[t]
        /\ eng[t] \notin InProcess /\ pc' = [pc EXCEPT ![t] = "assign"]
        /\ pc[t] = "launch"
    BY <1>1 DEF Launch
  <2>2. \A c \in alive' : c.engine \notin InProcess
    BY <2>1 DEF IInv, Proxies
  <2> QED
    BY <1>1, <2>1, <2>2
       DEF Launch, proxyVars, closeVars, IInv, TypeOK, Order, Proxies, Threads
<1>2. ASSUME NEW t \in Threads, Assign(t) PROVE Proxies'
  BY <1>2 DEF Assign, watchVars, closeVars, IInv, TypeOK, Order, Launched, Proxies,
       Threads
<1>3. ASSUME NEW t \in Threads, Answers(t) PROVE Proxies'
  <2>1. CASE t = "start"
    <3>1. at \in Engines /\ eng[t] = at /\ announced[at] = NoPort /\ pc["watch"] = "idle"
      BY <1>3, <2>1, DpiAssumption DEF Answers, IInv, Order, Untouched, Engines
    <3> QED
      BY <1>3, <2>1, <3>1 DEF Answers, closeVars, IInv, TypeOK, Proxies
  <2>2. CASE t = "watch"
    <3>1. pc["start"] = "idle" /\ eng[t] \in Engines
      BY <1>3, <2>2, Alone, Busy DEF Answers, Threads
    <3> QED
      BY <1>3, <2>2, <3>1 DEF Answers, closeVars, IInv, TypeOK, Proxies
  <2> QED
    BY <1>3, <2>1, <2>2 DEF Threads
<1>4. ASSUME NEW t \in Threads, LaunchXray(t) PROVE Proxies'
  <2>1. t = "start"
    BY <1>4 DEF LaunchXray, IInv, Proxies, Threads
  <2>2. at \in Engines /\ eng[t] = at /\ announced[at] = NoPort /\ at \in InProcess
    BY <1>4, <2>1, DpiAssumption DEF LaunchXray, IInv, Order, Untouched, Engines
  <2> QED
    BY <1>4, <2>1, <2>2 DEF LaunchXray, closeVars, IInv, TypeOK, Proxies
<1>5. ASSUME NEW t \in Threads, Throws(t) PROVE Proxies'
  <2>1. Shuts(eng[t])
    BY <1>5, ThrowsEffect
  <2> QED
    BY <1>5, <2>1
       DEF Throws, Shuts, StartThrows, closeVars, IInv, TypeOK, Order, Proxies, Threads
<1>6. CASE Begin
  <2>1. PICK p \in Ports : Enters("start", at, p)
    BY <1>6, BeginEffect
  <2> QED
    BY <1>6, <2>1 DEF Begin, Enters, Shuts, closeVars, IInv, TypeOK, Order, Proxies
<1>7. CASE NotBegun
  BY <1>7 DEF NotBegun, threadVars, watchVars, proxyVars, closeVars, StartThrows, IInv,
       TypeOK, Order, Launched, Proxies, Threads
<1>8. CASE StartReturns
  BY <1>8 DEF StartReturns, watchVars, proxyVars, closeVars, StartThrows, IInv, TypeOK,
       Order, Launched, Proxies, Threads
<1>9. CASE Revive
  <2>1. PICK e \in todo : Enters("watch", e, port[e]) /\ port[e] # NoPort /\ Dead(e)
    BY <1>9, ReviveEffect
  <2>2. e \in Engines /\ e \notin InProcess
    BY <2>1 DEF Dead, IInv, TypeOK, Proxies
  <2>3. pc["start"] = "idle"
    BY <1>9, DpiAssumption DEF Revive, Looping, IInv, Order, Engines
  <2> QED
    <3>1. /\ pc'["watch"] = "launch" /\ eng'["watch"] = e /\ arg'["watch"] = port[e]
          /\ pc'["start"] = "idle"
      BY <2>1, <2>3 DEF Enters, IInv, TypeOK, Threads
    <3>2. announced' = announced /\ alive' \subseteq alive
      BY <1>9, <2>1 DEF Revive, Enters, Shuts
    <3>3. announced[e] # NoPort => port[e] = announced[e]
      BY <2>1, <2>2 DEF IInv, Proxies
    <3>4. \A f \in Engines : /\ process'[f] # NoChild => process'[f] = process[f]
                             /\ port'[f] \in {NoPort, port[f]}
      BY <2>1 DEF Enters, Shuts
    <3> QED
      BY <2>2, <3>1, <3>2, <3>3, <3>4 DEF IInv, Proxies
<1>10. CASE Revived
  BY <1>10 DEF Revived, proxyVars, closeVars, IInv, TypeOK, Order, Launched, Proxies,
       Threads
<1>11. CASE CloseBegins
  BY <1>11 DEF CloseBegins, threadVars, watchVars, proxyVars, IInv, TypeOK, Order,
       Launched, Proxies, Threads
<1>12. CASE CloseReads
  BY <1>12 DEF CloseReads, threadVars, watchVars, proxyVars, IInv, TypeOK, Order,
       Launched, Proxies, Threads
<1>13. CASE CloseWrites
  BY <1>13 DEF CloseWrites, threadVars, watchVars, IInv, TypeOK, Order, Launched,
       Proxies, Threads
<1>14. CASE CloseEnds
  BY <1>14 DEF CloseEnds, threadVars, watchVars, proxyVars, IInv, TypeOK, Order,
       Launched, Proxies, Threads
<1>15. CASE Crash
  BY <1>15 DEF Crash, threadVars, watchVars, proxyVars, closeVars, IInv, TypeOK, Order,
       Launched, Proxies, Threads
<1>16. CASE Cancel \/ Watch \/ Round \/ WatchEnds \/ LookAt \/ UNCHANGED vars
  <2>1. UNCHANGED <<process, alive, announced, port, pc, eng, arg, child, close, at>>
    BY <1>16 DEF vars, threadVars, watchVars, proxyVars, closeVars, Cancel, Watch,
         Round, WatchEnds, LookAt
  <2> QED
    BY <2>1 DEF IInv, Proxies
<1> QED
  BY <1>1, <1>2, <1>3, <1>4, <1>5, <1>6, <1>7, <1>8, <1>9, <1>10, <1>11, <1>12, <1>13,
       <1>14, <1>15, <1>16 DEF Next, Starting, Watching, Closing

\* The engines that start() has not come to.
LEMMA UntouchedStep ==
  ASSUME IInv, [Next]_vars
  PROVE  Untouched'
<1> USE DpiAssumption DEF Engines
<1>1. ASSUME NEW t \in Threads, Launch(t) PROVE Untouched'
  <2>1. /\ alive' = alive
                    \union {[engine |-> eng[t], id |-> spawned + 1, port |-> arg[t]]}
        /\ pc' = [pc EXCEPT ![t] = "assign"] /\ pc[t] = "launch"
        /\ UNCHANGED <<at, xray, announced>>
    BY <1>1 DEF Launch, proxyVars
  <2>2. CASE t = "start"
    BY <2>1, <2>2 DEF IInv, TypeOK, Order, Untouched
  <2>3. CASE t = "watch"
    BY <2>1, <2>3 DEF IInv, TypeOK, Order, Untouched
  <2> QED
    BY <1>1, <2>2, <2>3 DEF Threads
<1>2. ASSUME NEW t \in Threads, Assign(t) PROVE Untouched'
  BY <1>2 DEF Assign, watchVars, closeVars, IInv, TypeOK, Order, Untouched, Threads
<1>3. ASSUME NEW t \in Threads, Answers(t) PROVE Untouched'
  BY <1>3 DEF Answers, watchVars, closeVars, IInv, TypeOK, Order, Untouched, Threads
<1>4. ASSUME NEW t \in Threads, LaunchXray(t) PROVE Untouched'
  BY <1>4 DEF LaunchXray, watchVars, closeVars, IInv, TypeOK, Order, Untouched, Threads
<1>5. ASSUME NEW t \in Threads, Throws(t) PROVE Untouched'
  <2>1. Shuts(eng[t])
    BY <1>5, ThrowsEffect
  <2>2. xray' \subseteq xray /\ alive' \subseteq alive /\ announced' = announced
    BY <1>5, <2>1 DEF Throws, Shuts
  <2>3. CASE t = "start"
    <3>1. at \in Engines /\ (at' = 0 \/ at' = at + 1)
      BY <1>5, <2>3 DEF Throws, StartThrows, IInv, Order
    <3> QED
      BY <2>2, <3>1, Numbers DEF IInv, Untouched
  <2>4. CASE t = "watch"
    <3>1. at = N + 1 /\ at' = at
      BY <1>5, <2>4 DEF Throws, IInv, Order
    <3> QED
      BY <3>1 DEF Untouched
  <2> QED
    BY <1>5, <2>3, <2>4 DEF Threads
<1>6. CASE Begin
  <2>1. PICK p \in Ports : Enters("start", at, p)
    BY <1>6, BeginEffect
  <2> QED
    BY <1>6, <2>1 DEF Begin, Enters, Shuts, IInv, TypeOK, Untouched
<1>7. CASE NotBegun
  <2>1. /\ at \in Engines /\ (at' = 0 \/ at' = at + 1)
        /\ UNCHANGED <<alive, xray, announced>>
    BY <1>7 DEF NotBegun, StartThrows, proxyVars
  <2> QED
    BY <2>1, Numbers DEF IInv, Untouched
<1>8. CASE StartReturns
  <2>1. at \in Engines /\ (at' = 0 \/ at' = at + 1) /\ UNCHANGED <<alive, xray>>
    BY <1>8 DEF StartReturns, StartThrows, proxyVars, IInv, Order
  <2>2. \A e \in Engines \ {at} : announced'[e] = announced[e]
    BY <1>8 DEF StartReturns, IInv, TypeOK
  <2>3. CASE at' = at + 1
    <3>1. \A e \in Engines : announced'[e] # NoPort => e < at'
      BY <2>1, <2>2, <2>3, Numbers DEF IInv, Untouched
    <3> QED
      BY <2>1, <2>3, <3>1, Numbers DEF IInv, Untouched
  <2> QED
    BY <2>1, <2>3 DEF Untouched
<1>9. CASE Revive
  <2>1. at = N + 1 /\ at' = at
    BY <1>9 DEF Revive, Looping, IInv, Order
  <2> QED
    BY <2>1 DEF Untouched
<1>10. CASE Revived
  BY <1>10 DEF Revived, proxyVars, closeVars, IInv, TypeOK, Order, Untouched, Threads
<1>11. CASE CloseWrites
  BY <1>11 DEF CloseWrites, threadVars, watchVars, IInv, TypeOK, Order, Untouched,
       Threads
<1>12. CASE CloseEnds
  BY <1>12 DEF CloseEnds, threadVars, watchVars, proxyVars, IInv, TypeOK, Order,
       Untouched, Threads
<1>13. CASE Crash
  BY <1>13 DEF Crash, threadVars, watchVars, proxyVars, closeVars, IInv, TypeOK, Order,
       Untouched, Threads
<1>14. CASE Cancel \/ Watch \/ Round \/ WatchEnds \/ LookAt \/ CloseBegins \/ CloseReads
         \/ UNCHANGED vars
  <2>1. UNCHANGED <<at, alive, pc, xray, announced>>
    BY <1>14 DEF vars, threadVars, watchVars, proxyVars, closeVars, Cancel, Watch,
         Round, WatchEnds, LookAt, CloseBegins, CloseReads
  <2> QED
    BY <2>1 DEF IInv, Untouched
<1> QED
  BY <1>1, <1>2, <1>3, <1>4, <1>5, <1>6, <1>7, <1>8, <1>9, <1>10, <1>11, <1>12, <1>13,
       <1>14 DEF Next, Starting, Watching, Closing

\* A start() that threw.
LEMMA FailedStep ==
  ASSUME IInv, [Next]_vars
  PROVE  Failed'
<1> USE DpiAssumption DEF Engines
<1>1. ASSUME NEW t \in Threads, Launch(t) PROVE Failed'
  <2>1. at # 0
    BY <1>1 DEF Launch, IInv, Order, Threads
  <2> QED
    BY <1>1, <2>1 DEF Launch, Failed
<1>2. ASSUME NEW t \in Threads, Assign(t) PROVE Failed'
  BY <1>2 DEF Assign, watchVars, closeVars, IInv, TypeOK, Order, Failed, Threads
<1>3. ASSUME NEW t \in Threads, Answers(t) PROVE Failed'
  BY <1>3 DEF Answers, watchVars, closeVars, IInv, TypeOK, Order, Failed, Threads
<1>4. ASSUME NEW t \in Threads, LaunchXray(t) PROVE Failed'
  <2>1. at # 0
    BY <1>4 DEF LaunchXray, IInv, Order, Threads
  <2> QED
    BY <1>4, <2>1 DEF LaunchXray, Failed
<1>5. ASSUME NEW t \in Threads, Throws(t) PROVE Failed'
  <2>1. Shuts(eng[t])
    BY <1>5, ThrowsEffect
  <2>2. xray' \subseteq xray /\ alive' \subseteq alive /\ procs' = procs
    BY <1>5, <2>1 DEF Throws, Shuts
  <2>3. CASE t = "start" /\ at' = 0
    <3>1. at \in Engines /\ at = 1 /\ 1 \in procs
      BY <1>5, <2>3 DEF Throws, StartThrows, Current, IInv, Order
    <3> QED
      BY <2>2, <3>1 DEF IInv, TypeOK, Children, Untouched, Failed
  <2>4. CASE t = "watch" \/ at' # 0
    <3>1. at' # 0
      BY <1>5, <2>4 DEF Throws, IInv, Order
    <3> QED
      BY <3>1 DEF Failed
  <2> QED
    BY <1>5, <2>3, <2>4 DEF Threads
<1>6. CASE Begin
  <2>1. at' # 0
    BY <1>6 DEF Begin
  <2> QED
    BY <2>1 DEF Failed
<1>7. CASE NotBegun
  <2>1. CASE at' = 0
    <3>1. at = 1 /\ 1 \in procs' /\ UNCHANGED <<alive, xray>>
      BY <1>7, <2>1 DEF NotBegun, StartThrows, Current, proxyVars
    <3> QED
      BY <1>7, <3>1 DEF NotBegun, IInv, TypeOK, Children, Untouched, Failed
  <2> QED
    BY <2>1 DEF Failed
<1>8. CASE StartReturns
  <2>1. CASE at' = 0
    <3>1. at \in Engines /\ Current(at)
      BY <1>8, <2>1 DEF StartReturns, StartThrows, IInv, Order
    <3>2. at = 1 /\ 1 \in procs' /\ UNCHANGED <<alive, xray>>
      BY <1>8, <3>1 DEF StartReturns, Current, proxyVars, IInv, Order
    <3> QED
      BY <1>8, <3>2 DEF IInv, TypeOK, Children, Untouched, Failed
  <2> QED
    BY <2>1 DEF Failed
<1>9. CASE Revive
  <2>1. at' # 0
    BY <1>9 DEF Revive, Looping, IInv, Order
  <2> QED
    BY <2>1 DEF Failed
<1>10. CASE CloseBegins
  BY <1>10 DEF CloseBegins, threadVars, watchVars, proxyVars, IInv, TypeOK, Order,
       Failed, Threads
<1>11. CASE CloseReads
  BY <1>11 DEF CloseReads, threadVars, watchVars, proxyVars, IInv, TypeOK, Order,
       Failed, Threads
<1>12. CASE CloseWrites
  BY <1>12 DEF CloseWrites, threadVars, watchVars, IInv, TypeOK, Order, Failed, Threads
<1>13. CASE CloseEnds
  BY <1>13 DEF CloseEnds, threadVars, watchVars, proxyVars, IInv, TypeOK, Order, Failed,
       Threads
<1>14. CASE Crash
  BY <1>14 DEF Crash, threadVars, watchVars, proxyVars, closeVars, IInv, TypeOK, Order,
       Failed, Threads
<1>15. CASE Cancel \/ Watch \/ Round \/ WatchEnds \/ LookAt \/ Revived \/ (UNCHANGED
         vars)
  <2>1. UNCHANGED <<at, close, procs, xray, alive>>
    BY <1>15 DEF vars, threadVars, watchVars, proxyVars, closeVars, Cancel, Watch,
         Round, WatchEnds, LookAt, Revived
  <2> QED
    BY <2>1 DEF IInv, Failed
<1> QED
  BY <1>1, <1>2, <1>3, <1>4, <1>5, <1>6, <1>7, <1>8, <1>9, <1>10, <1>11, <1>12, <1>13,
       <1>14, <1>15 DEF Next, Starting, Watching, Closing

\* One child of an engine, on its port.
LEMMA OneChildStep ==
  ASSUME IInv, [Next]_vars
  PROVE  OneChild'
<1>1. ASSUME NEW t \in Threads, Launch(t) PROVE OneChild'
  <2>1. eng[t] \in Engines /\ arg[t] \in Ports
    BY <1>1, Busy DEF Launch
  <2> DEFINE n == [engine |-> eng[t], id |-> spawned + 1, port |-> arg[t]]
  <2>2. /\ alive' = alive \union {n} /\ announced' = announced
        /\ n.engine = eng[t] /\ n.port = arg[t] /\ pc[t] = "launch"
    BY <1>1 DEF Launch
  <2> HIDE DEF n
  <2>3. \A c \in alive : c.engine # n.engine
    BY <1>1, <2>2 DEF IInv, Launched
  <2>4. announced[n.engine] # NoPort => n.port = announced[n.engine]
    <3>1. CASE t = "start"
      <4>1. eng[t] = at /\ at \in Engines
        BY <2>2, <3>1 DEF IInv, Order
      <4>2. ~(at < at)
        BY <4>1, DpiAssumption DEF Engines
      <4> QED
        BY <2>2, <4>1, <4>2 DEF IInv, Untouched
    <3>2. CASE t = "watch"
      BY <2>2, <3>2 DEF IInv, Proxies
    <3> QED
      BY <1>1, <3>1, <3>2 DEF Threads
  <2>5. \A c, d \in alive' : c.engine = d.engine => c = d
    BY <2>2, <2>3 DEF IInv, OneChild
  <2>6. \A c \in alive' : announced'[c.engine] # NoPort => c.port = announced'[c.engine]
    BY <2>2, <2>4 DEF IInv, OneChild
  <2> QED
    BY <2>5, <2>6 DEF OneChild
<1>2. ASSUME NEW t \in Threads, Assign(t) PROVE OneChild'
  BY <1>2 DEF Assign, watchVars, closeVars, IInv, TypeOK, OneChild
<1>3. ASSUME NEW t \in Threads, Answers(t) PROVE OneChild'
  BY <1>3 DEF Answers, watchVars, closeVars, IInv, TypeOK, OneChild
<1>4. ASSUME NEW t \in Threads, LaunchXray(t) PROVE OneChild'
  BY <1>4 DEF LaunchXray, watchVars, closeVars, IInv, TypeOK, OneChild
<1>5. ASSUME NEW t \in Threads, Throws(t) PROVE OneChild'
  <2>1. alive' \subseteq alive /\ announced' = announced
    BY <1>5, ThrowsEffect DEF Throws, Shuts
  <2> QED
    BY <2>1 DEF IInv, OneChild
<1>6. CASE Begin
  <2>1. alive' \subseteq alive /\ announced' = announced
    BY <1>6, BeginEffect DEF Begin, Enters, Shuts
  <2> QED
    BY <2>1 DEF IInv, OneChild
<1>7. CASE StartReturns
  <2>1. at \in Engines /\ eng["start"] = at /\ alive' = alive
    BY <1>7 DEF StartReturns, IInv, Order
  <2>2. \A c \in alive : c.engine = at => c.port = arg["start"]
    BY <1>7, <2>1 DEF StartReturns, IInv, Launched, Threads
  <2>3. announced' = announced \/ announced' = [announced EXCEPT ![at] = arg["start"]]
    BY <1>7 DEF StartReturns
  <2>4. \A c \in alive : announced'[c.engine] # NoPort => c.port = announced'[c.engine]
    BY <2>1, <2>2, <2>3 DEF IInv, TypeOK, Children, OneChild
  <2> QED
    BY <2>1, <2>4 DEF IInv, OneChild
<1>8. CASE Revive
  <2>1. alive' \subseteq alive /\ announced' = announced
    BY <1>8, ReviveEffect DEF Revive, Enters, Shuts
  <2> QED
    BY <2>1 DEF IInv, OneChild
<1>9. CASE CloseWrites
  BY <1>9 DEF CloseWrites, threadVars, watchVars, IInv, TypeOK, OneChild
<1>10. CASE CloseEnds
  <2>1. alive' = alive /\ \A c \in alive : announced'[c.engine] = NoPort
    BY <1>10 DEF CloseEnds, IInv, TypeOK, Children
  <2> QED
    BY <2>1 DEF IInv, OneChild
<1>11. CASE Crash
  BY <1>11 DEF Crash, threadVars, watchVars, proxyVars, closeVars, IInv, TypeOK,
       OneChild
<1>12. CASE Cancel \/ Watch \/ Round \/ WatchEnds \/ LookAt \/ Revived \/ NotBegun \/
         CloseBegins \/ CloseReads \/ UNCHANGED vars
  <2>1. UNCHANGED <<alive, announced>>
    BY <1>12 DEF vars, threadVars, watchVars, proxyVars, closeVars, Cancel, Watch,
         Round, WatchEnds, LookAt, Revived, NotBegun, CloseBegins, CloseReads
  <2> QED
    BY <2>1 DEF IInv, OneChild
<1> QED
  BY <1>1, <1>2, <1>3, <1>4, <1>5, <1>6, <1>7, <1>8, <1>9, <1>10, <1>11, <1>12 DEF Next,
       Starting, Watching, Closing

\* The set knows the children of its members.
LEMMA MembersReachableStep ==
  ASSUME IInv, [Next]_vars
  PROVE  MembersReachable'
<1>1. ASSUME NEW t \in Threads, Launch(t) PROVE MembersReachable'
  <2> DEFINE n == [engine |-> eng[t], id |-> spawned + 1, port |-> arg[t]]
  <2>1. /\ alive' = alive \union {n} /\ child' = [child EXCEPT ![t] = n]
        /\ pc' = [pc EXCEPT ![t] = "assign"] /\ pc[t] = "launch"
        /\ UNCHANGED <<process, close, procs>>
    BY <1>1 DEF Launch, proxyVars, closeVars
  <2> HIDE DEF n
  <2>2. pc'[t] = "assign" /\ child'[t] = n
    BY <1>1, <2>1 DEF IInv, TypeOK
  <2>3. \A u \in Threads : pc[u] = "assign" => pc'[u] = "assign" /\ child'[u] = child[u]
    BY <1>1, <2>1 DEF IInv, TypeOK
  <2> QED
    BY <1>1, <2>1, <2>2, <2>3 DEF IInv, MembersReachable
<1>2. ASSUME NEW t \in Threads, Assign(t) PROVE MembersReachable'
  <2>1. \A u \in Threads \ {t} : pc[u] = "idle"
    BY <1>2, Alone DEF Assign
  <2>2. eng[t] \in Engines /\ \A c \in alive : c.engine = eng[t] => c = child[t]
    BY <1>2, Busy DEF Assign, IInv, Launched
  <2>3. \A c \in alive : c.engine = eng[t] => process'[c.engine] = c
    BY <1>2, <2>2 DEF Assign, IInv, TypeOK
  <2>4. \A c \in alive : pc[t] = "assign" /\ child[t] = c => c.engine = eng[t]
    BY <1>2 DEF IInv, Launched
  <2>5. \A c \in alive : c.engine # eng[t] => process'[c.engine] = process[c.engine]
    BY <1>2, <2>2 DEF Assign, IInv, TypeOK, Children
  <2> QED
    BY <1>2, <2>1, <2>3, <2>4, <2>5 DEF Assign, closeVars, IInv, MembersReachable
<1>3. ASSUME NEW t \in Threads, Answers(t) PROVE MembersReachable'
  BY <1>3 DEF Answers, watchVars, closeVars, IInv, TypeOK, MembersReachable, Threads
<1>4. ASSUME NEW t \in Threads, LaunchXray(t) PROVE MembersReachable'
  BY <1>4 DEF LaunchXray, watchVars, closeVars, IInv, TypeOK, MembersReachable, Threads
<1>5. ASSUME NEW t \in Threads, Throws(t) PROVE MembersReachable'
  <2>1. eng[t] \in Engines /\ Shuts(eng[t]) /\ close' = close /\ procs' = procs
    BY <1>5, ThrowsEffect DEF Throws, closeVars
  <2>2. \A u \in Threads \ {t} : pc[u] = "idle"
    BY <1>5, Alone DEF Throws
  <2>3. ASSUME close = "open", NEW c \in alive' PROVE c.engine # eng[t]
    <3>1. c \in alive /\ c # process[eng[t]]
      BY <2>1, <2>3 DEF Shuts
    <3>2. pc[t] = "poll" => process[eng[t]] = child[t]
      BY <2>3 DEF IInv, Order, Proxies, Threads
    <3> QED
      BY <1>5, <3>1, <3>2 DEF Throws, IInv, Launched
  <2>4. \A c \in alive' : c.engine # eng[t] => process'[c.engine] = process[c.engine]
    BY <2>1 DEF Shuts, IInv, TypeOK, Children
  <2>5. pc[t] # "assign"
    BY <1>5 DEF Throws
  <2>6. alive' \subseteq alive
    BY <2>1 DEF Shuts
  <2> QED
    BY <1>5, <2>1, <2>2, <2>3, <2>4, <2>5, <2>6 DEF IInv, MembersReachable
<1>6. CASE Begin
  <2>1. PICK p \in Ports : Enters("start", at, p)
    BY <1>6, BeginEffect
  <2>2. at \in Engines /\ pc["start"] = "idle" /\ pc["watch"] = "idle"
    BY <1>6 DEF Begin, IInv, Order
  <2>3. \A c \in alive : c.engine # at
    BY <2>2 DEF IInv, TypeOK, Untouched, Children, Engines
  <2>4. \A c \in alive : process'[c.engine] = process[c.engine]
    BY <2>1, <2>3 DEF Enters, Shuts, IInv, TypeOK, Children
  <2>5. alive' \subseteq alive /\ close' = close /\ procs' \subseteq procs \union {at}
    BY <1>6, <2>1 DEF Begin, Enters, Shuts, closeVars
  <2> QED
    BY <2>2, <2>3, <2>4, <2>5 DEF IInv, MembersReachable, Threads
<1>7. CASE NotBegun
  <2>1. \A c \in alive : c.engine # at
    BY <1>7 DEF NotBegun, IInv, TypeOK, Untouched, Children, Engines
  <2>2. /\ alive' = alive /\ close' = close /\ procs' \subseteq procs \union {at}
        /\ UNCHANGED <<process, pc, child>>
    BY <1>7 DEF NotBegun, closeVars, proxyVars, threadVars
  <2> QED
    BY <2>1, <2>2 DEF IInv, MembersReachable
<1>8. CASE StartReturns
  <2>1. /\ at \in Engines /\ eng["start"] = at
        /\ pc["start"] = "return" /\ pc["watch"] = "idle"
    BY <1>8 DEF StartReturns, IInv, Order
  <2>2. /\ alive' = alive /\ close' = close /\ procs' \subseteq procs \union {at}
        /\ UNCHANGED <<process, child>>
    BY <1>8 DEF StartReturns, closeVars, proxyVars
  <2>3. \A c \in alive : c.engine = at => c = child["start"] /\ at \notin InProcess
    BY <2>1 DEF IInv, Launched, Proxies, Threads
  <2>4. \A c \in alive : c.engine = at => process[at] = c
    BY <2>1, <2>3 DEF IInv, Proxies
  <2> QED
    BY <2>1, <2>2, <2>4 DEF IInv, MembersReachable, Threads
<1>9. CASE Revive
  <2>1. PICK e \in todo : Enters("watch", e, port[e]) /\ Dead(e)
    BY <1>9, ReviveEffect
  <2>2. pc["start"] = "idle" /\ pc["watch"] = "idle" /\ e \in Engines
    BY <1>9, <2>1, DpiAssumption DEF Revive, Looping, IInv, TypeOK, Order, Engines
  <2>3. alive' \subseteq alive /\ close' = close /\ procs' = procs
    BY <1>9, <2>1 DEF Revive, Enters, Shuts, closeVars
  <2>4. \A c \in alive' : process[c.engine] = c => process'[c.engine] = c
    BY <2>1, <2>2, <2>3 DEF Enters, Shuts, Dead, IInv, TypeOK, Children
  <2> QED
    BY <2>2, <2>3, <2>4 DEF IInv, MembersReachable, Threads
<1>10. CASE Revived
  BY <1>10 DEF Revived, proxyVars, closeVars, IInv, TypeOK, MembersReachable, Threads
<1>11. CASE CloseBegins
  BY <1>11 DEF CloseBegins, threadVars, watchVars, proxyVars, IInv, TypeOK,
       MembersReachable, Threads
<1>12. CASE CloseReads
  BY <1>12 DEF CloseReads, threadVars, watchVars, proxyVars, IInv, TypeOK,
       MembersReachable, Threads
<1>13. CASE CloseWrites
  BY <1>13 DEF CloseWrites, threadVars, watchVars, IInv, TypeOK, MembersReachable,
       Threads
<1>14. CASE CloseEnds
  BY <1>14 DEF CloseEnds, threadVars, watchVars, proxyVars, IInv, TypeOK,
       MembersReachable, Threads
<1>15. CASE Crash
  BY <1>15 DEF Crash, threadVars, watchVars, proxyVars, closeVars, IInv, TypeOK,
       MembersReachable, Threads
<1>16. CASE Cancel \/ Watch \/ Round \/ WatchEnds \/ LookAt \/ UNCHANGED vars
  <2>1. UNCHANGED <<close, alive, procs, process, pc, child>>
    BY <1>16 DEF vars, threadVars, watchVars, proxyVars, closeVars, Cancel, Watch,
         Round, WatchEnds, LookAt
  <2> QED
    BY <2>1 DEF IInv, MembersReachable
<1> QED
  BY <1>1, <1>2, <1>3, <1>4, <1>5, <1>6, <1>7, <1>8, <1>9, <1>10, <1>11, <1>12, <1>13,
       <1>14, <1>15, <1>16 DEF Next, Starting, Watching, Closing

\* Nothing runs of an engine that was skipped.
LEMMA SkippedIsDownStep ==
  ASSUME IInv, [Next]_vars
  PROVE  SkippedIsDown'
<1>1. ASSUME NEW t \in Threads, Launch(t) PROVE SkippedIsDown'
  <2> DEFINE n == [engine |-> eng[t], id |-> spawned + 1, port |-> arg[t]]
  <2>1. /\ alive' = alive \union {n} /\ n.engine = eng[t] /\ pc[t] = "launch"
        /\ UNCHANGED <<xray, close, procs, at, cancelled>>
    BY <1>1 DEF Launch, proxyVars, closeVars
  <2> HIDE DEF n
  <2>2. close = "open" => eng[t] \in procs \/ ~(at > eng[t])
    BY <1>1, <2>1, DpiAssumption DEF IInv, Order, Threads, Engines
  <2> QED
    BY <2>1, <2>2 DEF IInv, SkippedIsDown
<1>2. ASSUME NEW t \in Threads, Assign(t) PROVE SkippedIsDown'
  BY <1>2 DEF Assign, watchVars, closeVars, IInv, TypeOK, Order, SkippedIsDown, Threads
<1>3. ASSUME NEW t \in Threads, Answers(t) PROVE SkippedIsDown'
  BY <1>3 DEF Answers, watchVars, closeVars, IInv, TypeOK, Order, SkippedIsDown, Threads
<1>4. ASSUME NEW t \in Threads, LaunchXray(t) PROVE SkippedIsDown'
  <2>1. t = "start"
    BY <1>4 DEF LaunchXray, IInv, Proxies, Threads
  <2>2. eng[t] = at /\ ~(at > at)
    BY <1>4, <2>1, DpiAssumption DEF LaunchXray, IInv, Order, Engines
  <2>3. xray' = xray \union {eng[t]} /\ UNCHANGED <<alive, close, procs, at, cancelled>>
    BY <1>4 DEF LaunchXray, closeVars
  <2> QED
    BY <2>2, <2>3 DEF IInv, SkippedIsDown
<1>5. ASSUME NEW t \in Threads, Throws(t) PROVE SkippedIsDown'
  <2>1. /\ eng[t] \in Engines /\ Shuts(eng[t])
        /\ UNCHANGED <<close, procs, cancelled>>
    BY <1>5, ThrowsEffect DEF Throws, closeVars
  <2>2. CASE t = "watch"
    BY <1>5, <2>1, <2>2 DEF Throws, Shuts, IInv, SkippedIsDown
  <2>3. CASE t = "start"
    <3>1. at \in Engines /\ eng[t] = at /\ (at' = 0 \/ at' = at + 1)
      BY <1>5, <2>3 DEF Throws, StartThrows, IInv, Order
    <3>2. ASSUME NEW c \in alive' PROVE c.engine # at
      <4>1. c \in alive /\ c # process[at]
        BY <2>1, <3>1, <3>2 DEF Shuts
      <4>2. pc[t] = "poll" => process[at] = child[t]
        BY <2>3 DEF IInv, Proxies
      <4> QED
        BY <1>5, <3>1, <4>1, <4>2 DEF Throws, IInv, Launched
    <3>3. at \notin xray' /\ xray' \subseteq xray /\ alive' \subseteq alive
      BY <2>1, <3>1 DEF Shuts
    <3>4. \A e \in Engines : at' > e => at > e \/ e = at
      BY <3>1, DpiAssumption DEF Engines
    <3> QED
      BY <2>1, <3>2, <3>3, <3>4 DEF IInv, SkippedIsDown
  <2> QED
    BY <1>5, <2>2, <2>3 DEF Threads
<1>6. CASE Begin
  <2>1. xray' \subseteq xray /\ alive' \subseteq alive
    BY <1>6, BeginEffect DEF Enters, Shuts
  <2>2. procs \subseteq procs' /\ UNCHANGED <<at, close, cancelled>>
    BY <1>6 DEF Begin, closeVars
  <2> QED
    BY <2>1, <2>2 DEF IInv, SkippedIsDown
<1>7. CASE NotBegun
  <2>1. at \in Engines /\ (at' = 0 \/ at' = at + 1)
    BY <1>7 DEF NotBegun, StartThrows
  <2>2. at \notin xray /\ \A c \in alive : c.engine # at
    BY <1>7 DEF NotBegun, IInv, TypeOK, Untouched, Children, Engines
  <2>3. procs \subseteq procs' /\ UNCHANGED <<alive, xray, close, cancelled>>
    BY <1>7 DEF NotBegun, closeVars, proxyVars
  <2>4. \A e \in Engines : at' > e => at > e \/ e = at
    BY <2>1, DpiAssumption DEF Engines
  <2> QED
    BY <2>2, <2>3, <2>4 DEF IInv, SkippedIsDown
<1>8. CASE StartReturns
  <2>1. CASE "start" \notin cancelled
    <3>1. at \in Engines /\ at' = at + 1 /\ procs' = procs \union {at}
      BY <1>8, <2>1 DEF StartReturns, IInv, Order
    <3>2. UNCHANGED <<alive, xray, close, cancelled>>
      BY <1>8 DEF StartReturns, closeVars, proxyVars
    <3>3. \A e \in Engines : at' > e => at > e \/ e = at
      BY <3>1, DpiAssumption DEF Engines
    <3> QED
      BY <3>1, <3>2, <3>3 DEF IInv, SkippedIsDown
  <2>2. CASE "start" \in cancelled
    BY <1>8, <2>2 DEF StartReturns, SkippedIsDown
  <2> QED
    BY <2>1, <2>2
<1>9. CASE Cancel
  BY <1>9 DEF Cancel, threadVars, watchVars, proxyVars, closeVars, IInv, TypeOK, Order,
       SkippedIsDown, Threads
<1>10. CASE Revive
  <2>1. xray' \subseteq xray /\ alive' \subseteq alive
    BY <1>10, ReviveEffect DEF Enters, Shuts
  <2>2. UNCHANGED <<at, procs, close, cancelled>>
    BY <1>10 DEF Revive, closeVars
  <2> QED
    BY <2>1, <2>2 DEF IInv, SkippedIsDown
<1>11. CASE CloseBegins
  BY <1>11 DEF CloseBegins, threadVars, watchVars, proxyVars, IInv, TypeOK, Order,
       SkippedIsDown, Threads
<1>12. CASE CloseReads
  BY <1>12 DEF CloseReads, threadVars, watchVars, proxyVars, IInv, TypeOK, Order,
       SkippedIsDown, Threads
<1>13. CASE CloseWrites
  BY <1>13 DEF CloseWrites, threadVars, watchVars, IInv, TypeOK, Order, SkippedIsDown,
       Threads
<1>14. CASE CloseEnds
  BY <1>14 DEF CloseEnds, threadVars, watchVars, proxyVars, IInv, TypeOK, Order,
       SkippedIsDown, Threads
<1>15. CASE Crash
  BY <1>15 DEF Crash, threadVars, watchVars, proxyVars, closeVars, IInv, TypeOK, Order,
       SkippedIsDown, Threads
<1>16. CASE Watch \/ Round \/ WatchEnds \/ LookAt \/ Revived \/ UNCHANGED vars
  <2>1. UNCHANGED <<cancelled, procs, at, close, xray, alive>>
    BY <1>16 DEF vars, threadVars, watchVars, proxyVars, closeVars, Watch, Round,
         WatchEnds, LookAt, Revived
  <2> QED
    BY <2>1 DEF IInv, SkippedIsDown
<1> QED
  BY <1>1, <1>2, <1>3, <1>4, <1>5, <1>6, <1>7, <1>8, <1>9, <1>10, <1>11, <1>12, <1>13,
       <1>14, <1>15, <1>16 DEF Next, Starting, Watching, Closing

\* What is left to close.
LEMMA ShuttingStep ==
  ASSUME IInv, [Next]_vars
  PROVE  Shutting'
<1>1. ASSUME NEW t \in Threads, Launch(t) PROVE Shutting'
  <2>1. CASE t = "start"
    <3>1. close' = "open"
      BY <1>1, <2>1 DEF Launch, closeVars, IInv, Order
    <3> QED
      BY <3>1 DEF Shutting
  <2>2. CASE t = "watch"
    <3> DEFINE n == [engine |-> eng[t], id |-> spawned + 1, port |-> arg[t]]
    <3>1. /\ alive' = alive \union {n} /\ child'["watch"] = n /\ pc'["watch"] = "assign"
          /\ pc["watch"] = "launch"
          /\ UNCHANGED <<process, xray, close, rest, old, snatched, cancelled>>
      BY <1>1, <2>2 DEF Launch, proxyVars, closeVars, IInv, TypeOK, Threads
    <3> HIDE DEF n
    <3> QED
      BY <3>1 DEF IInv, Shutting, Loose, Coming
  <2> QED
    BY <1>1, <2>1, <2>2 DEF Threads
<1>2. ASSUME NEW t \in Threads, Assign(t) PROVE Shutting'
  <2>1. CASE t = "start"
    <3>1. close' = "open"
      BY <1>2, <2>1 DEF Assign, closeVars, IInv, Order
    <3> QED
      BY <3>1 DEF Shutting
  <2>2. CASE t = "watch"
    <3>1. /\ UNCHANGED <<alive, child, xray, close, rest, old, cancelled>>
          /\ pc["watch"] = "assign" /\ pc'["watch"] = "poll"
      BY <1>2, <2>2 DEF Assign, closeVars, IInv, TypeOK, Threads
    <3>2. eng[t] \in Engines /\ \A c \in alive : c.engine = eng[t] => c = child["watch"]
      BY <1>2, <2>2, Busy DEF Assign, IInv, Launched
    <3>3. \A c \in alive : c.engine # eng[t] => process'[c.engine] = process[c.engine]
      BY <1>2, <3>2 DEF Assign, IInv, TypeOK, Children
    <3>4. process'[eng[t]] = child["watch"]
      BY <1>2, <2>2, <3>2 DEF Assign, IInv, TypeOK
    <3>5. /\ snatched \subseteq snatched'
          /\ close = "swap" /\ eng[t] = First(rest) => child["watch"] \in snatched'
      BY <1>2, <2>2 DEF Assign
    <3>6. child["watch"].engine = eng[t]
      BY <1>2, <2>2 DEF Assign, IInv, Launched, Threads
    <3>7. ASSUME close # "open", NEW c \in alive, c.engine \in rest
          PROVE  process'[c.engine] = c \/ Loose(c)'
      BY <3>1, <3>2, <3>3, <3>4, <3>5, <3>6, <3>7 DEF IInv, Shutting, Loose, Coming
    <3>8. ASSUME close = "swap", NEW c \in alive, c.engine = First(rest)
          PROVE  c = old \/ c \in snatched' \/ Coming(c)'
      BY <3>1, <3>2, <3>5, <3>6, <3>8 DEF IInv, Shutting, Coming
    <3>9. ASSUME close # "open", "start" \notin cancelled
          PROVE  xray \subseteq rest /\ \A c \in alive : c.engine \in rest \/ Loose(c)'
      BY <3>1, <3>2, <3>3, <3>4, <3>5, <3>6, <3>9 DEF IInv, Shutting, Loose, Coming
    <3> QED
      BY <3>1, <3>7, <3>8, <3>9 DEF Shutting
  <2> QED
    BY <1>2, <2>1, <2>2 DEF Threads
<1>3. ASSUME NEW t \in Threads, Answers(t) PROVE Shutting'
  <2>1. close' = "open"
    BY <1>3 DEF Answers, closeVars, IInv, Order, TypeOK, Threads
  <2> QED
    BY <2>1 DEF Shutting
<1>4. ASSUME NEW t \in Threads, LaunchXray(t) PROVE Shutting'
  <2>1. t = "start"
    BY <1>4 DEF LaunchXray, IInv, Proxies, Threads
  <2>2. close' = "open"
    BY <1>4, <2>1 DEF LaunchXray, closeVars, IInv, Order
  <2> QED
    BY <2>2 DEF Shutting
<1>5. ASSUME NEW t \in Threads, Throws(t) PROVE Shutting'
  <2>1. CASE t = "start"
    <3>1. close' = "open"
      BY <1>5, <2>1 DEF Throws, closeVars, IInv, Order
    <3> QED
      BY <3>1 DEF Shutting
  <2>2. CASE t = "watch"
    <3>1. /\ UNCHANGED <<child, close, rest, old, snatched, cancelled>>
          /\ pc'["watch"] = "idle" /\ pc["watch"] # "assign"
      BY <1>5, <2>2 DEF Throws, closeVars, IInv, TypeOK, Threads
    <3>2. eng[t] \in Engines /\ Shuts(eng[t])
      BY <1>5, ThrowsEffect
    <3>3. \A c \in alive' : process[c.engine] = c => process'[c.engine] = c
      BY <3>2 DEF Shuts, IInv, TypeOK, Children
    <3>4. alive' \subseteq alive /\ xray' \subseteq xray
      BY <3>2 DEF Shuts
    <3>5. \A c \in alive' : Loose(c) => c \in snatched
      <4>1. pc["watch"] = "poll" => child["watch"].engine = eng["watch"]
        BY DEF IInv, Launched, Threads
      <4> QED
        BY <2>2, <3>1, <3>2, <4>1 DEF Loose, Coming, Shuts
    <3>6. \A c \in alive' : ~Coming(c)
      BY <3>1 DEF Coming
    <3> QED
      BY <3>1, <3>3, <3>4, <3>5, <3>6 DEF IInv, Shutting, Loose, Coming
  <2> QED
    BY <1>5, <2>1, <2>2 DEF Threads
<1>6. CASE Begin
  <2>1. close' = "open"
    BY <1>6, DpiAssumption DEF Begin, closeVars, IInv, TypeOK, Order, Engines
  <2> QED
    BY <2>1 DEF Shutting
<1>7. CASE NotBegun
  <2>1. close' = "open"
    BY <1>7, DpiAssumption DEF NotBegun, closeVars, IInv, TypeOK, Order, Engines
  <2> QED
    BY <2>1 DEF Shutting
<1>8. CASE StartReturns
  <2>1. close' = "open"
    BY <1>8, DpiAssumption DEF StartReturns, closeVars, IInv, TypeOK, Order, Engines
  <2> QED
    BY <2>1 DEF Shutting
<1>9. CASE Cancel
  <2>1. close' = "open"
    BY <1>9, DpiAssumption DEF Cancel, closeVars, IInv, TypeOK, Order, Engines
  <2> QED
    BY <2>1 DEF Shutting
<1>10. CASE Watch
  <2>1. close' = "open"
    BY <1>10, DpiAssumption DEF Watch, closeVars, IInv, TypeOK, Order, Engines
  <2> QED
    BY <2>1 DEF Shutting
<1>11. CASE Revive
  <2>1. close' = "open"
    BY <1>11, DpiAssumption DEF Revive, Looping, closeVars, IInv, TypeOK, Order, Engines
  <2> QED
    BY <2>1 DEF Shutting
<1>12. CASE Revived
  <2>1. /\ UNCHANGED <<process, alive, child, xray, close, rest, old, snatched, cancelled>>
        /\ pc["watch"] = "return"
    BY <1>12 DEF Revived, proxyVars, closeVars
  <2> QED
    BY <2>1 DEF IInv, Shutting, Loose, Coming
<1>13. CASE CloseBegins
  <2>1. /\ UNCHANGED <<process, alive, child, pc, xray, snatched>>
        /\ close = "open" /\ close' = "closing" /\ rest' = procs
        /\ "start" \in cancelled' <=> "start" \in cancelled
    BY <1>13 DEF CloseBegins, proxyVars, threadVars
  <2>2. at = 0 \/ at = N + 1
    BY <1>13, DpiAssumption DEF CloseBegins, IInv, TypeOK, Engines
  <2>3. pc["start"] = "idle"
    BY <1>13 DEF CloseBegins, IInv, Order
  <2>4. \A c \in alive : c.engine \in procs => process[c.engine] = c \/ Loose(c)
    BY <2>1, <2>3 DEF IInv, MembersReachable, Loose, Coming, Threads
  <2>5. ASSUME "start" \notin cancelled
        PROVE  xray \subseteq procs /\ \A c \in alive : c.engine \in procs
    <3>1. xray \subseteq Engines /\ \A c \in alive : c.engine \in Engines
      BY DpiAssumption DEF IInv, TypeOK, Children
    <3>2. CASE at = 0
      BY <2>1, <3>2 DEF IInv, Failed
    <3>3. CASE at = N + 1
      <4>1. \A e \in Engines : at > e
        BY <3>3, DpiAssumption DEF Engines
      <4> QED
        BY <2>1, <2>5, <3>1, <4>1 DEF IInv, SkippedIsDown
    <3> QED
      BY <2>2, <3>2, <3>3
  <2> QED
    BY <2>1, <2>4, <2>5 DEF Shutting, Loose, Coming
<1>14. CASE CloseReads
  <2>1. /\ UNCHANGED <<process, alive, child, pc, xray, rest, snatched, cancelled>>
        /\ close = "closing" /\ close' = "swap" /\ old' = process[First(rest)] /\ rest # {}
    BY <1>14 DEF CloseReads, proxyVars, threadVars
  <2>2. First(rest) \in rest
    BY <2>1, FirstIn DEF IInv, TypeOK
  <2> QED
    BY <2>1, <2>2 DEF IInv, Shutting, Loose, Coming
<1>15. CASE CloseWrites
  <2> DEFINE e == First(rest)
  <2>1. /\ UNCHANGED <<child, pc, snatched, cancelled>> /\ close = "swap" /\ close' = "closing"
        /\ process' = [process EXCEPT ![e] = NoChild] /\ xray' = xray \ {e}
        /\ alive' = alive \ {old} /\ rest' = rest \ {e}
    BY <1>15 DEF CloseWrites, threadVars
  <2>2. \A c \in alive : c.engine = e => c = old \/ c \in snatched \/ Coming(c)
    BY <2>1 DEF IInv, Shutting
  <2>3. e \in Engines
    BY <2>1, FirstIn DEF IInv, TypeOK, Order
  <2> HIDE DEF e
  <2>4. \A c \in alive : c.engine # e => process'[c.engine] = process[c.engine]
    BY <2>1, <2>3 DEF IInv, TypeOK, Children
  <2> QED
    BY <2>1, <2>2, <2>4 DEF IInv, Shutting, Loose, Coming
<1>16. CASE CloseEnds
  <2>1. /\ UNCHANGED <<process, alive, child, pc, xray, rest, snatched, cancelled>>
        /\ close = "closing" /\ close' = "closed"
    BY <1>16 DEF CloseEnds, proxyVars, threadVars
  <2> QED
    BY <2>1 DEF IInv, Shutting, Loose, Coming
<1>17. CASE Crash
  <2>1. /\ UNCHANGED <<process, child, pc, xray, close, rest, old, snatched, cancelled>>
        /\ alive' \subseteq alive
    BY <1>17 DEF Crash, proxyVars, threadVars, closeVars
  <2> QED
    BY <2>1 DEF IInv, Shutting, Loose, Coming
<1>18. CASE Round \/ WatchEnds \/ LookAt \/ UNCHANGED vars
  <2>1. UNCHANGED <<close, alive, rest, process, child, pc, xray, old, snatched, cancelled>>
    BY <1>18 DEF vars, threadVars, watchVars, proxyVars, closeVars, Round, WatchEnds,
         LookAt
  <2> QED
    BY <2>1 DEF IInv, Shutting, Loose, Coming
<1> QED
  BY <1>1, <1>2, <1>3, <1>4, <1>5, <1>6, <1>7, <1>8, <1>9, <1>10, <1>11, <1>12, <1>13,
       <1>14, <1>15, <1>16, <1>17, <1>18 DEF Next, Starting, Watching, Closing

\* Every step keeps the invariant.
LEMMA StepIInv == IInv /\ [Next]_vars => IInv'
BY TypeOKStep, OrderStep, LaunchedStep, ProxiesStep, UntouchedStep, FailedStep,
   ShuttingStep, OneChildStep, MembersReachableStep, SkippedIsDownStep DEF IInv
-----------------------------------------------------------------------------
(* Theorems.                                                               *)

\* The inductive invariant holds of every behaviour of a set.
THEOREM Invariant == Spec => []IInv
<1>1. IInv /\ [Next]_vars => IInv'
  BY StepIInv
<1> QED
  BY <1>1, InitIInv, PTL DEF Spec

\* Every variable of a set keeps its type.
THEOREM TypeCorrect == Spec => []TypeOK
<1>1. IInv => TypeOK
  BY DEF IInv
<1> QED
  BY <1>1, Invariant, PTL

\* However often children crash and whoever starts, revives and closes: an engine has
\* at most one child, and it listens where Xray was told.
THEOREM AtMostOneChild == Spec => []OneChild
<1>1. IInv => OneChild
  BY DEF IInv
<1> QED
  BY <1>1, Invariant, PTL

\* An open set can close every child of its members.
THEOREM SetKnowsItsChildren == Spec => []MembersReachable
<1>1. IInv => MembersReachable
  BY DEF IInv
<1> QED
  BY <1>1, Invariant, PTL

\* A start that was not cancelled leaves nothing of the engines it skipped.
THEOREM SkippedEnginesAreDown == Spec => []SkippedIsDown
<1>1. IInv => SkippedIsDown
  BY DEF IInv
<1> QED
  BY <1>1, Invariant, PTL

\* A closed set whose watch loop is over runs nothing, but for a child that the loop
\* assigned just between the read and the clearing of its `process` in close().
THEOREM ClosedSetIsDown == Spec => []ClosedIsDown
<1>1. IInv => ClosedIsDown
  BY DEF IInv, Order, Shutting, Loose, Coming, ClosedIsDown
<1> QED
  BY <1>1, Invariant, PTL
=============================================================================

--------------------------- MODULE HevTunnelProofs ---------------------------
(***************************************************************************)
(* Proofs about HevTunnel for any number of sessions, every session limit  *)
(* but 1 and every burst.                                                  *)
(***************************************************************************)
EXTENDS HevTunnel, SequenceTheorems, TLAPS

\* The two threads and the atomic word between them: who set SYNC_WAIT is still
\* inside stop(), and SYNC_SEND, or having seen it, means that the event socket
\* is open, because fini waits for SYNC_WAIT to go.
Handshake ==
  /\ joinable <=> worker # "none"
  /\ call # "idle" => worker # "none"
  /\ isRunning <=> worker \notin {"none", "exited"}
  /\ "WAIT" \in tsync <=> call \in {"send", "write", "stop", "leave"}
  /\ "SEND" \in tsync => worker \in {"run", "sched", "fini"} /\ evOpen
  /\ call \in {"send", "write"} => worker \in {"run", "sched", "fini"} /\ evOpen
  /\ evByte => call \in {"leave", "join"} /\ worker \in {"run", "sched", "fini"}

\* Whose SYNC_STOP it is: that of the stop() under way, or one that was left over.
StopOwned ==
  /\ worker = "sched" /\ call \in {"idle", "quit", "send", "write", "stop"} => run
  /\ "STOP" \in tsync =>
       \/ leftStop
       \/ call \in {"leave", "join"} /\ worker \in {"config", "init", "run", "sched"}
  /\ worker = "sched" /\ "STOP" \in tsync => run /\ ~evByte /\ call \in {"leave", "join"}

\* The three tasks of the engine end in order: the event task last, and none
\* before run is 0.
Helpers == {"event", "io", "timer"}
Engine ==
  /\ worker # "sched" => \A t \in Tasks : task[t] = "STOPPED"
  /\ worker = "sched" /\ run => evpc = "read" /\ \A t \in Helpers : task[t] # "STOPPED"
  /\ worker = "sched" /\ ~run => evpc # "read"
  /\ task["io"] # "STOPPED" \/ task["timer"] # "STOPPED" => task["event"] # "STOPPED"

\* The list of sessions holds each session that has a task, once.
Once(q) == \A i, j \in 1..Len(q) : q[i] = q[j] => i = j
Listed ==
  /\ Once(sessionSet)
  /\ \A s \in Sessions : /\ s \in Range(sessionSet) <=> phase[s] # "none"
                         /\ task[s] = "STOPPED" <=> phase[s] = "none"
                         /\ pcb[s] => phase[s] # "none"

IInv == /\ TypeOK /\ Handshake /\ StopOwned /\ Engine /\ Listed
        /\ NeverAborts /\ QuitReachesAll
-----------------------------------------------------------------------------
(* The list of sessions.                                                   *)

\* An element is in the range of a list if it is at one of its places.
LEMMA RangePlaces ==
  ASSUME NEW q \in Seq(Sessions), NEW x
  PROVE  x \in Range(q) <=> \E i \in 1..Len(q) : q[i] = x
BY RangeEquality

\* A list without its i-th element: the others are left, in one place each.
LEMMA RemovePlace ==
  ASSUME NEW q \in Seq(Sessions), NEW i \in 1..Len(q), Once(q)
  PROVE  /\ RemoveAt(q, i) \in Seq(Sessions)
         /\ Range(RemoveAt(q, i)) = Range(q) \ {q[i]}
         /\ Once(RemoveAt(q, i))
<1> DEFINE r == RemoveAt(q, i)
<1>1. /\ r \in Seq(Sessions) /\ Len(r) = Len(q) - 1
      /\ \A j \in 1..Len(r) : r[j] = IF j < i THEN q[j] ELSE q[j + 1]
  <2> DEFINE a == SubSeq(q, 1, i - 1)
             b == SubSeq(q, i + 1, Len(q))
  <2>1. /\ a \in Seq(Sessions) /\ Len(a) = i - 1
        /\ \A j \in 1..(i - 1) : a[j] = q[j]
    OBVIOUS
  <2>2. /\ b \in Seq(Sessions) /\ Len(b) = Len(q) - i
        /\ \A j \in 1..(Len(q) - i) : b[j] = q[i + j]
    OBVIOUS
  <2>3. r = a \o b
    BY DEF RemoveAt
  <2> HIDE DEF a, b, r
  <2>4. /\ r \in Seq(Sessions) /\ Len(r) = Len(q) - 1
        /\ \A j \in 1..Len(r) : r[j] = IF j <= i - 1 THEN a[j] ELSE b[j - (i - 1)]
    <3>1. r \in Seq(Sessions) /\ Len(r) = Len(a) + Len(b)
      BY <2>1, <2>2, <2>3, ConcatProperties
    <3>2. \A j \in 1..(Len(a) + Len(b)) : r[j] = IF j <= Len(a) THEN a[j] ELSE b[j - Len(a)]
      BY <2>1, <2>2, <2>3, ConcatProperties
    <3>3. Len(q) \in Nat /\ i \in 1..Len(q)
      OBVIOUS
    <3>4. Len(a) + Len(b) = Len(q) - 1
      BY <2>1, <2>2, <3>3
    <3>5. Len(a) = i - 1
      BY <2>1
    <3> QED
      BY <3>1, <3>2, <3>4, <3>5
  <2>5. ASSUME NEW j \in 1..Len(r) PROVE r[j] = IF j < i THEN q[j] ELSE q[j + 1]
    <3>1. Len(q) \in Nat /\ i \in 1..Len(q) /\ j \in 1..(Len(q) - 1)
      BY <2>4
    <3>2. CASE j < i
      <4>1. j \in 1..(i - 1)
        BY <3>1, <3>2
      <4>2. j <= i - 1
        BY <4>1
      <4>3. r[j] = a[j]
        BY <2>4, <4>2
      <4>4. a[j] = q[j]
        BY <2>1, <4>1
      <4> QED
        BY <3>2, <4>3, <4>4
    <3>3. CASE ~(j < i)
      <4>1. ~(j <= i - 1) /\ j - (i - 1) \in 1..(Len(q) - i) /\ i + (j - (i - 1)) = j + 1
        BY <3>1, <3>3
      <4>2. r[j] = b[j - (i - 1)] /\ b[j - (i - 1)] = q[i + (j - (i - 1))]
        BY <2>2, <2>4, <4>1
      <4> QED
        BY <3>3, <4>1, <4>2
    <3> QED
      BY <3>2, <3>3
  <2> QED
    BY <2>4, <2>5
<1>2. Once(r)
  BY <1>1 DEF Once
<1>3. ASSUME NEW x \in Range(r) PROVE x \in Range(q) \ {q[i]}
  <2>1. PICK j \in 1..Len(r) : r[j] = x
    BY <1>1, RangePlaces
  <2>2. PICK k \in 1..Len(q) : q[k] = x /\ k # i
    BY <1>1, <2>1
  <2> QED
    BY <2>2, RangePlaces DEF Once
<1>4. ASSUME NEW x \in Range(q) \ {q[i]} PROVE x \in Range(r)
  <2>1. PICK k \in 1..Len(q) : q[k] = x
    BY RangePlaces
  <2>2. \E j \in 1..Len(r) : r[j] = x
    <3>1. CASE k < i
      BY <3>1, <2>1, <1>1
    <3>2. CASE k > i
      <4>1. k - 1 \in 1..Len(r) /\ r[k - 1] = q[k]
        BY <3>2, <1>1
      <4> QED
        BY <4>1, <2>1
    <3> QED
      BY <3>1, <3>2, <2>1
  <2> QED
    BY <2>2, <1>1, RangePlaces
<1> QED
  BY <1>1, <1>2, <1>3, <1>4

\* A list with a new element at its end.
LEMMA AddPlace ==
  ASSUME NEW q \in Seq(Sessions), NEW s \in Sessions, Once(q), s \notin Range(q)
  PROVE  /\ Append(q, s) \in Seq(Sessions)
         /\ Range(Append(q, s)) = Range(q) \cup {s}
         /\ Once(Append(q, s))
         /\ q # <<>> => Head(Append(q, s)) \in Range(q)
<1> DEFINE r == Append(q, s)
<1>1. /\ r \in Seq(Sessions) /\ Len(r) = Len(q) + 1
      /\ \A j \in 1..Len(q) : r[j] = q[j]
      /\ r[Len(q) + 1] = s
  OBVIOUS
<1>2. \A j \in 1..Len(q) : q[j] # s
  BY RangePlaces
<1>3. Once(r)
  BY <1>1, <1>2 DEF Once
<1>4. \A x : x \in Range(r) <=> x \in Range(q) \cup {s}
  <2> TAKE x
  <2>1. x \in Range(r) <=> \E j \in 1..Len(r) : r[j] = x
    BY <1>1, RangePlaces
  <2>2. x \in Range(q) <=> \E j \in 1..Len(q) : q[j] = x
    BY RangePlaces
  <2> QED
    BY <2>1, <2>2, <1>1
<1>5. ASSUME q # <<>> PROVE Head(r) \in Range(q)
  <2>1. Head(r) = q[1] /\ 1 \in 1..Len(q)
    BY <1>5, <1>1
  <2> QED
    BY <2>1, RangePlaces
<1> QED
  BY <1>1, <1>3, <1>4, <1>5

\* hev_list_del takes a listed session out and leaves the others.
LEMMA Unlink ==
  ASSUME TypeOK, Listed, NEW s \in Sessions, phase[s] # "none"
  PROVE  /\ Unlinked(s) \in Seq(Sessions)
         /\ Range(Unlinked(s)) = Range(sessionSet) \ {s}
         /\ Once(Unlinked(s))
<1>1. sessionSet \in Seq(Sessions) /\ Once(sessionSet) /\ s \in Range(sessionSet)
  BY DEF TypeOK, Listed
<1> DEFINE i == CHOOSE j \in DOMAIN sessionSet : sessionSet[j] = s
<1>2. \E j \in DOMAIN sessionSet : sessionSet[j] = s
  BY <1>1, RangePlaces
<1>3. i \in 1..Len(sessionSet) /\ sessionSet[i] = s
  BY <1>1, <1>2
<1> HIDE DEF i
<1>4. Unlinked(s) = RemoveAt(sessionSet, i)
  BY DEF Unlinked, i
<1> QED
  BY <1>1, <1>3, <1>4, RemovePlace

\* A session that is touched stays listed.
LEMMA Touch ==
  ASSUME TypeOK, Listed, NEW s \in Sessions, phase[s] # "none"
  PROVE  /\ Touched(s) \in Seq(Sessions)
         /\ Range(Touched(s)) = Range(sessionSet)
         /\ Once(Touched(s))
<1>1. s \in Range(sessionSet) /\ sessionSet \in Seq(Sessions) /\ Once(sessionSet)
  BY DEF TypeOK, Listed
<1>2. /\ Append(Unlinked(s), s) \in Seq(Sessions)
      /\ Range(Append(Unlinked(s), s)) = (Range(sessionSet) \ {s}) \cup {s}
      /\ Once(Append(Unlinked(s), s))
  BY Unlink, AddPlace
<1> QED
  BY <1>1, <1>2 DEF Touched
-----------------------------------------------------------------------------
(* What the steps of the scheduler leave alone.                            *)

\* A step of one of the tasks, or of the scheduler on their behalf.
OfSession(s) == SessionStep(s) \/ session_timeout(s)
TaskStep == \/ EventStep \/ IoStep \/ TimerStep
            \/ \E s \in Sessions : OfSession(s)
            \/ \E t \in Tasks : io_poll(t)

\* A session goes on: it stays listed, its task stays alive, and a timeout of 0
\* stays 0.
Stays(s) ==
  /\ phase[s] # "none" /\ phase'[s] # "none" /\ task'[s] # "STOPPED"
  /\ \A x \in Sessions \ {s} : phase'[x] = phase[x]
  /\ \A t \in Tasks \ {s} : task'[t] = task[t]
  /\ \A x \in Sessions : timeout[x] = "zero" => timeout'[x] = "zero"
  /\ Range(sessionSet') = Range(sessionSet) /\ Once(sessionSet')
  /\ pcb' = pcb

\* A session ends: it is the only one that leaves the list.
Ends(s) ==
  /\ phase[s] # "none" /\ phase'[s] = "none" /\ task'[s] = "STOPPED" /\ ~pcb'[s]
  /\ \A x \in Sessions \ {s} : /\ phase'[x] = phase[x] /\ pcb'[x] = pcb[x]
                               /\ timeout'[x] = timeout[x]
  /\ \A t \in Tasks \ {s} : task'[t] = task[t]
  /\ Range(sessionSet') = Range(sessionSet) \ {s} /\ Once(sessionSet')

\* The names of the three tasks of the engine are not sessions.
LEMMA Names ==
  /\ Helpers \subseteq Tasks /\ Sessions \subseteq Tasks
  /\ \A s \in Sessions : s # "event" /\ s # "io" /\ s # "timer"
BY NamesAssumption DEF Helpers, Tasks

\* What TypeOK says of the part of the state that a session changes.
SessionTypes ==
  /\ task \in [Tasks -> {"STOPPED", "RUNNING", "WAITING"}]
  /\ sessionSet \in Seq(Sessions)
  /\ phase \in [Sessions -> {"none", "new", "connect", "handshake", "splice", "drain"}]
  /\ timeout \in [Sessions -> {"none", "set", "zero"}]
  /\ pcb \in [Sessions -> BOOLEAN] /\ work \in [Sessions -> 0..Burst]

\* SessionEnds takes one session out of everything.
LEMMA EndsEffect ==
  ASSUME TypeOK, Listed, NEW s \in Sessions, phase[s] # "none", SessionEnds(s)
  PROVE  Ends(s) /\ SessionTypes'
<1>1. /\ Unlinked(s) \in Seq(Sessions) /\ Once(Unlinked(s))
      /\ Range(Unlinked(s)) = Range(sessionSet) \ {s}
  BY Unlink
<1>2. SessionTypes'
  BY <1>1, Names, BurstAssumption DEF TypeOK, SessionTypes, SessionEnds
<1>3. Once(sessionSet') /\ Range(sessionSet') = Range(sessionSet) \ {s}
  BY <1>1 DEF SessionEnds
<1>4. Ends(s)
  BY <1>3, Names DEF TypeOK, Ends, SessionEnds
<1> QED
  BY <1>2, <1>4

\* Every step of a session lets it go on or ends it.
LEMMA SessionEffect ==
  ASSUME TypeOK, Listed, NEW s \in Sessions, OfSession(s)
  PROVE  /\ Stays(s) \/ Ends(s)
         /\ SessionTypes'
         /\ worker = "sched" /\ ~aborted
         /\ UNCHANGED sessionFrame
<1>1. s \in Tasks /\ (task[s] # "STOPPED" => phase[s] # "none") /\ Once(sessionSet)
  BY Names DEF Listed
<1>2. task[s] # "STOPPED" /\ phase[s] # "none"
  BY <1>1 DEF OfSession, SessionStep, session_progress, session_splice, session_eof,
       session_error, session_blocks, session_timeout, Slice, Scheduling
<1>3. /\ Touched(s) \in Seq(Sessions) /\ Once(Touched(s))
      /\ Range(Touched(s)) = Range(sessionSet)
  BY <1>2, Touch
<1>4. CASE session_progress(s)
  <2>1. CASE SessionEnds(s)
    BY <1>2, <1>4, <2>1, EndsEffect DEF session_progress, Slice
  <2>2. CASE ~SessionEnds(s)
    <3>1. SessionTypes'
      <4>1. /\ UNCHANGED <<task, sessionSet, pcb>>
            /\ phase' \in [Sessions -> {"none", "new", "connect", "handshake", "splice",
                                       "drain"}]
        BY <1>4, <2>2 DEF session_progress, TypeOK
      <4>2. timeout' \in [Sessions -> {"none", "set", "zero"}]
        BY <1>4, <2>2 DEF session_progress, SetTimeout, TypeOK
      <4>3. work' \in [Sessions -> 0..Burst]
        <5>1. work' = work \/ work' = [work EXCEPT ![s] = Burst]
          BY <1>4, <2>2 DEF session_progress
        <5>2. work \in [Sessions -> 0..Burst] /\ Burst \in 0..Burst
          BY BurstAssumption DEF TypeOK
        <5> QED
          BY <5>1, <5>2
      <4> QED
        BY <4>1, <4>2, <4>3 DEF TypeOK, SessionTypes
    <3>2. Stays(s)
      BY <1>1, <1>2, <1>4, <2>2 DEF session_progress, SetTimeout, TypeOK, Stays
    <3> QED
      BY <1>4, <3>1, <3>2 DEF session_progress, Slice
  <2> QED
    BY <2>1, <2>2
<1>5. CASE session_splice(s)
  <2>1. SessionTypes'
    BY <1>1, <1>3, <1>5, BurstAssumption DEF session_splice, TypeOK, SessionTypes
  <2>2. Range(sessionSet') = Range(sessionSet) /\ Once(sessionSet')
    BY <1>3, <1>5 DEF session_splice
  <2>3. Stays(s)
    BY <1>1, <1>2, <2>2, <1>5 DEF session_splice, TypeOK, Stays
  <2> QED
    BY <1>5, <2>1, <2>3 DEF session_splice, Slice
<1>6. CASE session_eof(s)
  <2>1. CASE SessionEnds(s)
    BY <1>2, <1>6, <2>1, EndsEffect DEF session_eof, Slice
  <2>2. CASE ~SessionEnds(s)
    <3>1. SessionTypes'
      BY <1>1, <1>3, <1>6, <2>2 DEF session_eof, TypeOK, SessionTypes
    <3>2. Range(sessionSet') = Range(sessionSet) /\ Once(sessionSet')
      BY <1>3, <1>6, <2>2 DEF session_eof
    <3>3. Stays(s)
      BY <1>1, <1>2, <1>6, <2>2, <3>2 DEF session_eof, TypeOK, Stays
    <3> QED
      BY <1>6, <3>1, <3>3 DEF session_eof, Slice
  <2> QED
    BY <2>1, <2>2
<1>7. CASE session_error(s)
  BY <1>2, <1>7, EndsEffect DEF session_error, Slice
<1>8. CASE session_blocks(s)
  <2>1. CASE SessionEnds(s)
    BY <1>2, <1>8, <2>1, EndsEffect DEF session_blocks, Slice
  <2>2. CASE ~SessionEnds(s)
    <3>1. SessionTypes'
      BY <1>1, <1>3, <1>8, <2>2 DEF session_blocks, TypeOK, SessionTypes
    <3>2. Range(sessionSet') = Range(sessionSet) /\ Once(sessionSet')
      BY <1>1, <1>3, <1>8, <2>2 DEF session_blocks
    <3>3. Stays(s)
      BY <1>1, <1>2, <1>8, <2>2, <3>2 DEF session_blocks, TypeOK, Stays
    <3> QED
      BY <1>8, <3>1, <3>3 DEF session_blocks, Slice
  <2> QED
    BY <2>1, <2>2
<1>9. CASE session_timeout(s)
  BY <1>2, <1>9, EndsEffect DEF session_timeout, Scheduling
<1> QED
  BY <1>4, <1>5, <1>6, <1>7, <1>8, <1>9 DEF OfSession, SessionStep

\* A step of a task leaves the two threads where they are; only event_read touches
\* what they share, and only with the byte of a stop().
LEMMA TaskFrame ==
  ASSUME TypeOK, Listed, TaskStep
  PROVE  /\ UNCHANGED threadVars
         /\ worker = "sched" /\ ~aborted
         /\ \/ UNCHANGED <<tsync, evByte, run>>
            \/ evByte /\ tsync' = tsync \ {"SENT"} /\ evByte' = FALSE /\ run' = FALSE
<1>1. CASE EventStep
  BY <1>1 DEF EventStep, event_wait, event_read, event_join, Slice
<1>2. CASE IoStep
  BY <1>2 DEF IoStep, io_idle, io_fail, io_accept, io_packet, io_reset, Slice
<1>3. CASE TimerStep
  BY <1>3 DEF TimerStep, timer_tick, timer_abort, Slice
<1>4. ASSUME NEW s \in Sessions, OfSession(s)
      PROVE  worker = "sched" /\ ~aborted /\ UNCHANGED <<threadVars, tsync, evByte, run>>
  BY <1>4, SessionEffect DEF sessionFrame
<1>5. CASE \E t \in Tasks : io_poll(t)
  BY <1>5 DEF io_poll, Scheduling
<1> QED
  BY <1>1, <1>2, <1>3, <1>4, <1>5 DEF TaskStep

\* Only the reader of the TUN says whether it goes on reading.
LEMMA ReadingType ==
  ASSUME TypeOK, Listed, TaskStep
  PROVE  reading' \in BOOLEAN
<1>1. CASE IoStep
  BY <1>1 DEF IoStep, io_idle, io_fail, io_accept, io_packet, io_reset
<1>2. CASE EventStep \/ TimerStep
  BY <1>2 DEF EventStep, event_wait, event_read, event_join, TimerStep, timer_tick,
       timer_abort, engineVars, TypeOK
<1>3. ASSUME NEW s \in Sessions, OfSession(s)
      PROVE  UNCHANGED reading
  BY <1>3, SessionEffect DEF sessionFrame
<1>4. CASE \E t \in Tasks : io_poll(t)
  BY <1>4 DEF io_poll, engineVars, TypeOK
<1> QED
  BY <1>1, <1>2, <1>3, <1>4 DEF TaskStep, TypeOK
-----------------------------------------------------------------------------
(* The parts of the invariant, one lemma for each.                         *)

\* The state before the first call.
LEMMA InitIInv == Init => IInv
<1> SUFFICES ASSUME Init PROVE IInv
  OBVIOUS
<1>1. sessionSet \in Seq(Sessions) /\ Len(sessionSet) = 0 /\ Range(sessionSet) = {}
  <2>1. sessionSet \in Seq(Sessions) /\ Len(sessionSet) = 0
    BY DEF Init
  <2>2. ASSUME NEW x \in Range(sessionSet) PROVE FALSE
    <3>1. \E i \in 1..Len(sessionSet) : sessionSet[i] = x
      BY <2>1, RangePlaces
    <3> QED
      BY <2>1, <3>1
  <2> QED
    BY <2>1, <2>2
<1>2. TypeOK
  <2>1. work \in [Sessions -> 0..Burst]
    BY BurstAssumption DEF Init
  <2> QED
    BY <1>1, <2>1 DEF Init, TypeOK, Calls, Workers, SyncBits
<1>3. Handshake /\ StopOwned /\ NeverAborts /\ QuitReachesAll
  BY DEF Init, Handshake, StopOwned, NeverAborts, QuitReachesAll
<1>4. Engine
  BY Names DEF Init, Engine, Helpers
<1>5. Listed
  BY <1>1, Names DEF Init, Listed, Once
<1> QED
  BY <1>2, <1>3, <1>4, <1>5 DEF IInv

\* The calls and the worker outside the scheduler touch no session, and the tasks
\* only when run starts the three of the engine.
LEMMA ThreadFrame ==
  ASSUME TypeOK, Engine,
         native_start_service \/ native_stop_service \/ JniStep \/ WorkerStep
  PROVE  /\ UNCHANGED <<sessionSet, phase, timeout, pcb, work>>
         /\ \/ UNCHANGED <<run, task, evpc>>
            \/ hev_socks5_tunnel_run /\ worker' = "sched"
         /\ \A s \in Sessions : task'[s] = task[s]
<1>1. CASE native_start_service \/ native_stop_service
  BY <1>1 DEF native_start_service, native_stop_service, engineVars
<1>2. CASE JniStep
  BY <1>2 DEF JniStep, stop_announce, stop_mark_sent, stop_write, stop_before_run,
       stop_leave, stop_join, engineVars
<1>3. CASE worker_config \/ hev_socks5_tunnel_init \/ scheduler_returns
           \/ hev_socks5_tunnel_fini
  BY <1>3 DEF worker_config, hev_socks5_tunnel_init, scheduler_returns,
       hev_socks5_tunnel_fini, engineVars
<1>4. CASE hev_socks5_tunnel_run
  BY <1>4, Names DEF hev_socks5_tunnel_run, TypeOK
<1> QED
  BY <1>1, <1>2, <1>3, <1>4 DEF WorkerStep

\* Next is a step of a thread or of a task.
LEMMA NextSplits ==
  ASSUME Next
  PROVE  \/ native_start_service \/ native_stop_service \/ JniStep \/ WorkerStep
         \/ TaskStep
BY DEF Next, TaskStep, OfSession

\* Types.
LEMMA TypeStep ==
  ASSUME TypeOK, Listed, Engine, [Next]_vars
  PROVE  TypeOK'
<1>1. CASE native_start_service \/ native_stop_service
  <2>1. UNCHANGED <<tsync, evOpen, evByte, run, task, engineVars, aborted, leftStop>>
    BY <1>1 DEF native_start_service, native_stop_service
  <2>2. /\ call' \in Calls /\ joinable' \in BOOLEAN /\ isRunning' \in BOOLEAN
        /\ worker' \in Workers
    BY <1>1 DEF native_start_service, native_stop_service, TypeOK, Calls, Workers
  <2> QED
    BY <2>1, <2>2 DEF engineVars, TypeOK
<1>2. CASE JniStep
  <2>1. UNCHANGED <<evOpen, run, task, engineVars>>
    BY <1>2 DEF JniStep, stop_announce, stop_mark_sent, stop_write, stop_before_run,
         stop_leave, stop_join
  <2>2. call' \in Calls /\ worker' \in Workers /\ joinable' \in BOOLEAN
        /\ isRunning' \in BOOLEAN /\ tsync' \in SUBSET SyncBits
    BY <1>2 DEF JniStep, stop_announce, stop_mark_sent, stop_write, stop_before_run,
         stop_leave, stop_join, TypeOK, Calls, Workers, SyncBits
  <2>3. evByte' \in BOOLEAN /\ aborted' \in BOOLEAN /\ leftStop' \in BOOLEAN
    BY <1>2 DEF JniStep, stop_announce, stop_mark_sent, stop_write, stop_before_run,
         stop_leave, stop_join, TypeOK
  <2> QED
    BY <2>1, <2>2, <2>3 DEF engineVars, TypeOK
<1>3. CASE worker_config \/ hev_socks5_tunnel_init \/ scheduler_returns
           \/ hev_socks5_tunnel_fini
  <2>1. UNCHANGED <<call, joinable, run, task, engineVars, aborted>>
    BY <1>3 DEF worker_config, hev_socks5_tunnel_init, scheduler_returns,
         hev_socks5_tunnel_fini
  <2>2. worker' \in Workers /\ tsync' \in SUBSET SyncBits /\ isRunning' \in BOOLEAN
        /\ evOpen' \in BOOLEAN /\ evByte' \in BOOLEAN /\ leftStop' \in BOOLEAN
    <3>1. CASE worker_config
      <4>1. leftStop' \in BOOLEAN
        <5>1. ("STOP" \in tsync) \in BOOLEAN
          OBVIOUS
        <5> QED
          BY <3>1, <5>1 DEF worker_config, TypeOK
      <4> QED
        BY <3>1, <4>1 DEF worker_config, TypeOK, Workers
    <3>2. CASE hev_socks5_tunnel_init
      <4>1. tsync' \in SUBSET SyncBits /\ worker' \in Workers
        BY <3>2 DEF hev_socks5_tunnel_init, TypeOK, Workers, SyncBits
      <4>2. leftStop' \in BOOLEAN
        <5>1. ("STOP" \in tsync) \in BOOLEAN
          OBVIOUS
        <5> QED
          BY <3>2, <5>1 DEF hev_socks5_tunnel_init, TypeOK
      <4> QED
        BY <3>2, <4>1, <4>2 DEF hev_socks5_tunnel_init, TypeOK
    <3>3. CASE scheduler_returns \/ hev_socks5_tunnel_fini
      BY <3>3 DEF scheduler_returns, hev_socks5_tunnel_fini, TypeOK, Workers
    <3> QED
      BY <1>3, <3>1, <3>2, <3>3
  <2> QED
    BY <2>1, <2>2 DEF engineVars, TypeOK
<1>4. CASE hev_socks5_tunnel_run
  <2>1. UNCHANGED <<call, joinable, isRunning, evOpen, evByte, sessionSet, phase, timeout, pcb,
                    work, reading, aborted>>
    BY <1>4 DEF hev_socks5_tunnel_run
  <2>2. /\ tsync' \in SUBSET SyncBits /\ worker' \in Workers /\ leftStop' \in BOOLEAN
        /\ run' \in BOOLEAN /\ evpc' \in {"read", "joinIo", "joinTimer"}
    BY <1>4 DEF hev_socks5_tunnel_run, TypeOK, Workers
  <2>3. task' \in [Tasks -> {"STOPPED", "RUNNING", "WAITING"}]
    BY <1>4 DEF hev_socks5_tunnel_run, TypeOK
  <2> QED
    BY <2>1, <2>2, <2>3 DEF TypeOK
<1>5. CASE TaskStep
  <2>1. /\ UNCHANGED threadVars
        /\ tsync' \in SUBSET SyncBits /\ evByte' \in BOOLEAN /\ run' \in BOOLEAN
    BY <1>5, TaskFrame DEF TypeOK
  <2>0. reading' \in BOOLEAN
    BY <1>5, ReadingType
  <2>2. SUFFICES SessionTypes' /\ evpc' \in {"read", "joinIo", "joinTimer"}
                 /\ aborted' \in BOOLEAN
    BY <2>0, <2>1, <2>2 DEF threadVars, TypeOK, SessionTypes
  <2>3. CASE EventStep
    <3>1. CASE event_wait
      BY <3>1 DEF event_wait, engineVars, TypeOK, SessionTypes
    <3>2. CASE event_read
      <4>1. task' \in [Tasks -> {"STOPPED", "RUNNING", "WAITING"}]
        BY <3>2 DEF event_read, Woken, TypeOK
      <4>2. timeout' \in [Sessions -> {"none", "set", "zero"}]
        BY <3>2 DEF event_read, TypeOK
      <4> QED
        BY <3>2, <4>1, <4>2 DEF event_read, WakesStopped, TypeOK, SessionTypes
    <3>3. CASE event_join
      BY <3>3 DEF event_join, Woken, TypeOK, SessionTypes
    <3> QED
      BY <2>3, <3>1, <3>2, <3>3 DEF EventStep
  <2>4. CASE io_idle \/ timer_tick
    <3>1. task' \in [Tasks -> {"STOPPED", "RUNNING", "WAITING"}] /\ aborted' \in BOOLEAN
      BY <2>4 DEF io_idle, timer_tick, Exits, Woken, Joiner, WakesStopped, TypeOK
    <3> QED
      BY <2>4, <3>1 DEF io_idle, timer_tick, engineVars, TypeOK, SessionTypes
  <2>9. CASE io_fail
    BY <2>9 DEF io_fail, TypeOK, SessionTypes
  <2>5. ASSUME NEW s \in Sessions, io_accept(s)
        PROVE  SessionTypes' /\ UNCHANGED evpc /\ aborted' \in BOOLEAN
    BY <2>5, Names, BurstAssumption
       DEF io_accept, Woken, WakesStopped, TypeOK, SessionTypes
  <2>6. ASSUME NEW s \in Sessions, io_packet(s) \/ io_reset(s) \/ timer_abort(s)
        PROVE  SessionTypes' /\ UNCHANGED evpc /\ aborted' \in BOOLEAN
    <3>1. Burst \in 0..Burst
      BY BurstAssumption
    <3>2. CASE io_packet(s)
      BY <2>6, <3>1, <3>2 DEF io_packet, Woken, WakesStopped, TypeOK, SessionTypes
    <3>3. CASE io_reset(s)
      BY <2>6, <3>3 DEF io_reset, ConnectionLost, Woken, WakesStopped, TypeOK, SessionTypes
    <3>4. CASE timer_abort(s)
      BY <2>6, <3>4 DEF timer_abort, ConnectionLost, Woken, WakesStopped, TypeOK,
           SessionTypes
    <3> QED
      BY <2>6, <3>2, <3>3, <3>4
  <2>7. ASSUME NEW s \in Sessions, OfSession(s)
        PROVE  SessionTypes' /\ UNCHANGED <<evpc, aborted>>
    BY <2>7, SessionEffect DEF sessionFrame
  <2>8. CASE \E t \in Tasks : io_poll(t)
    BY <2>8 DEF io_poll, Woken, engineVars, TypeOK, SessionTypes
  <2> QED
    BY <1>5, <2>3, <2>4, <2>5, <2>6, <2>7, <2>8, <2>9 DEF TaskStep, IoStep, TimerStep, TypeOK
<1>6. CASE UNCHANGED vars
  BY <1>6 DEF vars, engineVars, TypeOK
<1> QED
  BY <1>1, <1>2, <1>3, <1>4, <1>5, <1>6, NextSplits DEF WorkerStep

\* The handshake of stop() and the worker over tsync.
LEMMA HandshakeStep ==
  ASSUME IInv, [Next]_vars
  PROVE  Handshake'
<1> USE DEF IInv, Handshake
<1>1. CASE native_start_service
  BY <1>1 DEF native_start_service
<1>2. CASE native_stop_service
  BY <1>2 DEF native_stop_service
<1>3. CASE stop_announce
  BY <1>3 DEF stop_announce
<1>4. CASE stop_mark_sent
  BY <1>4 DEF stop_mark_sent
<1>5. CASE stop_write
  BY <1>5 DEF stop_write
<1>6. CASE stop_before_run
  BY <1>6 DEF stop_before_run
<1>7. CASE stop_leave
  BY <1>7 DEF stop_leave
<1>8. CASE stop_join
  BY <1>8 DEF stop_join
<1>9. CASE worker_config
  BY <1>9 DEF worker_config
<1>10. CASE hev_socks5_tunnel_init
  BY <1>10 DEF hev_socks5_tunnel_init
<1>11. CASE hev_socks5_tunnel_run
  BY <1>11 DEF hev_socks5_tunnel_run
<1>12. CASE scheduler_returns
  BY <1>12 DEF scheduler_returns
<1>13. CASE hev_socks5_tunnel_fini
  <2>1. CASE "WAIT" \in tsync
    <3>1. /\ UNCHANGED <<worker, evOpen, evByte, isRunning, call, joinable>>
          /\ tsync' = tsync \ {"SEND", "SENT"}
      BY <1>13, <2>1 DEF hev_socks5_tunnel_fini
    <3> QED
      BY <3>1
  <2>2. CASE "WAIT" \notin tsync
    <3>1. /\ worker' = "exited" /\ evByte' = FALSE /\ isRunning' = FALSE
          /\ UNCHANGED <<call, joinable>> /\ tsync' = tsync \ {"SEND", "SENT"}
          /\ worker = "fini"
      BY <1>13, <2>2 DEF hev_socks5_tunnel_fini
    <3> QED
      BY <2>2, <3>1
  <2> QED
    BY <2>1, <2>2
<1>14. CASE TaskStep
  <2>1. /\ UNCHANGED <<call, joinable, isRunning, worker, evOpen, leftStop>>
        /\ worker = "sched"
        /\ \/ UNCHANGED <<tsync, evByte, run>>
           \/ evByte /\ tsync' = tsync \ {"SENT"} /\ evByte' = FALSE /\ run' = FALSE
    BY <1>14, TaskFrame DEF threadVars
  <2>2. CASE UNCHANGED <<tsync, evByte, run>>
    BY <2>1, <2>2
  <2>3. CASE evByte /\ tsync' = tsync \ {"SENT"} /\ evByte' = FALSE /\ run' = FALSE
    BY <2>1, <2>3
  <2> QED
    BY <2>1, <2>2, <2>3
<1>15. CASE UNCHANGED vars
  BY <1>15 DEF vars
<1> QED
  BY <1>1, <1>2, <1>3, <1>4, <1>5, <1>6, <1>7, <1>8, <1>9, <1>10, <1>11, <1>12, <1>13,
     <1>14, <1>15, NextSplits DEF JniStep, WorkerStep

\* A SYNC_STOP in tsync belongs to the stop() under way or was left over.
LEMMA StopOwnedStep ==
  ASSUME IInv, [Next]_vars
  PROVE  StopOwned'
<1> USE DEF IInv, Handshake, StopOwned
<1>1. CASE native_start_service
  BY <1>1 DEF native_start_service
<1>2. CASE native_stop_service
  BY <1>2 DEF native_stop_service
<1>3. CASE stop_announce
  BY <1>3 DEF stop_announce
<1>4. CASE stop_mark_sent
  BY <1>4 DEF stop_mark_sent
<1>5. CASE stop_write
  BY <1>5 DEF stop_write
<1>6. CASE stop_before_run
  <2>1. CASE worker \in {"fini", "exited"}
    <3>1. leftStop' = TRUE /\ UNCHANGED <<worker, run, evByte>> /\ call' = "leave"
      BY <1>6, <2>1 DEF stop_before_run, TypeOK
    <3> QED
      BY <2>1, <3>1
  <2>2. CASE worker \notin {"fini", "exited"}
    <3>1. /\ leftStop' = leftStop /\ UNCHANGED <<worker, run, evByte>>
          /\ call = "stop" /\ call' = "leave" /\ tsync' = tsync \cup {"STOP"}
      BY <1>6, <2>2 DEF stop_before_run, TypeOK
    <3>2. worker \in {"config", "init", "run", "sched"}
      <4>1. worker # "none"
        BY <1>6 DEF stop_before_run
      <4> QED
        BY <2>2, <4>1 DEF TypeOK, Workers
    <3> QED
      BY <3>1, <3>2
  <2> QED
    BY <2>1, <2>2
<1>7. CASE stop_leave
  BY <1>7 DEF stop_leave
<1>8. CASE stop_join
  BY <1>8 DEF stop_join
<1>9. CASE worker_config
  BY <1>9 DEF worker_config
<1>10. CASE hev_socks5_tunnel_init
  BY <1>10 DEF hev_socks5_tunnel_init
<1>11. CASE hev_socks5_tunnel_run
  BY <1>11 DEF hev_socks5_tunnel_run
<1>12. CASE scheduler_returns
  <2>1. ~run
    BY <1>12, Names DEF scheduler_returns, Engine, Helpers
  <2> QED
    BY <1>12, <2>1 DEF scheduler_returns
<1>13. CASE hev_socks5_tunnel_fini
  BY <1>13 DEF hev_socks5_tunnel_fini
<1>14. CASE TaskStep
  <2>1. /\ UNCHANGED <<call, joinable, isRunning, worker, evOpen, leftStop>>
        /\ worker = "sched"
        /\ \/ UNCHANGED <<tsync, evByte, run>>
           \/ evByte /\ tsync' = tsync \ {"SENT"} /\ evByte' = FALSE /\ run' = FALSE
    BY <1>14, TaskFrame DEF threadVars
  <2>2. CASE UNCHANGED <<tsync, evByte, run>>
    BY <2>1, <2>2
  <2>3. CASE evByte /\ tsync' = tsync \ {"SENT"} /\ evByte' = FALSE /\ run' = FALSE
    BY <2>1, <2>3
  <2> QED
    BY <2>1, <2>2, <2>3
<1>15. CASE UNCHANGED vars
  BY <1>15 DEF vars
<1> QED
  BY <1>1, <1>2, <1>3, <1>4, <1>5, <1>6, <1>7, <1>8, <1>9, <1>10, <1>11, <1>12, <1>13,
     <1>14, <1>15, NextSplits DEF JniStep, WorkerStep

\* The three tasks of the engine.
LEMMA EngineStep ==
  ASSUME IInv, [Next]_vars
  PROVE  Engine'
<1> USE Names
<1>1. CASE native_start_service \/ native_stop_service \/ JniStep \/ worker_config
           \/ hev_socks5_tunnel_init \/ hev_socks5_tunnel_fini
  <2>1. UNCHANGED <<run, task, evpc>>
    BY <1>1 DEF native_start_service, native_stop_service, JniStep, stop_announce,
         stop_mark_sent, stop_write, stop_before_run, stop_leave, stop_join, worker_config,
         hev_socks5_tunnel_init, hev_socks5_tunnel_fini, engineVars
  <2>2. UNCHANGED worker \/ (worker # "sched" /\ worker' # "sched")
    BY <1>1 DEF native_start_service, native_stop_service, JniStep, stop_announce,
         stop_mark_sent, stop_write, stop_before_run, stop_leave, stop_join, worker_config,
         hev_socks5_tunnel_init, hev_socks5_tunnel_fini, IInv, Handshake
  <2> QED
    BY <2>1, <2>2 DEF IInv, Engine
<1>2. CASE hev_socks5_tunnel_run
  BY <1>2 DEF hev_socks5_tunnel_run, IInv, Engine, Helpers, Tasks
<1>3. CASE scheduler_returns
  BY <1>3 DEF scheduler_returns, IInv, Engine, engineVars
<1>4. CASE EventStep
  <2>1. CASE event_wait
    BY <2>1 DEF event_wait, Slice, engineVars, IInv, TypeOK, Engine, Helpers, threadVars
  <2>2. CASE event_read
    BY <2>2 DEF event_read, Slice, Woken, IInv, TypeOK, Engine, Helpers, threadVars
  <2>3. CASE event_join
    BY <2>3 DEF event_join, Slice, Woken, IInv, TypeOK, Engine, Helpers, threadVars
  <2> QED
    BY <1>4, <2>1, <2>2, <2>3 DEF EventStep
<1>5. CASE io_idle \/ timer_tick
  <2>1. /\ worker = "sched" /\ UNCHANGED <<worker, run, evpc>>
    BY <1>5 DEF io_idle, timer_tick, Slice, engineVars, threadVars
  <2>2. CASE run
    <3>1. \A t \in Helpers : task[t] # "STOPPED" => task'[t] # "STOPPED"
      BY <1>5, <2>2 DEF io_idle, timer_tick, IInv, TypeOK, Helpers
    <3> QED
      BY <2>1, <2>2, <3>1 DEF IInv, Engine, Helpers
  <2>3. CASE ~run
    <3>1. PICK t \in {"io", "timer"} : task[t] # "STOPPED" /\ Exits(t)
      BY <1>5, <2>3 DEF io_idle, timer_tick, Slice
    <3>2. task["event"] # "STOPPED"
      BY <3>1 DEF IInv, Engine
    <3>3. task'["event"] # "STOPPED"
      BY <3>1, <3>2 DEF Exits, Woken, IInv, TypeOK, Helpers
    <3> QED
      BY <2>1, <2>3, <3>3 DEF IInv, Engine
  <2> QED
    BY <2>2, <2>3
<1>6. ASSUME NEW s \in Sessions,
             io_accept(s) \/ io_packet(s) \/ io_reset(s) \/ timer_abort(s)
      PROVE  Engine'
  <2>1. /\ worker = "sched" /\ run /\ UNCHANGED <<worker, run, evpc>>
    BY <1>6 DEF io_accept, io_packet, io_reset, timer_abort, Slice, threadVars
  <2>2. \A t \in Helpers : task[t] # "STOPPED" => task'[t] # "STOPPED"
    BY <1>6 DEF io_accept, io_packet, io_reset, timer_abort, Woken, IInv, TypeOK, Helpers
  <2> QED
    BY <2>1, <2>2 DEF IInv, Engine, Helpers
<1>7. ASSUME NEW s \in Sessions, OfSession(s)
      PROVE  Engine'
  <2>1. /\ worker = "sched" /\ UNCHANGED <<worker, run, evpc>>
        /\ \A t \in Helpers : task'[t] = task[t]
    BY <1>7, SessionEffect DEF IInv, sessionFrame, threadVars, Stays, Ends, Helpers
  <2> QED
    BY <2>1 DEF IInv, Engine, Helpers
<1>8. ASSUME NEW t \in Tasks, io_poll(t)
      PROVE  Engine'
  BY <1>8 DEF io_poll, Woken, engineVars, threadVars, IInv, TypeOK, Engine, Helpers
<1>9. CASE io_fail \/ UNCHANGED vars
  BY <1>9 DEF io_fail, threadVars, vars, engineVars, IInv, Engine
<1> QED
  BY <1>1, <1>2, <1>3, <1>4, <1>5, <1>6, <1>7, <1>8, <1>9, NextSplits
     DEF WorkerStep, TaskStep, IoStep, TimerStep

\* hev_socks5_tunnel_insert_session terminates only a session that was there before:
\* with a limit other than 1 the list is not empty when it is full.
LEMMA OldestListed ==
  ASSUME TypeOK, Listed, NEW s \in Sessions, phase[s] = "none",
         MaxSessionCount # 0, Len(Append(sessionSet, s)) >= MaxSessionCount
  PROVE  Head(Append(sessionSet, s)) \in Range(sessionSet)
<1>1. sessionSet \in Seq(Sessions) /\ Once(sessionSet) /\ s \notin Range(sessionSet)
  BY DEF TypeOK, Listed
<1>2. sessionSet # <<>>
  BY <1>1, LimitAssumption
<1> QED
  BY <1>1, <1>2, AddPlace

\* The list holds the sessions that have a task.
LEMMA ListedStep ==
  ASSUME IInv, [Next]_vars
  PROVE  Listed'
<1> USE Names
<1>1. CASE native_start_service \/ native_stop_service \/ JniStep \/ WorkerStep
  BY <1>1, ThreadFrame DEF IInv, Listed
<1>2. CASE EventStep
  <2>1. UNCHANGED <<sessionSet, phase, pcb>>
    BY <1>2 DEF EventStep, event_wait, event_read, event_join, engineVars
  <2>2. \A s \in Sessions : task'[s] = "STOPPED" <=> task[s] = "STOPPED"
    <3>1. CASE event_wait
      BY <3>1 DEF event_wait, IInv, TypeOK
    <3>2. CASE event_read
      BY <3>2 DEF event_read, Woken, IInv, TypeOK, Listed
    <3>3. CASE event_join
      BY <3>3 DEF event_join, Woken, IInv, TypeOK
    <3> QED
      BY <1>2, <3>1, <3>2, <3>3 DEF EventStep
  <2> QED
    BY <2>1, <2>2 DEF IInv, Listed
<1>3. CASE io_idle \/ timer_tick
  <2>1. UNCHANGED <<sessionSet, phase, pcb>>
    BY <1>3 DEF io_idle, timer_tick, engineVars
  <2>2. \A s \in Sessions : task'[s] = task[s]
    BY <1>3 DEF io_idle, timer_tick, Exits, Joiner, Woken, IInv, TypeOK
  <2> QED
    BY <2>1, <2>2 DEF IInv, Listed
<1>4. ASSUME NEW s \in Sessions, io_accept(s)
      PROVE  Listed'
  <2>1. s \notin Range(sessionSet) /\ sessionSet' = Append(sessionSet, s)
    BY <1>4 DEF io_accept, IInv, Listed
  <2>2. Once(sessionSet') /\ Range(sessionSet') = Range(sessionSet) \cup {s}
    BY <2>1, AddPlace DEF IInv, TypeOK, Listed
  <2>3. \A x \in Sessions \ {s} : phase'[x] = phase[x] /\ pcb'[x] = pcb[x]
    BY <1>4 DEF io_accept, IInv, TypeOK
  <2>4. phase'[s] # "none" /\ task'[s] # "STOPPED"
    BY <1>4 DEF io_accept, Woken, IInv, TypeOK
  <2>5. \A x \in Sessions \ {s} : task'[x] = "STOPPED" <=> task[x] = "STOPPED"
    <3> DEFINE full == MaxSessionCount # 0
                       /\ Len(Append(sessionSet, s)) >= MaxSessionCount
               oldest == IF full THEN {Head(Append(sessionSet, s))} ELSE {}
    <3>1. \A x \in oldest : x \in Range(sessionSet)
      BY <1>4, OldestListed DEF io_accept, IInv
    <3>2. task' = [Woken(oldest \cup {"timer"}) EXCEPT ![s] = "RUNNING"]
      BY <1>4 DEF io_accept
    <3> HIDE DEF oldest
    <3>3. \A x \in Sessions \ {s} : task'[x] = IF x \in oldest THEN "RUNNING" ELSE task[x]
      BY <3>2 DEF Woken, IInv, TypeOK
    <3> QED
      BY <3>1, <3>3 DEF IInv, Listed
  <2> QED
    BY <2>2, <2>3, <2>4, <2>5 DEF IInv, Listed
<1>5. ASSUME NEW s \in Sessions, io_packet(s) \/ io_reset(s) \/ timer_abort(s)
      PROVE  Listed'
  <2>1. UNCHANGED <<sessionSet, phase>> /\ pcb[s] /\ (\A x \in Sessions : pcb'[x] => pcb[x])
    BY <1>5 DEF io_packet, io_reset, timer_abort, ConnectionLost, IInv, TypeOK
  <2>2. task[s] # "STOPPED"
    BY <2>1 DEF IInv, Listed
  <2>3. \A x \in Sessions : task'[x] = "STOPPED" <=> task[x] = "STOPPED"
    BY <1>5, <2>2 DEF io_packet, io_reset, timer_abort, Woken, IInv, TypeOK
  <2> QED
    BY <2>1, <2>3 DEF IInv, Listed
<1>6. ASSUME NEW s \in Sessions, OfSession(s)
      PROVE  Listed'
  <2>1. CASE Stays(s)
    BY <2>1 DEF Stays, IInv, Listed
  <2>2. CASE Ends(s)
    BY <2>2 DEF Ends, IInv, Listed
  <2> QED
    BY <1>6, <2>1, <2>2, SessionEffect DEF IInv
<1>7. ASSUME NEW t \in Tasks, io_poll(t)
      PROVE  Listed'
  <2>1. UNCHANGED <<sessionSet, phase, pcb>> /\ task[t] # "STOPPED"
    BY <1>7 DEF io_poll, engineVars
  <2>2. \A x \in Sessions : task'[x] = "STOPPED" <=> task[x] = "STOPPED"
    BY <1>7, <2>1 DEF io_poll, Woken, IInv, TypeOK
  <2> QED
    BY <2>1, <2>2 DEF IInv, Listed
<1>8. CASE io_fail \/ UNCHANGED vars
  BY <1>8 DEF io_fail, vars, engineVars, IInv, Listed
<1> QED
  BY <1>1, <1>2, <1>3, <1>4, <1>5, <1>6, <1>7, <1>8, NextSplits
     DEF TaskStep, IoStep, TimerStep

\* abort() and the assert are out of reach.
LEMMA AbortStep ==
  ASSUME IInv, [Next]_vars
  PROVE  NeverAborts'
<1> USE Names
<1>0. ~aborted
  BY DEF IInv, NeverAborts
<1>1. CASE native_start_service \/ native_stop_service \/ stop_announce \/ stop_mark_sent
           \/ stop_before_run \/ stop_leave \/ stop_join \/ WorkerStep
  <2>1. UNCHANGED aborted
    BY <1>1 DEF native_start_service, native_stop_service, stop_announce, stop_mark_sent,
         stop_before_run, stop_leave, stop_join, WorkerStep, worker_config,
         hev_socks5_tunnel_init, hev_socks5_tunnel_run, scheduler_returns,
         hev_socks5_tunnel_fini
  <2> QED
    BY <1>0, <2>1 DEF NeverAborts
<1>2. CASE stop_write
  <2>1. evOpen
    BY <1>2 DEF stop_write, IInv, Handshake
  <2> QED
    BY <1>0, <1>2, <2>1 DEF stop_write, NeverAborts
<1>3. CASE EventStep
  <2>1. CASE event_wait \/ event_join
    BY <1>0, <2>1 DEF event_wait, event_join, NeverAborts
  <2>2. CASE event_read
    <3>1. worker = "sched" /\ run
      BY <2>2 DEF event_read, Slice, IInv, Engine
    <3>2. task["io"] # "STOPPED"
      BY <3>1 DEF IInv, Engine, Helpers
    <3>3. \A x \in Range(sessionSet) : task[x] # "STOPPED"
      <4> SUFFICES ASSUME NEW x \in Range(sessionSet) PROVE task[x] # "STOPPED"
        OBVIOUS
      <4>1. x \in Sessions
        BY RangePlaces DEF IInv, TypeOK
      <4> QED
        BY <4>1 DEF IInv, Listed
    <3> QED
      BY <2>2, <3>2, <3>3 DEF event_read, WakesStopped, NeverAborts
  <2> QED
    BY <1>3, <2>1, <2>2 DEF EventStep
<1>4. CASE io_idle \/ timer_tick
  <2>1. CASE run
    BY <1>0, <1>4, <2>1 DEF io_idle, timer_tick, NeverAborts
  <2>2. CASE ~run
    <3>1. PICK t \in {"io", "timer"} : task[t] # "STOPPED" /\ Exits(t)
      BY <1>4, <2>2 DEF io_idle, timer_tick, Slice
    <3>2. task["event"] # "STOPPED"
      BY <3>1 DEF IInv, Engine
    <3> QED
      BY <3>1, <3>2 DEF Exits, Joiner, WakesStopped, NeverAborts
  <2> QED
    BY <2>1, <2>2
<1>5. ASSUME NEW s \in Sessions, io_accept(s)
      PROVE  NeverAborts'
  <2> DEFINE full == MaxSessionCount # 0 /\ Len(Append(sessionSet, s)) >= MaxSessionCount
             oldest == IF full THEN {Head(Append(sessionSet, s))} ELSE {}
  <2>1. \A x \in oldest : x \in Range(sessionSet)
    BY <1>5, OldestListed DEF io_accept, IInv
  <2>2. aborted' = WakesStopped(oldest \cup {"timer"})
    BY <1>5 DEF io_accept
  <2> HIDE DEF oldest
  <2>3. task["timer"] # "STOPPED"
    BY <1>5 DEF io_accept, Slice, IInv, Engine, Helpers
  <2>4. \A x \in oldest : task[x] # "STOPPED"
    <3> SUFFICES ASSUME NEW x \in oldest PROVE task[x] # "STOPPED"
      OBVIOUS
    <3>1. x \in Sessions
      BY <2>1, RangePlaces DEF IInv, TypeOK
    <3> QED
      BY <2>1, <3>1 DEF IInv, Listed
  <2> QED
    BY <2>2, <2>3, <2>4 DEF WakesStopped, NeverAborts
<1>6. ASSUME NEW s \in Sessions, io_packet(s) \/ io_reset(s) \/ timer_abort(s)
      PROVE  NeverAborts'
  <2>1. pcb[s] /\ aborted' = WakesStopped({s})
    BY <1>6 DEF io_packet, io_reset, timer_abort, ConnectionLost
  <2>2. task[s] # "STOPPED"
    BY <2>1 DEF IInv, Listed
  <2> QED
    BY <2>1, <2>2 DEF WakesStopped, NeverAborts
<1>7. ASSUME NEW s \in Sessions, OfSession(s)
      PROVE  NeverAborts'
  BY <1>0, <1>7, SessionEffect DEF IInv, sessionFrame, NeverAborts
<1>8. CASE \E t \in Tasks : io_poll(t)
  BY <1>0, <1>8 DEF io_poll, NeverAborts
<1>9. CASE io_fail \/ UNCHANGED vars
  BY <1>0, <1>9 DEF io_fail, vars, NeverAborts
<1> QED
  BY <1>1, <1>2, <1>3, <1>4, <1>5, <1>6, <1>7, <1>8, <1>9, NextSplits
     DEF JniStep, TaskStep, IoStep, TimerStep

\* From the event on no session is without timeout 0.
LEMMA QuitStep ==
  ASSUME IInv, [Next]_vars
  PROVE  QuitReachesAll'
<1> USE Names
<1>1. CASE native_start_service \/ native_stop_service \/ JniStep \/ WorkerStep
  <2>1. UNCHANGED <<phase, timeout>>
    BY <1>1, ThreadFrame DEF IInv
  <2>2. CASE worker' = "sched" /\ ~run'
    <3>1. worker = "sched" /\ ~run
      BY <1>1, <2>2 DEF native_start_service, native_stop_service, JniStep, stop_announce,
           stop_mark_sent, stop_write, stop_before_run, stop_leave, stop_join, WorkerStep,
           worker_config, hev_socks5_tunnel_init, hev_socks5_tunnel_run, scheduler_returns,
           hev_socks5_tunnel_fini
    <3> QED
      BY <2>1, <3>1 DEF IInv, QuitReachesAll
  <2> QED
    BY <2>2 DEF QuitReachesAll
<1>2. CASE EventStep
  <2>1. CASE event_wait \/ event_join
    BY <2>1 DEF event_wait, event_join, engineVars, threadVars, IInv, QuitReachesAll
  <2>2. CASE event_read
    BY <2>2 DEF event_read, IInv, Listed, QuitReachesAll
  <2> QED
    BY <1>2, <2>1, <2>2 DEF EventStep
<1>3. CASE io_idle \/ timer_tick
  BY <1>3 DEF io_idle, timer_tick, engineVars, threadVars, IInv, QuitReachesAll
<1>4. ASSUME NEW s \in Sessions,
             io_accept(s) \/ io_packet(s) \/ io_reset(s) \/ timer_abort(s)
      PROVE  QuitReachesAll'
  BY <1>4 DEF io_accept, io_packet, io_reset, timer_abort, QuitReachesAll
<1>5. ASSUME NEW s \in Sessions, OfSession(s)
      PROVE  QuitReachesAll'
  <2>1. UNCHANGED <<worker, run>> /\ (Stays(s) \/ Ends(s))
    BY <1>5, SessionEffect DEF IInv, sessionFrame, threadVars
  <2> QED
    BY <2>1 DEF Stays, Ends, IInv, QuitReachesAll
<1>6. CASE \E t \in Tasks : io_poll(t)
  BY <1>6 DEF io_poll, engineVars, threadVars, IInv, QuitReachesAll
<1>7. CASE io_fail \/ UNCHANGED vars
  BY <1>7 DEF io_fail, threadVars, vars, engineVars, IInv, QuitReachesAll
<1> QED
  BY <1>1, <1>2, <1>3, <1>4, <1>5, <1>6, <1>7, NextSplits DEF TaskStep, IoStep, TimerStep

\* Every step keeps the invariant.
LEMMA StepIInv == IInv /\ [Next]_vars => IInv'
<1> SUFFICES ASSUME IInv, [Next]_vars PROVE IInv'
  OBVIOUS
<1>1. TypeOK'
  BY TypeStep DEF IInv
<1> QED
  BY <1>1, HandshakeStep, StopOwnedStep, EngineStep, ListedStep, AbortStep, QuitStep
     DEF IInv
-----------------------------------------------------------------------------
(* Theorems.                                                               *)

\* The inductive invariant holds of every behaviour of the engine.
THEOREM Invariant == Spec => []IInv
<1>1. IInv /\ [Next]_vars => IInv'
  BY StepIInv
<1> QED
  BY <1>1, InitIInv, PTL DEF Spec

\* Every variable of the engine keeps its type, for any sessions and any limit.
THEOREM TypeCorrect == Spec => []TypeOK
<1>1. IInv => TypeOK
  BY DEF IInv
<1> QED
  BY <1>1, Invariant, PTL

\* The engine never aborts, however start and stop race with the worker, with the
\* reader of the TUN and with the sessions: stop() writes to an open socket, and every
\* task that is woken is alive.
THEOREM EngineNeverAborts == Spec => []NeverAborts
<1>1. IInv => NeverAborts
  BY DEF IInv
<1> QED
  BY <1>1, Invariant, PTL

\* No session escapes a quit, whatever phase it is in when the event is read.
THEOREM QuitReachesEverySession == Spec => []QuitReachesAll
<1>1. IInv => QuitReachesAll
  BY DEF IInv
<1> QED
  BY <1>1, Invariant, PTL

\* hev_socks5_tunnel_run gives up only for a quit of its own run or for one that an
\* earlier worker left behind.
THEOREM QuitIsOwn == Spec => OwnQuit
<1>1. ASSUME IInv, [Next]_vars, worker = "run", worker' = "fini"
      PROVE  call \in {"leave", "join"} \/ leftStop
  <2>1. hev_socks5_tunnel_run
    <3>1. CASE native_start_service \/ native_stop_service \/ JniStep
      BY <1>1, <3>1 DEF native_start_service, native_stop_service, JniStep, stop_announce,
           stop_mark_sent, stop_write, stop_before_run, stop_leave, stop_join
    <3>2. CASE WorkerStep
      BY <1>1, <3>2 DEF WorkerStep, worker_config, hev_socks5_tunnel_init,
           scheduler_returns, hev_socks5_tunnel_fini
    <3>3. CASE TaskStep
      BY <1>1, <3>3, TaskFrame DEF IInv
    <3>4. CASE UNCHANGED vars
      BY <1>1, <3>4 DEF vars
    <3> QED
      BY <1>1, <3>1, <3>2, <3>3, <3>4, NextSplits
  <2>2. "STOP" \in tsync
    BY <1>1, <2>1 DEF hev_socks5_tunnel_run
  <2> QED
    BY <1>1, <2>2 DEF IInv, StopOwned
<1>2. IInv /\ [Next]_vars
      => [worker = "run" /\ worker' = "fini" => call \in {"leave", "join"} \/ leftStop]_vars
  BY <1>1
<1> QED
  BY <1>2, Invariant, PTL DEF Spec, OwnQuit
=============================================================================

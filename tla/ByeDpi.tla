------------------------------- MODULE ByeDpi -------------------------------
(***************************************************************************)
(* The ByeDPI proxy (native/byedpi): one thread, one event pool.  Every    *)
(* socket has a slot of the pool (struct eval); a connection is a client's *)
(* slot and a server's slot that point at each other, a UDP association a  *)
(* ring of three.  When a server resets, does not answer or answers        *)
(* wrongly, the proxy connects again with the next group of desync options *)
(* and sends the client's first bytes once more; what it learned about the *)
(* address is kept in a cache that all connections share.                  *)
(*                                                                         *)
(* A callback is one step.  What its system calls may return is left open, *)
(* so an operator that stands for a function of the code yields the SET of *)
(* its outcomes [st, ret]: the pool after it and what it returns.  Bytes   *)
(* are numbered segments.  All connections go to one address; clients are  *)
(* SOCKS5 clients.                                                         *)
(***************************************************************************)
EXTENDS Integers, FiniteSets

CONSTANTS
  Slots,      \* the slots of the pool, without the listening socket's
  NoSlot,     \* the null pointer
  NGroups,    \* groups of desync options, in the order of the command line
  Detect,     \* what brings a group into use: its --auto= set
  SqSize,     \* room of a sq_buff, in segments
  MaxClients, \* bound: clients that have a slot
  MaxUp,      \* bound: segments the clients with a slot have sent, together
  MaxDown     \* bound: segments the servers with a slot have sent, together

Groups == 1..NGroups
Types == {"torst", "redirect", "tls_err", "connect"}

ASSUME PoolAssumption == NoSlot \notin Slots /\ IsFiniteSet(Slots)
ASSUME GroupAssumption == /\ NGroups \in Nat \ {0}
                          /\ Detect \in [Groups -> SUBSET Types]
                          /\ Detect[1] = {}
ASSUME BoundAssumption == /\ {SqSize, MaxClients} \subseteq Nat \ {0}
                          /\ {MaxUp, MaxDown} \subseteq Nat

VARIABLES
  ev,         \* the slots
  touched,    \* the slots with mod_iter = iters: changed during this batch
  batch,      \* what epoll_wait reported and next_event has not yet given out
  cache,      \* what is known about the address, or NoCache
  status      \* "run", "exit" (the loop was left) or "assert" (abort())

vars == <<ev, touched, batch, cache, status>>

\* A buffer with the segments base+1 .. hi, of which lo+1 .. hi are still to be
\* sent; a saved first request (sq_buff) is the number of its segments, or 0.
NoBuf == [base |-> 0, lo |-> 0, hi |-> 0]
NoCache == [mask |-> {}, detect |-> {}, dp |-> 0]

\* A slot as add_event() leaves it: memset to 0, no socket of its own yet.
Blank ==
  [live |-> FALSE, flag |-> "none", cb |-> "on_request", want |-> {},
   pair |-> NoSlot, buff |-> NoBuf, sq |-> 0,
   dp |-> 0, mask |-> {}, detect |-> {}, recv |-> 0, sent |-> FALSE,
   round |-> 0, timer |-> FALSE,
   \* the socket: how it stands, what its peer sent, whether its buffer is full
   sock |-> "open", peer |-> 0, full |-> FALSE,
   \* history: bytes the server has, how its stream is, answers the client saw
   got |-> 0, stream |-> "whole", fed |-> "no"]

Free == {s \in Slots : ~ev[s].live}
St == [ev |-> ev, touched |-> touched, batch |-> batch, cache |-> cache,
       status |-> status]
Put(st, s, e) == [st EXCEPT !.ev[s] = e]
Out(st, ret) == [st |-> st, ret |-> ret]
Fail(st) == {Out(st, -1)}
OpenSlots(st) == {s \in Slots : ~st.ev[s].live}
-----------------------------------------------------------------------------
(* conev.c: the pool                                                       *)

\* Takes a free slot for a socket: any of them (links[] keeps them in an
\* order of its own).  No outcome when the pool is full.
add_event(st, s, cb, want) ==
  [st EXCEPT !.ev[s] = [Blank EXCEPT !.live = TRUE, !.cb = cb, !.want = want],
             !.touched = @ \union {s}]

\* The slots a deletion reaches over the pair pointers.
Reached(st, s) ==
  LET p == st.ev[s].pair
      q == IF p = NoSlot THEN NoSlot ELSE st.ev[p].pair
  IN  {s, p, q} \ {NoSlot}

\* Mutants of del_event: the paired slots are left alone; mod_iter is not set.
DelAlone(st, s) ==
  [st EXCEPT !.ev[s] = Blank, !.touched = @ \union {s},
             !.batch = {IF e.slot = s THEN [e EXCEPT !.open = FALSE] ELSE e : e \in @}]
DelUntouched(st, s) ==
  IF ~st.ev[s].live THEN st
  ELSE LET dead == Reached(st, s)
       IN  [st EXCEPT
              !.ev = [x \in Slots |-> IF x \in dead THEN Blank ELSE @[x]],
              !.batch = {IF e.slot \in dead THEN [e EXCEPT !.open = FALSE] ELSE e
                           : e \in @}]

\* Closes the socket, gives the buffers back and frees the slot, and the same
\* for the slots it is paired with.  What the batch still holds for them is
\* marked as of a closed socket (the program itself looks at mod_iter only).
del_event(st, s) ==
  IF ~st.ev[s].live THEN st
  ELSE LET dead == Reached(st, s)
       IN  [st EXCEPT
              !.ev = [x \in Slots |-> IF x \in dead THEN Blank ELSE @[x]],
              !.touched = @ \union dead,
              !.batch = {IF e.slot \in dead THEN [e EXCEPT !.open = FALSE] ELSE e
                           : e \in @}]

\* The process is over, the kernel closes its sockets.
Ended(st, how) == [st EXCEPT !.ev = [s \in Slots |-> Blank], !.batch = {},
                             !.touched = {}, !.status = how]

\* assert(val->fd > 0): the process is gone when the slot was deleted.
mod_etype(st, s, want) ==
  IF st.ev[s].live THEN Put(st, s, [st.ev[s] EXCEPT !.want = want])
                   ELSE Ended(st, "assert")
-----------------------------------------------------------------------------
(* extend.c: choosing a group, connecting, connecting again                *)

\* The group for a connection: from the client's own one on, round the list,
\* the first one not ruled out; the ones passed over are ruled out.
find_dp(e) ==
  LET start == IF e.dp = 0 THEN 1 ELSE e.dp
      Dist(g) == (g - start + NGroups) % NGroups
      fits == {g \in Groups \ e.mask :
                 g = e.dp \/ Detect[g] = {} \/ Detect[g] \intersect e.detect # {}}
      first == CHOOSE g \in fits : \A h \in fits : Dist(g) <= Dist(h)
  IN  IF fits = {} THEN [dp |-> 0, mask |-> Groups]
      ELSE [dp |-> first, mask |-> e.mask \union {g \in Groups : Dist(g) < Dist(first)}]

\* The client's slot with the group of find_dp.
Grouped(e) == LET f == find_dp(e) IN [e EXCEPT !.dp = f.dp, !.mask = f.mask]

\* A socket to the server in a free slot, paired with the client's, which is
\* no longer watched.  Fails when no slot is free or a system call on the new
\* socket fails.  The mod_etype() that follows add_event() does not: epoll_ctl()
\* refuses to change only a descriptor it does not watch.
create_conn(st, c) ==
  Fail(st) \union
  { Out([add_event(st, r, "on_connect", {"out"}) EXCEPT
           !.ev[c].want = {}, !.ev[c].pair = r, !.ev[c].cb = "on_ignore",
           !.ev[r].pair = c, !.ev[r].flag = "conn", !.ev[r].sock = "connecting"], 0)
      : r \in OpenSlots(st) }

\* A client without a group starts from what the cache says of the address.
connect_hook(st, c) ==
  LET e == st.ev[c]
      known == IF e.dp # 0 \/ st.cache = NoCache THEN e
               ELSE [e EXCEPT !.mask = st.cache.mask, !.detect = st.cache.detect,
                              !.dp = st.cache.dp]
      chosen == Grouped(known)
  IN  IF chosen.dp = 0 THEN Fail(st) ELSE create_conn(Put(st, c, chosen), c)

\* Mutant of reconnect: the offset of the pending buffer is not reset.
ReconnectKeepsOffset(st, r) ==
  LET c == st.ev[r].pair
      e == st.ev[c]
      again == [e EXCEPT !.sent = FALSE,
                         !.buff = IF e.sq > 0 THEN [base |-> 0, lo |-> @.lo, hi |-> e.sq] ELSE @]
  IN  { IF o.ret < 0 THEN o
        ELSE Out(del_event(Put(o.st, r, [o.st.ev[r] EXCEPT !.pair = NoSlot]), r), 0)
          : o \in connect_hook(Put(st, c, again), c) }

\* The client's first bytes become its pending ones again, a new connection
\* takes the place of the old one.
reconnect(st, r) ==
  LET c == st.ev[r].pair
      e == st.ev[c]
      again == [e EXCEPT !.sent = FALSE,
                         !.buff = IF e.sq > 0 THEN [base |-> 0, lo |-> 0, hi |-> e.sq] ELSE @]
  IN  { IF o.ret < 0 THEN o
        ELSE Out(del_event(Put(o.st, r, [o.st.ev[r] EXCEPT !.pair = NoSlot]), r), 0)
          : o \in connect_hook(Put(st, c, again), c) }

\* The first group after the ones that failed which this kind of failure
\* brings into use; a group for every failure ends the search once all the
\* failed ones are passed.  Gives the group or 0, and the groups ruled out.
NextGroup(failed, type) ==
  LET ends(g) == Detect[g] = {} /\ \A h \in failed : h < g
      fits(g) == g \notin failed /\ (Detect[g] = {} \/ Detect[g] \intersect type # {})
      stops == {g \in Groups : ends(g) \/ fits(g)}
      stop == CHOOSE g \in stops : \A h \in stops : g <= h
  IN  IF stops = {} THEN [dp |-> 0, mask |-> Groups]
      ELSE [dp |-> IF ends(stop) THEN 0 ELSE stop,
            mask |-> failed \union {g \in Groups : g < stop}]

\* Mutant of on_trigger: the group in the entry is taken for the one that failed.
TriggerJoinsEntry(st, r, type, alive) ==
  LET c == st.ev[r].pair
      e == st.ev[c]
      can_reconn == alive /\ (e.sq > 0 \/ (e.recv = 0 /\ st.ev[r].recv = 0))
      n == NextGroup(e.mask \union {e.dp}, type)
      noted == Put(st, c, [e EXCEPT !.mask = n.mask, !.detect = type])
      saved == [noted EXCEPT !.cache = [mask |-> @.mask \union ({@.dp} \ {0}) \union n.mask,
                                        detect |-> type, dp |-> n.dp]]
  IN  IF n.dp = 0
      THEN Fail([noted EXCEPT !.cache = [mask |-> {}, detect |-> {}, dp |-> 1]])
      ELSE IF can_reconn THEN reconnect(saved, r) ELSE Fail(saved)

\* The current group failed: the next one is stored for the address, and this
\* client gets a new connection if nothing has been lost to it so far.
on_trigger(st, r, type, alive) ==
  LET c == st.ev[r].pair
      e == st.ev[c]
      can_reconn == alive /\ (e.sq > 0 \/ (e.recv = 0 /\ st.ev[r].recv = 0))
      n == NextGroup(e.mask \union {e.dp}, type)
      noted == Put(st, c, [e EXCEPT !.mask = n.mask, !.detect = type])
  IN  IF n.dp = 0
      THEN Fail([noted EXCEPT !.cache = [mask |-> {}, detect |-> {}, dp |-> 1]])
      ELSE LET saved == [noted EXCEPT !.cache = [mask |-> @.mask \union n.mask,
                                                 detect |-> type, dp |-> n.dp]]
           IN  IF can_reconn THEN reconnect(saved, r) ELSE Fail(saved)

on_torst(st, r) == on_trigger(st, r, {"torst"}, TRUE)
on_connerr(st, r) == on_trigger(st, r, {"connect"}, TRUE)

\* An end of the stream counts as a failure of the group when the client began
\* a TLS handshake and the server has not answered twice.  Whether the bytes
\* are TLS (mark) is left open once the client has sent some.
on_fin(st, s) ==
  LET client == st.ev[s].flag # "conn"
      r == IF client THEN st.ev[s].pair ELSE s
      mark == st.ev[st.ev[r].pair].recv > 0
  IN  Fail(st) \union (IF mark /\ st.ev[r].round <= 1
                       THEN on_trigger(st, r, {"tls_err"}, ~client) ELSE {})

\* A socket error that counts (a reset, a timeout) or one that does not.
handle_err(st, s) ==
  Fail(st) \union (IF st.ev[s].flag = "conn" THEN on_torst(st, s) ELSE on_fin(st, s))

\* The desync timer of a server whose client has nothing pending is taken for
\* the timeout of an answer (to_count_lim is 0).
on_timeout(st, r) == on_torst(st, r)

\* The first answer to the client's first bytes, read as kind.
on_response(st, r, kind) ==
  LET c == st.ev[r].pair
      e == [st.ev[c] EXCEPT !.mask = @ \union {st.ev[c].dp}]
      asks == {g \in Groups \ e.mask : kind \in Detect[g]}
      g == CHOOSE x \in asks : \A y \in asks : x <= y
  IN  IF asks = {} THEN Fail(Put(st, c, e))
                   ELSE on_trigger(Put(st, c, e), r, Detect[g], TRUE)
-----------------------------------------------------------------------------
(* extend.c: the hooks round send() and recv()                             *)

auto_reconnect == \E g \in Groups : Detect[g] # {}
Sent(st, ret, wait) == [st |-> st, ret |-> ret, wait |-> wait]

\* The server's side of k segments that follow the first lo ones; all is what
\* the caller is told was sent.
Damaged(e, how) == [e EXCEPT !.stream = how, !.got = 0]
Received(e, lo, k, all) ==
  IF e.stream # "whole" THEN e
  ELSE IF e.got # lo /\ k > 0 THEN Damaged(e, "wrong")
  ELSE IF k < all THEN Damaged(e, "lost")
  ELSE [e EXCEPT !.got = @ + k]

\* A send() of the pending segments of b from slot s to slot d takes any
\* number of them, none when the socket's buffer is full.  The first round of
\* a client goes through desync(), which may ask to wait for its timer, and
\* which takes its last send() for complete when it was short.
Sends(st, s, d, b) ==
  LET m == b.hi - b.lo
      takes == IF st.ev[d].full THEN {0} ELSE 0..m
      Taker(k, all) == IF st.ev[d].flag = "conn" THEN Received(st.ev[d], b.lo, k, all)
                                                 ELSE st.ev[d]
      Give(k, all, wait) ==
        Sent([st EXCEPT
                !.ev[s].sent = @ \/ all > 0,
                !.ev[d] = [Taker(k, all) EXCEPT !.full = @ \/ (k < m /\ ~wait),
                                                !.timer = @ \/ wait]],
             all, wait)
      desync == st.ev[d].flag = "conn" /\ st.ev[s].round <= 1
  IN  {Give(k, k, FALSE) : k \in takes} \union
      (IF desync THEN {Give(k, k, TRUE) : k \in takes}
                        \union {Give(k, m, FALSE) : k \in takes \ {0}}
       ELSE {})

\* The group, once more, when the client's first bytes are known.
setup_conn(st, c) == Put(st, c, Grouped(st.ev[c]))

tcp_send_hook(st, s, d, b) ==
  LET first == st.ev[d].flag = "conn" /\ st.ev[s].recv = b.hi - b.base
      st1 == IF first THEN setup_conn(st, s) ELSE st
  IN  IF first /\ st1.ev[s].dp = 0 THEN {Sent(st1, -1, FALSE)}
      ELSE IF st.ev[d].sock # "reset" THEN Sends(st1, s, d, b)
      ELSE {Sent(o.st, o.ret, FALSE) : o \in handle_err(st1, d)}
             \union (IF b.hi = b.lo THEN {Sent(st1, 0, FALSE)} ELSE {})

\* A new round begins when nothing was sent on since the other side spoke.
NewRound(st, s) ==
  LET e == st.ev[s]
      read == [e EXCEPT !.recv = e.peer,
                        !.round = IF e.sent \/ @ = 2 THEN @ ELSE @ + 1]
  IN  IF e.sent THEN Put(st, s, read)
      ELSE [Put(st, s, read) EXCEPT !.ev[e.pair].sent = FALSE]

\* The server's bytes: a first answer may lead to another connection, else
\* the saved request is given up and the bytes go to the client.  A connection
\* that could not be made leaves the request pending a second time.
RecvServer(st, r, n) ==
  LET c == st.ev[r].pair
      Kept(x) == [x EXCEPT !.ev[c].sq = 0,
                           !.ev[c].fed = IF x.ev[c].recv = 0 THEN "first" ELSE "yes",
                           !.ev[r] = IF x.ev[c].buff # st.ev[c].buff
                                     THEN Damaged(x.ev[r], "again") ELSE x.ev[r]]
      Answered == UNION {on_response(st, r, kind) : kind \in {"good", "redirect", "tls_err"}}
  IN  IF st.ev[c].sq = 0 THEN {Out(Kept(st), n)}
      ELSE {IF o.ret = 0 THEN o ELSE Out(Kept(o.st), n) : o \in Answered}

\* Mutant of RecvClient: a request that fills the buffer is kept.
RecvClientFull(st, c, n) ==
  LET e == st.ev[c]
      save == auto_reconnect /\ (e.sq > 0 \/ e.recv = n)
      sum == IF e.sq + n > SqSize THEN 0 ELSE e.sq + n
  IN  {Out(IF save THEN Put(st, c, [e EXCEPT !.sq = sum]) ELSE st, n)}

\* The client's bytes are saved until the server answers, as long as they fit.
RecvClient(st, c, n) ==
  LET e == st.ev[c]
      save == auto_reconnect /\ (e.sq > 0 \/ e.recv = n)
      sum == IF e.sq + n >= SqSize THEN 0 ELSE e.sq + n
  IN  {Out(IF save THEN Put(st, c, [e EXCEPT !.sq = sum]) ELSE st, n)}

tcp_recv_hook(st, s) ==
  LET e == st.ev[s]
      n == e.peer - e.recv
  IN  IF n > 0 THEN IF e.flag = "conn" THEN RecvServer(NewRound(st, s), s, n)
                                       ELSE RecvClient(NewRound(st, s), s, n)
      ELSE IF e.sock = "fin" THEN on_fin(st, s)
      ELSE IF e.sock = "reset" THEN handle_err(st, s)
      ELSE {Out(st, 0)}
-----------------------------------------------------------------------------
(* proxy.c: the callbacks                                                  *)

Buffered(st, s, b) == IF st.ev[s].live THEN [st EXCEPT !.ev[s].buff = b] ELSE st

\* Reads from v and passes it on to p; what p does not take stays in v's
\* buffer, v is not read until p has taken it.
Pass(st, v, p) ==
  LET After(o, b, w) ==
        IF w.ret < 0 THEN Fail(w.st)
        ELSE IF w.ret < o.ret \/ w.wait
        THEN {Out(mod_etype(mod_etype(Buffered(w.st, v, [b EXCEPT !.lo = @ + w.ret]), v, {}),
                            p, IF w.wait THEN {} ELSE {"out"}), 0)}
        ELSE {Out(Buffered(w.st, v, NoBuf), 0)}
      Read(o) ==
        LET at == o.st.ev[v].recv
            b == [base |-> at - o.ret, lo |-> at - o.ret, hi |-> at]
        IN  UNION {After(o, b, w) : w \in tcp_send_hook(o.st, v, p, b)}
  IN  UNION { IF o.ret > 0 THEN Read(o)
              ELSE {Out(IF o.ret = 0 THEN Buffered(o.st, v, NoBuf) ELSE o.st, o.ret)}
                : o \in tcp_recv_hook(st, v) }

\* Sends on what v's buffer still holds, and goes on reading when that is all.
Flush(st, v, p) ==
  LET b == st.ev[v].buff
      After(w) ==
        IF w.ret < 0 THEN Fail(w.st)
        ELSE IF w.ret < b.hi - b.lo \/ w.wait
        THEN {Out([w.st EXCEPT !.ev[v].buff.lo = @ + w.ret], 0)}
        ELSE LET st1 == mod_etype(mod_etype(Buffered(w.st, v, NoBuf), v, {"in"}), p, {"in"})
             IN  IF st1.status # "run" THEN {Out(st1, 0)} ELSE Pass(st1, v, p)
  IN  UNION {After(w) : w \in tcp_send_hook(st, v, p, b)}

on_tunnel(st, s, et) ==
  LET p == st.ev[s].pair
      turned == et \intersect {"out", "timeout"} # {}
      v == IF turned THEN p ELSE s
      w == IF turned THEN s ELSE p
  IN  IF "timeout" \in et /\ st.ev[p].buff = NoBuf /\ st.ev[s].round > 0
      THEN on_timeout(st, s)
      ELSE IF st.ev[v].buff # NoBuf THEN Flush(st, v, w) ELSE Pass(st, v, w)

\* The server's connection is there, or has failed.
on_connect(st, r, et) ==
  LET c == st.ev[r].pair
      up == [st EXCEPT !.ev[r].want = {"in"}, !.ev[c].want = {"in"},
                       !.ev[r].cb = "on_tunnel", !.ev[c].cb = "on_tunnel"]
  IN  IF "err" \in et
      THEN Fail(st) \union on_connerr(st, r)
      ELSE IF st.ev[c].buff # NoBuf THEN on_tunnel(up, r, et)
      ELSE {Out(up, 0)} \union Fail(up)

on_ignore(st, et) == {Out(st, IF "err" \in et THEN -1 ELSE 0)}

\* Three slots in a ring: the client's connection, the socket its datagrams
\* come to, the one they leave from.  getsockname() of a socket that is open
\* does not fail; the error paths behind it, which would leave the first of
\* the new slots without a pair, are never taken.
udp_associate(st, s) ==
  LET Half(p) == add_event(st, p, "on_udp_tunnel", {"in"})
      Ring(p, c) == [add_event(Half(p), c, "on_udp_tunnel", {"in"}) EXCEPT
                       !.ev[s].cb = "on_ignore", !.ev[s].want = {"rdhup"},
                       !.ev[s].pair = c, !.ev[c].pair = p, !.ev[p].pair = s,
                       !.ev[c].flag = "conn"]
  IN  Fail(st) \union
      UNION { {Out(del_event(Half(p), p), -1)} \union
              UNION { {Out(Ring(p, c), 0), Out(Ring(p, c), -1)} : c \in OpenSlots(Half(p)) }
                : p \in OpenSlots(st) }

\* The greeting, then the request: to connect, or for datagrams.
on_request(st, s) ==
  IF st.ev[s].flag = "none"
  THEN {Out([st EXCEPT !.ev[s].flag = "s5"], 0)} \union Fail(st)
  ELSE connect_hook(st, s) \union udp_associate(st, s)

on_udp_tunnel(st) == {Out(st, 0)} \union Fail(st)
-----------------------------------------------------------------------------
(* conev.c: the loop                                                       *)

\* A slot's mod_iter matters only while the batch holds an event for it.
Becomes(st) ==
  /\ ev' = st.ev
  /\ batch' = st.batch
  /\ touched' = {s \in st.touched : \E e \in st.batch : e.slot = s}
  /\ cache' = st.cache
  /\ status' = st.status

Events(e) ==
  {t \in e.want : \/ t = "in" /\ (e.peer > e.recv \/ e.sock \in {"fin", "reset"}
                                   \/ e.cb \in {"on_request", "on_udp_tunnel"})
                  \/ t = "out" /\ e.sock # "connecting" /\ (~e.full \/ e.sock = "reset")}
  \union (IF e.sock = "reset" \/ ("rdhup" \in e.want /\ e.sock = "fin") THEN {"err"} ELSE {})

\* epoll_wait() once the last batch is done: the sockets that are ready.
epoll_wait ==
  LET ready == {[slot |-> s, et |-> Events(ev[s]), open |-> TRUE] : s \in Slots \ Free}
  IN  /\ status = "run" /\ batch = {}
      /\ batch' = {e \in ready : e.et # {}}
      /\ batch' # {}
      /\ touched' = {}
      /\ UNCHANGED <<ev, cache, status>>

\* next_event(): an event is given to its slot's callback, unless the slot has
\* been changed since the batch was read.
Gives(e, cb) == /\ status = "run" /\ e \in batch
                /\ e.slot \notin touched /\ ev[e.slot].cb = cb
Given(e) == [St EXCEPT !.batch = @ \ {e}]

\* loop_event(): a callback that fails has its slot deleted.
Loop(s, outcomes) ==
  \E o \in outcomes :
    Becomes(IF o.ret < 0 /\ o.st.status = "run" THEN del_event(o.st, s) ELSE o.st)

call_request == \E e \in batch : Gives(e, "on_request")
                  /\ Loop(e.slot, on_request(Given(e), e.slot))
call_connect == \E e \in batch : Gives(e, "on_connect")
                  /\ Loop(e.slot, on_connect(Given(e), e.slot, e.et))
call_tunnel == \E e \in batch : Gives(e, "on_tunnel")
                  /\ Loop(e.slot, on_tunnel(Given(e), e.slot, e.et))
call_ignore == \E e \in batch : Gives(e, "on_ignore")
                  /\ Loop(e.slot, on_ignore(Given(e), e.et))
call_udp_tunnel == \E e \in batch : Gives(e, "on_udp_tunnel")
                  /\ Loop(e.slot, on_udp_tunnel(Given(e)))
skip_event == \E e \in batch : /\ status = "run" /\ e.slot \in touched
                               /\ Becomes(Given(e))

\* next_event_tv(): a timer that is due comes before the rest of the batch.
timer_due ==
  \E s \in Slots :
    /\ status = "run" /\ ev[s].timer
    /\ Loop(s, on_tunnel([St EXCEPT !.ev[s].timer = FALSE], s, {"timeout"}))

\* on_accept(), at any place of a batch; a client for whom there is no slot is
\* closed.  An accept() that fails ends the loop, and destroy_pool() the rest.
on_accept == /\ status = "run"
             /\ Cardinality({s \in Slots \ Free : ev[s].cb = "on_request" \/ ev[s].flag = "s5"}) < MaxClients
             /\ \E s \in Free : Becomes(add_event(St, s, "on_request", {"in"}))
accept_fails == /\ status = "run"
                /\ Becomes(Ended(St, "exit"))
-----------------------------------------------------------------------------
(* The peers                                                               *)

Peer(s, e) == ev' = [ev EXCEPT ![s] = e] /\ UNCHANGED <<touched, batch, cache, status>>
Up(s) == ev[s].live /\ ev[s].sock = "open" /\ status = "run"
IsServer(s) == ev[s].flag = "conn" /\ ev[s].cb \in {"on_connect", "on_tunnel"}
\* A client speaks once it was told that it is connected.
IsClient(s) == ev[s].flag = "s5"

Total(from) == Cardinality({x \in from \X (1..(MaxUp + MaxDown)) : x[2] <= ev[x[1]].peer})
Clients == {s \in Slots : IsClient(s)}
Servers == {s \in Slots : IsServer(s)}

client_sends == \E s \in Slots :
  /\ Up(s) /\ IsClient(s) /\ Total(Clients) < MaxUp
  /\ ev[s].cb = "on_tunnel" \/ ev[s].peer > 0
  /\ Peer(s, [ev[s] EXCEPT !.peer = @ + 1])
server_connects == \E s \in Slots : \E how \in {"open", "reset"} :
  /\ ev[s].live /\ ev[s].sock = "connecting" /\ status = "run"
  /\ Peer(s, [ev[s] EXCEPT !.sock = how])
server_sends == \E s \in Slots :
  /\ Up(s) /\ IsServer(s) /\ Total(Servers) < MaxDown
  /\ Peer(s, [ev[s] EXCEPT !.peer = @ + 1])
peer_ends == \E s \in Slots : \E how \in {"fin", "reset"} :
  /\ Up(s) /\ ev[s].pair # NoSlot /\ (IsServer(s) \/ IsClient(s))
  /\ Peer(s, [ev[s] EXCEPT !.sock = how])
peer_reads == \E s \in Slots :
  /\ ev[s].full /\ status = "run"
  /\ Peer(s, [ev[s] EXCEPT !.full = FALSE])
-----------------------------------------------------------------------------
Init ==
  /\ ev = [s \in Slots |-> Blank]
  /\ touched = {} /\ batch = {} /\ cache = NoCache /\ status = "run"

Next ==
  \/ epoll_wait \/ call_request \/ call_connect \/ call_tunnel \/ call_ignore
  \/ call_udp_tunnel \/ skip_event \/ timer_due \/ on_accept \/ accept_fails
  \/ client_sends \/ server_connects \/ server_sends \/ peer_ends \/ peer_reads

Spec == Init /\ [][Next]_vars
-----------------------------------------------------------------------------
Buffs == {b \in [base : Nat, lo : Nat, hi : Nat] : b.base <= b.lo /\ b.lo <= b.hi}

\* The slots, buffers and marks are what the code takes them for: a buffer
\* holds bytes its own socket has read, a saved request all of them and less
\* than its room, a timer runs for a server only, a group in use is one of
\* the list.
TypeOK ==
  /\ touched \subseteq Slots
  /\ \A e \in batch : e.slot \in Slots /\ e.open \in BOOLEAN /\ e.et # {}
  /\ cache = NoCache \/ (cache.dp \in Groups /\ cache.mask \subseteq Groups)
  /\ status \in {"run", "exit", "assert"}
  /\ \A s \in Slots :
       LET e == ev[s]
       IN  /\ ~e.live => e = Blank
           /\ e.buff \in Buffs /\ e.buff.hi <= e.recv /\ e.recv <= e.peer
           /\ e.sq > 0 => e.sq = e.recv /\ e.sq < SqSize
           /\ e.timer => e.flag = "conn" /\ e.cb = "on_tunnel"
           /\ e.dp \in 0..NGroups /\ e.mask \subseteq Groups
           /\ e.pair # NoSlot /\ e.flag # "conn" /\ e.cb # "on_ignore" =>
                e.cb = "on_udp_tunnel" \/ e.dp # 0

\* del_event() and reconnect(): no slot outlives the connection it belongs to.
\* The slot that a live slot points at is live and leads back to it: directly,
\* or for datagrams over the third of the ring.
PairsLive ==
  status = "run" =>
    \A s \in Slots : ev[s].live /\ ev[s].cb # "on_request" =>
      LET p == ev[s].pair
      IN  /\ p # NoSlot /\ p # s /\ ev[p].live
          /\ ev[p].pair # NoSlot
          /\ \/ ev[p].pair = s
             \/ ev[ev[p].pair].pair = s /\ ev[ev[p].pair].live

\* next_event(): an event that is still to be given out comes from the socket
\* that has the slot now.  A slot that was freed or taken again during the
\* batch gets nothing that was reported for its earlier socket.
EventOwned == \A e \in batch : e.slot \notin touched => e.open

\* reconnect() and the buffers: a server gets the client's bytes from the
\* first one on, in order and each once; the ways to damage the stream are a
\* short last send() of desync() ("lost") and a reconnect that failed after it
\* had made the first request pending again ("again").
UploadWhole == \A s \in Slots : ev[s].stream # "wrong"

\* on_trigger(), tcp_recv_hook(): a client that was given an answer to its
\* request is not connected to another server.  One whose server spoke first
\* ("first") is, and gets a second greeting.
OneAnswer ==
  \A s \in Slots : ev[s].flag = "s5" /\ ev[s].fed = "yes" => ev[s].cb = "on_tunnel"

StreamsWhole == UploadWhole /\ OneAnswer

\* on_trigger(), connect_hook(): whatever connections to the address fail, in
\* whatever order they write to the cache, the entry leaves a group for the
\* next client: none is dropped before it was tried.
CacheUsable == cache # NoCache => find_dp(cache).dp # 0

\* conev.c mod_etype(): assert(val->fd > 0).
AssertHolds == status # "assert"
=============================================================================

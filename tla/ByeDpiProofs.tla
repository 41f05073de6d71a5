---------------------------- MODULE ByeDpiProofs ----------------------------
(***************************************************************************)
(* Proofs about ByeDpi: no slot outlives the connection it belongs to, and *)
(* no event reaches a slot that another socket has taken, for every pool,  *)
(* every list of groups and any number of clients.                         *)
(*                                                                         *)
(* A function of the code is a set of outcomes, so the argument goes along *)
(* the calls: every operator that is given a Good pool yields Good pools   *)
(* only.  Most of them change nothing that Good is about (Same); the       *)
(* exceptions are a slot that is taken, a connection that is made, one     *)
(* that takes the place of another, and a slot that is deleted with all    *)
(* those it reaches.                                                       *)
(***************************************************************************)
EXTENDS ByeDpi, TLAPS

SlotFields == {"live", "flag", "cb", "want", "pair", "buff", "sq", "dp", "mask", "detect",
               "recv", "sent", "round", "timer", "sock", "peer", "full", "got", "stream",
               "fed"}

\* The pool is a record of the model, its slots are, and so is the batch; only a timer
\* reports a timeout.
Shape(st) ==
  /\ DOMAIN st = {"ev", "touched", "batch", "cache", "status"}
  /\ DOMAIN st.ev = Slots
  /\ \A s \in Slots : DOMAIN st.ev[s] = SlotFields
  /\ \A e \in st.batch : /\ DOMAIN e = {"slot", "et", "open"} /\ e.slot \in Slots
                         /\ "timeout" \notin e.et

\* An event that will be given out belongs to the socket that has its slot, and the slot
\* is in use.
Owned(st) == \A e \in st.batch : e.slot \notin st.touched => e.open /\ st.ev[e.slot].live

\* Two slots that point at each other, the view of one of them.
Tied(st, s) == LET p == st.ev[s].pair IN p \in Slots /\ p # s /\ st.ev[p].pair = s

\* Three slots in a ring, the view of one of them.
Ringed(st, s) ==
  LET p == st.ev[s].pair
      q == st.ev[p].pair
      datagrams == {"on_udp_tunnel", "on_ignore"}
  IN  /\ p \in Slots /\ q \in Slots /\ p # s /\ q # s /\ q # p /\ st.ev[q].pair = s
      /\ st.ev[p].cb \in datagrams /\ st.ev[q].cb \in datagrams
      /\ st.ev[p].cb = "on_udp_tunnel" \/ st.ev[s].cb = "on_udp_tunnel"

\* What a slot's callback says of the slots it is paired with.
WiredAt(st, s) ==
  LET e == st.ev[s]
      p == st.ev[e.pair]
  IN  /\ ~e.live => e.cb = "on_request"
      /\ e.timer => e.cb = "on_tunnel" /\ e.flag = "conn"
      /\ \/ e.cb = "on_request" /\ e.pair = NoSlot /\ e.flag # "conn"
         \/ /\ e.cb = "on_connect" /\ Tied(st, s)
            /\ e.flag = "conn" /\ p.flag # "conn" /\ p.cb = "on_ignore"
         \/ /\ e.cb = "on_tunnel" /\ Tied(st, s)
            /\ p.cb = "on_tunnel" /\ (e.flag = "conn" <=> p.flag # "conn")
         \/ e.cb = "on_ignore" /\ Tied(st, s) /\ e.flag # "conn" /\ p.cb = "on_connect"
         \/ e.cb \in {"on_ignore", "on_udp_tunnel"} /\ Ringed(st, s)
Wired(st) == \A s \in Slots : WiredAt(st, s)

Good(st) == Shape(st) /\ Owned(st) /\ Wired(st)

\* The inductive invariant.
IInv == Good(St)

\* A step that Good does not notice: only a timer may be set, for a server.
SameSlot(e, f) ==
  /\ f.live = e.live /\ f.flag = e.flag /\ f.cb = e.cb /\ f.pair = e.pair
  /\ f.timer => e.timer \/ (e.cb = "on_tunnel" /\ e.flag = "conn")
Same(st, x) ==
  /\ Shape(x) /\ x.touched = st.touched /\ x.batch = st.batch
  /\ \A s \in Slots : SameSlot(st.ev[s], x.ev[s])
-----------------------------------------------------------------------------
LEMMA BlankFields ==
  /\ DOMAIN Blank = SlotFields
  /\ Blank.live = FALSE /\ Blank.flag = "none" /\ Blank.cb = "on_request"
  /\ Blank.pair = NoSlot /\ Blank.timer = FALSE
BY DEF Blank, SlotFields

\* A slot is wired in x as it was in st when no slot that can be reached from it changed:
\* K holds such slots.
LEMMA WiredStays ==
  ASSUME NEW st, NEW x, NEW K \in SUBSET Slots,
         \A t \in K : /\ SameSlot(st.ev[t], x.ev[t])
                      /\ st.ev[t].pair \in Slots => st.ev[t].pair \in K,
         NEW s \in K, WiredAt(st, s)
  PROVE  WiredAt(x, s)
<1> DEFINE e == st.ev[s]  f == x.ev[s]  p == e.pair  q == st.ev[p].pair
<1>1. SameSlot(e, f)
  OBVIOUS
<1>2. ASSUME p \in Slots
      PROVE  p \in K /\ SameSlot(st.ev[p], x.ev[p])
  BY <1>2
<1>3. ASSUME p \in Slots, q \in Slots
      PROVE  q \in K /\ SameSlot(st.ev[q], x.ev[q])
  BY <1>2, <1>3
<1>4. Tied(st, s) => /\ p \in Slots /\ Tied(x, s) /\ x.ev[p].cb = st.ev[p].cb
                     /\ x.ev[p].flag = st.ev[p].flag
  BY <1>1, <1>2 DEF Tied, SameSlot
<1>5. Ringed(st, s) => Ringed(x, s)
  <2> SUFFICES ASSUME Ringed(st, s) PROVE Ringed(x, s)
    OBVIOUS
  <2>1. p \in Slots /\ q \in Slots
    BY DEF Ringed
  <2>2. /\ f.pair = p /\ f.cb = e.cb /\ x.ev[p].pair = q /\ x.ev[p].cb = st.ev[p].cb
        /\ x.ev[q].pair = st.ev[q].pair /\ x.ev[q].cb = st.ev[q].cb
    BY <1>1, <1>2, <1>3, <2>1 DEF SameSlot
  <2>3. /\ p # s /\ q # s /\ q # p /\ x.ev[q].pair = s
        /\ x.ev[p].cb \in {"on_udp_tunnel", "on_ignore"}
        /\ x.ev[q].cb \in {"on_udp_tunnel", "on_ignore"}
        /\ x.ev[p].cb = "on_udp_tunnel" \/ f.cb = "on_udp_tunnel"
    BY <2>2 DEF Ringed
  <2>4. x.ev[s].pair = p /\ x.ev[p].pair = q /\ x.ev[s].cb = f.cb
    BY <2>2
  <2> HIDE DEF e, f, p, q
  <2> QED
    BY <2>1, <2>3, <2>4 DEF Ringed
<1>6. f.live = e.live /\ f.flag = e.flag /\ f.cb = e.cb /\ f.pair = p
      /\ (f.timer => e.timer \/ (e.cb = "on_tunnel" /\ e.flag = "conn"))
  BY <1>1 DEF SameSlot
<1> HIDE DEF e, f, p, q
<1>7. WiredAt(st, s) =>
        /\ ~e.live => e.cb = "on_request"
        /\ e.timer => e.cb = "on_tunnel" /\ e.flag = "conn"
        /\ \/ e.cb = "on_request" /\ p = NoSlot /\ e.flag # "conn"
           \/ /\ e.cb = "on_connect" /\ Tied(st, s)
              /\ e.flag = "conn" /\ st.ev[p].flag # "conn" /\ st.ev[p].cb = "on_ignore"
           \/ /\ e.cb = "on_tunnel" /\ Tied(st, s)
              /\ st.ev[p].cb = "on_tunnel" /\ (e.flag = "conn" <=> st.ev[p].flag # "conn")
           \/ /\ e.cb = "on_ignore" /\ Tied(st, s) /\ e.flag # "conn"
              /\ st.ev[p].cb = "on_connect"
           \/ e.cb \in {"on_ignore", "on_udp_tunnel"} /\ Ringed(st, s)
  BY DEF WiredAt, e, p
<1>8. (/\ ~f.live => f.cb = "on_request"
       /\ f.timer => f.cb = "on_tunnel" /\ f.flag = "conn"
       /\ \/ f.cb = "on_request" /\ p = NoSlot /\ f.flag # "conn"
          \/ /\ f.cb = "on_connect" /\ Tied(x, s)
             /\ f.flag = "conn" /\ x.ev[p].flag # "conn" /\ x.ev[p].cb = "on_ignore"
          \/ /\ f.cb = "on_tunnel" /\ Tied(x, s)
             /\ x.ev[p].cb = "on_tunnel" /\ (f.flag = "conn" <=> x.ev[p].flag # "conn")
          \/ /\ f.cb = "on_ignore" /\ Tied(x, s) /\ f.flag # "conn"
             /\ x.ev[p].cb = "on_connect"
          \/ f.cb \in {"on_ignore", "on_udp_tunnel"} /\ Ringed(x, s))
      => WiredAt(x, s)
  BY <1>6 DEF WiredAt, f
<1> QED
  BY <1>4, <1>5, <1>6, <1>7, <1>8

\* What Good does not notice keeps a pool Good.
LEMMA KeepSame ==
  ASSUME NEW st, NEW x, Good(st), Same(st, x)
  PROVE  Good(x)
<1>1. Shape(x)
  BY DEF Same
<1>2. Owned(x)
  BY DEF Same, Owned, Good, Shape, SameSlot
<1>3. ASSUME NEW s \in Slots PROVE WiredAt(x, s)
  <2>1. WiredAt(st, s)
    BY DEF Good, Wired
  <2>2. \A t \in Slots : /\ SameSlot(st.ev[t], x.ev[t])
                         /\ st.ev[t].pair \in Slots => st.ev[t].pair \in Slots
    BY DEF Same
  <2> QED
    BY <2>1, <2>2, WiredStays
<1> QED
  BY <1>1, <1>2, <1>3 DEF Good, Wired

LEMMA SameIsSame ==
  ASSUME NEW st, Shape(st)
  PROVE  Same(st, st)
BY DEF Same, SameSlot

LEMMA SameTwice ==
  ASSUME NEW st, NEW x, NEW y, Same(st, x), Same(x, y)
  PROVE  Same(st, y)
BY DEF Same, SameSlot

\* A slot is given another record.
LEMMA PutIs ==
  ASSUME NEW st, Shape(st), NEW s \in Slots, NEW e, DOMAIN e = SlotFields
  PROVE  /\ Shape(Put(st, s, e)) /\ Put(st, s, e).touched = st.touched
         /\ Put(st, s, e).batch = st.batch /\ Put(st, s, e).ev[s] = e
         /\ \A x \in Slots \ {s} : Put(st, s, e).ev[x] = st.ev[x]
BY DEF Shape, Put

\* Only the last record counts.
LEMMA PutTwice ==
  ASSUME NEW st, Shape(st), NEW s \in Slots, NEW e, NEW f
  PROVE  Put(Put(st, s, e), s, f) = Put(st, s, f)
<1> DEFINE z == Put(st, s, e)
           w == [st.ev EXCEPT ![s] = f]
<1>1. /\ DOMAIN z = DOMAIN st /\ z.ev = [st.ev EXCEPT ![s] = e] /\ z.touched = st.touched
      /\ z.batch = st.batch /\ z.cache = st.cache /\ z.status = st.status
  BY DEF Put, Shape
<1>2. [z.ev EXCEPT ![s] = f] = w
  BY <1>1 DEF Shape
<1>3. Put(st, s, f) = [st EXCEPT !.ev = w] /\ Put(z, s, f) = [z EXCEPT !.ev = w]
  BY <1>2 DEF Put
<1> HIDE DEF z, w
<1>4. [z EXCEPT !.ev = w] = [st EXCEPT !.ev = w]
  BY <1>1 DEF Shape
<1> QED
  BY <1>3, <1>4 DEF z

\* A slot is changed where Good does not look.
LEMMA PutSame ==
  ASSUME NEW st, Shape(st), NEW s \in Slots, NEW e, DOMAIN e = SlotFields,
         SameSlot(st.ev[s], e)
  PROVE  Same(st, Put(st, s, e))
BY DEF Shape, Same, SameSlot, Put

\* Where a pair pointer leads.
LEMMA PairPlace ==
  ASSUME NEW st, NEW s \in Slots, WiredAt(st, s)
  PROVE  /\ st.ev[s].pair = NoSlot \/ (st.ev[s].pair \in Slots /\ st.ev[s].pair # s)
         /\ st.ev[s].pair = NoSlot <=> st.ev[s].cb = "on_request"
         /\ st.ev[s].pair \in Slots => st.ev[st.ev[s].pair].cb # "on_request"
         /\ ~st.ev[s].live => st.ev[s].cb = "on_request"
BY PoolAssumption DEF WiredAt, Tied, Ringed

\* A pair pointer leads back, directly or over a third slot.
LEMMA PairsBack ==
  ASSUME NEW st, NEW s \in Slots, WiredAt(st, s), st.ev[s].pair \in Slots
  PROVE  LET p == st.ev[s].pair
             q == st.ev[p].pair
         IN  /\ p # s /\ q \in Slots
             /\ q = s \/ (st.ev[q].pair = s /\ q # p)
             /\ st.ev[p].cb # "on_request" /\ st.ev[q].cb # "on_request"
<1>1. Tied(st, s) \/ Ringed(st, s)
  BY PoolAssumption DEF WiredAt
<1>2. st.ev[s].cb # "on_request"
  BY PairPlace, PoolAssumption
<1>3. CASE Tied(st, s)
  BY <1>2, <1>3, PairPlace DEF Tied
<1>4. CASE Ringed(st, s)
  BY <1>4 DEF Ringed
<1> QED
  BY <1>1, <1>3, <1>4

\* Nothing points at a slot that is free or still waits for its request.
LEMMA NotPaired ==
  ASSUME NEW st, NEW s \in Slots, NEW t \in Slots, WiredAt(st, s), st.ev[t].cb = "on_request"
  PROVE  st.ev[s].pair # t
BY PairPlace

\* From a server's slot or a tunnel's to the slot it is paired with, and back.
LEMMA LinkPlace ==
  ASSUME NEW st, NEW s \in Slots, WiredAt(st, s), st.ev[s].cb \in {"on_connect", "on_tunnel"}
  PROVE  LET p == st.ev[s].pair
         IN  /\ p \in Slots /\ p # s /\ st.ev[p].pair = s
             /\ st.ev[s].flag = "conn" <=> st.ev[p].flag # "conn"
             /\ st.ev[s].live
             /\ st.ev[p].cb = IF st.ev[s].cb = "on_tunnel" THEN "on_tunnel" ELSE "on_ignore"
BY DEF WiredAt, Tied

\* A slot that is deleted with those it reaches: the rest is left as it was.
LEMMA DelCut ==
  ASSUME NEW st, Shape(st), Owned(st), NEW s \in Slots, st.ev[s].live,
         Reached(st, s) \subseteq Slots,
         \A x \in Slots \ Reached(st, s) :
            WiredAt(st, x) /\ st.ev[x].pair \notin Reached(st, s)
  PROVE  /\ Good(del_event(st, s))
         /\ \A x \in Reached(st, s) : ~del_event(st, s).ev[x].live
<1> DEFINE dead == Reached(st, s)
           y == del_event(st, s)
           Marked(e) == IF e.slot \in dead THEN [e EXCEPT !.open = FALSE] ELSE e
<1>1. /\ DOMAIN y = DOMAIN st
      /\ y.ev = [x \in Slots |-> IF x \in dead THEN Blank ELSE st.ev[x]]
      /\ y.touched = st.touched \union dead
      /\ y.batch = {Marked(e) : e \in st.batch}
  BY DEF del_event, Shape
<1> HIDE DEF dead, y
<1>2. ASSUME NEW e \in st.batch
      PROVE  LET f == Marked(e)
             IN  /\ DOMAIN f = {"slot", "et", "open"} /\ f.slot = e.slot /\ f.et = e.et
                 /\ f.slot \notin dead => f = e
  BY DEF Shape
<1> HIDE DEF Marked
<1>3. Shape(y)
  BY <1>1, <1>2, BlankFields DEF Shape
<1>4. Owned(y)
  <2> SUFFICES ASSUME NEW f \in y.batch, f.slot \notin y.touched
               PROVE  f.open /\ y.ev[f.slot].live
    BY DEF Owned
  <2>1. PICK e \in st.batch : f = Marked(e)
    BY <1>1
  <2>2. f.slot \notin dead /\ f = e /\ e.slot \notin st.touched /\ e.slot \in Slots
    BY <1>1, <1>2, <2>1 DEF Shape
  <2> QED
    BY <1>1, <2>2 DEF Owned
<1>5. ASSUME NEW x \in Slots PROVE WiredAt(y, x)
  <2>1. CASE x \in dead
    <3>1. y.ev[x] = Blank
      BY <1>1, <2>1
    <3> QED
      BY <3>1, BlankFields DEF WiredAt
  <2>2. CASE x \notin dead
    <3>1. \A t \in Slots \ dead : /\ SameSlot(st.ev[t], y.ev[t])
                                  /\ st.ev[t].pair \in Slots => st.ev[t].pair \in Slots \ dead
      BY <1>1 DEF SameSlot, dead
    <3>2. x \in Slots \ dead /\ WiredAt(st, x)
      BY <2>2 DEF dead
    <3> QED
      BY <3>1, <3>2, WiredStays
  <2> QED
    BY <2>1, <2>2
<1>6. ASSUME NEW x \in dead PROVE ~y.ev[x].live
  BY <1>1, BlankFields DEF dead
<1> QED
  BY <1>3, <1>4, <1>5, <1>6 DEF Good, Wired, dead, y

\* No pair pointer leads from outside into the slots a deletion reaches.
LEMMA ReachedClosed ==
  ASSUME NEW st, Good(st), NEW s \in Slots
  PROVE  /\ s \in Reached(st, s) /\ Reached(st, s) \subseteq Slots
         /\ \A x \in Slots \ Reached(st, s) : st.ev[x].pair \notin Reached(st, s)
<1> DEFINE p == st.ev[s].pair  q == st.ev[p].pair
<1>1. WiredAt(st, s) /\ \A x \in Slots : WiredAt(st, x)
  BY DEF Good, Wired
<1>2. p = NoSlot \/ p \in Slots
  BY <1>1, PairPlace
<1>3. CASE p = NoSlot
  <2>1. Reached(st, s) = {s}
    BY <1>3, PoolAssumption DEF Reached
  <2>2. st.ev[s].cb = "on_request"
    BY <1>1, <1>3, PairPlace
  <2>3. \A x \in Slots : st.ev[x].pair # s
    BY <1>1, <2>2, NotPaired
  <2> QED
    BY <2>1, <2>3
<1>4. CASE p \in Slots
  <2>1. q \in Slots
    BY <1>1, <1>4, PoolAssumption DEF WiredAt, Tied, Ringed
  <2>2. Reached(st, s) = {s, p, q}
    BY <1>4, <2>1, PoolAssumption DEF Reached
  <2>3. ASSUME NEW x \in Slots, st.ev[x].pair \in {s, p, q} PROVE x \in {s, p, q}
    <3>1. x = st.ev[st.ev[x].pair].pair \/ x = st.ev[st.ev[st.ev[x].pair].pair].pair
      <4>1. st.ev[x].pair \in Slots /\ WiredAt(st, x)
        BY <1>1, <1>4, <2>1, <2>3
      <4> QED
        BY <4>1, PairsBack
    <3>2. q = s \/ st.ev[q].pair = s
      BY <1>1, <1>4, PoolAssumption DEF WiredAt, Tied, Ringed
    <3> QED
      BY <2>3, <3>1, <3>2
  <2> QED
    BY <1>4, <2>1, <2>2, <2>3
<1> QED
  BY <1>2, <1>3, <1>4

\* del_event: a connection goes as a whole.
LEMMA DelGood ==
  ASSUME NEW st, Good(st), NEW s \in Slots
  PROVE  Good(del_event(st, s))
<1>1. CASE ~st.ev[s].live
  BY <1>1 DEF del_event
<1>2. CASE st.ev[s].live
  BY <1>2, ReachedClosed, DelCut DEF Good, Wired
<1> QED
  BY <1>1, <1>2
-----------------------------------------------------------------------------
(* What the pool's functions do.                                           *)

\* destroy_pool, abort: no slot is left.
LEMMA EndedGood ==
  ASSUME NEW st, Shape(st), NEW how
  PROVE  /\ Good(Ended(st, how)) /\ Ended(st, how).status = how
         /\ \A x \in Slots : ~Ended(st, how).ev[x].live
<1> DEFINE y == Ended(st, how)
<1>1. /\ DOMAIN y = DOMAIN st /\ y.ev = [s \in Slots |-> Blank] /\ y.batch = {}
      /\ y.touched = {} /\ y.status = how
  BY DEF Ended, Shape
<1> HIDE DEF y
<1>2. Shape(y) /\ Owned(y)
  BY <1>1, BlankFields DEF Shape, Owned
<1>3. ASSUME NEW x \in Slots PROVE WiredAt(y, x) /\ ~y.ev[x].live
  <2>1. y.ev[x] = Blank
    BY <1>1
  <2> QED
    BY <2>1, BlankFields DEF WiredAt
<1> QED
  BY <1>1, <1>2, <1>3 DEF Good, Wired, y

\* mod_etype: the slot is in use and little changes, or the process is gone.
LEMMA ModEtypeGood ==
  ASSUME NEW st, Shape(st), NEW s \in Slots, NEW want
  PROVE  LET y == mod_etype(st, s, want)
         IN  \/ st.ev[s].live /\ Same(st, y)
             \/ Good(y) /\ y.status = "assert" /\ \A x \in Slots : ~y.ev[x].live
<1>1. CASE ~st.ev[s].live
  BY <1>1, EndedGood DEF mod_etype
<1>2. CASE st.ev[s].live
  <2>1. /\ DOMAIN [st.ev[s] EXCEPT !.want = want] = SlotFields
        /\ SameSlot(st.ev[s], [st.ev[s] EXCEPT !.want = want])
    BY DEF Shape, SameSlot, SlotFields
  <2> QED
    BY <1>2, <2>1, PutSame DEF mod_etype
<1> QED
  BY <1>1, <1>2

LEMMA ModBothGood ==
  ASSUME NEW st, Good(st), NEW s \in Slots, NEW t \in Slots, NEW u, NEW w
  PROVE  LET y == mod_etype(mod_etype(st, s, u), t, w)
         IN  /\ Good(y)
             /\ y.status = "assert" \/ (st.ev[t].live /\ Same(st, y))
<1> DEFINE x == mod_etype(st, s, u)
           y == mod_etype(x, t, w)
<1>1. \/ Same(st, x)
      \/ Good(x) /\ \A z \in Slots : ~x.ev[z].live
  BY ModEtypeGood DEF Good
<1>2. Shape(x)
  BY <1>1 DEF Same, Good
<1>3. \/ x.ev[t].live /\ Same(x, y)
      \/ Good(y) /\ y.status = "assert"
  BY <1>2, ModEtypeGood
<1> HIDE DEF x, y
<1>4. CASE Good(y) /\ y.status = "assert"
  BY <1>4 DEF x, y
<1>5. CASE x.ev[t].live /\ Same(x, y)
  <2>1. Same(st, x)
    BY <1>1, <1>5
  <2>2. st.ev[t].live
    BY <1>5, <2>1 DEF Same, SameSlot
  <2>3. Same(st, y)
    BY <1>5, <2>1, SameTwice
  <2> QED
    BY <2>2, <2>3, KeepSame DEF x, y
<1> QED
  BY <1>3, <1>4, <1>5

LEMMA BufferedSame ==
  ASSUME NEW st, Shape(st), NEW s \in Slots, NEW b
  PROVE  Same(st, Buffered(st, s, b))
<1>1. CASE ~st.ev[s].live
  BY <1>1, SameIsSame DEF Buffered
<1>2. CASE st.ev[s].live
  <2>1. /\ DOMAIN [st.ev[s] EXCEPT !.buff = b] = SlotFields
        /\ SameSlot(st.ev[s], [st.ev[s] EXCEPT !.buff = b])
    BY DEF Shape, SameSlot, SlotFields
  <2>2. Buffered(st, s, b) = Put(st, s, [st.ev[s] EXCEPT !.buff = b])
    BY <1>2 DEF Buffered, Put
  <2> QED
    BY <2>1, <2>2, PutSame
<1> QED
  BY <1>1, <1>2

\* add_event: from st to y the slot s has become one with nothing but a callback.
Taken(st, y, s, cb) ==
  /\ Shape(y) /\ y.touched = st.touched \union {s} /\ y.batch = st.batch
  /\ y.ev[s].live = TRUE /\ y.ev[s].cb = cb /\ y.ev[s].pair = NoSlot
  /\ y.ev[s].flag = "none" /\ y.ev[s].timer = FALSE
  /\ \A x \in Slots \ {s} : y.ev[x] = st.ev[x]

LEMMA AddEvent ==
  ASSUME NEW st, Shape(st), NEW s \in Slots, NEW cb, NEW want
  PROVE  Taken(st, add_event(st, s, cb, want), s, cb)
<1> DEFINE y == add_event(st, s, cb, want)
           e == [Blank EXCEPT !.live = TRUE, !.cb = cb, !.want = want]
<1>1. /\ DOMAIN e = SlotFields /\ e.live = TRUE /\ e.cb = cb /\ e.pair = NoSlot
      /\ e.flag = "none" /\ e.timer = FALSE
  BY BlankFields DEF SlotFields
<1>2. y = [st EXCEPT !.ev[s] = e, !.touched = @ \union {s}]
  BY DEF add_event
<1> HIDE DEF e
<1>3. /\ DOMAIN y = DOMAIN st /\ y.touched = st.touched \union {s} /\ y.batch = st.batch
      /\ y.ev = [st.ev EXCEPT ![s] = e]
  BY <1>2 DEF Shape
<1> HIDE DEF y
<1>4. /\ DOMAIN y.ev = Slots /\ y.ev[s] = e /\ \A x \in Slots \ {s} : y.ev[x] = st.ev[x]
  BY <1>3 DEF Shape
<1>5. Shape(y)
  BY <1>1, <1>3, <1>4 DEF Shape
<1> QED
  BY <1>1, <1>3, <1>4, <1>5 DEF y, Taken
-----------------------------------------------------------------------------
(* Connecting.                                                             *)

\* create_conn: the slot r, which was free, becomes the server's for the client's slot c.
Turned(e, r) == [[[e EXCEPT !.want = {}] EXCEPT !.pair = r] EXCEPT !.cb = "on_ignore"]
Joining(e, c) == [[[e EXCEPT !.pair = c] EXCEPT !.flag = "conn"] EXCEPT !.sock = "connecting"]
Created(st, y, c, r) ==
  /\ r \in Slots /\ r # c /\ ~st.ev[r].live
  /\ Shape(y) /\ y.touched = st.touched \union {r} /\ y.batch = st.batch
  /\ y.cache = st.cache /\ y.status = st.status
  /\ y.ev[c] = Turned(st.ev[c], r)
  /\ y.ev[r] = Joining([Blank EXCEPT !.live = TRUE, !.cb = "on_connect", !.want = {"out"}], c)
  /\ \A x \in Slots \ {r, c} : y.ev[x] = st.ev[x]

LEMMA CreateIs ==
  ASSUME NEW st, Shape(st), NEW c \in Slots, st.ev[c].live, NEW o \in create_conn(st, c)
  PROVE  \/ o.ret = -1 /\ o.st = st
         \/ o.ret = 0 /\ \E r \in Slots : Created(st, o.st, c, r)
<1>1. CASE o \in Fail(st)
  BY <1>1 DEF Fail, Out
<1>2. CASE o \notin Fail(st)
  <2> DEFINE New(r) == add_event(st, r, "on_connect", {"out"})
             Conn(r) == [New(r) EXCEPT
                           !.ev[c].want = {}, !.ev[c].pair = r, !.ev[c].cb = "on_ignore",
                           !.ev[r].pair = c, !.ev[r].flag = "conn", !.ev[r].sock = "connecting"]
  <2>1. PICK r \in OpenSlots(st) : o = Out(Conn(r), 0)
    BY <1>2 DEF create_conn
  <2>2. r \in Slots /\ ~st.ev[r].live /\ r # c
    BY <2>1 DEF OpenSlots
  <2>3. o.ret = 0 /\ o.st = Conn(r)
    BY <2>1 DEF Out
  <2> DEFINE a == New(r)  y == Conn(r)
             b == [Blank EXCEPT !.live = TRUE, !.cb = "on_connect", !.want = {"out"}]
  <2>4. /\ Shape(a) /\ a.touched = st.touched \union {r} /\ a.batch = st.batch
        /\ \A x \in Slots \ {r} : a.ev[x] = st.ev[x]
    <3>1. Taken(st, a, r, "on_connect")
      BY <2>2, AddEvent
    <3> HIDE DEF a, New
    <3> QED
      BY <3>1 DEF Taken
  <2>5. a.ev[r] = b /\ a.cache = st.cache /\ a.status = st.status
    BY <2>2 DEF add_event, Shape
  <2> HIDE DEF b
  <2> DEFINE c1 == [a.ev[c] EXCEPT !.want = {}]
             c2 == [c1 EXCEPT !.pair = r]
             c3 == [c2 EXCEPT !.cb = "on_ignore"]
             r1 == [a.ev[r] EXCEPT !.pair = c]
             r2 == [r1 EXCEPT !.flag = "conn"]
             r3 == [r2 EXCEPT !.sock = "connecting"]
  <2>6. /\ DOMAIN c1 = SlotFields /\ DOMAIN c2 = SlotFields /\ DOMAIN c3 = SlotFields
        /\ DOMAIN r1 = SlotFields /\ DOMAIN r2 = SlotFields /\ DOMAIN r3 = SlotFields
    <3>1. DOMAIN a.ev[c] = SlotFields /\ DOMAIN a.ev[r] = SlotFields
      BY <2>2, <2>4 DEF Shape
    <3> HIDE DEF a, New
    <3> QED
      BY <3>1
  <2>7. y = Put(Put(a, c, c3), r, r3)
    <3> DEFINE y1 == Put(a, c, [a.ev[c] EXCEPT !.want = {}])
               y2 == Put(y1, c, [y1.ev[c] EXCEPT !.pair = r])
               y3 == Put(y2, c, [y2.ev[c] EXCEPT !.cb = "on_ignore"])
               y4 == Put(y3, r, [y3.ev[r] EXCEPT !.pair = c])
               y5 == Put(y4, r, [y4.ev[r] EXCEPT !.flag = "conn"])
               y6 == Put(y5, r, [y5.ev[r] EXCEPT !.sock = "connecting"])
    <3>1. y = y6
      BY DEF Put
    <3> HIDE DEF y, Conn, a, New, y6, y5, y4, y3, y2, r3, r2, r1, c3, c2
    <3>2. y1 = Put(a, c, c1)
      OBVIOUS
    <3> HIDE DEF y1, c1
    <3>3. Shape(y1) /\ y1.ev[c] = c1
      BY <2>4, <2>6, <3>2, PutIs
    <3>4. y2 = Put(y1, c, c2)
      BY <3>3 DEF y2, c2
    <3>5. y2 = Put(a, c, c2) /\ Shape(y2) /\ y2.ev[c] = c2
      BY <2>4, <2>6, <3>2, <3>4, PutTwice, PutIs
    <3>6. y3 = Put(y2, c, c3)
      BY <3>5 DEF y3, c3
    <3>7. y3 = Put(a, c, c3) /\ Shape(y3) /\ y3.ev[r] = a.ev[r]
      BY <2>2, <2>4, <2>6, <3>5, <3>6, PutTwice, PutIs
    <3>8. y4 = Put(y3, r, r1)
      BY <3>7 DEF y4, r1
    <3>9. Shape(y4) /\ y4.ev[r] = r1
      BY <2>2, <2>6, <3>7, <3>8, PutIs
    <3>10. y5 = Put(y4, r, r2)
      BY <3>9 DEF y5, r2
    <3>11. y5 = Put(y3, r, r2) /\ Shape(y5) /\ y5.ev[r] = r2
      BY <2>2, <2>6, <3>7, <3>8, <3>10, PutTwice, PutIs
    <3>12. y6 = Put(y5, r, r3)
      BY <3>11 DEF y6, r3
    <3>13. y6 = Put(y3, r, r3)
      BY <2>2, <3>7, <3>11, <3>12, PutTwice
    <3> QED
      BY <3>1, <3>7, <3>13
  <2> HIDE DEF y, Conn, a, New
  <2>8. c3 = Turned(st.ev[c], r) /\ r3 = Joining(b, c)
    BY <2>2, <2>4, <2>5 DEF Turned, Joining
  <2> HIDE DEF c3, r3
  <2>9. /\ Shape(y) /\ y.touched = a.touched /\ y.batch = a.batch
        /\ y.ev[c] = c3 /\ y.ev[r] = r3 /\ \A x \in Slots \ {r, c} : y.ev[x] = a.ev[x]
    <3>1. /\ Shape(Put(a, c, c3)) /\ Put(a, c, c3).touched = a.touched
          /\ Put(a, c, c3).batch = a.batch /\ Put(a, c, c3).ev[c] = c3
          /\ \A x \in Slots \ {c} : Put(a, c, c3).ev[x] = a.ev[x]
      BY <2>4, <2>6, PutIs
    <3> QED
      BY <2>2, <2>6, <2>7, <3>1, PutIs
  <2>10. y.cache = a.cache /\ y.status = a.status
    BY <2>4, <2>7 DEF Put, Shape
  <2>11. Created(st, y, c, r)
    BY <2>2, <2>4, <2>5, <2>8, <2>9, <2>10 DEF Created, b
  <2> QED
    BY <2>2, <2>3, <2>11 DEF y
<1> QED
  BY <1>1, <1>2

\* What Good asks of a connection that is made.
Made(st, y, c, r) ==
  /\ Shape(y) /\ Owned(y) /\ r \in Slots /\ r # c /\ ~st.ev[r].live
  /\ y.ev[r].live /\ y.ev[r].flag = "conn" /\ y.ev[r].cb = "on_connect"
  /\ y.ev[r].pair = c /\ ~y.ev[r].timer
  /\ y.ev[c].live = st.ev[c].live /\ y.ev[c].flag = st.ev[c].flag
  /\ y.ev[c].cb = "on_ignore" /\ y.ev[c].pair = r
  /\ y.ev[c].timer => st.ev[c].timer \/ st.ev[c].flag = "conn"
  /\ \A x \in Slots \ {r, c} : SameSlot(st.ev[x], y.ev[x])

LEMMA CreatedMade ==
  ASSUME NEW st, Shape(st), Owned(st), NEW c \in Slots, st.ev[c].live,
         NEW y, NEW r \in Slots, Created(st, y, c, r)
  PROVE  Made(st, y, c, r)
<1> DEFINE e == st.ev[c]
           b == [Blank EXCEPT !.live = TRUE, !.cb = "on_connect", !.want = {"out"}]
<1>1. DOMAIN e = SlotFields
  BY DEF Shape
<1>2. /\ DOMAIN b = SlotFields /\ b.live = TRUE /\ b.cb = "on_connect" /\ b.timer = FALSE
  BY BlankFields DEF SlotFields
<1> HIDE DEF b
<1>3. /\ y.ev[r].live = TRUE /\ y.ev[r].flag = "conn" /\ y.ev[r].cb = "on_connect"
      /\ y.ev[r].pair = c /\ y.ev[r].timer = FALSE
  <2>1. y.ev[r] = Joining(b, c)
    BY DEF Created, b
  <2> QED
    BY <1>2, <2>1 DEF Joining, SlotFields
<1>4. /\ y.ev[c].live = e.live /\ y.ev[c].flag = e.flag /\ y.ev[c].timer = e.timer
      /\ y.ev[c].cb = "on_ignore" /\ y.ev[c].pair = r
  <2>1. y.ev[c] = Turned(e, r)
    BY DEF Created
  <2> HIDE DEF e
  <2> QED
    BY <1>1, <2>1 DEF Turned, SlotFields
<1>5. \A x \in Slots \ {r, c} : y.ev[x] = st.ev[x]
  BY DEF Created
<1>6. Owned(y)
  <2>1. y.batch = st.batch /\ y.touched = st.touched \union {r}
    BY DEF Created
  <2> QED
    BY <1>4, <1>5, <2>1 DEF Owned, Shape
<1>7. \A x \in Slots \ {r, c} : SameSlot(st.ev[x], y.ev[x])
  BY <1>5 DEF SameSlot
<1> QED
  BY <1>3, <1>4, <1>6, <1>7 DEF Made, Created

LEMMA CreateConn ==
  ASSUME NEW st, Shape(st), Owned(st), NEW c \in Slots, st.ev[c].live,
         NEW o \in create_conn(st, c)
  PROVE  \/ o.ret = -1 /\ o.st = st
         \/ o.ret = 0 /\ \E r \in Slots : Made(st, o.st, c, r)
BY CreateIs, CreatedMade

\* What Good does not notice before a connection is made.
LEMMA MadeAfter ==
  ASSUME NEW st, NEW x, NEW y, NEW c \in Slots, NEW r \in Slots, Same(st, x), Made(x, y, c, r)
  PROVE  Made(st, y, c, r)
BY DEF Same, SameSlot, Made

LEMMA ConnectHook ==
  ASSUME NEW st, Good(st), NEW c \in Slots, st.ev[c].live, NEW o \in connect_hook(st, c)
  PROVE  \/ o.ret = -1 /\ Same(st, o.st)
         \/ o.ret = 0 /\ \E r \in Slots : Made(st, o.st, c, r)
<1> DEFINE e == st.ev[c]
           known == IF e.dp # 0 \/ st.cache = NoCache THEN e
                    ELSE [e EXCEPT !.mask = st.cache.mask, !.detect = st.cache.detect,
                                   !.dp = st.cache.dp]
           chosen == Grouped(known)
           x == Put(st, c, chosen)
<1>1. o \in IF chosen.dp = 0 THEN Fail(st) ELSE create_conn(x, c)
  BY DEF connect_hook
<1>2. DOMAIN known = SlotFields /\ SameSlot(e, known)
  <2>1. DOMAIN e = SlotFields
    BY DEF Good, Shape
  <2>2. known \in {e, [e EXCEPT !.mask = st.cache.mask, !.detect = st.cache.detect,
                               !.dp = st.cache.dp]}
    OBVIOUS
  <2> HIDE DEF e, known
  <2> QED
    BY <2>1, <2>2 DEF SameSlot, SlotFields
<1> HIDE DEF known
<1>3. DOMAIN chosen = SlotFields /\ SameSlot(e, chosen)
  BY <1>2 DEF Grouped, SameSlot, SlotFields
<1> HIDE DEF chosen
<1>4. Same(st, x)
  BY <1>3, PutSame DEF Good
<1>5. Good(x) /\ x.ev[c].live
  BY <1>4, KeepSame DEF Same, SameSlot
<1> HIDE DEF x
<1>6. CASE o \in Fail(st)
  BY <1>6, SameIsSame DEF Fail, Out, Good
<1>7. CASE o \in create_conn(x, c)
  <2>1. \/ o.ret = -1 /\ o.st = x
        \/ o.ret = 0 /\ \E r \in Slots : Made(x, o.st, c, r)
    BY <1>5, <1>7, CreateConn DEF Good
  <2> QED
    BY <1>4, <2>1, MadeAfter
<1> QED
  BY <1>1, <1>6, <1>7

\* A client that has sent its request gets a connection.
LEMMA FirstConnection ==
  ASSUME NEW st, Good(st), NEW c \in Slots, st.ev[c].live, st.ev[c].cb = "on_request",
         NEW y, NEW r \in Slots, Made(st, y, c, r)
  PROVE  Good(y)
<1>1. \A x \in Slots : WiredAt(st, x)
  BY DEF Good, Wired
<1>2. st.ev[r].cb = "on_request" /\ r # c
  BY <1>1, PairPlace DEF Made
<1>3. st.ev[c].flag # "conn" /\ ~st.ev[c].timer
  BY <1>1 DEF WiredAt
<1>4. ASSUME NEW x \in Slots \ {r, c} PROVE WiredAt(y, x)
  <2>1. \A t \in Slots \ {r, c} : /\ SameSlot(st.ev[t], y.ev[t])
                                  /\ st.ev[t].pair \in Slots => st.ev[t].pair \in Slots \ {r, c}
    BY <1>1, <1>2, NotPaired DEF Made
  <2> QED
    BY <1>1, <2>1, WiredStays
<1>5. WiredAt(y, r) /\ WiredAt(y, c)
  BY <1>2, <1>3 DEF Made, WiredAt, Tied
<1> QED
  BY <1>4, <1>5 DEF Good, Wired, Made

\* Connecting again, from the slot r of a server: it fails and leaves the pool as it is, or
\* r is gone and another slot has its place.
Server(st, r) ==
  r \in Slots /\ st.ev[r].flag = "conn" /\ st.ev[r].cb \in {"on_connect", "on_tunnel"}
GivesUp(st, o) == o.ret = -1 /\ Same(st, o.st)
Retry(st, r, o) == \/ GivesUp(st, o)
                   \/ o.ret = 0 /\ Good(o.st) /\ ~o.st.ev[r].live

LEMMA RetryGood ==
  ASSUME NEW st, Good(st), NEW r, NEW o, Retry(st, r, o)
  PROVE  Good(o.st)
BY KeepSame DEF Retry, GivesUp

LEMMA RetryAfter ==
  ASSUME NEW st, NEW x, Same(st, x), NEW r, NEW o
  PROVE  /\ Retry(x, r, o) => Retry(st, r, o)
         /\ GivesUp(x, o) => GivesUp(st, o)
BY SameTwice DEF Retry, GivesUp

LEMMA ServerAfter ==
  ASSUME NEW st, NEW x, Same(st, x), NEW r, Server(st, r)
  PROVE  Server(x, r) /\ x.ev[r].pair = st.ev[r].pair
BY DEF Same, SameSlot, Server

LEMMA FailGivesUp ==
  ASSUME NEW st, NEW x, Same(st, x), NEW o \in Fail(x)
  PROVE  GivesUp(st, o)
BY DEF Fail, Out, GivesUp

\* The old server's slot lets go of the client's, which has the new one, and is deleted.
LEMMA Replaced ==
  ASSUME NEW st, Good(st), NEW r, Server(st, r),
         NEW y, NEW n \in Slots, Made(st, y, st.ev[r].pair, n)
  PROVE  LET z == del_event(Put(y, r, [y.ev[r] EXCEPT !.pair = NoSlot]), r)
         IN  Good(z) /\ ~z.ev[r].live
<1> DEFINE c == st.ev[r].pair
           e == [y.ev[r] EXCEPT !.pair = NoSlot]
           z == Put(y, r, e)
<1>1. r \in Slots /\ \A x \in Slots : WiredAt(st, x)
  BY DEF Good, Wired, Server
<1>2. c \in Slots /\ c # r /\ st.ev[c].pair = r /\ st.ev[c].flag # "conn" /\ st.ev[r].live
  BY <1>1, LinkPlace DEF Server
<1>3. st.ev[n].cb = "on_request" /\ n # c /\ n # r
  <2>1. ~st.ev[n].live /\ n # c
    BY DEF Made
  <2>2. WiredAt(st, n)
    BY <1>1
  <2> QED
    BY <1>2, <2>1, <2>2 DEF WiredAt
<1>4. st.ev[c].live /\ ~st.ev[c].timer
  <2>1. WiredAt(st, r) /\ WiredAt(st, c)
    BY <1>1, <1>2
  <2>2. st.ev[c].cb # "on_request"
    BY <1>1, <1>2, <2>1, PairPlace
  <2> QED
    BY <1>2, <2>1, <2>2 DEF WiredAt
<1> HIDE DEF c
<1>5. /\ Shape(y) /\ Owned(y) /\ SameSlot(st.ev[r], y.ev[r]) /\ y.ev[r].live
  BY <1>1, <1>2, <1>3 DEF Made, SameSlot, c
<1>6. DOMAIN e = SlotFields /\ e.live = y.ev[r].live /\ e.pair = NoSlot
  BY <1>1, <1>5 DEF Shape, SlotFields
<1> HIDE DEF e
<1>7. /\ Shape(z) /\ z.touched = y.touched /\ z.batch = y.batch /\ z.ev[r] = e
      /\ \A x \in Slots \ {r} : z.ev[x] = y.ev[x]
  BY <1>1, <1>5, <1>6, PutIs
<1> HIDE DEF z
<1>8. Owned(z)
  BY <1>1, <1>5, <1>6, <1>7 DEF Owned, Shape
<1>9. Reached(z, r) = {r} /\ z.ev[r].live
  BY <1>1, <1>5, <1>6, <1>7, PoolAssumption DEF Reached
<1>10. ASSUME NEW x \in Slots \ {r, c, n}
       PROVE  SameSlot(st.ev[x], z.ev[x]) /\ st.ev[x].pair \notin {r, c, n}
  <2>1. SameSlot(st.ev[x], z.ev[x])
    BY <1>7 DEF Made, c
  <2>2. st.ev[x].pair # n
    BY <1>1, <1>3, NotPaired
  <2>3. ASSUME st.ev[x].pair \in {r, c} PROVE FALSE
    <3>1. st.ev[x].pair \in Slots /\ WiredAt(st, x)
      BY <1>1, <1>2, <2>3
    <3>2. x = st.ev[st.ev[x].pair].pair \/ x = st.ev[st.ev[st.ev[x].pair].pair].pair
      BY <3>1, PairsBack
    <3>3. st.ev[r].pair = c
      BY DEF c
    <3> QED
      BY <1>2, <2>3, <3>2, <3>3
  <2> QED
    BY <2>1, <2>2, <2>3
<1>11. ASSUME NEW x \in Slots \ {r} PROVE WiredAt(z, x) /\ z.ev[x].pair # r
  <2>1. CASE x \notin {c, n}
    <3>1. WiredAt(z, x)
      <4> DEFINE K == Slots \ {r, c, n}
      <4>1. /\ K \in SUBSET Slots /\ x \in K /\ WiredAt(st, x)
            /\ \A t \in K : /\ SameSlot(st.ev[t], z.ev[t])
                            /\ st.ev[t].pair \in Slots => st.ev[t].pair \in K
        BY <1>1, <1>10, <2>1
      <4> HIDE DEF K
      <4> QED
        BY <4>1, WiredStays
    <3>2. z.ev[x].pair = st.ev[x].pair
      BY <1>10, <2>1 DEF SameSlot
    <3> QED
      BY <1>10, <2>1, <3>1, <3>2
  <2>2. /\ z.ev[c].live /\ z.ev[c].flag # "conn" /\ z.ev[c].cb = "on_ignore"
        /\ z.ev[c].pair = n /\ ~z.ev[c].timer
    BY <1>2, <1>4, <1>7 DEF Made, c
  <2>3. /\ z.ev[n].live /\ z.ev[n].flag = "conn" /\ z.ev[n].cb = "on_connect"
        /\ z.ev[n].pair = c /\ ~z.ev[n].timer
    BY <1>3, <1>7 DEF Made, c
  <2>4. CASE x \in {c, n}
    BY <1>2, <1>3, <2>2, <2>3, <2>4 DEF WiredAt, Tied
  <2> QED
    BY <2>1, <2>4
<1> QED
  BY <1>1, <1>7, <1>8, <1>9, <1>11, DelCut DEF z, e

LEMMA Reconnect ==
  ASSUME NEW st, Good(st), NEW r, Server(st, r), NEW o \in reconnect(st, r)
  PROVE  Retry(st, r, o)
<1> DEFINE c == st.ev[r].pair
           e == st.ev[c]
           b == IF e.sq > 0 THEN [base |-> 0, lo |-> 0, hi |-> e.sq] ELSE e.buff
           again == [e EXCEPT !.sent = FALSE, !.buff = b]
           x == Put(st, c, again)
           New(p) == del_event(Put(p.st, r, [p.st.ev[r] EXCEPT !.pair = NoSlot]), r)
<1>1. o \in {IF p.ret < 0 THEN p ELSE Out(New(p), 0) : p \in connect_hook(x, c)}
  BY DEF reconnect
<1>2. WiredAt(st, r) /\ r \in Slots
  BY DEF Good, Wired, Server
<1>3. c \in Slots /\ WiredAt(st, c) /\ st.ev[c].pair = r
  BY <1>2, LinkPlace DEF Server, Good, Wired
<1>4. e.live
  <2>1. st.ev[c].cb # "on_request"
    BY <1>2, <1>3, PairPlace
  <2> QED
    BY <1>3, <2>1, PairPlace
<1> HIDE DEF b
<1>5. DOMAIN again = SlotFields /\ SameSlot(e, again)
  BY <1>3 DEF Good, Shape, SameSlot, SlotFields
<1> HIDE DEF again, c
<1>6. Same(st, x)
  BY <1>3, <1>5, PutSame DEF Good
<1>7. Good(x) /\ x.ev[c].live /\ Server(x, r) /\ x.ev[r].pair = c
  <2>1. Good(x)
    BY <1>6, KeepSame
  <2>2. x.ev[c].live
    BY <1>3, <1>4, <1>6 DEF Same, SameSlot
  <2>3. Server(x, r) /\ x.ev[r].pair = c
    BY <1>6, ServerAfter DEF c
  <2> QED
    BY <2>1, <2>2, <2>3
<1> HIDE DEF x, New
<1>8. PICK p \in connect_hook(x, c) : o = IF p.ret < 0 THEN p ELSE Out(New(p), 0)
  BY <1>1
<1>9. \/ p.ret = -1 /\ Same(x, p.st)
      \/ p.ret = 0 /\ \E n \in Slots : Made(x, p.st, c, n)
  BY <1>3, <1>7, <1>8, ConnectHook
<1>10. CASE p.ret = -1 /\ Same(x, p.st)
  BY <1>6, <1>8, <1>10, SameTwice DEF Retry, GivesUp
<1>11. CASE p.ret = 0 /\ \E n \in Slots : Made(x, p.st, c, n)
  <2>1. o.ret = 0 /\ o.st = New(p)
    BY <1>8, <1>11 DEF Out
  <2>2. Good(New(p)) /\ ~New(p).ev[r].live
    BY <1>7, <1>11, Replaced DEF New
  <2> QED
    BY <2>1, <2>2 DEF Retry
<1> QED
  BY <1>9, <1>10, <1>11
-----------------------------------------------------------------------------
(* What counts as a failure, and what follows from it.                     *)

LEMMA CacheSame ==
  ASSUME NEW st, NEW x, Same(st, x), NEW v
  PROVE  Same(st, [x EXCEPT !.cache = v])
BY DEF Same, Shape, SameSlot

\* on_trigger: without a live server there is no other connection.
LEMMA OnTrigger ==
  ASSUME NEW st, Good(st), NEW r, Server(st, r), NEW type, NEW alive,
         NEW o \in on_trigger(st, r, type, alive)
  PROVE  Retry(st, r, o) /\ (~alive => GivesUp(st, o))
<1> DEFINE c == st.ev[r].pair
           e == st.ev[c]
           can_reconn == alive /\ (e.sq > 0 \/ (e.recv = 0 /\ st.ev[r].recv = 0))
           g == NextGroup(e.mask \union {e.dp}, type)
           f == [e EXCEPT !.mask = g.mask, !.detect = type]
           noted == Put(st, c, f)
           none == [mask |-> {}, detect |-> {}, dp |-> 1]
           next == [mask |-> noted.cache.mask \union g.mask, detect |-> type, dp |-> g.dp]
           reset == [noted EXCEPT !.cache = none]
           saved == [noted EXCEPT !.cache = next]
<1>1. o \in IF g.dp = 0 THEN Fail(reset)
            ELSE IF can_reconn THEN reconnect(saved, r) ELSE Fail(saved)
  BY DEF on_trigger
<1>2. c \in Slots
  BY LinkPlace DEF Server, Good, Wired
<1> HIDE DEF g, c
<1>3. DOMAIN f = SlotFields /\ SameSlot(e, f)
  BY <1>2 DEF Good, Shape, SameSlot, SlotFields
<1> HIDE DEF f, e
<1>4. Same(st, noted)
  BY <1>2, <1>3, PutSame DEF Good, e
<1> HIDE DEF noted, none, next
<1>5. Same(st, reset) /\ Same(st, saved)
  BY <1>4, CacheSame
<1> HIDE DEF reset, saved
<1>6. CASE o \in Fail(reset) \/ o \in Fail(saved)
  BY <1>5, <1>6, FailGivesUp DEF Retry
<1>7. CASE alive /\ o \in reconnect(saved, r)
  <2>1. Good(saved) /\ Server(saved, r)
    BY <1>5, KeepSame, ServerAfter
  <2>2. Retry(saved, r, o)
    BY <1>7, <2>1, Reconnect
  <2> QED
    BY <1>5, <1>7, <2>2, RetryAfter
<1>8. \/ o \in Fail(reset) \/ o \in Fail(saved)
      \/ alive /\ o \in reconnect(saved, r)
  BY <1>1 DEF can_reconn
<1> QED
  BY <1>6, <1>7, <1>8

\* A tunnel: two slots that hand bytes to each other.
Tunnel(st, s) == s \in Slots /\ st.ev[s].cb = "on_tunnel"

LEMMA TunnelPair ==
  ASSUME NEW st, Good(st), NEW s, Tunnel(st, s)
  PROVE  LET p == st.ev[s].pair
         IN  /\ p \in Slots /\ Tunnel(st, p) /\ p # s /\ st.ev[p].pair = s
             /\ st.ev[s].live /\ st.ev[p].live
             /\ st.ev[s].flag = "conn" => Server(st, s)
             /\ st.ev[s].flag # "conn" => Server(st, p)
<1>1. s \in Slots /\ WiredAt(st, s) /\ st.ev[s].cb \in {"on_connect", "on_tunnel"}
  BY DEF Good, Wired, Tunnel
<1> DEFINE p == st.ev[s].pair
<1>2. /\ p \in Slots /\ p # s /\ st.ev[p].pair = s /\ st.ev[s].live
      /\ st.ev[s].flag = "conn" <=> st.ev[p].flag # "conn"
      /\ st.ev[p].cb = "on_tunnel"
  BY <1>1, LinkPlace DEF Tunnel
<1> HIDE DEF p
<1>3. st.ev[p].live
  <2>1. WiredAt(st, p) /\ st.ev[p].cb # "on_request"
    BY <1>2 DEF Good, Wired
  <2> QED
    BY <1>2, <2>1, PairPlace
<1> QED
  BY <1>1, <1>2, <1>3 DEF Tunnel, Server, p

LEMMA TunnelAfter ==
  ASSUME NEW st, NEW x, Same(st, x), NEW s, Tunnel(st, s)
  PROVE  Tunnel(x, s) /\ x.ev[s].pair = st.ev[s].pair
BY DEF Same, SameSlot, Tunnel

\* on_fin, handle_err: nothing, or the slot itself is gone.
LEMMA OnFin ==
  ASSUME NEW st, Good(st), NEW s, Tunnel(st, s), NEW o \in on_fin(st, s)
  PROVE  Retry(st, s, o)
<1> DEFINE client == st.ev[s].flag # "conn"
           r == IF client THEN st.ev[s].pair ELSE s
<1>1. o \in Fail(st) \/ o \in on_trigger(st, r, {"tls_err"}, ~client)
  BY DEF on_fin
<1>2. Server(st, r)
  BY TunnelPair
<1>3. CASE o \in Fail(st)
  BY <1>3, FailGivesUp, SameIsSame DEF Retry, Good
<1>4. CASE o \in on_trigger(st, r, {"tls_err"}, ~client)
  <2>1. Retry(st, r, o) /\ (client => GivesUp(st, o))
    <3> HIDE DEF r, client
    <3> QED
      BY <1>2, <1>4, OnTrigger
  <2> QED
    BY <2>1 DEF Retry
<1> QED
  BY <1>1, <1>3, <1>4

LEMMA HandleErr ==
  ASSUME NEW st, Good(st), NEW s, Tunnel(st, s), NEW o \in handle_err(st, s)
  PROVE  Retry(st, s, o)
<1>1. CASE o \in Fail(st)
  BY <1>1, FailGivesUp, SameIsSame DEF Retry, Good
<1>2. CASE o \in on_fin(st, s)
  BY <1>2, OnFin
<1>3. CASE st.ev[s].flag = "conn" /\ o \in on_torst(st, s)
  <2>1. Server(st, s)
    BY <1>3, TunnelPair
  <2> QED
    BY <1>3, <2>1, OnTrigger DEF on_torst
<1> QED
  BY <1>1, <1>2, <1>3 DEF handle_err

LEMMA OnResponse ==
  ASSUME NEW st, Good(st), NEW r, Server(st, r), NEW kind, NEW o \in on_response(st, r, kind)
  PROVE  Retry(st, r, o)
<1> DEFINE c == st.ev[r].pair
           m == st.ev[c].mask \union {st.ev[c].dp}
           e == [st.ev[c] EXCEPT !.mask = m]
           x == Put(st, c, e)
<1>1. \/ o \in Fail(x)
      \/ \E type : o \in on_trigger(x, r, type, TRUE)
  BY DEF on_response
<1>2. c \in Slots
  BY LinkPlace DEF Server, Good, Wired
<1> HIDE DEF c, m
<1>3. DOMAIN e = SlotFields /\ SameSlot(st.ev[c], e)
  BY <1>2 DEF Good, Shape, SameSlot, SlotFields
<1> HIDE DEF e
<1>4. Same(st, x)
  BY <1>2, <1>3, PutSame DEF Good
<1>5. Good(x) /\ Server(x, r)
  BY <1>4, KeepSame, ServerAfter
<1> HIDE DEF x
<1>6. CASE o \in Fail(x)
  BY <1>4, <1>6, FailGivesUp DEF Retry
<1>7. ASSUME NEW type, o \in on_trigger(x, r, type, TRUE) PROVE Retry(st, r, o)
  BY <1>4, <1>5, <1>7, OnTrigger, RetryAfter
<1> QED
  BY <1>1, <1>6, <1>7
-----------------------------------------------------------------------------
(* Sending and receiving.                                                  *)

LEMMA ReceivedSame ==
  ASSUME NEW e, DOMAIN e = SlotFields, NEW lo, NEW k, NEW all
  PROVE  DOMAIN Received(e, lo, k, all) = SlotFields /\ SameSlot(e, Received(e, lo, k, all))
BY DEF Received, Damaged, SameSlot, SlotFields

\* send(): s is not the slot that is sent to.
LEMMA SendsSame ==
  ASSUME NEW st, Shape(st), NEW s \in Slots, NEW d, Tunnel(st, d), s # d, NEW b,
         NEW w \in Sends(st, s, d, b)
  PROVE  Same(st, w.st)
<1> DEFINE m == b.hi - b.lo
           es(all) == [st.ev[s] EXCEPT !.sent = @ \/ all > 0]
           Taker(k, all) == IF st.ev[d].flag = "conn" THEN Received(st.ev[d], b.lo, k, all)
                                                      ELSE st.ev[d]
           ed(k, all, wait) == [Taker(k, all) EXCEPT !.full = @ \/ (k < m /\ ~wait),
                                                     !.timer = @ \/ wait]
           Handed(k, all, wait) == Put(Put(st, s, es(all)), d, ed(k, all, wait))
           Give(k, all, wait) == Sent(Handed(k, all, wait), all, wait)
           takes == IF st.ev[d].full THEN {0} ELSE 0..m
           desync == st.ev[d].flag = "conn" /\ st.ev[s].round <= 1
<1>1. Sends(st, s, d, b) =
        {Give(k, k, FALSE) : k \in takes} \union
        (IF desync THEN {Give(k, k, TRUE) : k \in takes}
                          \union {Give(k, m, FALSE) : k \in takes \ {0}}
         ELSE {})
  BY DEF Sends, Put
<1> HIDE DEF takes, Give, m
<1>2. \/ \E k \in takes : w = Give(k, k, FALSE)
      \/ desync /\ \E k \in takes : w = Give(k, k, TRUE)
      \/ desync /\ \E k \in takes : w = Give(k, m, FALSE)
  BY <1>1
<1>3. ASSUME NEW k, NEW all, NEW wait \in BOOLEAN, wait => st.ev[d].flag = "conn",
             w = Give(k, all, wait)
      PROVE  Same(st, w.st)
  <2> DEFINE x == Put(st, s, es(all))  t == Taker(k, all)  e == ed(k, all, wait)
  <2>1. w.st = Put(x, d, e)
    BY <1>3 DEF Sent, Give
  <2>2. DOMAIN es(all) = SlotFields /\ SameSlot(st.ev[s], es(all))
    BY DEF Shape, SameSlot, SlotFields
  <2>3. Same(st, x) /\ x.ev[d] = st.ev[d] /\ d \in Slots /\ st.ev[d].cb = "on_tunnel"
    <3> HIDE DEF es
    <3> QED
      BY <2>2, PutSame, PutIs DEF Tunnel
  <2> HIDE DEF x
  <2>4. DOMAIN t = SlotFields /\ SameSlot(st.ev[d], t)
    BY <2>3, ReceivedSame DEF Shape, SameSlot
  <2>5. DOMAIN e = SlotFields /\ e.live = t.live /\ e.flag = t.flag /\ e.cb = t.cb
        /\ e.pair = t.pair /\ (e.timer => t.timer \/ wait)
    <3> HIDE DEF Taker
    <3> QED
      BY <2>4 DEF SlotFields
  <2> HIDE DEF e, t
  <2>6. SameSlot(x.ev[d], e)
    BY <1>3, <2>3, <2>4, <2>5 DEF SameSlot
  <2>7. Same(x, w.st)
    BY <2>1, <2>3, <2>5, <2>6, PutSame DEF Same
  <2> QED
    BY <2>3, <2>7, SameTwice
<1> QED
  BY <1>2, <1>3

\* What a send leaves: the pool as it was, or without the slot that was sent to.
SentOn(st, d, w) == Same(st, w.st) \/ (Good(w.st) /\ ~w.st.ev[d].live)

LEMMA SendHook ==
  ASSUME NEW st, Good(st), NEW s, Tunnel(st, s), NEW d, d = st.ev[s].pair, NEW b,
         NEW w \in tcp_send_hook(st, s, d, b)
  PROVE  SentOn(st, d, w)
<1> DEFINE first == st.ev[d].flag = "conn" /\ st.ev[s].recv = b.hi - b.base
           x == IF first THEN setup_conn(st, s) ELSE st
<1>1. \/ w.st = x \/ w \in Sends(x, s, d, b)
      \/ \E o \in handle_err(x, d) : w.st = o.st
  BY DEF tcp_send_hook, Sent
<1>2. s \in Slots /\ Tunnel(st, d) /\ s # d
  BY TunnelPair DEF Tunnel
<1>3. Same(st, x)
  <2> DEFINE e == Grouped(st.ev[s])
  <2>1. DOMAIN e = SlotFields /\ SameSlot(st.ev[s], e)
    BY <1>2 DEF Grouped, SameSlot, SlotFields, Good, Shape
  <2> HIDE DEF e
  <2>2. Same(st, Put(st, s, e))
    BY <1>2, <2>1, PutSame DEF Good
  <2>3. Same(st, setup_conn(st, s))
    BY <2>2 DEF setup_conn, e
  <2> QED
    BY <2>3, SameIsSame DEF Good
<1> HIDE DEF x
<1>4. Good(x) /\ Tunnel(x, d)
  BY <1>2, <1>3, KeepSame, TunnelAfter
<1>5. CASE w.st = x
  BY <1>3, <1>5 DEF SentOn
<1>6. CASE w \in Sends(x, s, d, b)
  BY <1>2, <1>3, <1>4, <1>6, SendsSame, SameTwice DEF SentOn, Good
<1>7. CASE \E o \in handle_err(x, d) : w.st = o.st
  <2>1. PICK o \in handle_err(x, d) : w.st = o.st
    BY <1>7
  <2>2. Retry(x, d, o)
    BY <1>4, <2>1, HandleErr
  <2> QED
    BY <1>3, <2>1, <2>2, SameTwice DEF Retry, GivesUp, SentOn
<1> QED
  BY <1>1, <1>5, <1>6, <1>7

LEMMA NewRoundSame ==
  ASSUME NEW st, Good(st), NEW s, Tunnel(st, s)
  PROVE  Same(st, NewRound(st, s))
<1> DEFINE e == st.ev[s]
           n == IF e.sent \/ e.round = 2 THEN e.round ELSE e.round + 1
           read == [e EXCEPT !.recv = e.peer, !.round = n]
           x == Put(st, s, read)
           p == e.pair
           h == [x.ev[p] EXCEPT !.sent = FALSE]
<1>1. NewRound(st, s) = IF e.sent THEN x ELSE Put(x, p, h)
  BY DEF NewRound, Put
<1>2. s \in Slots /\ p \in Slots
  BY TunnelPair DEF Tunnel
<1> HIDE DEF n, p
<1>3. DOMAIN read = SlotFields /\ SameSlot(e, read)
  BY <1>2 DEF SameSlot, SlotFields, Good, Shape
<1> HIDE DEF read
<1>4. Same(st, x)
  BY <1>2, <1>3, PutSame DEF Good
<1> HIDE DEF x
<1>5. DOMAIN h = SlotFields /\ SameSlot(x.ev[p], h) /\ Shape(x)
  BY <1>2, <1>4 DEF SameSlot, SlotFields, Same, Shape
<1> HIDE DEF h
<1>6. Same(x, Put(x, p, h))
  BY <1>2, <1>5, PutSame
<1> QED
  BY <1>1, <1>4, <1>6, SameTwice

\* What a read leaves: something was read and little else changed, or it was not.
Reads(st, o) == Good(o.st) /\ (o.ret > 0 => Same(st, o.st))

LEMMA RecvServerReads ==
  ASSUME NEW st, Good(st), NEW r, Tunnel(st, r), Server(st, r), NEW n,
         NEW o \in RecvServer(st, r, n)
  PROVE  Reads(st, o)
<1> DEFINE c == st.ev[r].pair
           Unsaved(x) == Put(x, c, [x.ev[c] EXCEPT !.sq = 0])
           Fed(x, z) == Put(z, c, [z.ev[c] EXCEPT
                                    !.fed = IF x.ev[c].recv = 0 THEN "first" ELSE "yes"])
           Judged(x, z) == Put(z, r, IF x.ev[c].buff # st.ev[c].buff
                                 THEN Damaged(x.ev[r], "again") ELSE x.ev[r])
           Kept(x) == Judged(x, Fed(x, Unsaved(x)))
           Answered == UNION {on_response(st, r, kind) : kind \in {"good", "redirect", "tls_err"}}
<1>1. o \in IF st.ev[c].sq = 0 THEN {Out(Kept(st), n)}
            ELSE {IF p.ret = 0 THEN p ELSE Out(Kept(p.st), n) : p \in Answered}
  BY DEF RecvServer, Put
<1>2. r \in Slots /\ c \in Slots /\ r # c
  BY TunnelPair DEF Server
<1> HIDE DEF c
<1>3. ASSUME NEW x, Shape(x) PROVE Same(x, Kept(x))
  <2>1. Same(x, Unsaved(x)) /\ Unsaved(x).ev[r] = x.ev[r]
    <3> DEFINE e == [x.ev[c] EXCEPT !.sq = 0]
    <3>1. DOMAIN e = SlotFields /\ SameSlot(x.ev[c], e)
      BY <1>2, <1>3 DEF Shape, SameSlot, SlotFields
    <3> HIDE DEF e
    <3>2. Same(x, Put(x, c, e)) /\ Put(x, c, e).ev[r] = x.ev[r]
      BY <1>2, <1>3, <3>1, PutSame, PutIs
    <3> QED
      BY <3>2 DEF e
  <2>2. ASSUME NEW z, Shape(z) PROVE Same(z, Fed(x, z)) /\ Fed(x, z).ev[r] = z.ev[r]
    <3> DEFINE v == IF x.ev[c].recv = 0 THEN "first" ELSE "yes"
               e == [z.ev[c] EXCEPT !.fed = v]
    <3> HIDE DEF v
    <3>1. DOMAIN e = SlotFields /\ SameSlot(z.ev[c], e)
      BY <1>2, <2>2 DEF Shape, SameSlot, SlotFields
    <3> HIDE DEF e
    <3>2. Same(z, Put(z, c, e)) /\ Put(z, c, e).ev[r] = z.ev[r]
      BY <1>2, <2>2, <3>1, PutSame, PutIs
    <3> QED
      BY <3>2 DEF e, v
  <2>3. ASSUME NEW z, Shape(z), z.ev[r] = x.ev[r] PROVE Same(z, Judged(x, z))
    <3> DEFINE e == IF x.ev[c].buff # st.ev[c].buff THEN Damaged(x.ev[r], "again") ELSE x.ev[r]
    <3>1. DOMAIN e = SlotFields /\ SameSlot(z.ev[r], e)
      BY <1>2, <1>3, <2>3 DEF Shape, SameSlot, SlotFields, Damaged
    <3> HIDE DEF e
    <3>2. Same(z, Put(z, r, e))
      BY <1>2, <2>3, <3>1, PutSame
    <3> QED
      BY <3>2 DEF e
  <2> HIDE DEF Unsaved, Fed, Judged
  <2>4. Same(x, Fed(x, Unsaved(x))) /\ Fed(x, Unsaved(x)).ev[r] = x.ev[r]
    BY <2>1, <2>2, SameTwice DEF Same
  <2> QED
    BY <2>3, <2>4, SameTwice DEF Same
<1> HIDE DEF Kept, Answered
<1>4. CASE o = Out(Kept(st), n)
  BY <1>3, <1>4, KeepSame DEF Out, Reads, Good
<1>5. CASE \E p \in Answered : o = IF p.ret = 0 THEN p ELSE Out(Kept(p.st), n)
  <2>1. PICK p \in Answered : o = IF p.ret = 0 THEN p ELSE Out(Kept(p.st), n)
    BY <1>5
  <2>2. Retry(st, r, p)
    BY <2>1, OnResponse DEF Answered
  <2>3. Good(p.st)
    BY <2>2, RetryGood
  <2>4. CASE p.ret = 0
    BY <2>1, <2>3, <2>4 DEF Reads
  <2>5. CASE p.ret # 0
    <3>1. Same(st, p.st) /\ o.st = Kept(p.st)
      BY <2>1, <2>2, <2>5 DEF Retry, GivesUp, Out
    <3>2. Same(st, o.st)
      BY <1>3, <2>3, <3>1, SameTwice DEF Good
    <3> QED
      BY <3>2, KeepSame DEF Reads
  <2> QED
    BY <2>4, <2>5
<1> QED
  BY <1>1, <1>4, <1>5

LEMMA RecvHook ==
  ASSUME NEW st, Good(st), NEW s, Tunnel(st, s), NEW o \in tcp_recv_hook(st, s)
  PROVE  Reads(st, o)
<1> DEFINE e == st.ev[s]
           n == e.peer - e.recv
           x == NewRound(st, s)
<1>1. \/ e.flag = "conn" /\ o \in RecvServer(x, s, n)
      \/ o \in RecvClient(x, s, n)
      \/ o \in on_fin(st, s) \/ o \in handle_err(st, s) \/ o = Out(st, 0)
  BY DEF tcp_recv_hook
<1>2. Same(st, x)
  BY NewRoundSame
<1>3. Good(x) /\ Tunnel(x, s)
  BY <1>2, KeepSame, TunnelAfter
<1> HIDE DEF x, n
<1>4. CASE e.flag = "conn" /\ o \in RecvServer(x, s, n)
  <2>1. Server(x, s)
    BY <1>2, <1>4, TunnelPair, ServerAfter
  <2>2. Reads(x, o)
    BY <1>3, <1>4, <2>1, RecvServerReads
  <2> QED
    BY <1>2, <2>2, SameTwice DEF Reads
<1>5. CASE o \in RecvClient(x, s, n)
  <2> DEFINE f == x.ev[s]
             save == auto_reconnect /\ (f.sq > 0 \/ f.recv = n)
             sum == IF f.sq + n >= SqSize THEN 0 ELSE f.sq + n
             g == [f EXCEPT !.sq = sum]
  <2>1. o.st = IF save THEN Put(x, s, g) ELSE x
    BY <1>5 DEF RecvClient, Out
  <2> HIDE DEF sum, save
  <2>2. DOMAIN g = SlotFields /\ SameSlot(f, g)
    BY <1>3 DEF Good, Shape, SameSlot, SlotFields, Tunnel
  <2> HIDE DEF g
  <2>3. Same(x, Put(x, s, g)) /\ Same(x, x)
    BY <1>3, <2>2, PutSame, SameIsSame DEF Good, Tunnel
  <2>4. Same(st, o.st)
    BY <1>2, <2>1, <2>3, SameTwice
  <2> QED
    BY <2>4, KeepSame DEF Reads
<1>6. CASE o \in on_fin(st, s) \/ o \in handle_err(st, s)
  <2>1. Retry(st, s, o)
    BY <1>6, OnFin, HandleErr
  <2> QED
    BY <2>1, RetryGood DEF Reads, Retry, GivesUp
<1>7. CASE o = Out(st, 0)
  BY <1>7 DEF Out, Reads
<1> QED
  BY <1>1, <1>4, <1>5, <1>6, <1>7
-----------------------------------------------------------------------------
(* The callbacks.                                                          *)

LEMMA PassGood ==
  ASSUME NEW st, Good(st), NEW v, Tunnel(st, v), NEW p, p = st.ev[v].pair,
         NEW o \in Pass(st, v, p)
  PROVE  Good(o.st)
<1> DEFINE After(a, b, w) ==
             IF w.ret < 0 THEN Fail(w.st)
             ELSE IF w.ret < a.ret \/ w.wait
             THEN {Out(mod_etype(mod_etype(Buffered(w.st, v, [b EXCEPT !.lo = @ + w.ret]), v, {}),
                                 p, IF w.wait THEN {} ELSE {"out"}), 0)}
             ELSE {Out(Buffered(w.st, v, NoBuf), 0)}
           Read(a) ==
             LET at == a.st.ev[v].recv
                 b == [base |-> at - a.ret, lo |-> at - a.ret, hi |-> at]
             IN  UNION {After(a, b, w) : w \in tcp_send_hook(a.st, v, p, b)}
           Rest(a) == {Out(IF a.ret = 0 THEN Buffered(a.st, v, NoBuf) ELSE a.st, a.ret)}
<1>1. o \in UNION {IF a.ret > 0 THEN Read(a) ELSE Rest(a) : a \in tcp_recv_hook(st, v)}
  BY DEF Pass
<1>2. v \in Slots /\ p \in Slots
  BY TunnelPair DEF Tunnel
<1> HIDE DEF Read, Rest
<1>3. PICK a \in tcp_recv_hook(st, v) : o \in IF a.ret > 0 THEN Read(a) ELSE Rest(a)
  BY <1>1
<1>4. Good(a.st) /\ (a.ret > 0 => Same(st, a.st))
  BY <1>3, RecvHook DEF Reads
<1>5. CASE ~(a.ret > 0)
  <2>1. o.st = a.st \/ o.st = Buffered(a.st, v, NoBuf)
    BY <1>3, <1>5 DEF Rest, Out
  <2> QED
    BY <1>2, <1>4, <2>1, BufferedSame, KeepSame DEF Good
<1>6. CASE a.ret > 0
  <2>1. \E b : \E w \in tcp_send_hook(a.st, v, p, b) : o \in After(a, b, w)
    <3> HIDE DEF After
    <3> QED
      BY <1>3, <1>6 DEF Read
  <2>2. PICK b : \E w \in tcp_send_hook(a.st, v, p, b) : o \in After(a, b, w)
    BY <2>1
  <2>3. PICK w \in tcp_send_hook(a.st, v, p, b) : o \in After(a, b, w)
    BY <2>2
  <2>4. Tunnel(a.st, v) /\ a.st.ev[v].pair = p
    BY <1>4, <1>6, TunnelAfter
  <2>5. SentOn(a.st, p, w)
    BY <1>4, <2>3, <2>4, SendHook
  <2>6. Good(w.st)
    BY <1>4, <2>5, KeepSame DEF SentOn
  <2>7. \A x : Good(Buffered(w.st, v, x))
    BY <1>2, <2>6, BufferedSame, KeepSame DEF Good
  <2>8. \/ o.st = w.st \/ o.st = Buffered(w.st, v, NoBuf)
        \/ \E x, t, u : o.st = mod_etype(mod_etype(Buffered(w.st, v, x), v, t), p, u)
    BY <2>3 DEF Fail, Out
  <2> QED
    BY <1>2, <2>6, <2>7, <2>8, ModBothGood
<1> QED
  BY <1>5, <1>6

LEMMA FlushGood ==
  ASSUME NEW st, Good(st), NEW v, Tunnel(st, v), NEW p, p = st.ev[v].pair,
         NEW o \in Flush(st, v, p)
  PROVE  Good(o.st)
<1> DEFINE b == st.ev[v].buff
           Full(w) == mod_etype(mod_etype(Buffered(w.st, v, NoBuf), v, {"in"}), p, {"in"})
           Left(w) == [w.st EXCEPT !.ev[v].buff.lo = @ + w.ret]
           After(w) ==
             IF w.ret < 0 THEN Fail(w.st)
             ELSE IF w.ret < b.hi - b.lo \/ w.wait THEN {Out(Left(w), 0)}
             ELSE IF Full(w).status # "run" THEN {Out(Full(w), 0)} ELSE Pass(Full(w), v, p)
<1>1. o \in UNION {After(w) : w \in tcp_send_hook(st, v, p, b)}
  BY DEF Flush
<1>2. v \in Slots /\ p \in Slots
  BY TunnelPair DEF Tunnel
<1> HIDE DEF After, b
<1>3. PICK w \in tcp_send_hook(st, v, p, b) : o \in After(w)
  BY <1>1
<1> USE DEF After
<1> HIDE DEF Full, Left
<1>4. SentOn(st, p, w)
  BY <1>3, SendHook
<1>5. Good(w.st)
  BY <1>4, KeepSame DEF SentOn
<1>6. CASE o.st = w.st
  BY <1>5, <1>6
<1>7. CASE o.st = Left(w)
  <2> DEFINE e == [w.st.ev[v] EXCEPT !.buff.lo = @ + w.ret]
  <2>1. Left(w) = Put(w.st, v, e)
    BY DEF Left, Put
  <2>2. DOMAIN e = SlotFields /\ SameSlot(w.st.ev[v], e)
    BY <1>2, <1>5 DEF Good, Shape, SameSlot, SlotFields
  <2> HIDE DEF e
  <2> QED
    BY <1>2, <1>5, <1>7, <2>1, <2>2, PutSame, KeepSame DEF Good
<1> DEFINE x == Buffered(w.st, v, NoBuf)  y == Full(w)
<1>8. Same(w.st, x) /\ Good(x)
  BY <1>2, <1>5, BufferedSame, KeepSame DEF Good
<1>9. Good(y) /\ (y.status = "assert" \/ (x.ev[p].live /\ Same(x, y)))
  <2> DEFINE in == {"in"}
  <2>1. y = mod_etype(mod_etype(x, v, in), p, in)
    BY DEF Full
  <2> HIDE DEF in, x, y
  <2> QED
    BY <1>2, <1>8, <2>1, ModBothGood
<1>10. CASE o.st = y
  BY <1>9, <1>10
<1>11. CASE y.status = "run" /\ o \in Pass(y, v, p)
  <2>1. x.ev[p].live /\ Same(x, y)
    BY <1>9, <1>11
  <2>2. w.st.ev[p].live
    BY <1>2, <1>8, <2>1 DEF Same, SameSlot
  <2>3. Same(st, w.st)
    BY <1>4, <2>2 DEF SentOn
  <2> HIDE DEF x, y
  <2>4. Same(st, y)
    BY <1>8, <2>1, <2>3, SameTwice
  <2>5. Tunnel(y, v) /\ y.ev[v].pair = p
    BY <2>4, TunnelAfter
  <2> QED
    BY <1>9, <1>11, <2>5, PassGood
<1> QED
  BY <1>3, <1>6, <1>7, <1>10, <1>11 DEF Fail, Out

LEMMA OnTunnel ==
  ASSUME NEW st, Good(st), NEW s, Tunnel(st, s), NEW et,
         "timeout" \in et => st.ev[s].flag = "conn", NEW o \in on_tunnel(st, s, et)
  PROVE  Good(o.st)
<1> DEFINE p == st.ev[s].pair
<1>1. Tunnel(st, p) /\ st.ev[p].pair = s /\ (st.ev[s].flag = "conn" => Server(st, s))
  BY TunnelPair
<1>2. \/ "timeout" \in et /\ o \in on_timeout(st, s)
      \/ o \in Flush(st, s, p) \/ o \in Flush(st, p, s)
      \/ o \in Pass(st, s, p) \/ o \in Pass(st, p, s)
  BY DEF on_tunnel
<1>3. CASE "timeout" \in et /\ o \in on_timeout(st, s)
  BY <1>1, <1>3, OnTrigger, RetryGood DEF on_timeout, on_torst
<1>4. CASE o \in Flush(st, s, p) \/ o \in Flush(st, p, s)
  BY <1>1, <1>4, FlushGood
<1>5. CASE o \in Pass(st, s, p) \/ o \in Pass(st, p, s)
  BY <1>1, <1>5, PassGood
<1> QED
  BY <1>2, <1>3, <1>4, <1>5

\* The server's slot and the client's become a tunnel.
LEMMA Joined ==
  ASSUME NEW st, Good(st), NEW r \in Slots, st.ev[r].cb = "on_connect"
  PROVE  LET c == st.ev[r].pair
             x == Put(st, r, [st.ev[r] EXCEPT !.cb = "on_tunnel"])
             y == Put(x, c, [x.ev[c] EXCEPT !.cb = "on_tunnel"])
         IN  Good(y) /\ Tunnel(y, r)
<1> DEFINE c == st.ev[r].pair
           er == [st.ev[r] EXCEPT !.cb = "on_tunnel"]
           x == Put(st, r, er)
           ec == [x.ev[c] EXCEPT !.cb = "on_tunnel"]
           y == Put(x, c, ec)
<1>1. Shape(st) /\ Owned(st) /\ \A t \in Slots : WiredAt(st, t)
  BY DEF Good, Wired
<1>2. /\ c \in Slots /\ c # r /\ st.ev[c].pair = r /\ st.ev[r].pair = c /\ st.ev[r].live
      /\ st.ev[c].cb = "on_ignore" /\ st.ev[r].flag = "conn" /\ st.ev[c].flag # "conn"
  <2>1. WiredAt(st, r)
    BY <1>1
  <2> QED
    BY <2>1, LinkPlace DEF WiredAt
<1>3. /\ st.ev[c].live /\ ~st.ev[c].timer /\ ~st.ev[r].timer
  <2>1. WiredAt(st, r) /\ WiredAt(st, c)
    BY <1>1, <1>2
  <2> QED
    BY <1>2, <2>1 DEF WiredAt
<1> HIDE DEF c
<1>4. /\ DOMAIN er = SlotFields /\ er.live = st.ev[r].live /\ er.flag = st.ev[r].flag
      /\ er.cb = "on_tunnel" /\ er.pair = c /\ er.timer = st.ev[r].timer
  <2>1. DOMAIN st.ev[r] = SlotFields
    BY <1>1 DEF Shape
  <2> QED
    BY <1>2, <2>1 DEF SlotFields
<1> HIDE DEF er
<1>5. /\ Shape(x) /\ x.touched = st.touched /\ x.batch = st.batch /\ x.ev[r] = er
      /\ \A t \in Slots \ {r} : x.ev[t] = st.ev[t]
  BY <1>1, <1>4, PutIs
<1> HIDE DEF x
<1>6. /\ DOMAIN ec = SlotFields /\ ec.live = st.ev[c].live /\ ec.flag = st.ev[c].flag
      /\ ec.cb = "on_tunnel" /\ ec.pair = r /\ ec.timer = st.ev[c].timer
  BY <1>2, <1>5 DEF Shape, SlotFields
<1> HIDE DEF ec
<1>7. /\ Shape(y) /\ y.touched = st.touched /\ y.batch = st.batch /\ y.ev[r] = er
      /\ y.ev[c] = ec /\ \A t \in Slots \ {r, c} : y.ev[t] = st.ev[t]
  BY <1>2, <1>5, <1>6, PutIs
<1> HIDE DEF y
<1>8. Owned(y)
  <2>1. y.ev[r].live = st.ev[r].live /\ y.ev[c].live = st.ev[c].live
    BY <1>4, <1>6, <1>7
  <2>2. \A t \in Slots : y.ev[t].live = st.ev[t].live
    BY <1>7, <2>1
  <2> QED
    BY <1>1, <1>7, <2>2 DEF Owned, Shape
<1>9. WiredAt(y, r) /\ WiredAt(y, c)
  <2>1. /\ y.ev[r].live /\ y.ev[r].cb = "on_tunnel" /\ y.ev[r].pair = c
        /\ y.ev[r].flag = "conn" /\ ~y.ev[r].timer
    BY <1>2, <1>3, <1>4, <1>7
  <2>2. /\ y.ev[c].live /\ y.ev[c].cb = "on_tunnel" /\ y.ev[c].pair = r
        /\ y.ev[c].flag # "conn" /\ ~y.ev[c].timer
    BY <1>2, <1>3, <1>6, <1>7
  <2> QED
    BY <1>2, <2>1, <2>2 DEF WiredAt, Tied
<1>10. ASSUME NEW t \in Slots \ {r, c} PROVE WiredAt(y, t)
  <2> DEFINE K == Slots \ {r, c}
  <2>1. ASSUME NEW u \in K PROVE st.ev[u].pair \notin {r, c}
    <3>1. SUFFICES ASSUME st.ev[u].pair \in {r, c} PROVE FALSE
      OBVIOUS
    <3>2. u = st.ev[st.ev[u].pair].pair \/ u = st.ev[st.ev[st.ev[u].pair].pair].pair
      BY <1>1, <1>2, <3>1, PairsBack
    <3> QED
      BY <1>2, <3>1, <3>2
  <2>2. \A u \in K : /\ SameSlot(st.ev[u], y.ev[u])
                     /\ st.ev[u].pair \in Slots => st.ev[u].pair \in K
    BY <1>7, <2>1 DEF SameSlot
  <2>3. t \in K /\ K \in SUBSET Slots /\ WiredAt(st, t)
    BY <1>1
  <2> HIDE DEF K
  <2> QED
    BY <2>2, <2>3, WiredStays
<1> QED
  BY <1>4, <1>7, <1>8, <1>9, <1>10 DEF Good, Wired, Tunnel, y, ec, x, er, c

LEMMA OnConnect ==
  ASSUME NEW st, Good(st), NEW r \in Slots, st.ev[r].cb = "on_connect", NEW et,
         "timeout" \notin et, NEW o \in on_connect(st, r, et)
  PROVE  Good(o.st)
<1> DEFINE c == st.ev[r].pair
           x1 == Put(st, r, [st.ev[r] EXCEPT !.want = {"in"}])
           x2 == Put(x1, c, [x1.ev[c] EXCEPT !.want = {"in"}])
           x3 == Put(x2, r, [x2.ev[r] EXCEPT !.cb = "on_tunnel"])
           up == Put(x3, c, [x3.ev[c] EXCEPT !.cb = "on_tunnel"])
<1>1. \/ o \in Fail(st) \/ o \in on_connerr(st, r)
      \/ o \in on_tunnel(up, r, et) \/ o.st = up
  <2> DEFINE u == [st EXCEPT !.ev[r].want = {"in"}, !.ev[c].want = {"in"},
                             !.ev[r].cb = "on_tunnel", !.ev[c].cb = "on_tunnel"]
  <2>1. o \in IF "err" \in et
              THEN Fail(st) \union on_connerr(st, r)
              ELSE IF st.ev[c].buff # NoBuf THEN on_tunnel(u, r, et)
              ELSE {Out(u, 0)} \union Fail(u)
    BY DEF on_connect
  <2>2. u = up
    BY DEF Put
  <2> HIDE DEF u, up
  <2>3. \/ o \in Fail(st) \/ o \in on_connerr(st, r)
        \/ o \in on_tunnel(u, r, et) \/ o.st = u
    BY <2>1 DEF Fail, Out
  <2> QED
    BY <2>2, <2>3
<1>2. WiredAt(st, r)
  BY DEF Good, Wired
<1>3. Server(st, r) /\ c \in Slots
  BY <1>2, LinkPlace DEF Server, WiredAt
<1>4. Same(st, x1)
  <2> DEFINE w == {"in"}
             e == [st.ev[r] EXCEPT !.want = w]
  <2> HIDE DEF w
  <2>1. DOMAIN e = SlotFields /\ SameSlot(st.ev[r], e)
    BY DEF Good, Shape, SameSlot, SlotFields
  <2> HIDE DEF e
  <2>2. Same(st, Put(st, r, e))
    BY <2>1, PutSame DEF Good
  <2> QED
    BY <2>2 DEF e, w
<1> HIDE DEF c, x1
<1>5. Same(x1, x2)
  <2> DEFINE w == {"in"}
             e == [x1.ev[c] EXCEPT !.want = w]
  <2> HIDE DEF w
  <2>1. DOMAIN e = SlotFields /\ SameSlot(x1.ev[c], e) /\ Shape(x1)
    BY <1>3, <1>4 DEF Same, Shape, SameSlot, SlotFields
  <2> HIDE DEF e
  <2>2. Same(x1, Put(x1, c, e))
    BY <1>3, <2>1, PutSame
  <2> QED
    BY <2>2 DEF e, w
<1> HIDE DEF x2
<1>6. Good(x2) /\ x2.ev[r].cb = "on_connect" /\ x2.ev[r].pair = c
  <2>1. Same(st, x2)
    BY <1>4, <1>5, SameTwice
  <2> QED
    BY <2>1, KeepSame DEF Same, SameSlot, c
<1>7. Good(up) /\ Tunnel(up, r)
  BY <1>6, Joined
<1> HIDE DEF up
<1>8. CASE o \in Fail(st)
  BY <1>8 DEF Fail, Out
<1>9. CASE o \in on_connerr(st, r)
  BY <1>3, <1>9, OnTrigger, RetryGood DEF on_connerr
<1>10. CASE o \in on_tunnel(up, r, et)
  BY <1>7, <1>10, OnTunnel
<1>11. CASE o.st = up
  BY <1>7, <1>11
<1> QED
  BY <1>1, <1>8, <1>9, <1>10, <1>11

\* A slot that was free is taken: the others are as they were.
LEMMA TakenKeeps ==
  ASSUME NEW st, Good(st), NEW s \in Slots, ~st.ev[s].live, NEW y, NEW cb, Taken(st, y, s, cb)
  PROVE  /\ Shape(y) /\ Owned(y)
         /\ \A x \in Slots \ {s} : WiredAt(y, x) /\ y.ev[x].pair # s
<1>1. \A x \in Slots : WiredAt(st, x)
  BY DEF Good, Wired
<1>2. st.ev[s].cb = "on_request"
  BY <1>1, PairPlace
<1>3. Shape(y) /\ Owned(y)
  BY DEF Taken, Good, Owned, Shape
<1>4. ASSUME NEW x \in Slots \ {s} PROVE WiredAt(y, x) /\ y.ev[x].pair # s
  <2> DEFINE K == Slots \ {s}
  <2>1. \A t \in K : /\ SameSlot(st.ev[t], y.ev[t])
                     /\ st.ev[t].pair # s
                     /\ st.ev[t].pair \in Slots => st.ev[t].pair \in K
    BY <1>1, <1>2, NotPaired DEF Taken, SameSlot
  <2>2. x \in K /\ K \in SUBSET Slots /\ WiredAt(st, x)
    BY <1>1
  <2>3. y.ev[x].pair # s
    BY <2>1, <2>2 DEF SameSlot
  <2> HIDE DEF K
  <2> QED
    BY <2>1, <2>2, <2>3, WiredStays
<1> QED
  BY <1>3, <1>4

\* Three slots in a ring, two of them new.
RingOf(a, s, p, c) ==
  [a EXCEPT !.ev[s].cb = "on_ignore", !.ev[s].want = {"rdhup"},
            !.ev[s].pair = c, !.ev[c].pair = p, !.ev[p].pair = s, !.ev[c].flag = "conn"]

LEMMA RingGood ==
  ASSUME NEW st, Good(st), NEW s \in Slots, st.ev[s].live, st.ev[s].cb = "on_request",
         NEW p \in Slots, ~st.ev[p].live, NEW h, Taken(st, h, p, "on_udp_tunnel"),
         NEW c \in Slots, ~h.ev[c].live, NEW a, Taken(h, a, c, "on_udp_tunnel")
  PROVE  Good(RingOf(a, s, p, c))
<1> DEFINE y1 == Put(a, s, [a.ev[s] EXCEPT !.cb = "on_ignore"])
           y2 == Put(y1, s, [y1.ev[s] EXCEPT !.want = {"rdhup"}])
           y3 == Put(y2, s, [y2.ev[s] EXCEPT !.pair = c])
           y4 == Put(y3, c, [y3.ev[c] EXCEPT !.pair = p])
           y5 == Put(y4, p, [y4.ev[p] EXCEPT !.pair = s])
           y6 == Put(y5, c, [y5.ev[c] EXCEPT !.flag = "conn"])
<1>1. RingOf(a, s, p, c) = y6
  BY DEF Put, RingOf
<1>2. \A x \in Slots : WiredAt(st, x)
  BY DEF Good, Wired
<1>3. p # s /\ c # s /\ c # p
  BY DEF Taken
<1>4. st.ev[s].flag # "conn" /\ ~st.ev[s].timer
  BY <1>2 DEF WiredAt
<1>5. st.ev[p].cb = "on_request" /\ st.ev[c].cb = "on_request"
  BY <1>2, <1>3, PairPlace DEF Taken
<1>6. /\ Shape(a) /\ a.batch = st.batch /\ a.touched = st.touched \union {p} \union {c}
      /\ a.ev[s] = st.ev[s] /\ \A x \in Slots \ {s, p, c} : a.ev[x] = st.ev[x]
      /\ a.ev[p].live = TRUE /\ a.ev[p].cb = "on_udp_tunnel" /\ a.ev[p].timer = FALSE
      /\ a.ev[c].live = TRUE /\ a.ev[c].cb = "on_udp_tunnel" /\ a.ev[c].timer = FALSE
  BY <1>3 DEF Taken
<1> HIDE DEF y6, y5, y4, y3, y2, y1
<1>7. /\ Shape(y1) /\ y1.batch = a.batch /\ y1.touched = a.touched
      /\ y1.ev[s].cb = "on_ignore" /\ y1.ev[s].live = a.ev[s].live
      /\ y1.ev[s].flag = a.ev[s].flag /\ y1.ev[s].timer = a.ev[s].timer
      /\ \A x \in Slots \ {s} : y1.ev[x] = a.ev[x]
  <2> DEFINE e == [a.ev[s] EXCEPT !.cb = "on_ignore"]
  <2>1. y1 = Put(a, s, e)
    BY DEF y1
  <2>2. /\ DOMAIN e = SlotFields /\ e.cb = "on_ignore" /\ e.live = a.ev[s].live
        /\ e.flag = a.ev[s].flag /\ e.timer = a.ev[s].timer
    BY <1>6 DEF Shape, SlotFields
  <2> HIDE DEF e
  <2> QED
    BY <1>6, <2>1, <2>2, PutIs
<1>8. /\ Shape(y2) /\ y2.batch = a.batch /\ y2.touched = a.touched
      /\ y2.ev[s].cb = "on_ignore" /\ y2.ev[s].live = a.ev[s].live
      /\ y2.ev[s].flag = a.ev[s].flag /\ y2.ev[s].timer = a.ev[s].timer
      /\ \A x \in Slots \ {s} : y2.ev[x] = a.ev[x]
  <2> DEFINE w == {"rdhup"}
             e == [y1.ev[s] EXCEPT !.want = w]
  <2>1. y2 = Put(y1, s, e)
    BY DEF y2
  <2> HIDE DEF w
  <2>2. /\ DOMAIN e = SlotFields /\ e.cb = y1.ev[s].cb /\ e.live = y1.ev[s].live
        /\ e.flag = y1.ev[s].flag /\ e.timer = y1.ev[s].timer
    BY <1>7 DEF Shape, SlotFields
  <2> HIDE DEF e
  <2> QED
    BY <1>7, <2>1, <2>2, PutIs
<1>9. /\ Shape(y3) /\ y3.batch = a.batch /\ y3.touched = a.touched
      /\ y3.ev[s].cb = "on_ignore" /\ y3.ev[s].live = a.ev[s].live /\ y3.ev[s].pair = c
      /\ y3.ev[s].flag = a.ev[s].flag /\ y3.ev[s].timer = a.ev[s].timer
      /\ \A x \in Slots \ {s} : y3.ev[x] = a.ev[x]
  <2> DEFINE e == [y2.ev[s] EXCEPT !.pair = c]
  <2>1. y3 = Put(y2, s, e)
    BY DEF y3
  <2>2. /\ DOMAIN e = SlotFields /\ e.cb = y2.ev[s].cb /\ e.live = y2.ev[s].live
        /\ e.flag = y2.ev[s].flag /\ e.timer = y2.ev[s].timer /\ e.pair = c
    BY <1>8 DEF Shape, SlotFields
  <2> HIDE DEF e
  <2> QED
    BY <1>8, <2>1, <2>2, PutIs
<1>10. /\ Shape(y4) /\ y4.batch = a.batch /\ y4.touched = a.touched
       /\ y4.ev[c].cb = "on_udp_tunnel" /\ y4.ev[c].live = TRUE /\ y4.ev[c].pair = p
       /\ y4.ev[c].timer = FALSE
       /\ \A x \in Slots \ {c} : y4.ev[x] = y3.ev[x]
  <2> DEFINE e == [y3.ev[c] EXCEPT !.pair = p]
  <2>1. y4 = Put(y3, c, e)
    BY DEF y4
  <2>2. /\ DOMAIN e = SlotFields /\ e.cb = y3.ev[c].cb /\ e.live = y3.ev[c].live
        /\ e.timer = y3.ev[c].timer /\ e.pair = p
    BY <1>9 DEF Shape, SlotFields
  <2> HIDE DEF e
  <2>3. y3.ev[c] = a.ev[c]
    BY <1>3, <1>9
  <2> QED
    BY <1>6, <1>9, <2>1, <2>2, <2>3, PutIs
<1>11. /\ Shape(y5) /\ y5.batch = a.batch /\ y5.touched = a.touched
       /\ y5.ev[p].cb = "on_udp_tunnel" /\ y5.ev[p].live = TRUE /\ y5.ev[p].pair = s
       /\ y5.ev[p].timer = FALSE
       /\ \A x \in Slots \ {p} : y5.ev[x] = y4.ev[x]
  <2> DEFINE e == [y4.ev[p] EXCEPT !.pair = s]
  <2>1. y5 = Put(y4, p, e)
    BY DEF y5
  <2>2. /\ DOMAIN e = SlotFields /\ e.cb = y4.ev[p].cb /\ e.live = y4.ev[p].live
        /\ e.timer = y4.ev[p].timer /\ e.pair = s
    BY <1>10 DEF Shape, SlotFields
  <2> HIDE DEF e
  <2>3. y4.ev[p] = a.ev[p]
    BY <1>3, <1>9, <1>10
  <2> QED
    BY <1>6, <1>10, <2>1, <2>2, <2>3, PutIs
<1>12. /\ Shape(y6) /\ y6.batch = a.batch /\ y6.touched = a.touched
       /\ y6.ev[c].cb = "on_udp_tunnel" /\ y6.ev[c].live = TRUE /\ y6.ev[c].pair = p
       /\ y6.ev[c].timer = FALSE
       /\ \A x \in Slots \ {c} : y6.ev[x] = y5.ev[x]
  <2> DEFINE e == [y5.ev[c] EXCEPT !.flag = "conn"]
  <2>1. y6 = Put(y5, c, e)
    BY DEF y6
  <2>2. /\ DOMAIN e = SlotFields /\ e.cb = y5.ev[c].cb /\ e.live = y5.ev[c].live
        /\ e.timer = y5.ev[c].timer /\ e.pair = y5.ev[c].pair
    BY <1>11 DEF Shape, SlotFields
  <2> HIDE DEF e
  <2>3. y5.ev[c] = y4.ev[c]
    BY <1>3, <1>11
  <2> QED
    BY <1>10, <1>11, <2>1, <2>2, <2>3, PutIs
<1>13. /\ y6.ev[s].live = st.ev[s].live /\ y6.ev[s].cb = "on_ignore" /\ y6.ev[s].pair = c
       /\ y6.ev[s].timer = st.ev[s].timer
       /\ y6.ev[p].live = TRUE /\ y6.ev[p].cb = "on_udp_tunnel" /\ y6.ev[p].pair = s
       /\ y6.ev[p].timer = FALSE
       /\ \A x \in Slots \ {s, p, c} : y6.ev[x] = st.ev[x]
  <2>1. y6.ev[s] = y3.ev[s]
    BY <1>3, <1>10, <1>11, <1>12
  <2>2. y6.ev[p] = y5.ev[p]
    BY <1>3, <1>12
  <2>3. ASSUME NEW x \in Slots \ {s, p, c} PROVE y6.ev[x] = st.ev[x]
    BY <1>6, <1>9, <1>10, <1>11, <1>12
  <2>4. /\ y6.ev[s].live = st.ev[s].live /\ y6.ev[s].cb = "on_ignore" /\ y6.ev[s].pair = c
        /\ y6.ev[s].timer = st.ev[s].timer
    BY <1>6, <1>9, <2>1
  <2>5. /\ y6.ev[p].live = TRUE /\ y6.ev[p].cb = "on_udp_tunnel" /\ y6.ev[p].pair = s
        /\ y6.ev[p].timer = FALSE
    BY <1>11, <2>2
  <2> QED
    BY <2>3, <2>4, <2>5
<1>14. Owned(y6)
  <2>1. y6.batch = st.batch /\ y6.touched = st.touched \union {p} \union {c}
    BY <1>6, <1>12
  <2>2. \A x \in Slots \ {p, c} : y6.ev[x].live = st.ev[x].live
    BY <1>13
  <2> QED
    BY <2>1, <2>2 DEF Owned, Good, Shape
<1>15. WiredAt(y6, s) /\ WiredAt(y6, p) /\ WiredAt(y6, c)
  BY <1>3, <1>4, <1>12, <1>13 DEF WiredAt, Ringed
<1>16. ASSUME NEW x \in Slots \ {s, p, c} PROVE WiredAt(y6, x)
  <2> DEFINE K == Slots \ {s, p, c}
  <2>1. \A t \in K : /\ SameSlot(st.ev[t], y6.ev[t])
                     /\ st.ev[t].pair \in Slots => st.ev[t].pair \in K
    BY <1>2, <1>5, <1>13, NotPaired DEF SameSlot
  <2>2. x \in K /\ K \in SUBSET Slots /\ WiredAt(st, x)
    BY <1>2
  <2> HIDE DEF K
  <2> QED
    BY <2>1, <2>2, WiredStays
<1>17. Good(y6)
  BY <1>12, <1>14, <1>15, <1>16 DEF Good, Wired
<1> QED
  BY <1>1, <1>17

LEMMA OnRequest ==
  ASSUME NEW st, Good(st), NEW s \in Slots, st.ev[s].live, st.ev[s].cb = "on_request",
         NEW o \in on_request(st, s)
  PROVE  Good(o.st)
<1>1. \/ o = Out([st EXCEPT !.ev[s].flag = "s5"], 0)
      \/ o \in Fail(st) \/ o \in connect_hook(st, s) \/ o \in udp_associate(st, s)
  BY DEF on_request
<1>2. CASE o = Out([st EXCEPT !.ev[s].flag = "s5"], 0)
  <2> DEFINE e == [st.ev[s] EXCEPT !.flag = "s5"]
             y == Put(st, s, e)
  <2>1. o.st = y
    BY <1>2 DEF Out, Put
  <2>2. /\ DOMAIN e = SlotFields /\ e.live = st.ev[s].live /\ e.cb = st.ev[s].cb
        /\ e.pair = st.ev[s].pair /\ e.timer = st.ev[s].timer /\ e.flag = "s5"
    BY DEF Good, Shape, SlotFields
  <2> HIDE DEF e
  <2>3. /\ Shape(y) /\ y.batch = st.batch /\ y.touched = st.touched /\ y.ev[s] = e
        /\ \A x \in Slots \ {s} : y.ev[x] = st.ev[x]
    BY <2>2, PutIs DEF Good
  <2> HIDE DEF y
  <2>4. Owned(y)
    <3>1. \A x \in Slots : y.ev[x].live = st.ev[x].live
      BY <2>2, <2>3
    <3> QED
      BY <2>3, <3>1 DEF Owned, Good, Shape
  <2>5. \A x \in Slots : WiredAt(st, x)
    BY DEF Good, Wired
  <2>6. WiredAt(y, s)
    BY <2>2, <2>3, <2>5 DEF WiredAt
  <2>7. ASSUME NEW x \in Slots \ {s} PROVE WiredAt(y, x)
    <3> DEFINE K == Slots \ {s}
    <3>1. \A t \in K : /\ SameSlot(st.ev[t], y.ev[t])
                       /\ st.ev[t].pair \in Slots => st.ev[t].pair \in K
      BY <2>3, <2>5, NotPaired DEF SameSlot
    <3>2. x \in K /\ K \in SUBSET Slots /\ WiredAt(st, x)
      BY <2>5
    <3> HIDE DEF K
    <3> QED
      BY <3>1, <3>2, WiredStays
  <2> QED
    BY <2>1, <2>3, <2>4, <2>6, <2>7 DEF Good, Wired
<1>3. CASE o \in Fail(st)
  BY <1>3 DEF Fail, Out
<1>4. CASE o \in connect_hook(st, s)
  BY <1>4, ConnectHook, KeepSame, FirstConnection
<1>5. CASE o \in udp_associate(st, s)
  <2> DEFINE Half(p) == add_event(st, p, "on_udp_tunnel", {"in"})
             Two(p, c) == add_event(Half(p), c, "on_udp_tunnel", {"in"})
             Ring(p, c) == [Two(p, c) EXCEPT
                              !.ev[s].cb = "on_ignore", !.ev[s].want = {"rdhup"},
                              !.ev[s].pair = c, !.ev[c].pair = p, !.ev[p].pair = s,
                              !.ev[c].flag = "conn"]
             More(p) == UNION {{Out(Ring(p, c), 0), Out(Ring(p, c), -1)}
                                 : c \in OpenSlots(Half(p))}
             Some(p) == {Out(del_event(Half(p), p), -1)} \union More(p)
  <2>1. o \in Fail(st) \union UNION {Some(p) : p \in OpenSlots(st)}
    BY <1>5 DEF udp_associate
  <2>2. ASSUME NEW p \in Slots PROVE Taken(st, Half(p), p, "on_udp_tunnel")
    BY AddEvent DEF Good
  <2>3. ASSUME NEW p \in Slots, NEW c \in Slots
        PROVE  Taken(Half(p), Two(p, c), c, "on_udp_tunnel")
    <3>1. Shape(Half(p))
      BY <2>2 DEF Taken
    <3> QED
      BY <3>1, AddEvent
  <2> HIDE DEF Half, Two
  <2>4. ASSUME NEW p \in OpenSlots(st), o = Out(del_event(Half(p), p), -1) PROVE Good(o.st)
    <3>1. p \in Slots /\ ~st.ev[p].live /\ Taken(st, Half(p), p, "on_udp_tunnel")
      BY <2>2 DEF OpenSlots
    <3>2. /\ Shape(Half(p)) /\ Owned(Half(p))
          /\ \A x \in Slots \ {p} : WiredAt(Half(p), x) /\ Half(p).ev[x].pair # p
      BY <3>1, TakenKeeps
    <3>3. Half(p).ev[p].live /\ Half(p).ev[p].pair = NoSlot
      BY <3>1 DEF Taken
    <3>4. Reached(Half(p), p) = {p}
      BY <3>1, <3>3, PoolAssumption DEF Reached
    <3> QED
      BY <2>4, <3>1, <3>2, <3>3, <3>4, DelCut DEF Out
  <2>5. ASSUME NEW p \in OpenSlots(st), NEW c \in OpenSlots(Half(p)), o.st = Ring(p, c)
        PROVE  Good(o.st)
    <3>1. p \in Slots /\ ~st.ev[p].live /\ c \in Slots /\ ~Half(p).ev[c].live
      BY DEF OpenSlots
    <3> DEFINE h == Half(p)  a == Two(p, c)
    <3>2. Taken(st, h, p, "on_udp_tunnel") /\ Taken(h, a, c, "on_udp_tunnel") /\ ~h.ev[c].live
      BY <2>2, <2>3, <3>1
    <3>3. Ring(p, c) = RingOf(a, s, p, c)
      BY DEF RingOf
    <3> HIDE DEF h, a, Ring
    <3>4. Good(Ring(p, c))
      BY <3>1, <3>2, <3>3, RingGood
    <3> QED
      BY <2>5, <3>4
  <2> HIDE DEF Ring
  <2>6. \/ o \in Fail(st)
        \/ \E p \in OpenSlots(st) : \/ o = Out(del_event(Half(p), p), -1)
                                    \/ \E c \in OpenSlots(Half(p)) : o.st = Ring(p, c)
    <3>1. ASSUME NEW p, o \in More(p)
          PROVE  \E c \in OpenSlots(Half(p)) : o.st = Ring(p, c)
      BY <3>1 DEF Out
    <3> HIDE DEF More
    <3>2. ASSUME NEW p, o \in Some(p)
          PROVE  \/ o = Out(del_event(Half(p), p), -1)
                 \/ \E c \in OpenSlots(Half(p)) : o.st = Ring(p, c)
      BY <3>1, <3>2
    <3> HIDE DEF Some
    <3>3. o \in Fail(st) \/ \E p \in OpenSlots(st) : o \in Some(p)
      BY <2>1
    <3> QED
      BY <3>2, <3>3
  <2> QED
    BY <1>3, <2>4, <2>5, <2>6
<1> QED
  BY <1>1, <1>2, <1>3, <1>4, <1>5
-----------------------------------------------------------------------------
(* The loop.                                                               *)

\* The pool of a callback's outcome is the pool of the next state.
LEMMA BecomesGood ==
  ASSUME NEW st, Good(st), Becomes(st)
  PROVE  IInv'
<1> DEFINE x == St'
<1>1. /\ DOMAIN x = {"ev", "touched", "batch", "cache", "status"}
      /\ x.ev = st.ev /\ x.batch = st.batch
      /\ x.touched = {s \in st.touched : \E e \in st.batch : e.slot = s}
  BY DEF Becomes, St
<1> HIDE DEF x
<1>2. Shape(x)
  BY <1>1 DEF Good, Shape
<1>3. Owned(x)
  BY <1>1 DEF Good, Owned
<1>4. Wired(x)
  <2>1. \A s \in Slots : SameSlot(st.ev[s], x.ev[s]) /\ WiredAt(st, s)
    BY <1>1 DEF SameSlot, Good, Wired
  <2> QED
    BY <2>1, WiredStays DEF Wired
<1> QED
  BY <1>2, <1>3, <1>4 DEF Good, IInv, x

\* loop_event: whatever the callback leaves, and its slot deleted when it failed.
LEMMA LoopGood ==
  ASSUME NEW s \in Slots, NEW outcomes, \A o \in outcomes : Good(o.st), Loop(s, outcomes)
  PROVE  IInv'
<1>1. PICK o \in outcomes :
        Becomes(IF o.ret < 0 /\ o.st.status = "run" THEN del_event(o.st, s) ELSE o.st)
  BY DEF Loop
<1>2. Good(o.st) /\ Good(del_event(o.st, s))
  BY <1>1, DelGood
<1> QED
  BY <1>1, <1>2, BecomesGood

\* An event that is given out reaches a slot in use.
LEMMA GivenGood ==
  ASSUME IInv, NEW e \in batch
  PROVE  /\ Good(Given(e)) /\ Given(e).ev = ev /\ e.slot \in Slots /\ "timeout" \notin e.et
         /\ e.slot \notin touched => ev[e.slot].live
<1> DEFINE x == Given(e)
<1>1. /\ DOMAIN x = {"ev", "touched", "batch", "cache", "status"}
      /\ x.ev = ev /\ x.batch = batch \ {e} /\ x.touched = touched
  BY DEF Given, St
<1>2. St.ev = ev /\ St.batch = batch /\ St.touched = touched
  BY DEF St
<1> HIDE DEF x
<1>3. Shape(x)
  BY <1>1, <1>2 DEF IInv, Good, Shape
<1>4. Owned(x) /\ e.slot \in Slots /\ "timeout" \notin e.et
      /\ (e.slot \notin touched => ev[e.slot].live)
  BY <1>1, <1>2 DEF IInv, Good, Owned, Shape
<1>5. Wired(x)
  <2>1. \A s \in Slots : SameSlot(St.ev[s], x.ev[s]) /\ WiredAt(St, s)
    BY <1>1, <1>2 DEF SameSlot, IInv, Good, Wired
  <2> QED
    BY <2>1, WiredStays DEF Wired
<1> QED
  BY <1>1, <1>3, <1>4, <1>5 DEF Good, x

\* The peers change nothing that Good is about.
LEMMA PeerGood ==
  ASSUME IInv, NEW s \in Slots, NEW e, DOMAIN e = SlotFields, SameSlot(ev[s], e), Peer(s, e)
  PROVE  IInv'
<1> DEFINE x == St'
<1>1. /\ DOMAIN x = {"ev", "touched", "batch", "cache", "status"}
      /\ x.ev = [ev EXCEPT ![s] = e] /\ x.batch = batch /\ x.touched = touched
  BY DEF Peer, St
<1>2. St.ev = ev /\ St.batch = batch /\ St.touched = touched
  BY DEF St
<1>3. Shape(St) /\ DOMAIN ev = Slots
  BY <1>2 DEF IInv, Good, Shape
<1> HIDE DEF x
<1>4. x.ev[s] = e /\ DOMAIN x.ev = Slots /\ \A t \in Slots \ {s} : x.ev[t] = ev[t]
  BY <1>1, <1>3
<1>5. Same(St, x)
  BY <1>1, <1>2, <1>3, <1>4 DEF Same, SameSlot, Shape
<1> QED
  BY <1>5, KeepSame DEF IInv, x

LEMMA InitGood == Init => IInv
<1> SUFFICES ASSUME Init PROVE IInv
  OBVIOUS
<1>1. /\ DOMAIN St = {"ev", "touched", "batch", "cache", "status"}
      /\ St.ev = [s \in Slots |-> Blank] /\ St.batch = {}
  BY DEF Init, St
<1>2. Shape(St) /\ Owned(St)
  BY <1>1, BlankFields DEF Shape, Owned
<1>3. ASSUME NEW s \in Slots PROVE WiredAt(St, s)
  <2>1. St.ev[s] = Blank
    BY <1>1
  <2> QED
    BY <2>1, BlankFields DEF WiredAt
<1> QED
  BY <1>2, <1>3 DEF IInv, Good, Wired

LEMMA NextGood == IInv /\ [Next]_vars => IInv'
<1> SUFFICES ASSUME IInv, [Next]_vars PROVE IInv'
  OBVIOUS
<1>1. Good(St) /\ Shape(St) /\ St.ev = ev /\ St.batch = batch /\ St.touched = touched
  BY DEF IInv, Good, St
<1>2. DOMAIN ev = Slots /\ \A s \in Slots : DOMAIN ev[s] = SlotFields
  BY <1>1 DEF Shape
<1>3. \A s \in Slots : WiredAt(St, s)
  BY <1>1 DEF Good, Wired
<1>4. CASE epoll_wait
  <2> DEFINE ready == {[slot |-> s, et |-> Events(ev[s]), open |-> TRUE] : s \in Slots \ Free}
             x == St'
  <2>1. /\ DOMAIN x = {"ev", "touched", "batch", "cache", "status"}
        /\ x.ev = ev /\ x.batch \subseteq ready
    BY <1>4 DEF epoll_wait, St
  <2>2. ASSUME NEW e \in ready
        PROVE  /\ DOMAIN e = {"slot", "et", "open"} /\ e.slot \in Slots
               /\ "timeout" \notin e.et /\ e.open /\ ev[e.slot].live
    <3>1. PICK s \in Slots \ Free : e = [slot |-> s, et |-> Events(ev[s]), open |-> TRUE]
      OBVIOUS
    <3>2. "timeout" \notin Events(ev[s])
      BY DEF Events
    <3> HIDE DEF ready
    <3> QED
      BY <3>1, <3>2 DEF Free
  <2> HIDE DEF x, ready
  <2>3. Shape(x)
    BY <1>2, <2>1, <2>2 DEF Shape
  <2>4. Owned(x)
    BY <2>1, <2>2 DEF Owned
  <2>5. Wired(x)
    <3>1. \A s \in Slots : SameSlot(St.ev[s], x.ev[s])
      BY <1>1, <2>1 DEF SameSlot
    <3> QED
      BY <1>3, <3>1, WiredStays DEF Wired
  <2> QED
    BY <2>3, <2>4, <2>5 DEF IInv, Good, x
<1>5. CASE call_request
  <2>1. PICK e \in batch : Gives(e, "on_request") /\ Loop(e.slot, on_request(Given(e), e.slot))
    BY <1>5 DEF call_request
  <2>2. Good(Given(e)) /\ Given(e).ev = ev /\ e.slot \in Slots /\ ev[e.slot].live
        /\ ev[e.slot].cb = "on_request"
    BY <2>1, GivenGood DEF Gives
  <2>3. \A o \in on_request(Given(e), e.slot) : Good(o.st)
    BY <2>2, OnRequest
  <2> QED
    BY <2>1, <2>2, <2>3, LoopGood
<1>6. CASE call_connect
  <2>1. PICK e \in batch : Gives(e, "on_connect")
                           /\ Loop(e.slot, on_connect(Given(e), e.slot, e.et))
    BY <1>6 DEF call_connect
  <2>2. Good(Given(e)) /\ Given(e).ev = ev /\ e.slot \in Slots /\ "timeout" \notin e.et
        /\ ev[e.slot].cb = "on_connect"
    BY <2>1, GivenGood DEF Gives
  <2>3. \A o \in on_connect(Given(e), e.slot, e.et) : Good(o.st)
    BY <2>2, OnConnect
  <2> QED
    BY <2>1, <2>2, <2>3, LoopGood
<1>7. CASE call_tunnel
  <2>1. PICK e \in batch : Gives(e, "on_tunnel")
                           /\ Loop(e.slot, on_tunnel(Given(e), e.slot, e.et))
    BY <1>7 DEF call_tunnel
  <2>2. Good(Given(e)) /\ Given(e).ev = ev /\ e.slot \in Slots /\ "timeout" \notin e.et
        /\ ev[e.slot].cb = "on_tunnel"
    BY <2>1, GivenGood DEF Gives
  <2>3. \A o \in on_tunnel(Given(e), e.slot, e.et) : Good(o.st)
    BY <2>2, OnTunnel DEF Tunnel
  <2> QED
    BY <2>1, <2>2, <2>3, LoopGood
<1>8. CASE call_ignore
  <2>1. PICK e \in batch : Gives(e, "on_ignore") /\ Loop(e.slot, on_ignore(Given(e), e.et))
    BY <1>8 DEF call_ignore
  <2>2. Good(Given(e)) /\ e.slot \in Slots
    BY <2>1, GivenGood
  <2>3. \A o \in on_ignore(Given(e), e.et) : Good(o.st)
    BY <2>2 DEF on_ignore, Out
  <2> QED
    BY <2>1, <2>2, <2>3, LoopGood
<1>9. CASE call_udp_tunnel
  <2>1. PICK e \in batch : Gives(e, "on_udp_tunnel") /\ Loop(e.slot, on_udp_tunnel(Given(e)))
    BY <1>9 DEF call_udp_tunnel
  <2>2. Good(Given(e)) /\ e.slot \in Slots
    BY <2>1, GivenGood
  <2>3. \A o \in on_udp_tunnel(Given(e)) : Good(o.st)
    BY <2>2 DEF on_udp_tunnel, Out, Fail
  <2> QED
    BY <2>1, <2>2, <2>3, LoopGood
<1>10. CASE skip_event
  BY <1>10, GivenGood, BecomesGood DEF skip_event
<1>11. CASE timer_due
  <2>1. PICK s \in Slots :
          /\ ev[s].timer
          /\ Loop(s, on_tunnel([St EXCEPT !.ev[s].timer = FALSE], s, {"timeout"}))
    BY <1>11 DEF timer_due
  <2> DEFINE e == [ev[s] EXCEPT !.timer = FALSE]
             x == Put(St, s, e)
             et == {"timeout"}
  <2>2. Loop(s, on_tunnel(x, s, et))
    BY <1>1, <2>1 DEF Put
  <2>3. ev[s].cb = "on_tunnel" /\ ev[s].flag = "conn"
    BY <1>1, <1>3, <2>1 DEF WiredAt
  <2>4. DOMAIN e = SlotFields /\ SameSlot(ev[s], e)
    BY <1>2 DEF SameSlot, SlotFields
  <2> HIDE DEF e, et
  <2>5. Same(St, x)
    BY <1>1, <2>4, PutSame
  <2>6. Good(x) /\ Tunnel(x, s) /\ x.ev[s].flag = "conn"
    BY <1>1, <2>3, <2>5, KeepSame DEF Same, SameSlot, Tunnel
  <2> HIDE DEF x
  <2>7. \A o \in on_tunnel(x, s, et) : Good(o.st)
    BY <2>6, OnTunnel
  <2> QED
    BY <2>2, <2>7, LoopGood
<1>12. CASE on_accept
  <2>1. PICK s \in Free : Becomes(add_event(St, s, "on_request", {"in"}))
    BY <1>12 DEF on_accept
  <2> DEFINE y == add_event(St, s, "on_request", {"in"})
  <2>2. s \in Slots /\ ~ev[s].live
    BY DEF Free
  <2>3. Taken(St, y, s, "on_request")
    BY <1>1, <2>2, AddEvent
  <2> HIDE DEF y
  <2>4. /\ Shape(y) /\ Owned(y) /\ \A x \in Slots \ {s} : WiredAt(y, x)
    BY <1>1, <2>2, <2>3, TakenKeeps
  <2>5. WiredAt(y, s)
    BY <2>3 DEF Taken, WiredAt
  <2>6. Good(y)
    BY <2>4, <2>5 DEF Good, Wired
  <2> QED
    BY <2>1, <2>6, BecomesGood DEF y
<1>13. CASE accept_fails
  BY <1>1, <1>13, EndedGood, BecomesGood DEF accept_fails
<1>14. CASE client_sends \/ server_sends
  <2>1. PICK s \in Slots : Peer(s, [ev[s] EXCEPT !.peer = @ + 1])
    BY <1>14 DEF client_sends, server_sends
  <2> DEFINE e == [ev[s] EXCEPT !.peer = @ + 1]
  <2>2. DOMAIN e = SlotFields /\ SameSlot(ev[s], e)
    BY <1>2 DEF SameSlot, SlotFields
  <2> HIDE DEF e
  <2>3. Peer(s, e)
    BY <2>1 DEF e
  <2> QED
    BY <2>2, <2>3, PeerGood
<1>15. CASE server_connects \/ peer_ends
  <2>1. \E s \in Slots : \E how : Peer(s, [ev[s] EXCEPT !.sock = how])
    BY <1>15 DEF server_connects, peer_ends
  <2>2. PICK s \in Slots : \E how : Peer(s, [ev[s] EXCEPT !.sock = how])
    BY <2>1
  <2>3. PICK how : Peer(s, [ev[s] EXCEPT !.sock = how])
    BY <2>2
  <2> DEFINE e == [ev[s] EXCEPT !.sock = how]
  <2>4. DOMAIN e = SlotFields /\ SameSlot(ev[s], e)
    BY <1>2 DEF SameSlot, SlotFields
  <2> HIDE DEF e
  <2>5. Peer(s, e)
    BY <2>3 DEF e
  <2> QED
    BY <2>4, <2>5, PeerGood
<1>16. CASE peer_reads
  <2>1. PICK s \in Slots : Peer(s, [ev[s] EXCEPT !.full = FALSE])
    BY <1>16 DEF peer_reads
  <2> DEFINE e == [ev[s] EXCEPT !.full = FALSE]
  <2>2. DOMAIN e = SlotFields /\ SameSlot(ev[s], e)
    BY <1>2 DEF SameSlot, SlotFields
  <2> HIDE DEF e
  <2>3. Peer(s, e)
    BY <2>1 DEF e
  <2> QED
    BY <2>2, <2>3, PeerGood
<1>17. CASE UNCHANGED vars
  <2>1. St' = St
    BY <1>17 DEF vars, St
  <2> QED
    BY <1>1, <2>1 DEF IInv
<1> QED
  BY <1>4, <1>5, <1>6, <1>7, <1>8, <1>9, <1>10, <1>11, <1>12, <1>13, <1>14, <1>15, <1>16, <1>17
  DEF Next
-----------------------------------------------------------------------------
(* The theorems.                                                           *)

\* In every reachable state the slots form whole connections and the batch speaks of
\* sockets that are still there.
THEOREM Invariant == Spec => []IInv
BY InitGood, NextGood, PTL DEF Spec

\* next_event(): no event is given to a slot that was freed or taken again since the batch
\* was read, however many slots a callback deleted and however often one was taken again.
THEOREM EventsReachTheirSocket == Spec => []EventOwned
<1>1. IInv => EventOwned
  BY DEF IInv, Good, Owned, St, EventOwned
<1> QED
  BY <1>1, Invariant, PTL

\* del_event(), reconnect(): no slot outlives its connection.  Every slot in use that is
\* past its request leads to a slot in use and back, whichever of the connections failed,
\* were made again or were deleted by an error.
THEOREM ConnectionsAreWhole == Spec => []PairsLive
<1>1. ASSUME IInv, NEW s \in Slots, ev[s].live, ev[s].cb # "on_request"
      PROVE  LET p == ev[s].pair
             IN  /\ p # NoSlot /\ p # s /\ ev[p].live
                 /\ ev[p].pair # NoSlot
                 /\ \/ ev[p].pair = s
                    \/ ev[ev[p].pair].pair = s /\ ev[ev[p].pair].live
  <2> DEFINE p == ev[s].pair  q == ev[p].pair
  <2>1. St.ev = ev /\ \A x \in Slots : WiredAt(St, x)
    BY <1>1 DEF St, IInv, Good, Wired
  <2>2. p \in Slots
    BY <1>1, <2>1, PairPlace
  <2>3. /\ p # s /\ q \in Slots /\ (q = s \/ ev[q].pair = s)
        /\ ev[p].cb # "on_request" /\ ev[q].cb # "on_request"
    <3>1. WiredAt(St, s) /\ St.ev[s].pair \in Slots
      BY <2>1, <2>2
    <3> HIDE DEF p, q
    <3>2. LET d == St.ev[s].pair
              f == St.ev[d].pair
          IN  /\ d # s /\ f \in Slots
              /\ f = s \/ (St.ev[f].pair = s /\ f # d)
              /\ St.ev[d].cb # "on_request" /\ St.ev[f].cb # "on_request"
      BY <3>1, PairsBack, Zenon
    <3> QED
      BY <2>1, <3>2 DEF p, q
  <2>4. ev[p].live /\ ev[q].live
    BY <2>1, <2>2, <2>3, PairPlace
  <2> QED
    BY <2>2, <2>3, <2>4, PoolAssumption
<1>2. IInv => PairsLive
  BY <1>1 DEF PairsLive
<1> QED
  BY <1>2, Invariant, PTL
=============================================================================

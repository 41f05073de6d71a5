------------------------- MODULE ByeDpiStreamProofs -------------------------
(***************************************************************************)
(* Proofs about the bytes and the groups of ByeDpi: every server gets the  *)
(* client's bytes in order and once, a client that was answered keeps its  *)
(* server, the buffers hold what was read, and the cache always leaves a   *)
(* group to try when the groups have one --auto set.                       *)
(*                                                                         *)
(* Again along the calls.  What holds of a slot alone (SlotOK) holds after *)
(* every call.  What relates a server to its client (Linked) is broken     *)
(* when a call fails, and then loop_event deletes both.                    *)
(***************************************************************************)
EXTENDS ByeDpiProofs, WellFoundedInduction

\* All groups after the first have the same --auto set.
Uniform == \A g, h \in Groups \ {1} : Detect[g] = Detect[h] /\ Detect[g] # {}

\* The groups ruled out for a client: those before its own, perhaps with it, or all.
GroupOK(e) ==
  /\ e.dp \in 0..NGroups /\ e.mask \subseteq Groups
  /\ Uniform => e.mask \in {1..(e.dp - 1), 1..e.dp, Groups}

\* A slot by itself.
SlotOK(e) ==
  /\ e.recv \in Nat /\ e.peer \in Nat /\ e.recv <= e.peer
  /\ e.buff \in Buffs /\ e.buff.hi <= e.recv
  /\ e.sq \in Nat
  /\ e.sq > 0 => e.sq = e.recv /\ e.sq < SqSize /\ auto_reconnect /\ e.flag # "conn"
  /\ e.got \in Nat /\ e.stream # "wrong"
  /\ e.fed = "yes" => e.sq = 0 /\ e.recv > 0 /\ e.cb = "on_tunnel"
  /\ e.cb = "on_request" => e.recv = 0 /\ e.buff = NoBuf
  /\ GroupOK(e)
  /\ ~e.live => e = Blank

CacheOK(st) ==
  st.cache # NoCache =>
    /\ st.cache.dp \in Groups /\ st.cache.mask \subseteq Groups
    /\ Uniform => \E j \in 0..(NGroups - 1) :
                    /\ st.cache.mask = 1..j /\ st.cache.dp \in 1..(j + 1)
                    /\ st.cache.dp <= j => Detect[NGroups] \intersect st.cache.detect # {}

EventOK(e) == e.et # {} /\ e.open \in BOOLEAN

Pool(st) ==
  /\ st.touched \subseteq Slots /\ \A e \in st.batch : EventOK(e)
  /\ st.status \in {"run", "exit", "assert"}
  /\ CacheOK(st)
  /\ \A s \in Slots : SlotOK(st.ev[s])

\* A server f and its client e: what the server has is what the client's slot has passed on.
Linked(e, f) ==
  /\ e.dp # 0
  /\ e.buff # NoBuf => e.buff.hi = e.recv
  /\ f.stream = "whole" => f.got = IF e.buff = NoBuf THEN e.recv ELSE e.buff.lo
LinkedBut(st, K) ==
  \A r \in Slots \ K : Server(st, r) => Linked(st.ev[st.ev[r].pair], st.ev[r])

Fine(st) == Pool(st) /\ LinkedBut(st, {})
-----------------------------------------------------------------------------
(* The groups.                                                             *)

LEMMA Least ==
  ASSUME NEW S, S \subseteq Nat, S # {}
  PROVE  \E x \in S : \A y \in S : x <= y
<1>1. \E x \in S : \A y \in S : ~(<<y, x>> \in OpToRel(<, Nat))
  BY NatLessThanWellFounded, WFMin
<1>2. PICK x \in S : \A y \in S : ~(y < x)
  BY <1>1 DEF OpToRel
<1> QED
  BY <1>2

\* How far a group is from another one, round the list.
LEMMA Distance ==
  ASSUME NEW g \in Groups, NEW h \in Groups
  PROVE  (g - h + NGroups) % NGroups = IF g >= h THEN g - h ELSE g - h + NGroups
<1> DEFINE N == NGroups
<1>1. N \in Nat \ {0} /\ g \in 1..N /\ h \in 1..N
  BY GroupAssumption DEF Groups
<1>2. ASSUME NEW a \in 0..(N - 1) PROVE a % N = a /\ (a + N) % N = a
  BY <1>1
<1>3. CASE g >= h
  BY <1>1, <1>2, <1>3
<1>4. CASE ~(g >= h)
  BY <1>1, <1>2, <1>4
<1> QED
  BY <1>3, <1>4

\* Where find_dp finds a group: one that is not ruled out.
FitsFor(e) == {g \in Groups \ e.mask :
                 g = e.dp \/ Detect[g] = {} \/ Detect[g] \intersect e.detect # {}}
StartFor(e) == IF e.dp = 0 THEN 1 ELSE e.dp
Away(e, g) == (g - StartFor(e) + NGroups) % NGroups

LEMMA FindDp ==
  ASSUME NEW e, e.dp \in 0..NGroups, e.mask \subseteq Groups
  PROVE  \/ FitsFor(e) = {} /\ find_dp(e) = [dp |-> 0, mask |-> Groups]
         \/ \E f \in FitsFor(e) :
              /\ find_dp(e).dp = f
              /\ find_dp(e).mask = e.mask \union {g \in Groups : Away(e, g) < Away(e, f)}
              /\ \A h \in FitsFor(e) : Away(e, f) <= Away(e, h)
<1> DEFINE F == FitsFor(e)
           first == CHOOSE g \in F : \A h \in F : Away(e, g) <= Away(e, h)
<1>1. find_dp(e) = IF F = {} THEN [dp |-> 0, mask |-> Groups]
                   ELSE [dp |-> first,
                         mask |-> e.mask \union {g \in Groups : Away(e, g) < Away(e, first)}]
  BY DEF find_dp, FitsFor, StartFor, Away
<1>2. CASE F = {}
  BY <1>1, <1>2
<1>3. CASE F # {}
  <2>1. StartFor(e) \in Groups /\ F \subseteq Groups
    BY GroupAssumption DEF StartFor, FitsFor, Groups
  <2>2. \A g \in Groups : Away(e, g) \in Nat
    BY <2>1, Distance, GroupAssumption DEF Away, Groups
  <2> DEFINE S == {Away(e, g) : g \in F}
  <2> HIDE DEF F
  <2>3. S \subseteq Nat /\ S # {}
    BY <1>3, <2>1, <2>2
  <2>4. \E x \in S : \A y \in S : x <= y
    BY <2>3, Least
  <2>5. \E g \in F : \A h \in F : Away(e, g) <= Away(e, h)
    BY <2>4
  <2>6. first \in F /\ \A h \in F : Away(e, first) <= Away(e, h)
    BY <2>5
  <2> HIDE DEF first
  <2> QED
    BY <1>1, <1>3, <2>6 DEF F
<1> QED
  BY <1>2, <1>3

\* The types of its result.
LEMMA FindDpType ==
  ASSUME NEW e, e.dp \in 0..NGroups, e.mask \subseteq Groups
  PROVE  find_dp(e).dp \in 0..NGroups /\ find_dp(e).mask \subseteq Groups
<1>1. FitsFor(e) \subseteq 1..NGroups
  BY DEF FitsFor, Groups
<1> QED
  BY <1>1, FindDp, GroupAssumption DEF Groups

\* With one --auto set: if the first j groups are ruled out, and the search starts behind none
\* of the others, the next one is found, or none.
LEMMA FindNext ==
  ASSUME Uniform, NEW e, NEW j \in 0..NGroups, e.mask = 1..j,
         (e.dp \in 1..NGroups /\ e.dp <= j + 1) \/ (e.dp = 0 /\ j = 0)
  PROVE  /\ \/ FitsFor(e) = {} /\ find_dp(e) = [dp |-> 0, mask |-> Groups]
            \/ j < NGroups /\ find_dp(e).dp = j + 1 /\ find_dp(e).mask = 1..j
         /\ j < NGroups /\ (e.dp = j + 1 \/ Detect[NGroups] \intersect e.detect # {})
              => FitsFor(e) # {}
<1>0. NGroups \in Nat \ {0} /\ Groups = 1..NGroups /\ Detect[1] = {}
  BY GroupAssumption DEF Groups
<1>1. e.mask \subseteq Groups /\ e.dp \in 0..NGroups
  BY <1>0
<1>2. ASSUME NEW g \in FitsFor(e) PROVE j + 1 \in FitsFor(e) /\ g \in (j + 1)..NGroups
  <2>1. g \in (j + 1)..NGroups /\ j + 1 \in Groups \ e.mask
    BY <1>0, <1>2 DEF FitsFor
  <2>2. g = e.dp \/ Detect[g] = {} \/ Detect[g] \intersect e.detect # {}
    BY <1>2 DEF FitsFor
  <2>3. CASE g = e.dp
    BY <1>0, <2>1, <2>3 DEF FitsFor
  <2>4. CASE j = 0
    BY <1>0, <2>1, <2>4 DEF FitsFor
  <2>5. CASE j # 0
    <3>1. g \in Groups \ {1} /\ j + 1 \in Groups \ {1}
      BY <1>0, <2>1, <2>5
    <3>2. Detect[j + 1] = Detect[g] /\ Detect[g] # {}
      BY <3>1 DEF Uniform
    <3> QED
      BY <2>1, <2>2, <2>3, <3>2 DEF FitsFor
  <2> QED
    BY <2>4, <2>5
<1>3. j < NGroups /\ (e.dp = j + 1 \/ Detect[NGroups] \intersect e.detect # {})
        => FitsFor(e) # {}
  <2>1. CASE e.dp = j + 1 /\ j < NGroups
    BY <1>0, <2>1 DEF FitsFor
  <2>2. CASE Detect[NGroups] \intersect e.detect # {} /\ j < NGroups
    BY <1>0, <2>2 DEF FitsFor
  <2> QED
    BY <2>1, <2>2
<1>4. CASE FitsFor(e) = {}
  BY <1>1, <1>3, <1>4, FindDp
<1>5. CASE FitsFor(e) # {}
  <2> DEFINE d == StartFor(e)
  <2>1. PICK f \in FitsFor(e) :
          /\ find_dp(e).dp = f
          /\ find_dp(e).mask = e.mask \union {g \in Groups : Away(e, g) < Away(e, f)}
          /\ \A h \in FitsFor(e) : Away(e, f) <= Away(e, h)
    BY <1>1, <1>5, FindDp
  <2>2. j + 1 \in FitsFor(e) /\ f \in (j + 1)..NGroups /\ d \in 1..NGroups /\ d <= j + 1
    BY <1>0, <1>2, <2>1 DEF StartFor
  <2>3. \A g \in Groups : Away(e, g) = IF g >= d THEN g - d ELSE g - d + NGroups
    BY <1>0, <2>2, Distance DEF Away
  <2> HIDE DEF d
  <2>4. f = j + 1
    <3>1. Away(e, f) <= Away(e, j + 1) /\ j + 1 \in Groups /\ f \in Groups
      BY <1>0, <2>1, <2>2
    <3>2. Away(e, f) = f - d /\ Away(e, j + 1) = j + 1 - d
      BY <1>0, <2>2, <2>3, <3>1
    <3> QED
      BY <1>0, <2>2, <3>1, <3>2
  <2>5. \A g \in Groups : Away(e, g) < Away(e, f) => g \in 1..j
    BY <1>0, <2>2, <2>3, <2>4
  <2>6. find_dp(e).mask = 1..j
    BY <1>0, <2>1, <2>5
  <2> QED
    BY <1>0, <1>3, <1>5, <2>1, <2>2, <2>4, <2>6
<1> QED
  BY <1>4, <1>5

\* The group that a client gets from find_dp.
LEMMA GroupedOK ==
  ASSUME NEW e, DOMAIN e = SlotFields, GroupOK(e)
  PROVE  GroupOK(Grouped(e))
<1> DEFINE f == find_dp(e)  x == Grouped(e)
<1>1. x.dp = f.dp /\ x.mask = f.mask
  BY DEF Grouped, SlotFields
<1>2. f.dp \in 0..NGroups /\ f.mask \subseteq Groups
  BY FindDpType DEF GroupOK
<1>3. ASSUME Uniform PROVE f.mask \in {1..(f.dp - 1), 1..f.dp, Groups}
  <2>1. NGroups \in Nat /\ e.dp \in 0..NGroups /\ Groups = 1..NGroups
    BY GroupAssumption DEF GroupOK, Groups
  <2>2. PICK j \in 0..NGroups : e.mask = 1..j /\ (e.mask # Groups => e.dp \in {j, j + 1})
    <3>1. e.mask \in {1..(e.dp - 1), 1..e.dp, Groups}
      BY <1>3 DEF GroupOK
    <3>2. CASE e.mask = Groups
      BY <2>1, <3>2
    <3>3. CASE e.dp = 0
      <4>1. 1..(e.dp - 1) = 1..0 /\ 1..e.dp = 1..0
        BY <3>3
      <4> QED
        BY <2>1, <3>1, <3>2, <3>3, <4>1
    <3>4. CASE e.dp # 0
      <4>1. e.dp - 1 \in 0..NGroups /\ e.dp \in 0..NGroups
        BY <2>1, <3>4
      <4>2. CASE e.mask = 1..(e.dp - 1)
        BY <2>1, <4>1, <4>2
      <4>3. CASE e.mask = 1..e.dp
        BY <2>1, <4>1, <4>3
      <4> QED
        BY <3>1, <3>2, <4>2, <4>3
    <3> QED
      BY <3>3, <3>4
  <2>3. CASE e.mask = Groups
    <3>1. FitsFor(e) = {}
      BY <2>3 DEF FitsFor
    <3>2. f = [dp |-> 0, mask |-> Groups]
      BY <2>1, <2>3, <3>1, FindDp
    <3> QED
      BY <3>2
  <2>4. CASE e.mask # Groups
    <3>1. (e.dp \in 1..NGroups /\ e.dp <= j + 1) \/ (e.dp = 0 /\ j = 0)
      <4>1. e.dp = j \/ e.dp = j + 1
        BY <2>2, <2>4
      <4> QED
        BY <2>1, <2>2, <4>1
    <3>2. \/ f = [dp |-> 0, mask |-> Groups]
          \/ f.dp = j + 1 /\ f.mask = 1..j
      BY <1>3, <2>2, <3>1, FindNext
    <3>3. CASE f = [dp |-> 0, mask |-> Groups]
      BY <3>3
    <3>4. CASE f.dp = j + 1 /\ f.mask = 1..j
      <4>1. f.dp - 1 = j
        BY <2>2, <3>4
      <4> QED
        BY <3>4, <4>1
    <3> QED
      BY <3>2, <3>3, <3>4
  <2> QED
    BY <2>3, <2>4
<1> QED
  BY <1>1, <1>2, <1>3 DEF GroupOK

\* With one --auto set the cache leaves a group to try.
LEMMA CacheLeads ==
  ASSUME NEW st, CacheOK(st), st.cache # NoCache, Uniform,
         NEW e, e.mask = st.cache.mask, e.dp = st.cache.dp, e.detect = st.cache.detect
  PROVE  find_dp(e).dp # 0 /\ find_dp(e).mask = 1..(find_dp(e).dp - 1)
<1> DEFINE f == find_dp(e)
<1>1. NGroups \in Nat \ {0} /\ Groups = 1..NGroups
  BY GroupAssumption DEF Groups
<1>2. e.dp \in 1..NGroups
  BY <1>1 DEF CacheOK
<1>3. PICK j \in 0..(NGroups - 1) :
        /\ e.mask = 1..j /\ e.dp \in 1..(j + 1)
        /\ e.dp <= j => Detect[NGroups] \intersect e.detect # {}
  BY DEF CacheOK
<1>4. j \in 0..NGroups /\ j < NGroups /\ e.dp <= j + 1
  BY <1>1, <1>3
<1>5. e.dp = j + 1 \/ Detect[NGroups] \intersect e.detect # {}
  BY <1>3, <1>4
<1>6. f.dp = j + 1 /\ f.mask = 1..j
  <2>1. e.mask = 1..j /\ e.dp \in 1..NGroups /\ e.dp <= j + 1
    BY <1>2, <1>3, <1>4
  <2> HIDE DEF f
  <2>2. FitsFor(e) # {}
    BY <1>4, <1>5, <2>1, FindNext
  <2> QED
    BY <1>4, <2>1, <2>2, FindNext DEF f
<1>7. f.dp - 1 = j
  BY <1>3, <1>6
<1> QED
  BY <1>4, <1>6, <1>7

\* A client that starts from the cache gets a group.
LEMMA FromCache ==
  ASSUME NEW st, CacheOK(st), st.cache # NoCache,
         NEW e, DOMAIN e = SlotFields, e.mask = st.cache.mask, e.dp = st.cache.dp,
         e.detect = st.cache.detect
  PROVE  GroupOK(Grouped(e))
<1> DEFINE f == find_dp(e)  x == Grouped(e)
<1>1. x.dp = f.dp /\ x.mask = f.mask
  BY DEF Grouped, SlotFields
<1>2. NGroups \in Nat \ {0} /\ Groups = 1..NGroups
  BY GroupAssumption DEF Groups
<1>3. e.dp \in 1..NGroups /\ e.mask \subseteq Groups
  BY <1>2 DEF CacheOK
<1>4. f.dp \in 0..NGroups /\ f.mask \subseteq Groups
  BY <1>2, <1>3, FindDpType
<1>5. Uniform => f.mask = 1..(f.dp - 1)
  BY CacheLeads
<1> QED
  BY <1>1, <1>4, <1>5 DEF GroupOK

\* on_trigger: the next group after those that failed.
EndsAt(failed, g) == Detect[g] = {} /\ \A h \in failed : h < g
FitsAt(failed, type, g) ==
  g \notin failed /\ (Detect[g] = {} \/ Detect[g] \intersect type # {})

LEMMA NextGroupIs ==
  ASSUME NEW failed, NEW type
  PROVE  LET stops == {g \in Groups : EndsAt(failed, g) \/ FitsAt(failed, type, g)}
             n == NextGroup(failed, type)
         IN  \/ stops = {} /\ n = [dp |-> 0, mask |-> Groups]
             \/ \E s \in stops : /\ \A h \in stops : s <= h
                                 /\ n.dp = IF EndsAt(failed, s) THEN 0 ELSE s
                                 /\ n.mask = failed \union {g \in Groups : g < s}
<1> DEFINE stops == {g \in Groups : EndsAt(failed, g) \/ FitsAt(failed, type, g)}
           stop == CHOOSE g \in stops : \A h \in stops : g <= h
           n == NextGroup(failed, type)
<1>1. n = IF stops = {} THEN [dp |-> 0, mask |-> Groups]
          ELSE [dp |-> IF EndsAt(failed, stop) THEN 0 ELSE stop,
                mask |-> failed \union {g \in Groups : g < stop}]
  BY DEF NextGroup, EndsAt, FitsAt
<1>2. stops \subseteq Nat
  BY GroupAssumption DEF Groups
<1> HIDE DEF stops, n
<1>3. stops # {} => stop \in stops /\ \A h \in stops : stop <= h
  BY <1>2, Least
<1>4. CASE stops = {}
  <2>1. n = [dp |-> 0, mask |-> Groups]
    BY <1>1, <1>4
  <2> QED
    BY <1>4, <2>1 DEF stops, n
<1>5. CASE stops # {}
  <2> HIDE DEF stop
  <2>1. /\ n.dp = IF EndsAt(failed, stop) THEN 0 ELSE stop
        /\ n.mask = failed \union {g \in Groups : g < stop}
    BY <1>1, <1>5
  <2> QED
    BY <1>3, <1>5, <2>1 DEF stops, n
<1> QED
  BY <1>4, <1>5

\* The types of its result, and with one --auto set: it is the group after the last one
\* that failed, and the failure brings it into use.
LEMMA NextGroupOK ==
  ASSUME NEW e, GroupOK(e), e.dp # 0, NEW type
  PROVE  LET n == NextGroup(e.mask \union {e.dp}, type)
         IN  /\ n.dp \in 0..NGroups /\ n.mask \subseteq Groups
             /\ Uniform => \/ n.dp = 0 /\ n.mask = Groups
                           \/ /\ n.dp = e.dp + 1 /\ n.mask = 1..e.dp
                              /\ Detect[NGroups] \intersect type # {}
<1> DEFINE failed == e.mask \union {e.dp}
           n == NextGroup(failed, type)
           stops == {g \in Groups : EndsAt(failed, g) \/ FitsAt(failed, type, g)}
<1>1. NGroups \in Nat \ {0} /\ Groups = 1..NGroups /\ Detect[1] = {} /\ e.dp \in 1..NGroups
  BY GroupAssumption DEF Groups, GroupOK
<1>2. failed \subseteq Groups
  BY <1>1 DEF GroupOK
<1>3. \/ stops = {} /\ n = [dp |-> 0, mask |-> Groups]
      \/ \E s \in stops : /\ \A h \in stops : s <= h
                          /\ n.dp = IF EndsAt(failed, s) THEN 0 ELSE s
                          /\ n.mask = failed \union {g \in Groups : g < s}
  BY NextGroupIs
<1>4. n.dp \in 0..NGroups /\ n.mask \subseteq Groups
  <2> HIDE DEF n, failed
  <2>1. CASE n = [dp |-> 0, mask |-> Groups]
    BY <1>1, <2>1
  <2>2. CASE \E s \in stops : /\ n.dp = IF EndsAt(failed, s) THEN 0 ELSE s
                            /\ n.mask = failed \union {g \in Groups : g < s}
    <3>1. PICK s \in Groups : /\ n.dp = IF EndsAt(failed, s) THEN 0 ELSE s
                              /\ n.mask = failed \union {g \in Groups : g < s}
      BY <2>2
    <3>2. n.dp = 0 \/ n.dp = s
      BY <3>1
    <3>3. n.dp \in 0..NGroups
      BY <1>1, <3>2
    <3>4. {g \in Groups : g < s} \subseteq Groups
      OBVIOUS
    <3> QED
      BY <1>2, <3>1, <3>3, <3>4
  <2> QED
    BY <1>3, <2>1, <2>2
<1>5. ASSUME Uniform PROVE \/ n.dp = 0 /\ n.mask = Groups
                           \/ /\ n.dp = e.dp + 1 /\ n.mask = 1..e.dp
                              /\ Detect[NGroups] \intersect type # {}
  <2>1. failed = Groups \/ failed = 1..e.dp
    <3>1. e.mask \in {1..(e.dp - 1), 1..e.dp, Groups}
      BY <1>5 DEF GroupOK
    <3>2. 1..(e.dp - 1) \union {e.dp} = 1..e.dp /\ 1..e.dp \union {e.dp} = 1..e.dp
      BY <1>1
    <3> QED
      BY <1>1, <3>1, <3>2
  <2>2. 1 \in failed /\ e.dp \in failed
    BY <1>1, <2>1
  <2> HIDE DEF failed
  <2>3. ASSUME NEW g \in stops
        PROVE  /\ ~EndsAt(failed, g) /\ g \in Groups \ failed
               /\ g # 1 /\ Detect[g] \intersect type # {}
    <3>1. g \in Groups
      OBVIOUS
    <3>2. Detect[g] = {} => g = 1
      BY <1>1, <1>5, <3>1 DEF Uniform
    <3>3. ~EndsAt(failed, g)
      BY <1>1, <2>2, <3>2 DEF EndsAt
    <3> QED
      BY <2>2, <3>1, <3>2, <3>3 DEF FitsAt
  <2>4. CASE stops = {}
    BY <1>3, <2>4
  <2>5. CASE stops # {}
    <3>1. PICK s \in stops : /\ \A h \in stops : s <= h
                             /\ n.dp = IF EndsAt(failed, s) THEN 0 ELSE s
                             /\ n.mask = failed \union {g \in Groups : g < s}
      BY <1>3, <2>5
    <3>2. ~EndsAt(failed, s) /\ s \in Groups \ failed /\ s # 1
          /\ Detect[s] \intersect type # {}
      BY <2>3
    <3>3. failed = 1..e.dp /\ s \in (e.dp + 1)..NGroups
      BY <1>1, <2>1, <3>2
    <3>4. Detect[e.dp + 1] = Detect[s] /\ Detect[NGroups] = Detect[s]
      BY <1>1, <1>5, <3>2, <3>3 DEF Uniform
    <3>5. e.dp + 1 \in stops
      BY <1>1, <3>2, <3>3, <3>4 DEF FitsAt
    <3>6. s = e.dp + 1
      BY <1>1, <3>1, <3>3, <3>5
    <3>7. n.mask = 1..e.dp
      BY <1>1, <3>1, <3>3, <3>6
    <3> QED
      BY <3>1, <3>2, <3>4, <3>6, <3>7
  <2> QED
    BY <2>4, <2>5
<1> QED
  BY <1>4, <1>5

\* What on_trigger stores for the address.
LEMMA CacheNext ==
  ASSUME NEW st, CacheOK(st), NEW e, GroupOK(e), e.dp # 0, NEW type,
         NEW n, n = NextGroup(e.mask \union {e.dp}, type), n.dp # 0,
         NEW x, x.cache = [mask |-> st.cache.mask \union n.mask, detect |-> type, dp |-> n.dp]
  PROVE  CacheOK(x)
<1>1. NGroups \in Nat \ {0} /\ Groups = 1..NGroups /\ e.dp \in 1..NGroups
  BY GroupAssumption DEF Groups, GroupOK
<1>2. n.dp \in 1..NGroups /\ n.mask \subseteq Groups
  <2>1. n.dp \in 0..NGroups /\ n.mask \subseteq Groups
    BY NextGroupOK
  <2>2. \A d \in 0..NGroups : d # 0 => d \in 1..NGroups
    BY <1>1
  <2> QED
    BY <2>1, <2>2, Zenon
<1>3. st.cache = NoCache => st.cache.mask = {}
  BY DEF NoCache
<1>4. st.cache.mask \subseteq Groups
  BY <1>3 DEF CacheOK
<1>5. x.cache.mask = st.cache.mask \union n.mask /\ x.cache.dp = n.dp /\ x.cache.detect = type
  OBVIOUS
<1>6. ASSUME Uniform
      PROVE  \E j \in 0..(NGroups - 1) :
               /\ x.cache.mask = 1..j /\ x.cache.dp \in 1..(j + 1)
               /\ x.cache.dp <= j => Detect[NGroups] \intersect x.cache.detect # {}
  <2>1. n.dp = e.dp + 1 /\ n.mask = 1..e.dp /\ Detect[NGroups] \intersect type # {}
    BY <1>6, NextGroupOK
  <2>2. PICK j \in 0..(NGroups - 1) : st.cache.mask = 1..j
    <3>1. CASE st.cache = NoCache
      <4>1. st.cache.mask = 1..0
        BY <1>3, <3>1
      <4> QED
        BY <1>1, <4>1
    <3> QED
      BY <1>6, <3>1 DEF CacheOK
  <2> DEFINE k == IF j < e.dp THEN e.dp ELSE j
  <2>3. k \in 0..(NGroups - 1) /\ n.dp \in 1..(k + 1)
    BY <1>1, <1>2, <2>1, <2>2
  <2>4. st.cache.mask \union n.mask = 1..k
    BY <1>1, <2>1, <2>2
  <2> HIDE DEF k
  <2> QED
    BY <1>5, <2>1, <2>3, <2>4
<1> QED
  BY <1>1, <1>2, <1>4, <1>5, <1>6 DEF CacheOK

LEMMA CacheReset ==
  ASSUME NEW x, x.cache = [mask |-> {}, detect |-> {}, dp |-> 1]
  PROVE  CacheOK(x)
<1>1. NGroups \in Nat \ {0} /\ Groups = 1..NGroups
  BY GroupAssumption DEF Groups
<1>2. x.cache.mask = 1..0 /\ x.cache.dp = 1 /\ 0 \in 0..(NGroups - 1)
  BY <1>1
<1> QED
  BY <1>1, <1>2 DEF CacheOK
-----------------------------------------------------------------------------
(* Pools.                                                                  *)

\* From st to x only the slots of K changed, and perhaps the cache.
Keeps(st, x, K) ==
  /\ Shape(x) /\ x.touched = st.touched /\ x.batch = st.batch /\ x.status = st.status
  /\ \A t \in Slots \ K : x.ev[t] = st.ev[t]

LEMMA PutKeeps ==
  ASSUME NEW st, Shape(st), NEW s \in Slots, NEW e, DOMAIN e = SlotFields
  PROVE  /\ Keeps(st, Put(st, s, e), {s}) /\ Put(st, s, e).cache = st.cache
         /\ Put(st, s, e).ev[s] = e
<1>1. Put(st, s, e).cache = st.cache /\ Put(st, s, e).status = st.status
  BY DEF Put, Shape
<1> QED
  BY <1>1, PutIs DEF Keeps

LEMMA KeepsTwice ==
  ASSUME NEW st, NEW x, NEW y, NEW J, NEW K, Keeps(st, x, J), Keeps(x, y, K)
  PROVE  Keeps(st, y, J \union K)
BY DEF Keeps

LEMMA KeepsMore ==
  ASSUME NEW st, NEW x, NEW J, NEW K, Keeps(st, x, J), J \subseteq K
  PROVE  Keeps(st, x, K)
BY DEF Keeps

\* The slots that changed are all that has to be looked at.
LEMMA PoolKeeps ==
  ASSUME NEW st, Pool(st), NEW x, NEW K, Keeps(st, x, K), CacheOK(x),
         \A s \in K : s \in Slots => SlotOK(x.ev[s])
  PROVE  Pool(x)
<1>1. ASSUME NEW s \in Slots PROVE SlotOK(x.ev[s])
  BY DEF Keeps, Pool
<1> QED
  BY <1>1 DEF Keeps, Pool

LEMMA PoolPut ==
  ASSUME NEW st, Shape(st), Pool(st), NEW s \in Slots, NEW e, DOMAIN e = SlotFields, SlotOK(e)
  PROVE  Pool(Put(st, s, e))
<1> DEFINE x == Put(st, s, e)
<1>1. Keeps(st, x, {s}) /\ x.cache = st.cache /\ x.ev[s] = e
  BY PutKeeps
<1> HIDE DEF x
<1>2. CacheOK(x)
  BY <1>1 DEF Pool, CacheOK
<1> QED
  BY <1>1, <1>2, PoolKeeps DEF x

\* The server of one client is no part of another one's connection.
LEMMA ServersApart ==
  ASSUME NEW st, Good(st), NEW r, Server(st, r), NEW t, Server(st, t), t # r
  PROVE  LET c == st.ev[r].pair
             p == st.ev[t].pair
         IN  c \in Slots /\ p \in Slots /\ p # c /\ p # r /\ t # c /\ c # r
<1> DEFINE c == st.ev[r].pair  p == st.ev[t].pair
<1>1. r \in Slots /\ t \in Slots /\ WiredAt(st, r) /\ WiredAt(st, t)
  BY DEF Server, Good, Wired
<1>2. c \in Slots /\ c # r /\ st.ev[c].pair = r /\ st.ev[c].flag # "conn"
  BY <1>1, LinkPlace DEF Server
<1>3. p \in Slots /\ p # t /\ st.ev[p].pair = t /\ st.ev[p].flag # "conn"
  BY <1>1, LinkPlace DEF Server
<1> QED
  BY <1>2, <1>3 DEF Server

\* What happens between a server and its client does not matter to the others.
LEMMA OthersLinked ==
  ASSUME NEW st, Good(st), NEW r, Server(st, r), LinkedBut(st, {r}),
         NEW x, Same(st, x), Keeps(st, x, {r, st.ev[r].pair})
  PROVE  LinkedBut(x, {r})
<1> SUFFICES ASSUME NEW t \in Slots \ {r}, Server(x, t)
             PROVE  Linked(x.ev[x.ev[t].pair], x.ev[t])
  BY DEF LinkedBut
<1> DEFINE c == st.ev[r].pair  p == st.ev[t].pair
<1>1. Server(st, t)
  BY DEF Same, SameSlot, Server
<1>2. p \in Slots /\ p # c /\ p # r /\ t # c
  BY <1>1, ServersApart
<1>3. x.ev[t] = st.ev[t] /\ x.ev[p] = st.ev[p]
  BY <1>2 DEF Keeps
<1>4. Linked(st.ev[p], st.ev[t])
  BY <1>1 DEF LinkedBut
<1> QED
  BY <1>3, <1>4

LEMMA AllLinked ==
  ASSUME NEW x, NEW r, LinkedBut(x, {r}), Linked(x.ev[x.ev[r].pair], x.ev[r])
  PROVE  LinkedBut(x, {})
BY DEF LinkedBut

\* del_event, in full.
LEMMA DelIs ==
  ASSUME NEW st, Shape(st), NEW s \in Slots, st.ev[s].live, Reached(st, s) \subseteq Slots
  PROVE  LET z == del_event(st, s)
         IN  /\ \A x \in Slots : z.ev[x] = IF x \in Reached(st, s) THEN Blank ELSE st.ev[x]
             /\ z.touched = st.touched \union Reached(st, s)
             /\ z.cache = st.cache /\ z.status = st.status
             /\ (\A e \in st.batch : EventOK(e)) => \A e \in z.batch : EventOK(e)
<1> DEFINE z == del_event(st, s)
           dead == Reached(st, s)
           E == [x \in Slots |-> IF x \in dead THEN Blank ELSE st.ev[x]]
           B == {IF e.slot \in dead THEN [e EXCEPT !.open = FALSE] ELSE e : e \in st.batch}
<1>1. z = [st EXCEPT !.ev = E, !.touched = st.touched \union dead, !.batch = B]
  BY DEF del_event
<1>2. (\A e \in st.batch : EventOK(e)) => \A e \in B : EventOK(e)
  <2> SUFFICES ASSUME NEW f \in st.batch, EventOK(f)
               PROVE  EventOK(IF f.slot \in dead THEN [f EXCEPT !.open = FALSE] ELSE f)
    OBVIOUS
  <2>1. DOMAIN f = {"slot", "et", "open"}
    BY DEF Shape
  <2>2. EventOK([f EXCEPT !.open = FALSE])
    BY <2>1 DEF EventOK
  <2> QED
    BY <2>2
<1> HIDE DEF dead, B, z
<1>3. /\ z.ev = E /\ z.touched = st.touched \union dead /\ z.batch = B
      /\ z.cache = st.cache /\ z.status = st.status
  BY <1>1 DEF Shape
<1> QED
  BY <1>2, <1>3 DEF z, dead

\* A free slot.
LEMMA BlankOK == SlotOK(Blank)
<1>1. 0 \in 0..NGroups /\ {} = 1..0
  BY GroupAssumption
<1>2. NoBuf \in Buffs /\ NoBuf.hi = 0
  BY DEF NoBuf, Buffs
<1>3. GroupOK(Blank)
  BY <1>1 DEF GroupOK, Blank
<1> QED
  BY <1>2, <1>3 DEF SlotOK, Blank

\* loop_event: what a callback that fails leaves behind goes with its slot.
LEMMA DelFine ==
  ASSUME NEW st, Good(st), Pool(st), NEW s \in Slots, LinkedBut(st, Reached(st, s))
  PROVE  Fine(del_event(st, s))
<1> DEFINE dead == Reached(st, s)  z == del_event(st, s)
<1>1. /\ s \in dead /\ dead \subseteq Slots
      /\ \A x \in Slots \ dead : st.ev[x].pair \notin dead
  BY ReachedClosed
<1>2. Shape(st) /\ \A x \in Slots : WiredAt(st, x)
  BY DEF Good, Wired
<1>3. CASE ~st.ev[s].live
  <2>1. st.ev[s].cb = "on_request" /\ st.ev[s].pair = NoSlot
    BY <1>2, <1>3, PairPlace
  <2>2. dead = {s} /\ ~Server(st, s)
    BY <2>1, PoolAssumption DEF Reached, Server
  <2>3. LinkedBut(st, {})
    BY <2>2 DEF LinkedBut
  <2> QED
    BY <1>3, <2>3 DEF Fine, del_event
<1>4. CASE st.ev[s].live
  <2>1. /\ \A x \in Slots : z.ev[x] = IF x \in dead THEN Blank ELSE st.ev[x]
        /\ z.touched = st.touched \union dead
        /\ z.cache = st.cache /\ z.status = st.status
        /\ (\A e \in st.batch : EventOK(e)) => \A e \in z.batch : EventOK(e)
    BY <1>1, <1>2, <1>4, DelIs
  <2> HIDE DEF dead, z
  <2>2. Pool(z)
    <3>1. \A x \in Slots : SlotOK(z.ev[x])
      BY <2>1, BlankOK DEF Pool
    <3>2. CacheOK(z)
      BY <2>1 DEF Pool, CacheOK
    <3> QED
      BY <1>1, <2>1, <3>1, <3>2 DEF Pool
  <2>3. ASSUME NEW r \in Slots, Server(z, r) PROVE Linked(z.ev[z.ev[r].pair], z.ev[r])
    <3>1. r \notin dead /\ z.ev[r] = st.ev[r]
      BY <2>1, <2>3, BlankFields DEF Server
    <3>2. Server(st, r)
      BY <2>3, <3>1 DEF Server
    <3>3. st.ev[r].pair \in Slots
      BY <1>2, <3>2, LinkPlace DEF Server
    <3>4. Linked(st.ev[st.ev[r].pair], st.ev[r])
      BY <3>1, <3>2 DEF LinkedBut, dead
    <3> QED
      BY <1>1, <2>1, <3>1, <3>3, <3>4
  <2> QED
    BY <2>2, <2>3 DEF Fine, LinkedBut, z
<1> QED
  BY <1>3, <1>4

\* destroy_pool, abort.
LEMMA EndedFine ==
  ASSUME NEW st, Shape(st), CacheOK(st), NEW how \in {"exit", "assert"}
  PROVE  Fine(Ended(st, how))
<1> DEFINE y == Ended(st, how)
<1>1. /\ y.ev = [s \in Slots |-> Blank] /\ y.batch = {} /\ y.touched = {} /\ y.status = how
      /\ y.cache = st.cache
  BY DEF Ended, Shape
<1> HIDE DEF y
<1>2. Pool(y)
  BY <1>1, BlankOK DEF Pool, CacheOK
<1>3. LinkedBut(y, {})
  <2>1. \A r \in Slots : y.ev[r].flag # "conn"
    BY <1>1, BlankFields
  <2> QED
    BY <2>1 DEF LinkedBut, Server
<1> QED
  BY <1>2, <1>3 DEF Fine, y

\* A step within one connection, that of the server r, which Good does not notice.
Held(st, x, r) == Same(st, x) /\ Pool(x) /\ Keeps(st, x, {r, st.ev[r].pair})

LEMMA HeldTwice ==
  ASSUME NEW st, NEW x, NEW y, NEW r, Server(st, r), Held(st, x, r), Held(x, y, r)
  PROVE  Held(st, y, r)
<1>1. x.ev[r].pair = st.ev[r].pair
  BY ServerAfter DEF Held
<1> QED
  BY <1>1, SameTwice, KeepsTwice DEF Held

LEMMA HeldLinks ==
  ASSUME NEW st, Good(st), NEW r, Server(st, r), LinkedBut(st, {r}), NEW x, Held(st, x, r)
  PROVE  /\ Good(x) /\ Server(x, r) /\ LinkedBut(x, {r}) /\ x.ev[r].pair = st.ev[r].pair
         /\ x.status = st.status
BY OthersLinked, KeepSame, ServerAfter DEF Held, Keeps

\* A slot of the connection is changed, in fields that Good does not look at.
LEMMA HeldPut ==
  ASSUME NEW st, Good(st), Pool(st), NEW r, Server(st, r), NEW s \in {r, st.ev[r].pair},
         NEW e, DOMAIN e = SlotFields, SameSlot(st.ev[s], e), SlotOK(e)
  PROVE  Held(st, Put(st, s, e), r) /\ s \in Slots
<1>1. s \in Slots /\ Shape(st)
  BY LinkPlace DEF Server, Good, Wired
<1> DEFINE x == Put(st, s, e)
<1>2. Same(st, x) /\ Pool(x)
  BY <1>1, PutSame, PoolPut
<1>3. Keeps(st, x, {s})
  BY <1>1, PutKeeps
<1> HIDE DEF x
<1>4. Keeps(st, x, {r, st.ev[r].pair})
  BY <1>3, KeepsMore
<1> QED
  BY <1>1, <1>2, <1>4 DEF Held, x

-----------------------------------------------------------------------------
(* Connecting.                                                             *)

\* A slot that differs from another one in its group, and where nothing here looks.
Alike(e, f) ==
  /\ DOMAIN f = SlotFields
  /\ f.live = e.live /\ f.flag = e.flag /\ f.cb = e.cb /\ f.pair = e.pair
  /\ f.timer = e.timer /\ f.buff = e.buff /\ f.sq = e.sq /\ f.recv = e.recv
  /\ f.peer = e.peer /\ f.got = e.got /\ f.stream = e.stream /\ f.fed = e.fed

LEMMA AlikeOK ==
  ASSUME NEW e, SlotOK(e), e.live, NEW f, Alike(e, f), GroupOK(f)
  PROVE  SlotOK(f) /\ SameSlot(e, f)
BY DEF SlotOK, SameSlot, Alike

\* The group that connect_hook chooses, from the slot's own or from the cache.
LEMMA ConnectHookIs ==
  ASSUME NEW st, Shape(st), Pool(st), NEW c \in Slots, st.ev[c].live,
         NEW o \in connect_hook(st, c)
  PROVE  \/ o.ret = -1 /\ o.st = st
         \/ \E f : /\ Alike(st.ev[c], f) /\ GroupOK(f) /\ f.dp # 0
                   /\ \/ o.ret = -1 /\ o.st = Put(st, c, f)
                      \/ o.ret = 0 /\ \E n \in Slots : Created(Put(st, c, f), o.st, c, n)
<1> DEFINE e == st.ev[c]
           cached == [e EXCEPT !.mask = st.cache.mask, !.detect = st.cache.detect,
                               !.dp = st.cache.dp]
           known == IF e.dp # 0 \/ st.cache = NoCache THEN e ELSE cached
           f == Grouped(known)
           x == Put(st, c, f)
<1>1. o \in IF f.dp = 0 THEN Fail(st) ELSE create_conn(x, c)
  BY DEF connect_hook
<1>2. DOMAIN e = SlotFields /\ SlotOK(e)
  BY DEF Shape, Pool
<1>3. /\ Alike(e, cached) /\ cached.mask = st.cache.mask /\ cached.dp = st.cache.dp
      /\ cached.detect = st.cache.detect
  <2> HIDE DEF e
  <2> QED
    BY <1>2 DEF Alike, SlotFields
<1> HIDE DEF cached
<1>4. Alike(e, known)
  BY <1>2, <1>3 DEF Alike
<1>5. Alike(e, f)
  <2> HIDE DEF e, known
  <2> QED
    BY <1>4 DEF Alike, Grouped, SlotFields
<1>6. GroupOK(f)
  <2>1. CASE known = e
    BY <1>2, <2>1, GroupedOK DEF SlotOK
  <2>2. CASE known = cached /\ st.cache # NoCache
    BY <1>3, <2>2, FromCache DEF Alike, Pool
  <2> QED
    BY <2>1, <2>2
<1> HIDE DEF f
<1>7. CASE o \in Fail(st)
  BY <1>7 DEF Fail, Out
<1>8. CASE f.dp # 0 /\ o \in create_conn(x, c)
  <2>1. Shape(x) /\ x.ev[c] = f
    BY <1>5, PutIs DEF Alike
  <2>2. x.ev[c].live
    BY <1>5, <2>1 DEF Alike
  <2>3. \/ o.ret = -1 /\ o.st = x
        \/ o.ret = 0 /\ \E n \in Slots : Created(x, o.st, c, n)
    BY <1>8, <2>1, <2>2, CreateIs
  <2> QED
    BY <1>5, <1>6, <1>8, <2>3
<1> QED
  BY <1>1, <1>7, <1>8

\* Nothing lost so far: the client's bytes are pending from the first one on, or there are none.
Fresh(e) ==
  /\ e.fed # "yes" /\ e.dp # 0
  /\ \/ e.buff = NoBuf /\ e.recv = 0
     \/ e.buff # NoBuf /\ e.buff.lo = 0 /\ e.buff.hi = e.recv

\* create_conn: the new server has nothing, and the client's slot nothing less than all.
LEMMA CreatedFine ==
  ASSUME NEW st, Shape(st), Pool(st), NEW c \in Slots, st.ev[c].live, Fresh(st.ev[c]),
         NEW y, NEW n \in Slots, Created(st, y, c, n)
  PROVE  Pool(y) /\ Linked(y.ev[c], y.ev[n]) /\ y.ev[n].pair = c /\ y.ev[c].live
<1> DEFINE e == st.ev[c]  f == y.ev[c]  g == y.ev[n]
           b == [Blank EXCEPT !.live = TRUE, !.cb = "on_connect", !.want = {"out"}]
<1>1. DOMAIN e = SlotFields /\ SlotOK(e)
  BY DEF Shape, Pool
<1>2. /\ f.live = e.live /\ f.flag = e.flag /\ f.cb = "on_ignore" /\ f.buff = e.buff
      /\ f.sq = e.sq /\ f.recv = e.recv /\ f.peer = e.peer /\ f.got = e.got
      /\ f.stream = e.stream /\ f.fed = e.fed /\ f.dp = e.dp /\ f.mask = e.mask
  <2>1. f = Turned(e, n)
    BY DEF Created
  <2> HIDE DEF e, f
  <2> QED
    BY <1>1, <2>1 DEF Turned, SlotFields
<1>3. /\ DOMAIN b = SlotFields /\ b.live = TRUE /\ b.cb = "on_connect" /\ b.buff = NoBuf
      /\ b.sq = 0 /\ b.recv = 0 /\ b.peer = 0 /\ b.got = 0 /\ b.stream = "whole"
      /\ b.fed = "no" /\ b.dp = 0 /\ b.mask = {}
  BY DEF Blank, SlotFields
<1> HIDE DEF b
<1>4. /\ g.live = TRUE /\ g.cb = "on_connect" /\ g.buff = NoBuf /\ g.pair = c
      /\ g.sq = 0 /\ g.recv = 0 /\ g.peer = 0 /\ g.got = 0 /\ g.stream = "whole"
      /\ g.fed = "no" /\ g.dp = 0 /\ g.mask = {}
  <2>1. g = Joining(b, c)
    BY DEF Created, b
  <2> HIDE DEF g
  <2> QED
    BY <1>3, <2>1 DEF Joining, SlotFields
<1> HIDE DEF e, f, g
<1>5. SlotOK(f)
  <2>1. GroupOK(f)
    BY <1>1, <1>2 DEF SlotOK, GroupOK
  <2>2. e.fed # "yes" /\ e.live
    BY DEF Fresh, e
  <2> QED
    BY <1>1, <1>2, <2>1, <2>2 DEF SlotOK
<1>6. SlotOK(g)
  <2>1. GroupOK(g) /\ NoBuf \in Buffs /\ NoBuf.hi = 0
    <3>1. 0 \in 0..NGroups /\ {} = 1..0
      BY GroupAssumption
    <3> QED
      BY <1>4, <3>1 DEF GroupOK, NoBuf, Buffs
  <2> QED
    BY <1>4, <2>1 DEF SlotOK
<1>7. Linked(f, g)
  BY <1>2, <1>4 DEF Linked, Fresh, e
<1>8. Pool(y)
  <2>1. \A x \in Slots : SlotOK(y.ev[x])
    BY <1>5, <1>6 DEF Created, Pool, f, g
  <2> QED
    BY <2>1 DEF Pool, Created, CacheOK
<1> QED
  BY <1>2, <1>4, <1>7, <1>8 DEF f, g, e

\* What happens within K does not matter to the connections outside.
LEMMA RestLinked ==
  ASSUME NEW st, Good(st), NEW J, LinkedBut(st, J), NEW K, J \subseteq K,
         \A t \in Slots \ K : st.ev[t].pair \notin K,
         NEW z, \A t \in Slots \ K : z.ev[t] = st.ev[t]
  PROVE  LinkedBut(z, K)
<1> SUFFICES ASSUME NEW t \in Slots \ K, Server(z, t)
             PROVE  Linked(z.ev[z.ev[t].pair], z.ev[t])
  BY DEF LinkedBut
<1>1. z.ev[t] = st.ev[t] /\ Server(st, t)
  BY DEF Server
<1>2. st.ev[t].pair \in Slots \ K
  BY <1>1, LinkPlace DEF Server, Good, Wired
<1>3. Linked(st.ev[st.ev[t].pair], st.ev[t])
  BY <1>1 DEF LinkedBut
<1> QED
  BY <1>1, <1>2, <1>3

\* A connection is two slots that no other one points at.
LEMMA ServerReach ==
  ASSUME NEW st, Good(st), NEW r, Server(st, r)
  PROVE  LET c == st.ev[r].pair
         IN  /\ c \in Slots /\ r \in Slots /\ c # r /\ st.ev[c].live /\ st.ev[r].live
             /\ st.ev[c].flag # "conn" /\ st.ev[c].pair = r /\ ~Server(st, c)
             /\ Reached(st, r) = {r, c} /\ Reached(st, c) = {r, c}
             /\ \A t \in Slots \ {r, c} : st.ev[t].pair \notin {r, c}
<1> DEFINE c == st.ev[r].pair
<1>1. r \in Slots /\ WiredAt(st, r)
  BY DEF Server, Good, Wired
<1>2. /\ c \in Slots /\ c # r /\ st.ev[c].pair = r /\ st.ev[c].flag # "conn" /\ st.ev[r].live
      /\ WiredAt(st, c) /\ st.ev[c].cb # "on_request"
  BY <1>1, LinkPlace, PairPlace DEF Server, Good, Wired
<1>3. st.ev[c].live /\ ~Server(st, c)
  BY <1>2, PairPlace DEF Server
<1>4. Reached(st, r) = {r, c} /\ Reached(st, c) = {r, c}
  BY <1>1, <1>2, PoolAssumption DEF Reached
<1>5. \A t \in Slots \ {r, c} : st.ev[t].pair \notin {r, c}
  BY <1>1, <1>4, ReachedClosed
<1> QED
  BY <1>1, <1>2, <1>3, <1>4, <1>5

\* The first connection of a client.
LEMMA FirstFine ==
  ASSUME NEW st, Good(st), Fine(st), NEW c \in Slots, st.ev[c].live,
         st.ev[c].cb = "on_request", NEW f, Alike(st.ev[c], f), GroupOK(f), f.dp # 0,
         NEW y, NEW n \in Slots, Created(Put(st, c, f), y, c, n)
  PROVE  Good(y) /\ Fine(y)
<1> DEFINE x == Put(st, c, f)
<1>1. SlotOK(f) /\ SameSlot(st.ev[c], f) /\ DOMAIN f = SlotFields /\ Shape(st)
  BY AlikeOK DEF Fine, Pool, Alike, Good
<1>2. Same(st, x) /\ Pool(x) /\ x.ev[c] = f /\ \A t \in Slots \ {c} : x.ev[t] = st.ev[t]
  BY <1>1, PutSame, PoolPut, PutIs DEF Fine
<1> HIDE DEF x
<1>3. Good(x) /\ x.ev[c].live /\ x.ev[c].cb = "on_request"
  BY <1>2, KeepSame DEF Same, SameSlot
<1>4. Fresh(x.ev[c])
  <2>1. f.recv = 0 /\ f.buff = NoBuf
    BY <1>1, <1>2, <1>3 DEF SlotOK
  <2> QED
    BY <1>1, <1>2, <2>1 DEF Fresh, SlotOK
<1>5. Created(x, y, c, n)
  BY DEF x
<1>6. Good(y)
  <2>1. Made(x, y, c, n)
    BY <1>3, <1>5, CreatedMade DEF Good
  <2> QED
    BY <1>3, <2>1, FirstConnection
<1>7. Pool(y) /\ Linked(y.ev[c], y.ev[n]) /\ y.ev[n].pair = c
  BY <1>2, <1>3, <1>4, <1>5, CreatedFine DEF Good
<1>8. LinkedBut(y, {c, n})
  <2>1. n \in Slots /\ ~x.ev[n].live /\ \A t \in Slots \ {c, n} : y.ev[t] = x.ev[t]
    BY <1>5 DEF Created
  <2>2. \A t \in Slots : WiredAt(st, t)
    BY DEF Good, Wired
  <2>3. ~st.ev[n].live
    BY <1>2, <2>1 DEF Same, SameSlot
  <2>4. st.ev[n].cb = "on_request"
    BY <2>2, <2>3, PairPlace
  <2>5. \A t \in Slots \ {c, n} : st.ev[t].pair \notin {c, n} /\ y.ev[t] = st.ev[t]
    BY <1>2, <2>1, <2>2, <2>4, NotPaired
  <2>6. LinkedBut(st, {})
    BY DEF Fine
  <2> QED
    BY <2>5, <2>6, RestLinked
<1>9. ~Server(y, c)
  <2>1. Made(x, y, c, n)
    BY <1>3, <1>5, CreatedMade DEF Good
  <2> QED
    BY <2>1 DEF Server, Made
<1> QED
  BY <1>6, <1>7, <1>8, <1>9 DEF Fine, LinkedBut

\* reconnect: the new server takes the place of the old one, from the first byte on.
LEMMA ReplacedFine ==
  ASSUME NEW st, Good(st), NEW r, Server(st, r), LinkedBut(st, {r}),
         NEW x, Held(st, x, r), Fresh(x.ev[st.ev[r].pair]),
         NEW y, NEW n \in Slots, Created(x, y, st.ev[r].pair, n)
  PROVE  LET z == del_event(Put(y, r, [y.ev[r] EXCEPT !.pair = NoSlot]), r)
         IN  /\ Good(z) /\ Fine(z) /\ ~z.ev[r].live /\ z.ev[st.ev[r].pair].live
             /\ z.status = st.status
<1> DEFINE c == st.ev[r].pair
           e == [y.ev[r] EXCEPT !.pair = NoSlot]
           d == Put(y, r, e)
           z == del_event(d, r)
<1>1. /\ Good(x) /\ Server(x, r) /\ LinkedBut(x, {r}) /\ x.ev[r].pair = c
      /\ x.status = st.status /\ Pool(x) /\ Shape(x) /\ Owned(x)
  BY HeldLinks DEF Held, Good
<1>2. /\ c \in Slots /\ r \in Slots /\ c # r /\ x.ev[c].live /\ x.ev[r].live
      /\ \A t \in Slots \ {r, c} : x.ev[t].pair \notin {r, c}
  <2>1. LET q == x.ev[r].pair
        IN  /\ q \in Slots /\ r \in Slots /\ q # r /\ x.ev[q].live /\ x.ev[r].live
            /\ \A t \in Slots \ {r, q} : x.ev[t].pair \notin {r, q}
    BY <1>1, ServerReach
  <2> HIDE DEF c
  <2> QED
    BY <1>1, <2>1
<1> HIDE DEF c
<1>3. Created(x, y, c, n) /\ Fresh(x.ev[c])
  BY DEF c
<1>4. Made(x, y, c, n)
  BY <1>1, <1>2, <1>3, CreatedMade
<1>5. /\ Pool(y) /\ Linked(y.ev[c], y.ev[n]) /\ y.ev[n].pair = c /\ y.ev[c].live
  BY <1>1, <1>2, <1>3, CreatedFine
<1>6. Good(z) /\ ~z.ev[r].live
  BY <1>1, <1>4, Replaced
<1>7. /\ n # c /\ n # r /\ ~x.ev[n].live /\ Shape(y) /\ y.status = x.status /\ y.ev[r] = x.ev[r]
      /\ \A t \in Slots \ {c, n} : y.ev[t] = x.ev[t]
  BY <1>2, <1>3 DEF Created
<1>8. /\ DOMAIN e = SlotFields /\ e.pair = NoSlot /\ e.live
  BY <1>1, <1>2, <1>7 DEF Shape, SlotFields
<1> HIDE DEF e
<1>9. /\ Shape(d) /\ d.ev[r] = e /\ d.touched = y.touched /\ d.batch = y.batch
      /\ d.cache = y.cache /\ d.status = y.status /\ \A t \in Slots \ {r} : d.ev[t] = y.ev[t]
  BY <1>2, <1>7, <1>8, PutIs, PutKeeps DEF Keeps
<1> HIDE DEF d
<1>10. Reached(d, r) = {r}
  BY <1>2, <1>8, <1>9, PoolAssumption DEF Reached
<1>11. /\ \A t \in Slots : z.ev[t] = IF t = r THEN Blank ELSE y.ev[t]
       /\ z.touched = y.touched \union {r}
       /\ z.cache = y.cache /\ z.status = y.status
       /\ (\A a \in y.batch : EventOK(a)) => \A a \in z.batch : EventOK(a)
  <2> DEFINE R == Reached(d, r)
  <2>1. /\ \A t \in Slots : z.ev[t] = IF t \in R THEN Blank ELSE d.ev[t]
        /\ z.touched = d.touched \union R
        /\ z.cache = d.cache /\ z.status = d.status
        /\ (\A a \in d.batch : EventOK(a)) => \A a \in z.batch : EventOK(a)
    BY <1>2, <1>8, <1>9, <1>10, DelIs
  <2> HIDE DEF z
  <2> QED
    BY <1>9, <1>10, <2>1
<1> HIDE DEF z
<1>12. Pool(z)
  <2>1. \A t \in Slots : SlotOK(z.ev[t])
    BY <1>5, <1>11, BlankOK DEF Pool
  <2>2. CacheOK(z)
    BY <1>5, <1>11 DEF Pool, CacheOK
  <2> QED
    BY <1>2, <1>5, <1>11, <2>1, <2>2 DEF Pool
<1>13. LinkedBut(z, {r, c, n})
  <2>1. x.ev[n].cb = "on_request" /\ \A t \in Slots : WiredAt(x, t)
    BY <1>1, <1>7, PairPlace DEF Good, Wired
  <2>2. \A t \in Slots \ {r, c, n} : x.ev[t].pair \notin {r, c, n}
    BY <1>2, <2>1, NotPaired
  <2>3. \A t \in Slots \ {r, c, n} : z.ev[t] = x.ev[t]
    BY <1>7, <1>11
  <2> QED
    BY <1>1, <2>2, <2>3, RestLinked
<1>14. z.ev[c] = y.ev[c] /\ z.ev[n] = y.ev[n] /\ z.ev[r] = Blank
  BY <1>2, <1>7, <1>11
<1>15. ~Server(z, r) /\ ~Server(z, c)
  BY <1>4, <1>14, BlankFields DEF Server, Made
<1>16. LinkedBut(z, {})
  BY <1>5, <1>13, <1>14, <1>15 DEF LinkedBut
<1> QED
  BY <1>1, <1>5, <1>6, <1>7, <1>11, <1>12, <1>14, <1>16 DEF Fine, z, d, e, c

\* Connecting again: the connection is as it was, but for the client's group and perhaps
\* the first bytes pending once more; or the server's slot is gone.
Kin(e, f) ==
  /\ f.recv = e.recv /\ f.sq = e.sq /\ f.fed = e.fed /\ f.dp # 0
  /\ f.buff = e.buff \/ (e.sq > 0 /\ f.buff = [base |-> 0, lo |-> 0, hi |-> e.sq])
GaveUp(st, r, o) ==
  /\ o.ret = -1 /\ Held(st, o.st, r) /\ o.st.ev[r] = st.ev[r]
  /\ Kin(st.ev[st.ev[r].pair], o.st.ev[st.ev[r].pair])
Renewed(st, r, o) ==
  /\ o.ret = 0 /\ Good(o.st) /\ Fine(o.st) /\ o.st.status = st.status
  /\ ~o.st.ev[r].live /\ o.st.ev[st.ev[r].pair].live

LEMMA RetryHeld ==
  ASSUME NEW st, NEW r, Server(st, r), NEW x, Held(st, x, r), x.ev[r] = st.ev[r],
         Kin(st.ev[st.ev[r].pair], x.ev[st.ev[r].pair]), NEW o
  PROVE  /\ GaveUp(x, r, o) => GaveUp(st, r, o)
         /\ Renewed(x, r, o) => Renewed(st, r, o)
<1> DEFINE c == st.ev[r].pair
<1>1. x.ev[r].pair = c /\ x.status = st.status
  BY DEF Held, Keeps
<1>2. Held(x, o.st, r) => Held(st, o.st, r)
  BY HeldTwice
<1>3. Kin(x.ev[c], o.st.ev[c]) => Kin(st.ev[c], o.st.ev[c])
  <2> HIDE DEF c
  <2>1. Kin(st.ev[c], x.ev[c])
    BY DEF c
  <2> QED
    BY <2>1 DEF Kin
<1> QED
  BY <1>1, <1>2, <1>3 DEF GaveUp, Renewed

LEMMA ReconnectFine ==
  ASSUME NEW st, Good(st), Pool(st), NEW r, Server(st, r), LinkedBut(st, {r}),
         st.ev[st.ev[r].pair].dp # 0,
         st.ev[st.ev[r].pair].sq > 0 \/ st.ev[st.ev[r].pair].recv = 0,
         NEW o \in reconnect(st, r)
  PROVE  GaveUp(st, r, o) \/ Renewed(st, r, o)
<1> DEFINE c == st.ev[r].pair
           e == st.ev[c]
           b == IF e.sq > 0 THEN [base |-> 0, lo |-> 0, hi |-> e.sq] ELSE e.buff
           again == [e EXCEPT !.sent = FALSE, !.buff = b]
           x == Put(st, c, again)
           New(p) == del_event(Put(p.st, r, [p.st.ev[r] EXCEPT !.pair = NoSlot]), r)
<1>1. o \in {IF p.ret < 0 THEN p ELSE Out(New(p), 0) : p \in connect_hook(x, c)}
  BY DEF reconnect
<1>2. c \in Slots /\ r \in Slots /\ c # r /\ e.live
  BY ServerReach
<1>3. DOMAIN e = SlotFields /\ SlotOK(e) /\ e.dp # 0 /\ (e.sq > 0 \/ e.recv = 0)
  BY <1>2 DEF Good, Shape, Pool
<1> HIDE DEF c, e
<1>4. /\ b \in Buffs /\ b.hi <= e.recv /\ (b = e.buff \/ e.sq > 0)
      /\ \/ b = NoBuf /\ e.recv = 0
         \/ b # NoBuf /\ b.lo = 0 /\ b.hi = e.recv
  <2>1. CASE e.sq > 0
    BY <1>3, <2>1 DEF SlotOK, Buffs, NoBuf
  <2>2. CASE ~(e.sq > 0)
    <3>1. b = e.buff /\ e.recv = 0 /\ b \in Buffs /\ b.hi <= 0
      BY <1>3, <2>2 DEF SlotOK
    <3>2. b = NoBuf
      BY <3>1 DEF Buffs, NoBuf
    <3> QED
      BY <3>1, <3>2
  <2> QED
    BY <2>1, <2>2
<1>5. e.sq > 0 => b = [base |-> 0, lo |-> 0, hi |-> e.sq]
  OBVIOUS
<1> HIDE DEF b
<1>6. /\ DOMAIN again = SlotFields /\ again.buff = b
      /\ again.live = e.live /\ again.flag = e.flag /\ again.cb = e.cb /\ again.pair = e.pair
      /\ again.timer = e.timer /\ again.sq = e.sq /\ again.recv = e.recv
      /\ again.peer = e.peer /\ again.got = e.got /\ again.stream = e.stream
      /\ again.fed = e.fed /\ again.dp = e.dp /\ again.mask = e.mask
  BY <1>3 DEF SlotFields
<1> HIDE DEF again
<1>7. SlotOK(again) /\ SameSlot(e, again)
  <2>1. GroupOK(again)
    BY <1>3, <1>6 DEF SlotOK, GroupOK
  <2>2. e.cb = "on_request" => b = NoBuf
    BY <1>3, <1>4, <1>6 DEF SlotOK
  <2>3. SameSlot(e, again)
    BY <1>6 DEF SameSlot
  <2> QED
    BY <1>2, <1>3, <1>4, <1>6, <2>1, <2>2, <2>3 DEF SlotOK
<1>8. Held(st, x, r) /\ x.ev[c] = again /\ x.ev[r] = st.ev[r]
  <2>1. Held(st, x, r)
    BY <1>2, <1>6, <1>7, HeldPut DEF e, c
  <2>2. x.ev[c] = again /\ x.ev[r] = st.ev[r]
    BY <1>2, <1>6, PutIs DEF c, Good
  <2> QED
    BY <2>1, <2>2
<1> HIDE DEF x
<1>9. Kin(e, again) /\ Fresh(again)
  BY <1>3, <1>4, <1>5, <1>6 DEF Kin, Fresh, SlotOK
<1>10. Good(x) /\ Server(x, r) /\ LinkedBut(x, {r}) /\ x.ev[r].pair = c /\ Pool(x)
       /\ x.ev[c].live
  BY <1>2, <1>6, <1>8, HeldLinks DEF c, Held
<1> HIDE DEF New
<1>11. PICK p \in connect_hook(x, c) : o = IF p.ret < 0 THEN p ELSE Out(New(p), 0)
  BY <1>1
<1>12. CASE p.ret = -1 /\ p.st = x
  BY <1>8, <1>9, <1>11, <1>12 DEF GaveUp, e, c
<1>13. ASSUME NEW f, Alike(again, f), GroupOK(f), f.dp # 0,
              \/ p.ret = -1 /\ p.st = Put(x, c, f)
              \/ p.ret = 0 /\ \E n \in Slots : Created(Put(x, c, f), p.st, c, n)
       PROVE  GaveUp(x, r, o) \/ Renewed(x, r, o)
  <2> DEFINE y == Put(x, c, f)
  <2>1. SlotOK(f) /\ SameSlot(again, f) /\ DOMAIN f = SlotFields
    BY <1>2, <1>6, <1>7, <1>13, AlikeOK DEF Alike
  <2>2. Held(x, y, r) /\ y.ev[c] = f /\ y.ev[r] = x.ev[r]
    BY <1>2, <1>8, <1>10, <2>1, HeldPut, PutIs DEF Good
  <2>3. Kin(again, f) /\ Fresh(f)
    BY <1>9, <1>13 DEF Kin, Fresh, Alike
  <2> HIDE DEF y
  <2>4. CASE p.ret = -1 /\ p.st = y
    BY <1>8, <1>10, <1>11, <2>2, <2>3, <2>4 DEF GaveUp
  <2>5. CASE p.ret = 0 /\ \E n \in Slots : Created(y, p.st, c, n)
    <3>1. o.ret = 0 /\ o.st = New(p)
      BY <1>11, <2>5 DEF Out
    <3>2. /\ Good(New(p)) /\ Fine(New(p)) /\ ~New(p).ev[r].live /\ New(p).ev[c].live
          /\ New(p).status = x.status
      BY <1>10, <2>2, <2>3, <2>5, ReplacedFine DEF New
    <3> QED
      BY <1>10, <3>1, <3>2 DEF Renewed
  <2> QED
    BY <1>13, <2>4, <2>5 DEF y
<1>14. \/ p.ret = -1 /\ p.st = x
       \/ \E f : /\ Alike(again, f) /\ GroupOK(f) /\ f.dp # 0
                 /\ \/ p.ret = -1 /\ p.st = Put(x, c, f)
                    \/ p.ret = 0 /\ \E n \in Slots : Created(Put(x, c, f), p.st, c, n)
  BY <1>2, <1>8, <1>10, <1>11, ConnectHookIs DEF Good
<1>15. CASE GaveUp(x, r, o) \/ Renewed(x, r, o)
  <2>1. Kin(st.ev[st.ev[r].pair], x.ev[st.ev[r].pair])
    BY <1>8, <1>9 DEF e, c
  <2> QED
    BY <1>8, <1>15, <2>1, RetryHeld
<1> QED
  BY <1>12, <1>13, <1>14, <1>15
-----------------------------------------------------------------------------
(* What counts as a failure.                                               *)

LEMMA HeldCache ==
  ASSUME NEW st, NEW r, NEW x, Held(st, x, r), NEW v, CacheOK([x EXCEPT !.cache = v])
  PROVE  Held(st, [x EXCEPT !.cache = v], r) /\ [x EXCEPT !.cache = v].ev = x.ev
<1> DEFINE y == [x EXCEPT !.cache = v]
<1>1. Shape(x)
  BY DEF Held, Same
<1>2. /\ DOMAIN y = DOMAIN x /\ y.ev = x.ev /\ y.touched = x.touched /\ y.batch = x.batch
      /\ y.status = x.status
  BY <1>1 DEF Shape
<1>3. Same(st, y)
  BY CacheSame DEF Held
<1> HIDE DEF y
<1>4. Pool(y)
  BY <1>2 DEF Held, Pool, y
<1>5. Keeps(st, y, {r, st.ev[r].pair})
  BY <1>2, <1>3 DEF Held, Keeps, Same
<1> QED
  BY <1>2, <1>3, <1>4, <1>5 DEF Held, y

LEMMA TriggerFine ==
  ASSUME NEW st, Good(st), Pool(st), NEW r, Server(st, r), LinkedBut(st, {r}),
         st.ev[st.ev[r].pair].dp # 0, NEW type, NEW alive,
         NEW o \in on_trigger(st, r, type, alive)
  PROVE  GaveUp(st, r, o) \/ (alive /\ Renewed(st, r, o))
<1> DEFINE c == st.ev[r].pair
           e == st.ev[c]
           can_reconn == alive /\ (e.sq > 0 \/ (e.recv = 0 /\ st.ev[r].recv = 0))
           g == NextGroup(e.mask \union {e.dp}, type)
           f == [e EXCEPT !.mask = g.mask, !.detect = type]
           noted == Put(st, c, f)
           none == [mask |-> {}, detect |-> {}, dp |-> 1]
           next == [mask |-> noted.cache.mask \union g.mask, detect |-> type, dp |-> g.dp]
           reset == [noted EXCEPT !.cache = none]
           saved == [noted EXCEPT !.cache = next]
<1>1. o \in IF g.dp = 0 THEN Fail(reset)
            ELSE IF can_reconn THEN reconnect(saved, r) ELSE Fail(saved)
  BY DEF on_trigger
<1>2. c \in Slots /\ r \in Slots /\ c # r /\ e.live
  BY ServerReach
<1>3. DOMAIN e = SlotFields /\ SlotOK(e) /\ GroupOK(e) /\ e.dp # 0
  BY <1>2 DEF Good, Shape, Pool, SlotOK
<1> HIDE DEF c, e
<1>4. /\ g.dp \in 0..NGroups /\ g.mask \subseteq Groups
      /\ Uniform => \/ g.dp = 0 /\ g.mask = Groups
                    \/ /\ g.dp = e.dp + 1 /\ g.mask = 1..e.dp
                       /\ Detect[NGroups] \intersect type # {}
  BY <1>3, NextGroupOK
<1>5. g = NextGroup(e.mask \union {e.dp}, type)
  OBVIOUS
<1> HIDE DEF g
<1>6. Alike(e, f) /\ f.dp = e.dp /\ f.mask = g.mask
  BY <1>3 DEF Alike, SlotFields
<1> HIDE DEF f
<1>7. GroupOK(f)
  BY <1>3, <1>4, <1>6 DEF GroupOK
<1>8. SlotOK(f) /\ SameSlot(e, f) /\ DOMAIN f = SlotFields
  BY <1>2, <1>3, <1>6, <1>7, AlikeOK DEF Alike
<1>9. /\ Held(st, noted, r) /\ noted.ev[c] = f /\ noted.ev[r] = st.ev[r]
      /\ noted.cache = st.cache
  <2>1. Held(st, noted, r)
    BY <1>2, <1>8, HeldPut DEF e, c
  <2>2. noted.ev[c] = f /\ noted.ev[r] = st.ev[r]
    BY <1>2, <1>8, PutIs DEF Good
  <2>3. noted.cache = st.cache
    BY DEF Put, Good, Shape
  <2> QED
    BY <2>1, <2>2, <2>3
<1>10. DOMAIN noted = {"ev", "touched", "batch", "cache", "status"}
  BY <1>9 DEF Held, Same, Shape
<1> HIDE DEF noted
<1>11. Kin(e, f)
  BY <1>3, <1>6 DEF Kin, Alike
<1>12. Held(st, reset, r) /\ reset.ev = noted.ev
  <2>1. reset.cache = none
    BY <1>10
  <2>2. CacheOK(reset)
    BY <2>1, CacheReset
  <2> HIDE DEF none
  <2> QED
    BY <1>9, <2>2, HeldCache
<1>13. g.dp # 0 => Held(st, saved, r) /\ saved.ev = noted.ev
  <2>1. saved.cache = [mask |-> st.cache.mask \union g.mask, detect |-> type, dp |-> g.dp]
    BY <1>9, <1>10
  <2> HIDE DEF next, saved
  <2>2. g.dp # 0 => CacheOK(saved)
    BY <1>3, <1>5, <2>1, CacheNext DEF Pool
  <2> QED
    BY <1>9, <2>2, HeldCache DEF saved
<1> HIDE DEF reset, saved
<1>14. CASE o \in Fail(reset) \/ (g.dp # 0 /\ o \in Fail(saved))
  BY <1>9, <1>11, <1>12, <1>13, <1>14 DEF Fail, Out, GaveUp, c, e
<1>15. CASE g.dp # 0 /\ alive /\ can_reconn /\ o \in reconnect(saved, r)
  <2>1. Held(st, saved, r) /\ saved.ev[c] = f /\ saved.ev[r] = st.ev[r]
    BY <1>9, <1>13, <1>15
  <2>2. Good(saved) /\ Server(saved, r) /\ LinkedBut(saved, {r}) /\ saved.ev[r].pair = c
        /\ Pool(saved)
    BY <2>1, HeldLinks DEF c, Held
  <2>3. f.dp # 0 /\ (f.sq > 0 \/ f.recv = 0)
    BY <1>3, <1>6, <1>15 DEF Alike
  <2>4. GaveUp(saved, r, o) \/ Renewed(saved, r, o)
    BY <1>15, <2>1, <2>2, <2>3, ReconnectFine
  <2>5. Kin(st.ev[st.ev[r].pair], saved.ev[st.ev[r].pair])
    BY <1>11, <2>1 DEF c, e
  <2> QED
    BY <1>15, <2>1, <2>4, <2>5, RetryHeld
<1> QED
  BY <1>1, <1>14, <1>15 DEF can_reconn

LEMMA FailGaveUp ==
  ASSUME NEW st, Shape(st), Pool(st), NEW r, st.ev[st.ev[r].pair].dp # 0, NEW o \in Fail(st)
  PROVE  GaveUp(st, r, o)
<1>1. Held(st, st, r)
  BY SameIsSame DEF Held, Keeps
<1> QED
  BY <1>1 DEF GaveUp, Kin, Fail, Out

\* on_fin, handle_err: from the client's side there is no other connection.
LEMMA FinFine ==
  ASSUME NEW st, Good(st), Pool(st), NEW r, Server(st, r), LinkedBut(st, {r}),
         st.ev[st.ev[r].pair].dp # 0, NEW s \in {r, st.ev[r].pair}, NEW o \in on_fin(st, s)
  PROVE  GaveUp(st, r, o) \/ (s = r /\ Renewed(st, r, o))
<1> DEFINE c == st.ev[r].pair
           client == st.ev[s].flag # "conn"
           d == IF client THEN st.ev[s].pair ELSE s
           type == {"tls_err"}
<1>1. o \in Fail(st) \/ o \in on_trigger(st, d, type, ~client)
  BY DEF on_fin
<1>2. d = r /\ (~client => s = r)
  BY ServerReach DEF Server
<1> HIDE DEF d, client, type
<1>3. CASE o \in Fail(st)
  BY <1>3, FailGaveUp DEF Good
<1>4. CASE o \in on_trigger(st, d, type, ~client)
  BY <1>2, <1>4, TriggerFine
<1> QED
  BY <1>1, <1>3, <1>4

LEMMA ErrFine ==
  ASSUME NEW st, Good(st), Pool(st), NEW r, Server(st, r), LinkedBut(st, {r}),
         st.ev[st.ev[r].pair].dp # 0, NEW s \in {r, st.ev[r].pair}, NEW o \in handle_err(st, s)
  PROVE  GaveUp(st, r, o) \/ (s = r /\ Renewed(st, r, o))
<1>1. CASE o \in Fail(st)
  BY <1>1, FailGaveUp DEF Good
<1>2. CASE o \in on_fin(st, s)
  BY <1>2, FinFine
<1>3. CASE st.ev[s].flag = "conn" /\ o \in on_torst(st, s)
  <2>1. s = r
    BY <1>3, ServerReach
  <2> QED
    BY <1>3, <2>1, TriggerFine DEF on_torst
<1> QED
  BY <1>1, <1>2, <1>3 DEF handle_err

LEMMA ResponseFine ==
  ASSUME NEW st, Good(st), Pool(st), NEW r, Server(st, r), LinkedBut(st, {r}),
         st.ev[st.ev[r].pair].dp # 0, NEW kind, NEW o \in on_response(st, r, kind)
  PROVE  GaveUp(st, r, o) \/ Renewed(st, r, o)
<1> DEFINE c == st.ev[r].pair
           e == st.ev[c]
           m == e.mask \union {e.dp}
           f == [e EXCEPT !.mask = m]
           x == Put(st, c, f)
<1>1. \/ o \in Fail(x)
      \/ \E type : o \in on_trigger(x, r, type, TRUE)
  BY DEF on_response
<1>2. c \in Slots /\ r \in Slots /\ c # r /\ e.live
  BY ServerReach
<1>3. DOMAIN e = SlotFields /\ SlotOK(e) /\ GroupOK(e) /\ e.dp # 0
  BY <1>2 DEF Good, Shape, Pool, SlotOK
<1> HIDE DEF c, e
<1>4. m \subseteq Groups /\ (Uniform => m \in {1..e.dp, Groups})
  <2>1. NGroups \in Nat /\ Groups = 1..NGroups /\ e.dp \in 1..NGroups /\ e.mask \subseteq Groups
    BY <1>3, GroupAssumption DEF GroupOK, Groups
  <2>2. 1..(e.dp - 1) \union {e.dp} = 1..e.dp /\ 1..e.dp \union {e.dp} = 1..e.dp
    BY <2>1
  <2>3. Uniform => e.mask \in {1..(e.dp - 1), 1..e.dp, Groups}
    BY <1>3 DEF GroupOK
  <2> QED
    BY <2>1, <2>2, <2>3
<1> HIDE DEF m
<1>5. Alike(e, f) /\ f.dp = e.dp /\ f.mask = m
  BY <1>3 DEF Alike, SlotFields
<1> HIDE DEF f
<1>6. GroupOK(f)
  BY <1>3, <1>4, <1>5 DEF GroupOK
<1>7. SlotOK(f) /\ SameSlot(e, f) /\ DOMAIN f = SlotFields
  BY <1>2, <1>3, <1>5, <1>6, AlikeOK DEF Alike
<1>8. Held(st, x, r)
  BY <1>2, <1>7, HeldPut DEF e, c
<1>9. x.ev[c] = f /\ x.ev[r] = st.ev[r]
  BY <1>2, <1>7, PutIs DEF Good
<1> HIDE DEF x
<1>10. Good(x) /\ Server(x, r) /\ LinkedBut(x, {r}) /\ x.ev[r].pair = c /\ Pool(x)
       /\ x.ev[c].dp # 0
  BY <1>3, <1>5, <1>8, <1>9, HeldLinks DEF c, Held
<1>11. Kin(st.ev[st.ev[r].pair], x.ev[st.ev[r].pair])
  BY <1>3, <1>5, <1>9 DEF Kin, Alike, c, e
<1>12. GaveUp(x, r, o) \/ Renewed(x, r, o)
  <2>1. CASE o \in Fail(x)
    BY <1>10, <2>1, FailGaveUp DEF Good
  <2>2. ASSUME NEW type, o \in on_trigger(x, r, type, TRUE)
        PROVE  GaveUp(x, r, o) \/ Renewed(x, r, o)
    BY <1>10, <2>2, TriggerFine
  <2> QED
    BY <1>1, <2>1, <2>2
<1> QED
  BY <1>8, <1>9, <1>11, <1>12, RetryHeld
-----------------------------------------------------------------------------
(* Sending.                                                                *)

\* A slot that has been sent to, or from.
Passed(e, f) ==
  /\ DOMAIN f = SlotFields
  /\ f.live = e.live /\ f.flag = e.flag /\ f.cb = e.cb /\ f.pair = e.pair
  /\ f.buff = e.buff /\ f.sq = e.sq /\ f.recv = e.recv /\ f.peer = e.peer /\ f.fed = e.fed
  /\ f.dp = e.dp /\ f.mask = e.mask

LEMMA PassedOK ==
  ASSUME NEW e, SlotOK(e), e.live, NEW f, Passed(e, f), f.got \in Nat, f.stream # "wrong"
  PROVE  SlotOK(f)
<1>1. GroupOK(f)
  BY DEF SlotOK, GroupOK, Passed
<1> QED
  BY <1>1 DEF SlotOK, Passed

\* What a slot counts is counted in natural numbers.
LEMMA SlotNumbers ==
  ASSUME NEW e, SlotOK(e)
  PROVE  /\ e.recv \in Nat /\ e.peer \in Nat /\ e.recv <= e.peer /\ e.sq \in Nat
         /\ e.got \in Nat /\ e.stream # "wrong"
BY DEF SlotOK

\* A slot past its request, of which more is read, saved or dropped from the saved request.
LEMMA ReadOK ==
  ASSUME NEW e, SlotOK(e), e.live, e.cb # "on_request",
         NEW f, f.live = e.live, f.flag = e.flag, f.cb = e.cb, f.buff = e.buff,
         f.got = e.got, f.stream = e.stream, f.peer = e.peer, f.dp = e.dp, f.mask = e.mask,
         f.recv \in {e.recv, e.peer}, f.sq \in Nat,
         f.sq > 0 => f.sq = f.recv /\ f.sq < SqSize /\ auto_reconnect /\ f.flag # "conn",
         f.fed = "yes" => f.sq = 0 /\ f.recv > 0 /\ f.cb = "on_tunnel"
  PROVE  SlotOK(f)
<1>1. GroupOK(f)
  BY DEF SlotOK, GroupOK
<1>2. f.recv \in Nat /\ f.recv <= f.peer /\ e.recv <= f.recv /\ e.recv \in Nat
  BY SlotNumbers
<1>3. f.buff \in Buffs /\ f.buff.hi <= f.recv
  <2>1. e.buff \in Buffs /\ e.buff.hi <= e.recv
    BY DEF SlotOK
  <2>2. e.buff.hi \in Nat
    BY <2>1 DEF Buffs
  <2> QED
    BY <1>2, <2>1, <2>2
<1>4. f.peer \in Nat /\ f.got \in Nat /\ f.stream # "wrong"
  BY SlotNumbers
<1> QED
  BY <1>1, <1>2, <1>3, <1>4 DEF SlotOK

\* The server that has the first lo segments gets the next ones.
LEMMA ReceivedOK ==
  ASSUME NEW e, DOMAIN e = SlotFields, e.got \in Nat, e.stream # "wrong",
         NEW lo \in Nat, NEW k \in Nat, NEW all \in Nat, k <= all,
         e.stream = "whole" => e.got = lo
  PROVE  LET f == Received(e, lo, k, all)
         IN  /\ Passed(e, f) /\ f.timer = e.timer /\ f.full = e.full
             /\ f.got \in Nat /\ f.stream # "wrong"
             /\ f.stream = "whole" => f.got = lo + all
<1> DEFINE f == Received(e, lo, k, all)
           lost == [e EXCEPT !.stream = "lost", !.got = 0]
           more == [e EXCEPT !.got = @ + k]
<1>1. f = IF e.stream # "whole" THEN e ELSE IF k < all THEN lost ELSE more
  BY DEF Received, Damaged
<1>2. Passed(e, e)
  BY DEF Passed
<1>3. /\ Passed(e, lost) /\ lost.timer = e.timer /\ lost.full = e.full /\ lost.got = 0
      /\ lost.stream = "lost"
  BY DEF Passed, SlotFields
<1>4. /\ Passed(e, more) /\ more.timer = e.timer /\ more.full = e.full /\ more.got = e.got + k
      /\ more.stream = e.stream
  BY DEF Passed, SlotFields
<1> HIDE DEF f, lost, more
<1>5. CASE e.stream # "whole"
  BY <1>1, <1>2, <1>5 DEF f
<1>6. CASE e.stream = "whole" /\ k < all
  BY <1>1, <1>3, <1>6 DEF f
<1>7. CASE e.stream = "whole" /\ ~(k < all)
  <2>1. k = all /\ e.got = lo
    BY <1>7
  <2> QED
    BY <1>1, <1>4, <1>7, <2>1 DEF f
<1> QED
  BY <1>5, <1>6, <1>7

\* What a send() leaves of the connection of the server r.  When the bytes b went to the
\* server, it has those up to where the sender believes it is.
SentTo(st, x, r, d, b, ret) ==
  LET c == st.ev[r].pair
  IN  /\ Held(st, x, r)
      /\ \A t \in {r, c} : x.ev[t].buff = st.ev[t].buff /\ x.ev[t].recv = st.ev[t].recv
      /\ x.ev[c].dp # 0
      /\ d = r => (x.ev[r].stream = "whole" => x.ev[r].got = b.lo + ret)
      /\ d = c => x.ev[r].stream = st.ev[r].stream /\ x.ev[r].got = st.ev[r].got

\* Nothing but a server's timer is set.
LEMMA SendsFine ==
  ASSUME NEW st, Good(st), Pool(st), NEW r, Server(st, r), st.ev[st.ev[r].pair].dp # 0,
         NEW s \in {r, st.ev[r].pair}, NEW d \in {r, st.ev[r].pair}, s # d, Tunnel(st, d),
         NEW b \in Buffs, d = r /\ st.ev[r].stream = "whole" => st.ev[r].got = b.lo,
         NEW w \in Sends(st, s, d, b)
  PROVE  w.ret \in 0..(b.hi - b.lo) /\ SentTo(st, w.st, r, d, b, w.ret)
<1> DEFINE c == st.ev[r].pair
           m == b.hi - b.lo
           es(all) == [st.ev[s] EXCEPT !.sent = @ \/ all > 0]
           Taker(k, all) == IF st.ev[d].flag = "conn" THEN Received(st.ev[d], b.lo, k, all)
                                                      ELSE st.ev[d]
           ed(k, all, wait) == [Taker(k, all) EXCEPT !.full = @ \/ (k < m /\ ~wait),
                                                     !.timer = @ \/ wait]
           Handed(k, all, wait) == Put(Put(st, s, es(all)), d, ed(k, all, wait))
           Give(k, all, wait) == Sent(Handed(k, all, wait), all, wait)
           takes == IF st.ev[d].full THEN {0} ELSE 0..m
           desync == st.ev[d].flag = "conn" /\ st.ev[s].round <= 1
<1>1. Sends(st, s, d, b) =
        {Give(k, k, FALSE) : k \in takes} \union
        (IF desync THEN {Give(k, k, TRUE) : k \in takes}
                          \union {Give(k, m, FALSE) : k \in takes \ {0}}
         ELSE {})
  BY DEF Sends, Put
<1>2. b.lo \in Nat /\ b.hi \in Nat /\ m \in Nat /\ takes \subseteq 0..m
  BY DEF Buffs
<1> HIDE DEF takes, Give, m
<1>3. \E k \in takes : \/ w = Give(k, k, FALSE)
                       \/ desync /\ w = Give(k, k, TRUE)
                       \/ w = Give(k, m, FALSE)
  BY <1>1
<1>4. \E k \in 0..m : \E all \in 0..m : \E wait \in BOOLEAN :
        k <= all /\ (wait => st.ev[d].flag = "conn") /\ w = Give(k, all, wait)
  <2>1. PICK k \in takes : \/ w = Give(k, k, FALSE)
                           \/ desync /\ w = Give(k, k, TRUE)
                           \/ w = Give(k, m, FALSE)
    BY <1>3
  <2>2. k \in 0..m /\ m \in 0..m /\ k <= m /\ k <= k
    BY <1>2, <2>1
  <2> HIDE DEF Give
  <2> QED
    BY <2>1, <2>2
<1>5. PICK k \in 0..m, all \in 0..m, wait \in BOOLEAN :
        k <= all /\ (wait => st.ev[d].flag = "conn") /\ w = Give(k, all, wait)
  BY <1>4
<1> DEFINE x == Put(st, s, es(all))  t == Taker(k, all)  e == ed(k, all, wait)
<1>6. w.st = Put(x, d, e) /\ w.ret = all
  BY <1>5 DEF Sent, Give
<1>7. /\ c \in Slots /\ r \in Slots /\ c # r /\ st.ev[c].live /\ st.ev[r].live
      /\ st.ev[c].flag # "conn" /\ st.ev[r].flag = "conn"
  BY ServerReach DEF Server
<1>8. s \in Slots /\ d \in Slots /\ {s, d} = {r, c} /\ st.ev[s].live /\ st.ev[d].live
      /\ (st.ev[d].flag = "conn" <=> d = r)
  BY <1>7
<1> HIDE DEF c
<1>9. SlotOK(st.ev[s]) /\ SlotOK(st.ev[d]) /\ Shape(st)
      /\ DOMAIN st.ev[s] = SlotFields /\ DOMAIN st.ev[d] = SlotFields
  BY <1>8 DEF Pool, Good, Shape
<1>10. /\ Passed(st.ev[s], es(all)) /\ es(all).timer = st.ev[s].timer
       /\ es(all).got = st.ev[s].got /\ es(all).stream = st.ev[s].stream
  BY <1>9 DEF Passed, SlotFields
<1> HIDE DEF es
<1>11. SlotOK(es(all)) /\ SameSlot(st.ev[s], es(all)) /\ DOMAIN es(all) = SlotFields
  <2>1. SlotOK(es(all))
    BY <1>8, <1>9, <1>10, PassedOK DEF SlotOK
  <2> QED
    BY <1>10, <2>1 DEF SameSlot, Passed
<1>12. Held(st, x, r)
  BY <1>11, HeldPut
<1>13. x.ev[s] = es(all) /\ x.ev[d] = st.ev[d]
  BY <1>8, <1>9, <1>11, PutIs
<1> HIDE DEF x
<1>14. /\ Passed(st.ev[d], t) /\ t.timer = st.ev[d].timer
       /\ t.got \in Nat /\ t.stream # "wrong"
       /\ d = r => (t.stream = "whole" => t.got = b.lo + all)
       /\ d # r => t.got = st.ev[d].got /\ t.stream = st.ev[d].stream
  <2>1. CASE d = r
    <3>1. t = Received(st.ev[d], b.lo, k, all)
      BY <1>8, <2>1
    <3>2. k \in Nat /\ all \in Nat /\ k <= all
      BY <1>2, <1>5
    <3>3. /\ st.ev[d].got \in Nat /\ st.ev[d].stream # "wrong"
          /\ st.ev[d].stream = "whole" => st.ev[d].got = b.lo
      BY <1>9, <2>1 DEF SlotOK
    <3> HIDE DEF t, Taker
    <3> QED
      BY <1>2, <1>9, <2>1, <3>1, <3>2, <3>3, ReceivedOK
  <2>2. CASE d # r
    <3>1. t = st.ev[d]
      BY <1>8, <2>2
    <3> HIDE DEF t, Taker
    <3> QED
      BY <1>9, <2>2, <3>1 DEF Passed, SlotOK
  <2> QED
    BY <2>1, <2>2
<1>15. /\ Passed(t, e) /\ e.got = t.got /\ e.stream = t.stream /\ (e.timer => t.timer \/ wait)
  <2>1. DOMAIN t = SlotFields
    BY <1>14 DEF Passed
  <2> HIDE DEF t, Taker
  <2>2. e = [t EXCEPT !.full = @ \/ (k < m /\ ~wait), !.timer = @ \/ wait]
    BY DEF t
  <2> HIDE DEF e
  <2> QED
    BY <2>1, <2>2 DEF Passed, SlotFields
<1> HIDE DEF e, t
<1>16. Passed(st.ev[d], e)
  BY <1>14, <1>15 DEF Passed
<1>17. SlotOK(e) /\ SameSlot(x.ev[d], e) /\ DOMAIN e = SlotFields
  <2>1. SlotOK(e)
    BY <1>8, <1>9, <1>14, <1>15, <1>16, PassedOK
  <2>2. SameSlot(st.ev[d], e)
    BY <1>5, <1>14, <1>15, <1>16 DEF SameSlot, Passed, Tunnel
  <2> QED
    BY <1>13, <1>16, <2>1, <2>2 DEF Passed
<1>18. Good(x) /\ Pool(x) /\ Server(x, r) /\ x.ev[r].pair = c
  BY <1>12, KeepSame, ServerAfter DEF Held, c
<1>19. Held(x, w.st, r)
  BY <1>6, <1>8, <1>17, <1>18, HeldPut
<1>20. Held(st, w.st, r)
  BY <1>12, <1>19, HeldTwice
<1>21. w.st.ev[d] = e /\ w.st.ev[s] = es(all)
  BY <1>6, <1>8, <1>13, <1>17, <1>18, PutIs DEF Good
<1>22. \A y \in {r, c} : /\ w.st.ev[y].buff = st.ev[y].buff /\ w.st.ev[y].recv = st.ev[y].recv
                         /\ w.st.ev[y].dp = st.ev[y].dp
  BY <1>8, <1>10, <1>16, <1>21 DEF Passed
<1>23. d = c => w.st.ev[r].stream = st.ev[r].stream /\ w.st.ev[r].got = st.ev[r].got
  BY <1>7, <1>8, <1>10, <1>21
<1>24. d = r => (w.st.ev[r].stream = "whole" => w.st.ev[r].got = b.lo + w.ret)
  BY <1>6, <1>14, <1>15, <1>21
<1> QED
  BY <1>5, <1>6, <1>20, <1>22, <1>23, <1>24 DEF SentTo, c, m

LEMMA GroupedAlike ==
  ASSUME NEW e, DOMAIN e = SlotFields
  PROVE  Alike(e, Grouped(e))
BY DEF Alike, Grouped, SlotFields

\* tcp_send_hook: it fails, or it sends, or the server is replaced.
LEMMA SendHookFine ==
  ASSUME NEW st, Good(st), Pool(st), NEW r, Server(st, r), LinkedBut(st, {r}),
         st.ev[st.ev[r].pair].dp # 0,
         NEW s \in {r, st.ev[r].pair}, NEW d \in {r, st.ev[r].pair}, s # d, Tunnel(st, d),
         NEW b \in Buffs, d = r /\ st.ev[r].stream = "whole" => st.ev[r].got = b.lo,
         NEW w \in tcp_send_hook(st, s, d, b)
  PROVE  \/ w.ret = -1 /\ Held(st, w.st, r)
         \/ w.ret \in 0..(b.hi - b.lo) /\ SentTo(st, w.st, r, d, b, w.ret)
         \/ d = r /\ Renewed(st, r, w)
<1> DEFINE c == st.ev[r].pair
           first == st.ev[d].flag = "conn" /\ st.ev[s].recv = b.hi - b.base
           x == IF first THEN setup_conn(st, s) ELSE st
<1>1. \/ w.st = x /\ w.ret = -1
      \/ /\ first => x.ev[s].dp # 0
         /\ \/ w \in Sends(x, s, d, b)
            \/ \E o \in handle_err(x, d) : w.st = o.st /\ w.ret = o.ret
            \/ b.hi = b.lo /\ w.st = x /\ w.ret = 0
  BY DEF tcp_send_hook, Sent
<1>2. /\ c \in Slots /\ r \in Slots /\ c # r /\ st.ev[c].live /\ st.ev[r].live
      /\ st.ev[c].flag # "conn" /\ st.ev[r].flag = "conn"
  BY ServerReach DEF Server
<1>3. first => d = r /\ s = c
  BY <1>2
<1> HIDE DEF c
<1>4. {s, d} = {r, c} /\ s \in Slots /\ d \in Slots
  BY <1>2 DEF c
<1>5. Held(st, x, r) /\ x.ev[r] = st.ev[r] /\ (x = st \/ Alike(st.ev[c], x.ev[c]))
  <2>1. CASE first
    <3> DEFINE e == st.ev[c]  f == Grouped(e)
    <3>1. x = Put(st, c, f)
      BY <1>3, <2>1 DEF setup_conn
    <3>2. SlotOK(e) /\ DOMAIN e = SlotFields /\ e.live
      BY <1>2 DEF Pool, Good, Shape
    <3>3. Alike(e, f) /\ GroupOK(f)
      BY <3>2, GroupedAlike, GroupedOK DEF SlotOK
    <3> HIDE DEF f, e
    <3>4. SlotOK(f) /\ SameSlot(e, f) /\ DOMAIN f = SlotFields
      BY <3>2, <3>3, AlikeOK DEF Alike
    <3>5. Held(st, Put(st, c, f), r)
      BY <3>4, HeldPut DEF c, e
    <3>6. Put(st, c, f).ev[c] = f /\ Put(st, c, f).ev[r] = st.ev[r]
      BY <1>2, <3>4, PutIs DEF Good
    <3> QED
      BY <3>1, <3>3, <3>5, <3>6 DEF e
  <2>2. CASE ~first
    BY <2>2, SameIsSame DEF Held, Keeps, Good
  <2> QED
    BY <2>1, <2>2
<1>6. (first => x.ev[s].dp # 0) => x.ev[c].dp # 0
  BY <1>3 DEF c
<1> HIDE DEF x, first
<1>7. Good(x) /\ Pool(x) /\ Server(x, r) /\ LinkedBut(x, {r}) /\ x.ev[r].pair = c
      /\ x.status = st.status
  BY <1>5, HeldLinks DEF Held, c
<1>8. \A t \in {r, c} : x.ev[t].buff = st.ev[t].buff /\ x.ev[t].recv = st.ev[t].recv
  BY <1>5 DEF Alike
<1>9. Tunnel(x, d)
  BY <1>5, TunnelAfter DEF Held
<1>10. ASSUME NEW y, NEW ret, SentTo(x, y, r, d, b, ret)
       PROVE  SentTo(st, y, r, d, b, ret)
  <2>1. Held(st, y, r)
    BY <1>5, <1>10, HeldTwice DEF SentTo
  <2> QED
    BY <1>5, <1>7, <1>8, <1>10, <2>1 DEF SentTo, c
<1>11. CASE w.st = x /\ w.ret = -1
  BY <1>5, <1>11
<1>12. CASE x.ev[c].dp # 0 /\ w \in Sends(x, s, d, b)
  <2>1. w.ret \in 0..(b.hi - b.lo) /\ SentTo(x, w.st, r, d, b, w.ret)
    BY <1>4, <1>5, <1>7, <1>9, <1>12, SendsFine
  <2> QED
    BY <1>10, <2>1
<1>13. CASE x.ev[c].dp # 0 /\ \E o \in handle_err(x, d) : w.st = o.st /\ w.ret = o.ret
  <2>1. PICK o \in handle_err(x, d) : w.st = o.st /\ w.ret = o.ret
    BY <1>13
  <2>2. GaveUp(x, r, o) \/ (d = r /\ Renewed(x, r, o))
    BY <1>4, <1>7, <1>13, <2>1, ErrFine
  <2>3. CASE GaveUp(x, r, o)
    <3>1. w.ret = -1 /\ Held(x, w.st, r)
      BY <2>1, <2>3 DEF GaveUp
    <3> QED
      BY <1>5, <3>1, HeldTwice
  <2>4. CASE d = r /\ Renewed(x, r, o)
    BY <1>7, <2>1, <2>4 DEF Renewed, c
  <2> QED
    BY <2>2, <2>3, <2>4
<1>14. CASE x.ev[c].dp # 0 /\ b.hi = b.lo /\ w.st = x /\ w.ret = 0
  <2>1. b.lo \in Nat /\ b.hi - b.lo = 0
    BY <1>14 DEF Buffs
  <2>2. SentTo(st, x, r, d, b, 0)
    BY <1>5, <1>8, <1>14, <2>1 DEF SentTo, c
  <2> QED
    BY <1>14, <2>1, <2>2
<1> QED
  BY <1>1, <1>6, <1>11, <1>12, <1>13, <1>14
-----------------------------------------------------------------------------
(* Receiving.                                                              *)

\* The slot that was read, and the other one.
ReadIn(e, f) ==
  /\ DOMAIN f = SlotFields
  /\ f.live = e.live /\ f.flag = e.flag /\ f.cb = e.cb /\ f.pair = e.pair
  /\ f.timer = e.timer /\ f.buff = e.buff /\ f.sq = e.sq /\ f.recv = e.peer
  /\ f.peer = e.peer /\ f.got = e.got /\ f.stream = e.stream /\ f.fed = e.fed
  /\ f.dp = e.dp /\ f.mask = e.mask
Quiet(e, f) == Passed(e, f) /\ f.timer = e.timer /\ f.got = e.got /\ f.stream = e.stream

LEMMA NewRoundIs ==
  ASSUME NEW st, Good(st), NEW s, Tunnel(st, s)
  PROVE  LET x == NewRound(st, s)
             p == st.ev[s].pair
         IN  /\ Keeps(st, x, {s, p}) /\ x.cache = st.cache
             /\ ReadIn(st.ev[s], x.ev[s]) /\ Quiet(st.ev[p], x.ev[p])
<1> DEFINE e == st.ev[s]
           n == IF e.sent \/ e.round = 2 THEN e.round ELSE e.round + 1
           read == [e EXCEPT !.recv = e.peer, !.round = n]
           x == Put(st, s, read)
           p == e.pair
           h == [x.ev[p] EXCEPT !.sent = FALSE]
<1>1. NewRound(st, s) = IF e.sent THEN x ELSE Put(x, p, h)
  BY DEF NewRound, Put
<1>2. s \in Slots /\ p \in Slots /\ p # s /\ Shape(st)
  BY TunnelPair DEF Tunnel, Good
<1> HIDE DEF n, p
<1>3. ReadIn(e, read)
  BY <1>2 DEF ReadIn, SlotFields, Shape
<1>4. DOMAIN read = SlotFields
  BY <1>3 DEF ReadIn
<1> HIDE DEF read
<1>5. Keeps(st, x, {s}) /\ x.cache = st.cache /\ x.ev[s] = read
  BY <1>2, <1>4, PutKeeps
<1> HIDE DEF x
<1>6. x.ev[p] = st.ev[p] /\ Shape(x) /\ DOMAIN x.ev[p] = SlotFields
  BY <1>2, <1>5 DEF Keeps, Shape
<1>7. Quiet(st.ev[p], h) /\ Quiet(st.ev[p], x.ev[p])
  BY <1>6 DEF Quiet, Passed, SlotFields
<1>8. DOMAIN h = SlotFields
  BY <1>7 DEF Quiet, Passed
<1> HIDE DEF h
<1>9. CASE e.sent
  <2>1. Keeps(st, x, {s, p})
    BY <1>5, KeepsMore
  <2> QED
    BY <1>1, <1>3, <1>5, <1>7, <1>9, <2>1 DEF p
<1>10. CASE ~e.sent
  <2> DEFINE y == Put(x, p, h)
  <2>1. Keeps(x, y, {p}) /\ y.cache = x.cache /\ y.ev[p] = h
    BY <1>2, <1>6, <1>8, PutKeeps
  <2> HIDE DEF y
  <2>2. Keeps(st, y, {s, p}) /\ y.ev[s] = read
    <3>1. Keeps(st, y, {s} \union {p})
      BY <1>5, <2>1, KeepsTwice
    <3>2. {s} \union {p} = {s, p}
      OBVIOUS
    <3> QED
      BY <1>2, <1>5, <2>1, <3>1, <3>2 DEF Keeps
  <2> QED
    BY <1>1, <1>3, <1>5, <1>7, <1>10, <2>1, <2>2 DEF p, y
<1> QED
  BY <1>9, <1>10

\* tcp_recv_hook: n segments were read into an empty buffer of the slot v.  Those of the
\* client are the ones after what the server has.
Read(st, x, r, v, n) ==
  LET c == st.ev[r].pair
  IN  /\ n \in Nat /\ n > 0 /\ n <= x.ev[v].recv /\ Held(st, x, r) /\ x.ev[c].dp # 0
      /\ v = r => Linked(x.ev[c], x.ev[r])
      /\ v = c => /\ x.ev[c].buff = NoBuf
                  /\ x.ev[r].stream = "whole" => x.ev[r].got = x.ev[c].recv - n

\* The client's bytes: they are the ones after those that the server has.
LEMMA RecvClientFine ==
  ASSUME NEW st, Good(st), Fine(st), NEW r, Server(st, r),
         NEW c, c = st.ev[r].pair, Tunnel(st, c), st.ev[c].buff = NoBuf,
         NEW n, n = st.ev[c].peer - st.ev[c].recv, n > 0,
         NEW o \in RecvClient(NewRound(st, c), c, n)
  PROVE  Read(st, o.st, r, c, o.ret)
<1> DEFINE x == NewRound(st, c)
           e == st.ev[c]
           f == x.ev[c]
           save == auto_reconnect /\ (f.sq > 0 \/ f.recv = n)
           sum == IF f.sq + n >= SqSize THEN 0 ELSE f.sq + n
           g == [f EXCEPT !.sq = sum]
           y == Put(x, c, g)
<1>1. o.ret = n /\ o.st = IF save THEN y ELSE x
  <2>1. o \in RecvClient(x, c, n)
    OBVIOUS
  <2> HIDE DEF x
  <2>2. o = Out(IF save THEN y ELSE x, n)
    BY <2>1 DEF RecvClient
  <2> HIDE DEF save, y
  <2> QED
    BY <2>2 DEF Out
<1>2. c \in Slots /\ r \in Slots /\ c # r /\ st.ev[r].live /\ e.live /\ e.pair = r
      /\ e.flag # "conn"
  <2>1. /\ c \in Slots /\ r \in Slots /\ c # r /\ st.ev[c].live /\ st.ev[r].live
        /\ st.ev[c].flag # "conn" /\ st.ev[c].pair = r
    BY ServerReach
  <2> QED
    BY <2>1
<1>3. Keeps(st, x, {r, c}) /\ x.cache = st.cache /\ ReadIn(e, f) /\ Quiet(st.ev[r], x.ev[r])
  <2>1. /\ Keeps(st, x, {c, e.pair}) /\ x.cache = st.cache /\ ReadIn(e, f)
        /\ Quiet(st.ev[e.pair], x.ev[e.pair])
    BY NewRoundIs
  <2>2. {c, e.pair} = {r, c}
    BY <1>2
  <2> HIDE DEF x, f, e
  <2> QED
    BY <1>2, <2>1, <2>2
<1> HIDE DEF x
<1>4. SlotOK(e) /\ SlotOK(st.ev[r]) /\ Linked(e, st.ev[r]) /\ CacheOK(st)
  BY <1>2 DEF Fine, Pool, LinkedBut
<1>5. Shape(x) /\ DOMAIN f = SlotFields
  BY <1>3 DEF Keeps, ReadIn
<1>6. e.recv \in Nat /\ e.peer \in Nat /\ n \in Nat /\ n > 0 /\ e.peer = e.recv + n
      /\ e.sq \in Nat
  <2>1. e.recv \in Nat /\ e.peer \in Nat /\ e.sq \in Nat
    BY <1>4, SlotNumbers
  <2>2. n = e.peer - e.recv
    OBVIOUS
  <2> HIDE DEF e
  <2> QED
    BY <2>1, <2>2
<1> HIDE DEF e, f
<1>7. /\ DOMAIN g = SlotFields /\ g.sq = sum
      /\ g.live = f.live /\ g.flag = f.flag /\ g.cb = f.cb /\ g.pair = f.pair
      /\ g.timer = f.timer /\ g.buff = f.buff /\ g.recv = f.recv
      /\ g.peer = f.peer /\ g.got = f.got /\ g.stream = f.stream /\ g.fed = f.fed
      /\ g.dp = f.dp /\ g.mask = f.mask
  BY <1>5 DEF SlotFields
<1> DEFINE h == IF save THEN g ELSE f
<1>8. /\ DOMAIN h = SlotFields /\ h.sq = IF save THEN sum ELSE e.sq
      /\ h.live = e.live /\ h.flag = e.flag /\ h.cb = e.cb /\ h.pair = e.pair
      /\ h.timer = e.timer /\ h.buff = e.buff /\ h.recv = e.peer
      /\ h.peer = e.peer /\ h.got = e.got /\ h.stream = e.stream /\ h.fed = e.fed
      /\ h.dp = e.dp /\ h.mask = e.mask
  <2> HIDE DEF g, save, sum
  <2> QED
    BY <1>3, <1>5, <1>7 DEF ReadIn
<1>9. f.sq = e.sq /\ f.recv = e.peer
  BY <1>3 DEF ReadIn
<1> HIDE DEF g
<1>10. /\ h.sq \in Nat
       /\ h.sq > 0 => h.sq = h.recv /\ h.sq < SqSize /\ auto_reconnect
  <2>1. SqSize \in Nat
    BY BoundAssumption
  <2>2. CASE save
    <3>1. e.sq + n = e.peer
      <4>1. e.sq > 0 => e.sq = e.recv
        BY <1>4 DEF SlotOK
      <4>2. e.sq > 0 \/ e.peer = n
        BY <1>9, <2>2
      <4> HIDE DEF save, h
      <4> QED
        BY <1>6, <4>1, <4>2
    <3>2. h.sq = sum /\ sum = IF e.peer >= SqSize THEN 0 ELSE e.peer
      BY <1>8, <1>9, <2>2, <3>1
    <3>3. auto_reconnect /\ h.recv = e.peer
      BY <1>8, <2>2
    <3> HIDE DEF h, sum, save
    <3> QED
      BY <1>6, <2>1, <3>2, <3>3
  <2>3. CASE ~save
    <3>1. h.sq = e.sq
      BY <1>8, <2>3
    <3>2. e.sq = 0
      BY <1>4, <1>6, <1>9, <2>3 DEF SlotOK
    <3> HIDE DEF h, sum, save
    <3> QED
      BY <3>1, <3>2
  <2> QED
    BY <2>2, <2>3
<1> HIDE DEF h, save, sum
<1>11. SlotOK(h) /\ SameSlot(e, h)
  <2>1. SameSlot(e, h)
    BY <1>8 DEF SameSlot
  <2>2. e.cb # "on_request"
    BY DEF Tunnel, e
  <2>3. e.fed = "yes" => h.sq = 0
    <3>1. e.fed = "yes" => e.sq = 0 /\ e.recv > 0
      BY <1>4 DEF SlotOK
    <3>2. e.sq = 0 /\ e.recv > 0 => ~save
      BY <1>6, <1>9 DEF save
    <3> QED
      BY <1>8, <3>1, <3>2
  <2>4. h.fed = "yes" => h.sq = 0 /\ h.recv > 0 /\ h.cb = "on_tunnel"
    <3>1. e.fed = "yes" => e.cb = "on_tunnel"
      BY <1>4 DEF SlotOK
    <3> QED
      BY <1>6, <1>8, <2>3, <3>1
  <2>5. h.sq > 0 => h.sq = h.recv /\ h.sq < SqSize /\ auto_reconnect /\ h.flag # "conn"
    BY <1>2, <1>8, <1>10
  <2>6. SlotOK(h)
    BY <1>2, <1>4, <1>8, <1>10, <2>2, <2>4, <2>5, ReadOK
  <2> QED
    BY <2>1, <2>6
<1>12. Keeps(st, o.st, {r, c}) /\ o.st.ev[c] = h /\ o.st.ev[r] = x.ev[r] /\ o.st.cache = st.cache
  <2>1. CASE save
    <3>1. Keeps(x, y, {c}) /\ y.cache = x.cache /\ y.ev[c] = g
      BY <1>2, <1>5, <1>7, PutKeeps
    <3> HIDE DEF y
    <3>2. Keeps(st, y, {r, c} \union {c}) /\ {r, c} \union {c} = {r, c}
      BY <1>3, <3>1, KeepsTwice
    <3>3. y.ev[r] = x.ev[r]
      BY <1>2, <3>1 DEF Keeps
    <3> QED
      BY <1>1, <1>3, <2>1, <3>1, <3>2, <3>3 DEF h
  <2>2. CASE ~save
    BY <1>1, <1>3, <2>2 DEF h, f
  <2> QED
    BY <2>1, <2>2
<1>13. SlotOK(x.ev[r]) /\ SameSlot(st.ev[r], x.ev[r])
  <2>1. Passed(st.ev[r], x.ev[r]) /\ x.ev[r].got \in Nat /\ x.ev[r].stream # "wrong"
    BY <1>3, <1>4 DEF Quiet, SlotOK
  <2>2. SlotOK(x.ev[r])
    BY <1>2, <1>4, <2>1, PassedOK
  <2> QED
    BY <1>3, <2>2 DEF Quiet, Passed, SameSlot
<1>14. Pool(o.st)
  <2>1. CacheOK(o.st)
    BY <1>4, <1>12 DEF CacheOK
  <2>2. \A s \in {r, c} : SlotOK(o.st.ev[s])
    BY <1>11, <1>12, <1>13
  <2> QED
    BY <1>12, <2>1, <2>2, PoolKeeps DEF Fine
<1>15. Same(st, o.st)
  <2>1. \A s \in Slots \ {r, c} : o.st.ev[s] = st.ev[s]
    BY <1>12 DEF Keeps
  <2>2. \A s \in Slots : SameSlot(st.ev[s], o.st.ev[s])
    BY <1>11, <1>12, <1>13, <2>1 DEF SameSlot, e
  <2> QED
    BY <1>12, <2>2 DEF Same, Keeps
<1>16. o.st.ev[r].stream = "whole" => o.st.ev[r].got = e.recv
  BY <1>3, <1>4, <1>12 DEF Quiet, Linked, e
<1>17. e.dp # 0 /\ e.buff = NoBuf
  BY <1>4 DEF Linked, e
<1>18. Held(st, o.st, r)
  BY <1>12, <1>14, <1>15 DEF Held
<1>19. o.st.ev[c].recv = e.recv + n /\ o.st.ev[c].dp = e.dp /\ o.st.ev[c].buff = e.buff
  BY <1>6, <1>8, <1>12
<1>20. n <= o.st.ev[c].recv /\ e.recv = o.st.ev[c].recv - n
  BY <1>6, <1>19
<1>21. o.st.ev[c].dp # 0 /\ o.st.ev[c].buff = NoBuf
  BY <1>17, <1>19
<1>22. o.st.ev[r].stream = "whole" => o.st.ev[r].got = o.st.ev[c].recv - n
  BY <1>16, <1>20
<1> QED
  BY <1>1, <1>2, <1>6, <1>18, <1>20, <1>21, <1>22 DEF Read

\* The server's bytes are read.
LEMMA ServerReadFine ==
  ASSUME NEW st, Good(st), Fine(st), NEW r, Server(st, r), Tunnel(st, r)
  PROVE  LET x == NewRound(st, r)
         IN  /\ Held(st, x, r) /\ LinkedBut(x, {}) /\ x.ev[r].recv = st.ev[r].peer
<1> DEFINE x == NewRound(st, r)
           c == st.ev[r].pair
           e == st.ev[r]
           f == x.ev[r]
<1>1. c \in Slots /\ r \in Slots /\ c # r /\ e.live /\ st.ev[c].live /\ e.flag = "conn"
  BY ServerReach DEF Server
<1>2. Keeps(st, x, {r, c}) /\ x.cache = st.cache /\ ReadIn(e, f) /\ Quiet(st.ev[c], x.ev[c])
  BY NewRoundIs
<1>3. Same(st, x)
  BY NewRoundSame
<1> HIDE DEF x
<1>4. SlotOK(e) /\ SlotOK(st.ev[c]) /\ Linked(st.ev[c], e) /\ CacheOK(st)
      /\ e.cb = "on_tunnel"
  BY <1>1 DEF Fine, Pool, LinkedBut, Tunnel
<1> HIDE DEF c, e, f
<1>5. SlotOK(f)
  <2>1. GroupOK(f)
    BY <1>2, <1>4 DEF SlotOK, GroupOK, ReadIn
  <2>2. e.sq = 0 /\ e.buff.hi <= e.peer /\ (e.recv > 0 => e.peer > 0)
    BY <1>1, <1>4 DEF SlotOK, Buffs
  <2> QED
    BY <1>1, <1>2, <1>4, <2>1, <2>2 DEF SlotOK, ReadIn
<1>6. SlotOK(x.ev[c])
  <2>1. Passed(st.ev[c], x.ev[c]) /\ x.ev[c].got \in Nat /\ x.ev[c].stream # "wrong"
    BY <1>2, <1>4 DEF Quiet, SlotOK
  <2> QED
    BY <1>1, <1>4, <2>1, PassedOK
<1>7. Pool(x)
  <2>1. CacheOK(x) /\ \A s \in {r, c} : SlotOK(x.ev[s])
    BY <1>2, <1>4, <1>5, <1>6 DEF CacheOK, f
  <2> QED
    BY <1>2, <2>1, PoolKeeps DEF Fine
<1>8. Held(st, x, r)
  BY <1>2, <1>3, <1>7 DEF Held, c
<1>9. LinkedBut(st, {r})
  BY DEF Fine, LinkedBut
<1>10. LinkedBut(x, {r}) /\ x.ev[r].pair = c
  BY <1>8, <1>9, HeldLinks DEF c
<1>11. Linked(x.ev[c], f)
  BY <1>2, <1>4 DEF Linked, Quiet, Passed, ReadIn
<1>12. LinkedBut(x, {})
  BY <1>10, <1>11, AllLinked DEF f
<1> QED
  BY <1>2, <1>8, <1>12 DEF ReadIn, f, e, x

\* The answer goes to the client and its request is given up, whether or not a reconnect
\* failed before and left the request pending a second time.
Answered(e) ==
  [[e EXCEPT !.sq = 0] EXCEPT !.fed = IF e.recv = 0 THEN "first" ELSE "yes"]
Judged(e, again) == IF again THEN Damaged(e, "again") ELSE e
KeptOf(st, x, r, c) ==
  Put(Put(x, c, Answered(x.ev[c])), r, Judged(x.ev[r], x.ev[c].buff # st.ev[c].buff))

LEMMA KeptFine ==
  ASSUME NEW st, Good(st), Pool(st), NEW r, Server(st, r), Tunnel(st, r),
         NEW c, c = st.ev[r].pair, Linked(st.ev[c], st.ev[r]),
         NEW x, Held(st, x, r), x.ev[r] = st.ev[r], Kin(st.ev[c], x.ev[c])
  PROVE  LET y == KeptOf(st, x, r, c)
         IN  Held(st, y, r) /\ Linked(y.ev[c], y.ev[r]) /\ y.ev[r].recv = x.ev[r].recv
<1> DEFINE a == x.ev[c]  b == x.ev[r]
           again == a.buff # st.ev[c].buff
           e == Answered(a)  f == Judged(b, again)  z == Put(x, c, e)  y == Put(z, r, f)
<1>1. c \in Slots /\ r \in Slots /\ c # r /\ st.ev[c].live /\ Tunnel(st, c)
  BY ServerReach, TunnelPair
<1>2. Good(x) /\ Pool(x) /\ Server(x, r) /\ x.ev[r].pair = c /\ Shape(x)
  BY KeepSame, ServerAfter DEF Held, Good
<1>3. /\ SlotOK(a) /\ SlotOK(b) /\ DOMAIN a = SlotFields /\ DOMAIN b = SlotFields
      /\ a.live /\ b.live /\ a.cb = "on_tunnel" /\ SlotOK(st.ev[c])
  <2>1. SlotOK(a) /\ SlotOK(b) /\ DOMAIN a = SlotFields /\ DOMAIN b = SlotFields
    BY <1>1, <1>2 DEF Pool, Shape
  <2>2. a.live /\ b.live
    BY <1>2, ServerReach
  <2>3. a.cb = "on_tunnel" /\ SlotOK(st.ev[c])
    BY <1>1, TunnelAfter DEF Held, Tunnel, Pool
  <2> QED
    BY <2>1, <2>2, <2>3
<1>4. Kin(st.ev[c], a)
  OBVIOUS
<1> HIDE DEF a, b, e, f, z, y
<1>5. /\ DOMAIN e = SlotFields /\ e.sq = 0 /\ e.fed = IF a.recv = 0 THEN "first" ELSE "yes"
      /\ e.live = a.live /\ e.flag = a.flag /\ e.cb = a.cb /\ e.pair = a.pair
      /\ e.timer = a.timer /\ e.buff = a.buff /\ e.recv = a.recv
      /\ e.peer = a.peer /\ e.got = a.got /\ e.stream = a.stream
      /\ e.dp = a.dp /\ e.mask = a.mask
  <2> DEFINE v == IF a.recv = 0 THEN "first" ELSE "yes"
             a1 == [a EXCEPT !.sq = 0]
  <2>1. e = [a1 EXCEPT !.fed = v]
    BY DEF e, Answered
  <2> HIDE DEF v
  <2>2. DOMAIN a1 = SlotFields
    BY <1>3
  <2>3. /\ DOMAIN e = SlotFields /\ e.sq = 0 /\ e.fed = v
        /\ e.live = a.live /\ e.flag = a.flag /\ e.cb = a.cb /\ e.pair = a.pair
        /\ e.timer = a.timer /\ e.buff = a.buff /\ e.recv = a.recv
        /\ e.peer = a.peer /\ e.got = a.got /\ e.stream = a.stream
        /\ e.dp = a.dp /\ e.mask = a.mask
    BY <1>3, <2>1, <2>2 DEF SlotFields
  <2> QED
    BY <2>3 DEF v
<1>6. SlotOK(e) /\ SameSlot(a, e)
  <2>1. SameSlot(a, e)
    BY <1>5 DEF SameSlot
  <2>2. a.recv \in Nat
    BY <1>3, SlotNumbers
  <2>3. e.fed = "yes" => e.sq = 0 /\ e.recv > 0 /\ e.cb = "on_tunnel"
    BY <1>3, <1>5, <2>2
  <2>4. e.sq \in Nat /\ ~(e.sq > 0) /\ e.recv \in {a.recv, a.peer} /\ a.cb # "on_request"
    BY <1>3, <1>5
  <2>5. SlotOK(e)
    BY <1>3, <1>5, <2>3, <2>4, ReadOK
  <2> QED
    BY <2>1, <2>5
<1>7. /\ Passed(b, f) /\ f.timer = b.timer
      /\ again => f.stream = "again" /\ f.got = 0
      /\ ~again => f = b
  <2>1. f = IF again THEN [b EXCEPT !.stream = "again", !.got = 0] ELSE b
    BY DEF Damaged, Judged, f
  <2> HIDE DEF again
  <2>2. CASE again
    BY <1>3, <2>1, <2>2 DEF Passed, SlotFields
  <2>3. CASE ~again
    BY <1>3, <2>1, <2>3 DEF Passed
  <2> QED
    BY <2>2, <2>3
<1>8. SlotOK(f) /\ SameSlot(b, f) /\ DOMAIN f = SlotFields
  <2>1. f.got \in Nat /\ f.stream # "wrong"
    <3>1. b.got \in Nat /\ b.stream # "wrong"
      BY <1>3, SlotNumbers
    <3> QED
      BY <1>7, <3>1
  <2>2. SlotOK(f)
    BY <1>3, <1>7, <2>1, PassedOK
  <2> QED
    BY <1>7, <2>2 DEF SameSlot, Passed
<1>9. Held(x, z, r)
  BY <1>2, <1>5, <1>6, HeldPut DEF a, z
<1>10. z.ev[c] = e /\ z.ev[r] = b
  BY <1>1, <1>2, <1>5, PutIs DEF b, z
<1>11. y = Put(z, r, f)
  BY DEF y
<1>12. Good(z) /\ Pool(z) /\ Server(z, r) /\ z.ev[r].pair = c
  BY <1>2, <1>9, KeepSame, ServerAfter DEF Held
<1>13. Held(z, y, r)
  BY <1>8, <1>10, <1>11, <1>12, HeldPut
<1>14. y.ev[r] = f /\ y.ev[c] = e
  BY <1>1, <1>8, <1>10, <1>11, <1>12, PutIs DEF Good
<1>15. Held(st, y, r)
  <2>1. Held(x, y, r)
    BY <1>2, <1>9, <1>13, HeldTwice
  <2> QED
    BY <2>1, HeldTwice
<1>16. Linked(e, f)
  <2>1. CASE again
    <3>1. a.buff = [base |-> 0, lo |-> 0, hi |-> st.ev[c].sq] /\ st.ev[c].sq > 0
      BY <1>4, <2>1 DEF Kin
    <3>2. st.ev[c].sq = st.ev[c].recv /\ a.recv = st.ev[c].recv /\ a.dp # 0
      BY <1>3, <1>4, <3>1 DEF SlotOK, Kin
    <3>3. a.buff.hi = a.recv
      BY <3>1, <3>2
    <3>4. f.stream = "again"
      BY <1>7, <2>1
    <3> QED
      BY <1>5, <3>2, <3>3, <3>4 DEF Linked
  <2>2. CASE ~again
    <3>1. e.buff = st.ev[c].buff /\ e.recv = st.ev[c].recv /\ e.dp # 0 /\ f = st.ev[r]
      BY <1>4, <1>5, <1>7, <2>2 DEF Kin, b
    <3> QED
      BY <3>1 DEF Linked
  <2> QED
    BY <2>1, <2>2
<1>17. f.recv = b.recv
  BY <1>7 DEF Passed
<1> QED
  BY <1>14, <1>15, <1>16, <1>17 DEF KeptOf, y, z, f, e, again, a, b

LEMMA RecvServerFine ==
  ASSUME NEW st, Good(st), Pool(st), LinkedBut(st, {}), NEW r, Server(st, r), Tunnel(st, r),
         NEW n, NEW o \in RecvServer(st, r, n)
  PROVE  \/ /\ o.ret = n /\ Held(st, o.st, r) /\ o.st.ev[r].recv = st.ev[r].recv
            /\ Linked(o.st.ev[st.ev[r].pair], o.st.ev[r])
         \/ Renewed(st, r, o)
<1> DEFINE c == st.ev[r].pair
           Unsaved(x) == Put(x, c, [x.ev[c] EXCEPT !.sq = 0])
           Fed(x, z) == Put(z, c, [z.ev[c] EXCEPT
                                    !.fed = IF x.ev[c].recv = 0 THEN "first" ELSE "yes"])
           Told(x, z) == Put(z, r, Judged(x.ev[r], x.ev[c].buff # st.ev[c].buff))
           Kept(x) == Told(x, Fed(x, Unsaved(x)))
           Tried == UNION {on_response(st, r, kind) : kind \in {"good", "redirect", "tls_err"}}
<1>1. o \in IF st.ev[c].sq = 0 THEN {Out(Kept(st), n)}
            ELSE {IF p.ret = 0 THEN p ELSE Out(Kept(p.st), n) : p \in Tried}
  BY DEF RecvServer, Put, Judged
<1>2. r \in Slots /\ c \in Slots /\ r # c
  BY ServerReach
<1>3. Linked(st.ev[c], st.ev[r]) /\ st.ev[c].dp # 0 /\ Held(st, st, r) /\ LinkedBut(st, {r})
  BY <1>2, SameIsSame DEF LinkedBut, Linked, Held, Keeps, Good
<1> HIDE DEF c
<1>4. ASSUME NEW x, Shape(x) PROVE Kept(x) = KeptOf(st, x, r, c)
  <2> DEFINE e == [x.ev[c] EXCEPT !.sq = 0]
             y == Put(x, c, e)
             f == [y.ev[c] EXCEPT !.fed = IF x.ev[c].recv = 0 THEN "first" ELSE "yes"]
  <2>1. Fed(x, Unsaved(x)) = Put(y, c, f)
    OBVIOUS
  <2>2. DOMAIN e = SlotFields
    BY <1>2, <1>4 DEF Shape
  <2>3. y.ev[c] = e
    BY <1>2, <1>4, <2>2, PutIs
  <2>4. f = Answered(x.ev[c])
    BY <2>3 DEF Answered
  <2> HIDE DEF e, f
  <2>5. Put(y, c, f) = Put(x, c, f)
    BY <1>2, <1>4, PutTwice
  <2> QED
    BY <2>1, <2>4, <2>5 DEF KeptOf
<1> HIDE DEF Kept, Tried
<1>5. ASSUME NEW x, Held(st, x, r), x.ev[r] = st.ev[r], Kin(st.ev[c], x.ev[c]),
             o = Out(Kept(x), n)
      PROVE  /\ o.ret = n /\ Held(st, o.st, r) /\ o.st.ev[r].recv = st.ev[r].recv
             /\ Linked(o.st.ev[c], o.st.ev[r])
  <2> DEFINE y == KeptOf(st, x, r, c)
  <2>1. o.ret = n /\ o.st = y
    BY <1>4, <1>5 DEF Out, Held, Same
  <2>2. Held(st, y, r) /\ Linked(y.ev[c], y.ev[r]) /\ y.ev[r].recv = x.ev[r].recv
    BY <1>3, <1>5, KeptFine DEF c
  <2> HIDE DEF y
  <2> QED
    BY <1>5, <2>1, <2>2
<1>6. CASE o = Out(Kept(st), n)
  <2>1. Kin(st.ev[c], st.ev[c])
    BY <1>3 DEF Kin
  <2> QED
    BY <1>3, <1>5, <1>6, <2>1 DEF c
<1>7. CASE \E p \in Tried : o = IF p.ret = 0 THEN p ELSE Out(Kept(p.st), n)
  <2>1. PICK p \in Tried : o = IF p.ret = 0 THEN p ELSE Out(Kept(p.st), n)
    BY <1>7
  <2>2. GaveUp(st, r, p) \/ Renewed(st, r, p)
    BY <1>3, <2>1, ResponseFine DEF Tried, c
  <2>3. CASE Renewed(st, r, p)
    BY <2>1, <2>3 DEF Renewed
  <2>4. CASE GaveUp(st, r, p)
    <3>1. o = Out(Kept(p.st), n) /\ Held(st, p.st, r) /\ p.st.ev[r] = st.ev[r]
          /\ Kin(st.ev[c], p.st.ev[c])
      BY <2>1, <2>4 DEF GaveUp, c
    <3> QED
      BY <1>5, <3>1 DEF c
  <2> QED
    BY <2>2, <2>3, <2>4
<1> QED
  BY <1>1, <1>6, <1>7

LEMMA RecvHookFine ==
  ASSUME NEW st, Good(st), Fine(st), NEW r, Server(st, r), NEW v \in {r, st.ev[r].pair},
         Tunnel(st, v), st.ev[v].buff = NoBuf, NEW o \in tcp_recv_hook(st, v)
  PROVE  \/ o.ret = -1 /\ Held(st, o.st, r)
         \/ o.ret = 0 /\ o.st = st
         \/ v = r /\ Renewed(st, r, o)
         \/ Read(st, o.st, r, v, o.ret)
<1> DEFINE c == st.ev[r].pair
           e == st.ev[v]
           n == e.peer - e.recv
           x == NewRound(st, v)
<1>1. \/ n > 0 /\ e.flag = "conn" /\ o \in RecvServer(x, v, n)
      \/ n > 0 /\ e.flag # "conn" /\ o \in RecvClient(x, v, n)
      \/ o \in on_fin(st, v) \/ o \in handle_err(st, v) \/ o = Out(st, 0)
  BY DEF tcp_recv_hook
<1>2. c \in Slots /\ r \in Slots /\ c # r /\ (e.flag = "conn" <=> v = r)
  BY ServerReach DEF Server
<1>3. Pool(st) /\ LinkedBut(st, {}) /\ LinkedBut(st, {r}) /\ st.ev[c].dp # 0
  BY <1>2 DEF Fine, LinkedBut, Linked
<1>4. e.recv \in Nat /\ e.peer \in Nat /\ e.recv <= e.peer
  BY <1>2, <1>3 DEF Pool, SlotOK
<1> HIDE DEF c
<1>5. CASE n > 0 /\ e.flag = "conn" /\ o \in RecvServer(x, v, n)
  <2>1. v = r
    BY <1>2, <1>5
  <2>2. Held(st, x, r) /\ LinkedBut(x, {}) /\ x.ev[r].recv = e.peer
    BY <2>1, ServerReadFine
  <2> HIDE DEF x
  <2>3. Good(x) /\ Pool(x) /\ Server(x, r) /\ x.ev[r].pair = c /\ Tunnel(x, r)
        /\ x.status = st.status
    <3>1. Good(x) /\ Server(x, r) /\ x.ev[r].pair = c /\ x.status = st.status
      BY <1>3, <2>2, HeldLinks DEF c
    <3>2. Pool(x) /\ Tunnel(x, r)
      BY <2>1, <2>2, TunnelAfter DEF Held
    <3> QED
      BY <3>1, <3>2
  <2>4. \/ /\ o.ret = n /\ Held(x, o.st, r) /\ o.st.ev[r].recv = x.ev[r].recv
           /\ Linked(o.st.ev[c], o.st.ev[r])
        \/ Renewed(x, r, o)
    <3> HIDE DEF n
    <3> QED
      BY <1>5, <2>1, <2>2, <2>3, RecvServerFine
  <2>5. CASE Renewed(x, r, o)
    BY <2>1, <2>3, <2>5 DEF Renewed, c
  <2>6. CASE /\ o.ret = n /\ Held(x, o.st, r) /\ o.st.ev[r].recv = x.ev[r].recv
             /\ Linked(o.st.ev[c], o.st.ev[r])
    <3>1. Held(st, o.st, r)
      BY <2>2, <2>6, HeldTwice
    <3>2. n \in Nat /\ n <= e.peer
      BY <1>4, <1>5
    <3>3. o.st.ev[c].dp # 0
      BY <2>6 DEF Linked
    <3> QED
      BY <1>2, <1>5, <2>1, <2>2, <2>6, <3>1, <3>2, <3>3 DEF Read, c
  <2> QED
    BY <2>4, <2>5, <2>6
<1>6. CASE n > 0 /\ e.flag # "conn" /\ o \in RecvClient(x, v, n)
  <2>1. v = c
    BY <1>2, <1>6 DEF c
  <2>2. /\ c = st.ev[r].pair /\ Tunnel(st, c) /\ st.ev[c].buff = NoBuf
        /\ n = st.ev[c].peer - st.ev[c].recv /\ n > 0
        /\ o \in RecvClient(NewRound(st, c), c, n)
    BY <1>6, <2>1 DEF c
  <2> HIDE DEF n
  <2>3. Read(st, o.st, r, c, o.ret)
    BY <2>2, RecvClientFine
  <2> QED
    BY <2>1, <2>3
<1>7. CASE o \in on_fin(st, v) \/ o \in handle_err(st, v)
  <2>1. GaveUp(st, r, o) \/ (v = r /\ Renewed(st, r, o))
    BY <1>3, <1>7, FinFine, ErrFine DEF c
  <2> QED
    BY <2>1 DEF GaveUp
<1>8. CASE o = Out(st, 0)
  BY <1>8 DEF Out
<1> QED
  BY <1>1, <1>5, <1>6, <1>7, <1>8
-----------------------------------------------------------------------------
(* The callbacks.                                                          *)

\* A slot is changed where nothing here looks, or its peer sends something.
LEMMA MildFine ==
  ASSUME NEW st, Good(st), Fine(st), NEW s \in Slots, NEW e, DOMAIN e = SlotFields,
         SlotOK(e), SameSlot(st.ev[s], e), e.buff = st.ev[s].buff, e.recv = st.ev[s].recv,
         e.dp = st.ev[s].dp, e.got = st.ev[s].got, e.stream = st.ev[s].stream
  PROVE  LET x == Put(st, s, e)
         IN  Good(x) /\ Fine(x) /\ Same(st, x) /\ x.ev[s] = e
<1> DEFINE x == Put(st, s, e)
<1>1. Same(st, x) /\ Pool(x) /\ x.ev[s] = e /\ \A t \in Slots \ {s} : x.ev[t] = st.ev[t]
  BY PutSame, PoolPut, PutIs DEF Good, Fine
<1> HIDE DEF x
<1>2. Good(x)
  BY <1>1, KeepSame
<1>3. \A t \in Slots : /\ x.ev[t].buff = st.ev[t].buff /\ x.ev[t].recv = st.ev[t].recv
                       /\ x.ev[t].dp = st.ev[t].dp /\ x.ev[t].got = st.ev[t].got
                       /\ x.ev[t].stream = st.ev[t].stream
  BY <1>1
<1>4. ASSUME NEW r \in Slots, Server(x, r) PROVE Linked(x.ev[x.ev[r].pair], x.ev[r])
  <2>1. Server(st, r) /\ x.ev[r].pair = st.ev[r].pair
    BY <1>1, <1>4 DEF Same, SameSlot, Server
  <2>2. st.ev[r].pair \in Slots
    BY <2>1, ServerReach
  <2>3. Linked(st.ev[st.ev[r].pair], st.ev[r])
    BY <2>1 DEF Fine, LinkedBut
  <2> QED
    BY <1>3, <2>1, <2>2, <2>3 DEF Linked
<1> QED
  BY <1>1, <1>2, <1>4 DEF Fine, LinkedBut, x

\* mod_etype: what is watched does not matter, and an abort leaves nothing.
LEMMA ModFine ==
  ASSUME NEW st, Good(st), Fine(st), NEW s \in Slots, NEW want
  PROVE  LET x == mod_etype(st, s, want)
         IN  /\ Good(x) /\ Fine(x)
             /\ IF st.ev[s].live
                THEN Same(st, x) /\ \A t \in Slots : x.ev[t].buff = st.ev[t].buff
                ELSE x.status = "assert" /\ \A t \in Slots : ~x.ev[t].live
<1>1. CASE ~st.ev[s].live
  BY <1>1, EndedGood, EndedFine DEF mod_etype, Good, Fine, Pool
<1>2. CASE st.ev[s].live
  <2> DEFINE e == st.ev[s]
             f == [e EXCEPT !.want = want]
             x == Put(st, s, f)
  <2>1. DOMAIN e = SlotFields /\ SlotOK(e)
    BY DEF Good, Shape, Fine, Pool
  <2> HIDE DEF e
  <2>2. Passed(e, f) /\ f.timer = e.timer /\ f.got = e.got /\ f.stream = e.stream
    BY <2>1 DEF Passed, SlotFields
  <2> HIDE DEF f
  <2>3. SlotOK(f) /\ SameSlot(e, f) /\ DOMAIN f = SlotFields
    <3>1. f.got \in Nat /\ f.stream # "wrong"
      BY <2>1, <2>2 DEF SlotOK
    <3>2. SlotOK(f)
      BY <1>2, <2>1, <2>2, <3>1, PassedOK DEF e
    <3> QED
      BY <2>2, <3>2 DEF Passed, SameSlot
  <2>4. f.buff = e.buff /\ f.recv = e.recv /\ f.dp = e.dp
    BY <2>2 DEF Passed
  <2>5. Good(x) /\ Fine(x) /\ Same(st, x)
    BY <2>2, <2>3, <2>4, MildFine DEF e
  <2>6. \A t \in Slots : x.ev[t].buff = st.ev[t].buff
    <3>1. x.ev[s] = f /\ \A t \in Slots \ {s} : x.ev[t] = st.ev[t]
      BY <2>3, PutIs DEF Good
    <3> QED
      BY <2>4, <3>1 DEF e
  <2>7. mod_etype(st, s, want) = x
    BY <1>2 DEF mod_etype, f, e
  <2> QED
    BY <1>2, <2>5, <2>6, <2>7
<1> QED
  BY <1>1, <1>2

LEMMA ModBothFine ==
  ASSUME NEW st, Good(st), Fine(st), NEW s \in Slots, NEW t \in Slots, NEW u, NEW w
  PROVE  LET x == mod_etype(mod_etype(st, s, u), t, w)
         IN  /\ Good(x) /\ Fine(x)
             /\ \/ x.status = "assert"
                \/ st.ev[t].live /\ Same(st, x) /\ \A a \in Slots : x.ev[a].buff = st.ev[a].buff
<1> DEFINE y == mod_etype(st, s, u)
           x == mod_etype(y, t, w)
<1>1. /\ Good(y) /\ Fine(y)
      /\ IF st.ev[s].live
         THEN Same(st, y) /\ \A a \in Slots : y.ev[a].buff = st.ev[a].buff
         ELSE y.status = "assert" /\ \A a \in Slots : ~y.ev[a].live
  BY ModFine
<1> HIDE DEF y
<1>2. /\ Good(x) /\ Fine(x)
      /\ \/ x.status = "assert"
         \/ y.ev[t].live /\ Same(y, x) /\ \A a \in Slots : x.ev[a].buff = y.ev[a].buff
  BY <1>1, ModFine
<1> HIDE DEF x
<1>3. CASE x.status = "assert"
  BY <1>2, <1>3 DEF x, y
<1>4. CASE y.ev[t].live /\ Same(y, x) /\ \A a \in Slots : x.ev[a].buff = y.ev[a].buff
  <2>1. Same(st, y) /\ \A a \in Slots : y.ev[a].buff = st.ev[a].buff
    BY <1>1, <1>4
  <2>2. Same(st, x)
    BY <1>4, <2>1, SameTwice
  <2>3. st.ev[t].live
    BY <1>4, <2>1 DEF Same, SameSlot
  <2> QED
    BY <1>2, <1>4, <2>1, <2>2, <2>3 DEF x, y
<1> QED
  BY <1>2, <1>3, <1>4

\* What was not taken stays in the buffer of the slot that was read.
LEMMA BufferedIs ==
  ASSUME NEW st, Shape(st), NEW s \in Slots, NEW b
  PROVE  LET x == Buffered(st, s, b)
         IN  /\ st.ev[s].live => x = Put(st, s, [st.ev[s] EXCEPT !.buff = b])
             /\ ~st.ev[s].live => x = st
BY DEF Buffered, Put

\* The slot, in its fields.
LEMMA Rebuffed ==
  ASSUME NEW e, DOMAIN e = SlotFields, SlotOK(e), e.live,
         NEW b \in Buffs, b.hi <= e.recv, e.cb # "on_request" \/ b = e.buff, NEW f, f = [e EXCEPT !.buff = b]
  PROVE  /\ DOMAIN f = SlotFields /\ SlotOK(f) /\ SameSlot(e, f) /\ f.buff = b
         /\ f.recv = e.recv /\ f.dp = e.dp /\ f.got = e.got /\ f.stream = e.stream
<1>1. /\ DOMAIN f = SlotFields /\ f.buff = b
      /\ f.live = e.live /\ f.flag = e.flag /\ f.cb = e.cb /\ f.pair = e.pair
      /\ f.timer = e.timer /\ f.sq = e.sq /\ f.recv = e.recv
      /\ f.peer = e.peer /\ f.got = e.got /\ f.stream = e.stream /\ f.fed = e.fed
      /\ f.dp = e.dp /\ f.mask = e.mask
  BY DEF SlotFields
<1>2. GroupOK(f)
  BY <1>1 DEF SlotOK, GroupOK
<1>3. SameSlot(e, f)
  BY <1>1 DEF SameSlot
<1>4. SlotOK(f)
  <2>1. /\ f.recv \in Nat /\ f.peer \in Nat /\ f.recv <= f.peer /\ f.sq \in Nat
        /\ f.got \in Nat /\ f.stream # "wrong"
    BY <1>1 DEF SlotOK
  <2>2. /\ f.sq > 0 => f.sq = f.recv /\ f.sq < SqSize /\ auto_reconnect /\ f.flag # "conn"
        /\ f.fed = "yes" => f.sq = 0 /\ f.recv > 0 /\ f.cb = "on_tunnel"
        /\ f.cb = "on_request" => f.recv = 0 /\ f.buff = NoBuf
    BY <1>1 DEF SlotOK
  <2> QED
    BY <1>1, <1>2, <2>1, <2>2 DEF SlotOK
<1> QED
  BY <1>1, <1>3, <1>4

\* The buffer is given what it has.
LEMMA BufferedMild ==
  ASSUME NEW st, Good(st), Fine(st), NEW s \in Slots, NEW b, st.ev[s].buff = b
  PROVE  LET x == Buffered(st, s, b)
         IN  Good(x) /\ Fine(x) /\ Same(st, x)
<1> DEFINE e == st.ev[s]
           f == [e EXCEPT !.buff = b]
<1>1. DOMAIN e = SlotFields /\ SlotOK(e)
  BY DEF Good, Shape, Fine, Pool
<1>2. CASE ~e.live
  BY <1>2, BufferedIs, SameIsSame DEF Good
<1>3. CASE e.live
  <2>1. b \in Buffs /\ b.hi <= e.recv /\ b = e.buff
    BY <1>1 DEF SlotOK
  <2> HIDE DEF e, f
  <2>2. /\ DOMAIN f = SlotFields /\ SlotOK(f) /\ SameSlot(e, f) /\ f.buff = b
        /\ f.recv = e.recv /\ f.dp = e.dp /\ f.got = e.got /\ f.stream = e.stream
    BY <1>1, <1>3, <2>1, Rebuffed DEF e, f
  <2>3. Buffered(st, s, b) = Put(st, s, f)
    BY <1>3, BufferedIs DEF Good, e, f
  <2>4. Good(Put(st, s, f)) /\ Fine(Put(st, s, f)) /\ Same(st, Put(st, s, f))
    BY <2>2, MildFine DEF e
  <2> QED
    BY <2>3, <2>4
<1> QED
  BY <1>2, <1>3

\* What the sender has passed on, the server has: the buffer says the rest.
LeftOf(b, k, d) == d = [b EXCEPT !.lo = @ + k] \/ (d = NoBuf /\ k = b.hi - b.lo)

LEMMA BuffSent ==
  ASSUME NEW st, Good(st), Pool(st), NEW r, Server(st, r), LinkedBut(st, {r}),
         NEW c, c = st.ev[r].pair, NEW v \in {r, c}, NEW p \in {r, c}, v # p, Tunnel(st, v),
         v = r => Linked(st.ev[c], st.ev[r]),
         NEW b \in Buffs, b.hi > 0, b.hi <= st.ev[v].recv, v = c => b.hi = st.ev[c].recv,
         NEW k \in 0..(b.hi - b.lo), NEW x, SentTo(st, x, r, p, b, k),
         NEW d, LeftOf(b, k, d)
  PROVE  LET z == Buffered(x, v, d)
         IN  Good(z) /\ Fine(z) /\ Same(st, z) /\ z.ev[v].buff = d /\ z.status = st.status
<1> DEFINE z == Buffered(x, v, d)
           e == x.ev[v]
           f == [e EXCEPT !.buff = d]
<1>1. /\ c \in Slots /\ r \in Slots /\ c # r /\ {v, p} = {r, c} /\ v \in Slots
  BY ServerReach
<1>2. /\ Held(st, x, r) /\ x.ev[c].dp # 0
      /\ \A t \in {r, c} : x.ev[t].buff = st.ev[t].buff /\ x.ev[t].recv = st.ev[t].recv
      /\ v = c => (x.ev[r].stream = "whole" => x.ev[r].got = b.lo + k)
      /\ v = r => x.ev[r].stream = st.ev[r].stream /\ x.ev[r].got = st.ev[r].got
  BY <1>1 DEF SentTo
<1>3. /\ Good(x) /\ Pool(x) /\ Server(x, r) /\ LinkedBut(x, {r}) /\ x.ev[r].pair = c
      /\ x.status = st.status
  <2>1. Pool(x)
    BY <1>2 DEF Held
  <2>2. /\ Good(x) /\ Server(x, r) /\ LinkedBut(x, {r}) /\ x.ev[r].pair = st.ev[r].pair
        /\ x.status = st.status
    BY <1>2, HeldLinks
  <2> QED
    BY <2>1, <2>2
<1>4. e.live /\ e.cb = "on_tunnel" /\ SlotOK(e) /\ DOMAIN e = SlotFields
  <2>1. x.ev[r].live /\ x.ev[c].live
    BY <1>3, ServerReach
  <2>2. Tunnel(x, v)
    BY <1>2, TunnelAfter DEF Held
  <2> QED
    BY <1>1, <1>3, <2>1, <2>2 DEF Tunnel, Pool, Good, Shape
<1>5. b.base \in Nat /\ b.lo \in Nat /\ b.hi \in Nat /\ b.base <= b.lo /\ b.lo <= b.hi
      /\ k \in Nat /\ b.lo + k <= b.hi
  BY DEF Buffs
<1> DEFINE d2 == [b EXCEPT !.lo = @ + k]
<1>6. d2.base = b.base /\ d2.lo = b.lo + k /\ d2.hi = b.hi /\ d2 \in Buffs /\ d2 # NoBuf
  <2>1. b \in [base : Nat, lo : Nat, hi : Nat]
    BY DEF Buffs
  <2>2. d2 = [base |-> b.base, lo |-> b.lo + k, hi |-> b.hi]
    BY <2>1
  <2> QED
    BY <1>5, <2>2 DEF Buffs, NoBuf
<1> HIDE DEF d2
<1>7. /\ d \in Buffs /\ d.hi <= st.ev[v].recv
      /\ v = c => /\ d # NoBuf => d.hi = st.ev[c].recv
                  /\ b.lo + k = IF d = NoBuf THEN st.ev[c].recv ELSE d.lo
  <2>1. CASE d = d2
    BY <1>6, <2>1
  <2>2. CASE d = NoBuf /\ k = b.hi - b.lo
    <3>1. NoBuf \in Buffs /\ NoBuf.hi = 0
      BY DEF NoBuf, Buffs
    <3>2. st.ev[v].recv \in Nat
      BY <1>1 DEF Pool, SlotOK
    <3> QED
      BY <1>5, <2>2, <3>1, <3>2
  <2> QED
    BY <2>1, <2>2 DEF d2, LeftOf
<1> HIDE DEF e, f
<1>8. /\ DOMAIN f = SlotFields /\ SlotOK(f) /\ SameSlot(e, f) /\ f.buff = d
      /\ f.recv = e.recv /\ f.dp = e.dp /\ f.got = e.got /\ f.stream = e.stream
  <2>1. d.hi <= e.recv /\ e.cb # "on_request"
    BY <1>2, <1>4, <1>7 DEF e
  <2> QED
    BY <1>4, <1>7, <2>1, Rebuffed DEF f
<1>9. ASSUME NEW y, Held(st, y, r)
      PROVE  Good(y) /\ LinkedBut(y, {r}) /\ y.ev[r].pair = c /\ y.status = st.status
  <2>1. Same(st, y) /\ Keeps(st, y, {r, st.ev[r].pair}) /\ y.status = st.status
    BY <1>9 DEF Held, Keeps
  <2>2. Good(y)
    BY <2>1, KeepSame
  <2>3. LinkedBut(y, {r})
    BY <2>1, OthersLinked
  <2>4. y.ev[r].pair = c
    BY <2>1, ServerAfter
  <2> QED
    BY <2>1, <2>2, <2>3, <2>4
<1>10. z = Put(x, v, f)
  <2>1. x.ev[v].live /\ Shape(x)
    BY <1>3, <1>4 DEF Good, e
  <2>2. Buffered(x, v, d) = Put(x, v, [x.ev[v] EXCEPT !.buff = d])
    BY <1>1, <2>1, BufferedIs
  <2> QED
    BY <2>2 DEF e, f
<1>11. Held(x, z, r)
  BY <1>3, <1>8, <1>10, HeldPut DEF e
<1>12. z.ev[v] = f /\ z.ev[p] = x.ev[p]
  BY <1>1, <1>3, <1>8, <1>10, PutIs DEF Good
<1> HIDE DEF z
<1>13. Held(st, z, r)
  BY <1>2, <1>11, HeldTwice
<1>14. Good(z) /\ LinkedBut(z, {r}) /\ z.ev[r].pair = c /\ z.status = st.status
  BY <1>9, <1>13
<1>15. Linked(z.ev[c], z.ev[r])
  <2>1. CASE v = c
    <3>1. z.ev[c] = f /\ z.ev[r] = x.ev[r]
      BY <1>1, <1>12, <2>1
    <3>2. f.dp # 0 /\ f.recv = st.ev[c].recv
      BY <1>2, <1>8, <2>1 DEF e
    <3> QED
      BY <1>2, <1>7, <1>8, <2>1, <3>1, <3>2 DEF Linked
  <2>2. CASE v = r
    <3>1. z.ev[r] = f /\ z.ev[c] = x.ev[c]
      BY <1>1, <1>12, <2>2
    <3>2. f.got = st.ev[r].got /\ f.stream = st.ev[r].stream
      BY <1>2, <1>8, <2>2 DEF e
    <3> QED
      BY <1>2, <2>2, <3>1, <3>2 DEF Linked
  <2> QED
    BY <2>1, <2>2
<1>16. Fine(z)
  BY <1>13, <1>14, <1>15, AllLinked DEF Fine, Held
<1> QED
  BY <1>8, <1>12, <1>13, <1>14, <1>16 DEF Held, z

\* The slot that should be watched was deleted: the process is gone.
LEMMA ModDead ==
  ASSUME NEW st, Good(st), Pool(st), NEW s \in Slots, NEW t \in Slots, ~st.ev[t].live,
         NEW b, NEW u, NEW w
  PROVE  LET x == mod_etype(mod_etype(Buffered(st, s, b), s, u), t, w)
         IN  Good(x) /\ Fine(x) /\ x.status = "assert"
<1> DEFINE y == Buffered(st, s, b)
           z == mod_etype(y, s, u)
<1>1. Shape(y) /\ y.cache = st.cache /\ ~y.ev[t].live
  <2>1. Same(st, y)
    BY BufferedSame DEF Good
  <2>2. y.cache = st.cache
    BY DEF Buffered, Good, Shape
  <2> QED
    BY <2>1, <2>2 DEF Same, SameSlot
<1> HIDE DEF y
<1>2. Shape(z) /\ z.cache = y.cache /\ ~z.ev[t].live
  <2>1. z.cache = y.cache
    BY <1>1 DEF mod_etype, Put, Ended, Shape
  <2>2. \/ Same(y, z) \/ (Good(z) /\ \A x \in Slots : ~z.ev[x].live)
    BY <1>1, ModEtypeGood
  <2> HIDE DEF z
  <2> QED
    BY <1>1, <2>1, <2>2 DEF Same, SameSlot, Good
<1> HIDE DEF z
<1>3. mod_etype(z, t, w) = Ended(z, "assert")
  BY <1>2 DEF mod_etype
<1>4. CacheOK(z)
  BY <1>1, <1>2 DEF Pool, CacheOK
<1> QED
  BY <1>2, <1>3, <1>4, EndedGood, EndedFine DEF y, z

\* What a callback leaves: all is well, or it has failed, and what is wrong is with the
\* connection it was called for.
Torn(x, r, c) ==
  /\ Good(x) /\ Pool(x) /\ Server(x, r) /\ x.ev[r].pair = c /\ LinkedBut(x, {r})
  /\ x.status = "run"
Done(r, c, o) == (Good(o.st) /\ Fine(o.st)) \/ (o.ret = -1 /\ Torn(o.st, r, c))

LEMMA HeldTorn ==
  ASSUME NEW st, NEW r, NEW c, Torn(st, r, c), NEW x, Held(st, x, r)
  PROVE  Torn(x, r, c)
<1>1. Pool(x)
  BY DEF Held
<1>2. /\ Good(x) /\ Server(x, r) /\ LinkedBut(x, {r}) /\ x.ev[r].pair = st.ev[r].pair
      /\ x.status = st.status
  BY HeldLinks DEF Torn
<1> QED
  BY <1>1, <1>2 DEF Torn

LEMMA FineTorn ==
  ASSUME NEW st, Good(st), Fine(st), st.status = "run", NEW r, Server(st, r)
  PROVE  Torn(st, r, st.ev[r].pair)
BY DEF Torn, Fine, LinkedBut

\* What was read is sent on.
LEMMA PassOn ==
  ASSUME NEW st, NEW r, NEW c, Torn(st, r, c), NEW v \in {r, c}, NEW p \in {r, c}, v # p,
         Tunnel(st, v), st.ev[c].dp # 0, NEW n \in Nat, n > 0, n <= st.ev[v].recv,
         v = r => Linked(st.ev[c], st.ev[r]),
         v = c => (st.ev[r].stream = "whole" => st.ev[r].got = st.ev[c].recv - n),
         NEW b, b = [base |-> st.ev[v].recv - n, lo |-> st.ev[v].recv - n, hi |-> st.ev[v].recv],
         NEW w \in tcp_send_hook(st, v, p, b),
         NEW o, o \in IF w.ret < 0 THEN Fail(w.st)
                      ELSE IF w.ret < n \/ w.wait
                      THEN {Out(mod_etype(mod_etype(Buffered(w.st, v, [b EXCEPT !.lo = @ + w.ret]),
                                                    v, {}),
                                          p, IF w.wait THEN {} ELSE {"out"}), 0)}
                      ELSE {Out(Buffered(w.st, v, NoBuf), 0)}
  PROVE  Done(r, c, o)
<1> DEFINE d == [b EXCEPT !.lo = @ + w.ret]
           none == {}
           t == IF w.wait THEN {} ELSE {"out"}
<1>1. \/ w.ret < 0 /\ o.ret = -1 /\ o.st = w.st
      \/ /\ ~(w.ret < 0) /\ (w.ret < n \/ w.wait)
         /\ o.st = mod_etype(mod_etype(Buffered(w.st, v, d), v, none), p, t)
      \/ ~(w.ret < 0) /\ ~(w.ret < n) /\ o.st = Buffered(w.st, v, NoBuf)
  BY DEF Fail, Out
<1> HIDE DEF d, none, t
<1>2. /\ Good(st) /\ Pool(st) /\ Server(st, r) /\ st.ev[r].pair = c /\ LinkedBut(st, {r})
      /\ st.status = "run"
  BY DEF Torn
<1>3. c \in Slots /\ r \in Slots /\ c # r /\ v \in Slots /\ p \in Slots
  BY <1>2, ServerReach
<1>4. st.ev[v].recv \in Nat
  BY <1>2, <1>3 DEF Pool, SlotOK
<1>5. /\ b \in Buffs /\ b.hi = st.ev[v].recv /\ b.lo = st.ev[v].recv - n /\ b.hi - b.lo = n
      /\ b.hi > 0
  BY <1>4 DEF Buffs
<1>6. Tunnel(st, p)
  <2>1. st.ev[v].pair = p
    BY <1>2, <1>3, ServerReach
  <2> QED
    BY <1>2, <2>1, TunnelPair
<1>7. \/ w.ret = -1 /\ Held(st, w.st, r)
      \/ w.ret \in 0..(b.hi - b.lo) /\ SentTo(st, w.st, r, p, b, w.ret)
      \/ p = r /\ Renewed(st, r, w)
  <2>1. p = r /\ st.ev[r].stream = "whole" => st.ev[r].got = b.lo
    BY <1>3, <1>5
  <2> QED
    BY <1>2, <1>5, <1>6, <2>1, SendHookFine
<1>8. CASE w.ret = -1 /\ Held(st, w.st, r)
  <2>1. o.ret = -1 /\ o.st = w.st
    BY <1>1, <1>8
  <2> QED
    BY <1>8, <2>1, HeldTorn DEF Done
<1>9. CASE w.ret \in 0..(b.hi - b.lo) /\ SentTo(st, w.st, r, p, b, w.ret)
  <2>1. w.ret \in 0..n /\ ~(w.ret < 0)
    BY <1>5, <1>9
  <2>2. v = c => b.hi = st.ev[c].recv
    BY <1>5
  <2>3. CASE o.st = mod_etype(mod_etype(Buffered(w.st, v, d), v, none), p, t)
    <3>1. Good(Buffered(w.st, v, d)) /\ Fine(Buffered(w.st, v, d))
      <4>1. LeftOf(b, w.ret, d) /\ b.hi <= st.ev[v].recv
        BY <1>4, <1>5 DEF LeftOf, d
      <4> QED
        BY <1>2, <1>5, <1>9, <2>2, <4>1, BuffSent
    <3> QED
      BY <1>3, <2>3, <3>1, ModBothFine DEF Done
  <2>4. CASE ~(w.ret < n) /\ o.st = Buffered(w.st, v, NoBuf)
    <3>1. w.ret = b.hi - b.lo
      BY <1>5, <2>1, <2>4
    <3> DEFINE e == NoBuf
    <3>2. LeftOf(b, w.ret, e) /\ b.hi <= st.ev[v].recv
      BY <1>4, <1>5, <3>1 DEF LeftOf
    <3> HIDE DEF e
    <3>3. Good(Buffered(w.st, v, e)) /\ Fine(Buffered(w.st, v, e))
      BY <1>2, <1>5, <1>9, <2>2, <3>2, BuffSent
    <3> QED
      BY <2>4, <3>3 DEF Done, e
  <2> QED
    BY <1>1, <2>1, <2>3, <2>4
<1>10. CASE p = r /\ Renewed(st, r, w)
  <2>1. w.ret = 0 /\ Good(w.st) /\ Pool(w.st) /\ ~w.st.ev[p].live
    BY <1>10 DEF Renewed, Fine
  <2>2. o.st = mod_etype(mod_etype(Buffered(w.st, v, d), v, none), p, t)
    BY <1>1, <2>1
  <2> QED
    BY <1>3, <2>1, <2>2, ModDead DEF Done
<1> QED
  BY <1>7, <1>8, <1>9, <1>10

LEMMA PassFine ==
  ASSUME NEW st, Good(st), Fine(st), st.status = "run", NEW r, Server(st, r),
         NEW c, c = st.ev[r].pair, NEW v \in {r, c}, NEW p \in {r, c}, v # p,
         Tunnel(st, v), st.ev[v].buff = NoBuf, NEW o \in Pass(st, v, p)
  PROVE  Done(r, c, o)
<1> DEFINE After(a, b, w) ==
             IF w.ret < 0 THEN Fail(w.st)
             ELSE IF w.ret < a.ret \/ w.wait
             THEN {Out(mod_etype(mod_etype(Buffered(w.st, v, [b EXCEPT !.lo = @ + w.ret]), v, {}),
                                 p, IF w.wait THEN {} ELSE {"out"}), 0)}
             ELSE {Out(Buffered(w.st, v, NoBuf), 0)}
           Buff(a) == [base |-> a.st.ev[v].recv - a.ret, lo |-> a.st.ev[v].recv - a.ret,
                       hi |-> a.st.ev[v].recv]
           Reading(a) == UNION {After(a, Buff(a), w) : w \in tcp_send_hook(a.st, v, p, Buff(a))}
           Rest(a) == {Out(IF a.ret = 0 THEN Buffered(a.st, v, NoBuf) ELSE a.st, a.ret)}
<1>1. o \in UNION {IF a.ret > 0 THEN Reading(a) ELSE Rest(a) : a \in tcp_recv_hook(st, v)}
  BY DEF Pass
<1> HIDE DEF Reading, Rest
<1>2. PICK a \in tcp_recv_hook(st, v) : o \in IF a.ret > 0 THEN Reading(a) ELSE Rest(a)
  BY <1>1
<1>3. \/ a.ret = -1 /\ Held(st, a.st, r)
      \/ a.ret = 0 /\ a.st = st
      \/ v = r /\ Renewed(st, r, a)
      \/ Read(st, a.st, r, v, a.ret)
  BY <1>2, RecvHookFine
<1>4. c \in Slots /\ r \in Slots /\ c # r /\ v \in Slots /\ p \in Slots
  BY ServerReach
<1>5. Torn(st, r, c)
  BY FineTorn
<1>6. CASE a.ret = -1 /\ Held(st, a.st, r)
  <2>1. o.ret = -1 /\ o.st = a.st
    BY <1>2, <1>6 DEF Rest, Out
  <2> QED
    BY <1>5, <1>6, <2>1, HeldTorn DEF Done
<1>7. CASE a.ret = 0 /\ a.st = st
  <2>1. o.st = Buffered(st, v, NoBuf)
    BY <1>2, <1>7 DEF Rest, Out
  <2> QED
    BY <1>4, <2>1, BufferedMild DEF Done
<1>8. CASE v = r /\ Renewed(st, r, a)
  <2>1. a.ret = 0 /\ Good(a.st) /\ Fine(a.st) /\ ~a.st.ev[v].live
    BY <1>8 DEF Renewed
  <2>2. o.st = Buffered(a.st, v, NoBuf)
    BY <1>2, <2>1 DEF Rest, Out
  <2>3. o.st = a.st
    BY <2>1, <2>2 DEF Buffered
  <2> QED
    BY <2>1, <2>3 DEF Done
<1>9. CASE Read(st, a.st, r, v, a.ret)
  <2> DEFINE x == a.st  n == a.ret  b == Buff(a)
  <2>1. /\ n \in Nat /\ n > 0 /\ n <= x.ev[v].recv /\ Held(st, x, r) /\ x.ev[c].dp # 0
        /\ v = r => Linked(x.ev[c], x.ev[r])
        /\ v = c => (x.ev[r].stream = "whole" => x.ev[r].got = x.ev[c].recv - n)
    BY <1>9 DEF Read
  <2>2. Torn(x, r, c)
    BY <1>5, <2>1, HeldTorn
  <2>3. Tunnel(x, v)
    BY <2>1, TunnelAfter DEF Held
  <2> HIDE DEF After
  <2>4. PICK w \in tcp_send_hook(x, v, p, b) : o \in After(a, b, w)
    BY <1>2, <2>1 DEF Reading
  <2> USE DEF After
  <2>5. b = [base |-> x.ev[v].recv - n, lo |-> x.ev[v].recv - n, hi |-> x.ev[v].recv]
    OBVIOUS
  <2> HIDE DEF x, n, b
  <2>6. o \in IF w.ret < 0 THEN Fail(w.st)
                      ELSE IF w.ret < n \/ w.wait
                      THEN {Out(mod_etype(mod_etype(Buffered(w.st, v, [b EXCEPT !.lo = @ + w.ret]),
                                                    v, {}),
                                          p, IF w.wait THEN {} ELSE {"out"}), 0)}
                      ELSE {Out(Buffered(w.st, v, NoBuf), 0)}
    BY <2>4 DEF n
  <2> QED
    BY <2>1, <2>2, <2>3, <2>4, <2>5, <2>6, PassOn
<1> QED
  BY <1>3, <1>6, <1>7, <1>8, <1>9

\* In place, k segments fewer are left.
Lessened(b, k) == [b EXCEPT !.lo = @ + k]
LeftIn(st, s, k) == [st EXCEPT !.ev[s].buff.lo = @ + k]

LEMMA LeftIs ==
  ASSUME NEW st, NEW s \in Slots, st.ev[s].live, NEW k
  PROVE  LeftIn(st, s, k) = Buffered(st, s, Lessened(st.ev[s].buff, k))
BY DEF Buffered, LeftIn, Lessened

\* A pending buffer is sent on; the slot is read again when nothing of it is left.
LEMMA FlushFine ==
  ASSUME NEW st, Good(st), Fine(st), st.status = "run", NEW r, Server(st, r),
         NEW c, c = st.ev[r].pair, NEW v \in {r, c}, NEW p \in {r, c}, v # p,
         Tunnel(st, v), st.ev[v].buff # NoBuf, NEW o \in Flush(st, v, p)
  PROVE  Done(r, c, o)
<1> DEFINE b == st.ev[v].buff
           Full(w) == mod_etype(mod_etype(Buffered(w.st, v, NoBuf), v, {"in"}), p, {"in"})
           Left(w) == LeftIn(w.st, v, w.ret)
           After(w) ==
             IF w.ret < 0 THEN Fail(w.st)
             ELSE IF w.ret < b.hi - b.lo \/ w.wait THEN {Out(Left(w), 0)}
             ELSE IF Full(w).status # "run" THEN {Out(Full(w), 0)} ELSE Pass(Full(w), v, p)
<1>1. o \in UNION {After(w) : w \in tcp_send_hook(st, v, p, b)}
  BY DEF Flush, LeftIn
<1> HIDE DEF After, b
<1>2. PICK w \in tcp_send_hook(st, v, p, b) : o \in After(w)
  BY <1>1
<1> HIDE DEF Full, Left
<1>3. \/ w.ret < 0 /\ o.ret = -1 /\ o.st = w.st
      \/ ~(w.ret < 0) /\ o.st = Left(w)
      \/ /\ ~(w.ret < 0) /\ ~(w.ret < b.hi - b.lo)
         /\ \/ Full(w).status # "run" /\ o.st = Full(w)
            \/ Full(w).status = "run" /\ o \in Pass(Full(w), v, p)
  BY <1>2 DEF After, Fail, Out
<1>4. /\ c \in Slots /\ r \in Slots /\ c # r /\ v \in Slots /\ p \in Slots
      /\ st.ev[v].pair = p
  BY ServerReach
<1>5. Torn(st, r, c) /\ Linked(st.ev[c], st.ev[r])
  BY FineTorn DEF Fine, LinkedBut, Server
<1>6. /\ b \in Buffs /\ b.hi <= st.ev[v].recv /\ b.hi > 0
      /\ b.base \in Nat /\ b.lo \in Nat /\ b.hi \in Nat /\ b.base <= b.lo /\ b.lo <= b.hi
  <2>1. b \in Buffs /\ b.hi <= st.ev[v].recv
    BY <1>4 DEF Fine, Pool, SlotOK, b
  <2>2. /\ b = [base |-> b.base, lo |-> b.lo, hi |-> b.hi]
        /\ b.base \in Nat /\ b.lo \in Nat /\ b.hi \in Nat /\ b.base <= b.lo /\ b.lo <= b.hi
    BY <2>1 DEF Buffs
  <2>3. b.hi = 0 => b = NoBuf
    <3>1. b.hi = 0 => b.base = 0 /\ b.lo = 0
      BY <2>2
    <3> QED
      BY <2>2, <3>1 DEF NoBuf
  <2> QED
    BY <2>1, <2>2, <2>3 DEF b
<1>7. /\ st.ev[c].dp # 0
      /\ v = c => b.hi = st.ev[c].recv
      /\ v = c => (st.ev[r].stream = "whole" => st.ev[r].got = b.lo)
  BY <1>5 DEF Linked, b
<1>8. /\ Good(st) /\ Pool(st) /\ Server(st, r) /\ st.ev[r].pair = c /\ LinkedBut(st, {r})
  BY <1>5 DEF Torn
<1>9. Tunnel(st, p)
  BY <1>4, TunnelPair
<1>10. \/ w.ret = -1 /\ Held(st, w.st, r)
       \/ w.ret \in 0..(b.hi - b.lo) /\ SentTo(st, w.st, r, p, b, w.ret)
       \/ p = r /\ Renewed(st, r, w)
  <2>1. p = r /\ st.ev[r].stream = "whole" => st.ev[r].got = b.lo
    BY <1>4, <1>7
  <2> QED
    BY <1>2, <1>6, <1>7, <1>8, <1>9, <2>1, SendHookFine
<1>11. CASE w.ret = -1 /\ Held(st, w.st, r)
  <2>1. o.ret = -1 /\ o.st = w.st
    BY <1>3, <1>11
  <2> QED
    BY <1>5, <1>11, <2>1, HeldTorn DEF Done
<1>12. CASE w.ret \in 0..(b.hi - b.lo) /\ SentTo(st, w.st, r, p, b, w.ret)
  <2>1. w.ret \in Nat /\ w.ret <= b.hi - b.lo
    BY <1>6, <1>12
  <2>2. Held(st, w.st, r) /\ w.st.ev[v].buff = b
    BY <1>12 DEF SentTo, b
  <2>3. v = r => Linked(st.ev[c], st.ev[r])
    BY <1>5
  <2>4. ASSUME NEW d, LeftOf(b, w.ret, d)
        PROVE  LET z == Buffered(w.st, v, d)
               IN  Good(z) /\ Fine(z) /\ Same(st, z) /\ z.ev[v].buff = d
    BY <1>6, <1>7, <1>8, <1>12, <2>3, <2>4, BuffSent
  <2>5. CASE o.st = Left(w)
    <3> DEFINE d == Lessened(b, w.ret)
    <3>1. w.st.ev[v].live
      BY <1>4, <2>2, TunnelPair DEF Held, Same, SameSlot
    <3>2. Left(w) = Buffered(w.st, v, d)
      BY <1>4, <2>2, <3>1, LeftIs DEF Left
    <3>3. LeftOf(b, w.ret, d)
      BY DEF LeftOf, Lessened
    <3> HIDE DEF d
    <3>4. Good(Buffered(w.st, v, d)) /\ Fine(Buffered(w.st, v, d))
      BY <2>4, <3>3
    <3> QED
      BY <2>5, <3>2, <3>4 DEF Done
  <2>6. CASE /\ ~(w.ret < b.hi - b.lo)
             /\ \/ Full(w).status # "run" /\ o.st = Full(w)
                \/ Full(w).status = "run" /\ o \in Pass(Full(w), v, p)
    <3> DEFINE d == NoBuf
               z == Buffered(w.st, v, d)
               in == {"in"}
               y == Full(w)
    <3>1. LeftOf(b, w.ret, d)
      BY <1>6, <2>1, <2>6 DEF LeftOf
    <3>2. y = mod_etype(mod_etype(z, v, in), p, in)
      BY DEF Full
    <3> HIDE DEF d, in, y
    <3>3. Good(z) /\ Fine(z) /\ Same(st, z) /\ z.ev[v].buff = d
      BY <2>4, <3>1
    <3> HIDE DEF z
    <3>4. /\ Good(y) /\ Fine(y)
          /\ \/ y.status = "assert"
             \/ Same(z, y) /\ \A a \in Slots : y.ev[a].buff = z.ev[a].buff
      BY <1>4, <3>2, <3>3, ModBothFine
    <3>5. CASE o.st = y
      BY <3>4, <3>5 DEF Done
    <3>6. CASE y.status = "run" /\ o \in Pass(y, v, p)
      <4>1. Same(z, y) /\ y.ev[v].buff = NoBuf
        BY <1>4, <3>3, <3>4, <3>6 DEF d
      <4>2. Same(st, y)
        BY <3>3, <4>1, SameTwice
      <4>3. Tunnel(y, v) /\ Server(y, r) /\ y.ev[r].pair = c
        BY <4>2, TunnelAfter DEF Same, SameSlot, Server
      <4> QED
        BY <3>4, <3>6, <4>1, <4>3, PassFine
    <3> QED
      BY <2>6, <3>5, <3>6 DEF y
  <2> QED
    BY <1>3, <2>1, <2>5, <2>6
<1>13. CASE p = r /\ Renewed(st, r, w)
  <2>1. /\ w.ret = 0 /\ Good(w.st) /\ Fine(w.st) /\ Pool(w.st) /\ ~w.st.ev[p].live
        /\ v = c /\ w.st.ev[v].live
    BY <1>4, <1>13 DEF Renewed, Fine
  <2>2. CASE o.st = Left(w)
    <3> DEFINE B == w.st.ev[v].buff
               d == Lessened(B, w.ret)
    <3>1. Left(w) = Buffered(w.st, v, d)
      BY <1>4, <2>1, LeftIs DEF Left
    <3>2. B \in Buffs
      BY <1>4, <2>1 DEF Pool, SlotOK
    <3> HIDE DEF B
    <3>3. d = B
      <4>1. B.lo + 0 = B.lo /\ B \in [base : Nat, lo : Nat, hi : Nat]
        BY <3>2 DEF Buffs
      <4> QED
        BY <2>1, <4>1 DEF Lessened
    <3> HIDE DEF d
    <3>4. d = w.st.ev[v].buff
      BY <3>3 DEF B
    <3> QED
      BY <1>4, <2>1, <2>2, <3>1, <3>4, BufferedMild DEF Done
  <2>3. CASE o.st = Full(w) \/ Full(w).status = "run"
    <3> DEFINE d == NoBuf
               in == {"in"}
    <3>1. Full(w) = mod_etype(mod_etype(Buffered(w.st, v, d), v, in), p, in)
      BY DEF Full
    <3> HIDE DEF d, in
    <3>2. Good(Full(w)) /\ Fine(Full(w)) /\ Full(w).status = "assert"
      BY <1>4, <2>1, <3>1, ModDead
    <3> QED
      BY <2>3, <3>2 DEF Done
  <2> QED
    BY <1>3, <2>1, <2>2, <2>3
<1> QED
  BY <1>10, <1>11, <1>12, <1>13

LEMMA TriedDone ==
  ASSUME NEW st, NEW r, NEW c, Torn(st, r, c), NEW o, GaveUp(st, r, o) \/ Renewed(st, r, o)
  PROVE  Done(r, c, o)
<1>1. CASE GaveUp(st, r, o)
  BY <1>1, HeldTorn DEF GaveUp, Done
<1>2. CASE Renewed(st, r, o)
  BY <1>2 DEF Renewed, Done
<1> QED
  BY <1>1, <1>2

LEMMA OnTunnelFine ==
  ASSUME NEW st, Good(st), Fine(st), st.status = "run", NEW r, Server(st, r),
         NEW c, c = st.ev[r].pair, NEW s \in {r, c}, Tunnel(st, s), NEW et,
         "timeout" \in et => s = r, NEW o \in on_tunnel(st, s, et)
  PROVE  Done(r, c, o)
<1> DEFINE p == st.ev[s].pair
<1>1. \/ "timeout" \in et /\ o \in on_timeout(st, s)
      \/ st.ev[s].buff # NoBuf /\ o \in Flush(st, s, p)
      \/ st.ev[p].buff # NoBuf /\ o \in Flush(st, p, s)
      \/ st.ev[s].buff = NoBuf /\ o \in Pass(st, s, p)
      \/ st.ev[p].buff = NoBuf /\ o \in Pass(st, p, s)
  BY DEF on_tunnel
<1>2. Tunnel(st, p) /\ p \in {r, c} /\ p # s
  BY TunnelPair, ServerReach
<1>3. Torn(st, r, c) /\ st.ev[c].dp # 0
  BY FineTorn DEF Fine, LinkedBut, Linked, Server
<1> HIDE DEF p
<1>4. CASE "timeout" \in et /\ o \in on_timeout(st, s)
  <2>1. o \in on_trigger(st, r, {"torst"}, TRUE)
    BY <1>4 DEF on_timeout, on_torst
  <2>2. GaveUp(st, r, o) \/ Renewed(st, r, o)
    BY <1>3, <2>1, TriggerFine DEF Torn
  <2> QED
    BY <1>3, <2>2, TriedDone
<1>5. CASE st.ev[s].buff # NoBuf /\ o \in Flush(st, s, p)
  BY <1>2, <1>5, FlushFine
<1>6. CASE st.ev[p].buff # NoBuf /\ o \in Flush(st, p, s)
  BY <1>2, <1>6, FlushFine
<1>7. CASE st.ev[s].buff = NoBuf /\ o \in Pass(st, s, p)
  BY <1>2, <1>7, PassFine
<1>8. CASE st.ev[p].buff = NoBuf /\ o \in Pass(st, p, s)
  BY <1>2, <1>8, PassFine
<1> QED
  BY <1>1, <1>4, <1>5, <1>6, <1>7, <1>8

\* on_connect: the two slots are watched and become a tunnel.
Wanted(e) == [e EXCEPT !.want = {"in"}]
Opened(e) == [e EXCEPT !.cb = "on_tunnel"]
Watched(st, r, c) == LET x == Put(st, r, Wanted(st.ev[r])) IN Put(x, c, Wanted(x.ev[c]))
Raised(st, r, c) == LET x == Put(st, r, Opened(st.ev[r])) IN Put(x, c, Opened(x.ev[c]))

LEMMA ConnectIs ==
  ASSUME NEW st, NEW r, NEW et, NEW o \in on_connect(st, r, et)
  PROVE  LET c == st.ev[r].pair
             up == Raised(Watched(st, r, c), r, c)
         IN  \/ o.st = st \/ o \in on_connerr(st, r) \/ o \in on_tunnel(up, r, et) \/ o.st = up
<1> DEFINE c == st.ev[r].pair
           u == [st EXCEPT !.ev[r].want = {"in"}, !.ev[c].want = {"in"},
                           !.ev[r].cb = "on_tunnel", !.ev[c].cb = "on_tunnel"]
           up == Raised(Watched(st, r, c), r, c)
<1>1. o \in IF "err" \in et
            THEN Fail(st) \union on_connerr(st, r)
            ELSE IF st.ev[c].buff # NoBuf THEN on_tunnel(u, r, et)
            ELSE {Out(u, 0)} \union Fail(u)
  BY DEF on_connect
<1>2. u = up
  BY DEF Put, Raised, Watched, Opened, Wanted
<1> HIDE DEF u, up
<1>3. o.st = st \/ o \in on_connerr(st, r) \/ o \in on_tunnel(u, r, et) \/ o.st = u
  BY <1>1 DEF Fail, Out
<1> QED
  BY <1>2, <1>3 DEF up

LEMMA WatchedFine ==
  ASSUME NEW st, Good(st), Fine(st), NEW r \in Slots, NEW c \in Slots, c # r,
         st.ev[r].live, st.ev[c].live
  PROVE  LET x == Watched(st, r, c)
         IN  Good(x) /\ Fine(x) /\ Same(st, x) /\ x.status = st.status
<1> DEFINE w == {"in"}
           y == Put(st, r, Wanted(st.ev[r]))
           z == Put(y, c, Wanted(y.ev[c]))
<1>1. y = mod_etype(st, r, w)
  BY DEF mod_etype, Wanted
<1>2. Good(y) /\ Fine(y) /\ Same(st, y)
  BY <1>1, ModFine
<1>3. y.status = st.status
  BY DEF Put, Good, Shape
<1> HIDE DEF y
<1>4. y.ev[c].live
  BY <1>2 DEF Same, SameSlot
<1>5. z = mod_etype(y, c, w)
  BY <1>4 DEF mod_etype, Wanted
<1>6. Good(z) /\ Fine(z) /\ Same(y, z)
  BY <1>2, <1>4, <1>5, ModFine
<1>7. z.status = y.status
  BY <1>2 DEF Put, Good, Shape
<1>8. Watched(st, r, c) = z
  BY DEF Watched, y
<1> HIDE DEF z
<1>9. Same(st, z)
  BY <1>2, <1>6, SameTwice
<1> QED
  BY <1>3, <1>6, <1>7, <1>8, <1>9

\* What relates servers to clients is the same where their bytes and groups are.
LEMMA LinkedStays ==
  ASSUME NEW st, Good(st), LinkedBut(st, {}), NEW x,
         \A t \in Slots : /\ x.ev[t].pair = st.ev[t].pair /\ x.ev[t].buff = st.ev[t].buff
                          /\ x.ev[t].recv = st.ev[t].recv /\ x.ev[t].dp = st.ev[t].dp
                          /\ x.ev[t].got = st.ev[t].got /\ x.ev[t].stream = st.ev[t].stream,
         \A t \in Slots : Server(x, t) => Server(st, t)
  PROVE  LinkedBut(x, {})
<1> SUFFICES ASSUME NEW t \in Slots, Server(x, t)
             PROVE  Linked(x.ev[x.ev[t].pair], x.ev[t])
  BY DEF LinkedBut
<1>1. Server(st, t) /\ st.ev[t].pair \in Slots /\ x.ev[t].pair = st.ev[t].pair
  BY ServerReach
<1>2. Linked(st.ev[st.ev[t].pair], st.ev[t])
  BY <1>1 DEF LinkedBut
<1> QED
  BY <1>1, <1>2 DEF Linked

LEMMA OpenedOK ==
  ASSUME NEW e, DOMAIN e = SlotFields, SlotOK(e), e.live, NEW f, f = Opened(e)
  PROVE  /\ DOMAIN f = SlotFields /\ SlotOK(f) /\ f.live /\ f.flag = e.flag /\ f.pair = e.pair
         /\ f.buff = e.buff /\ f.recv = e.recv /\ f.dp = e.dp /\ f.got = e.got
         /\ f.stream = e.stream /\ f.cb = "on_tunnel"
<1>1. /\ DOMAIN f = SlotFields /\ f.buff = e.buff /\ f.cb = "on_tunnel"
      /\ f.live = e.live /\ f.flag = e.flag /\ f.pair = e.pair /\ f.sq = e.sq
      /\ f.recv = e.recv /\ f.peer = e.peer /\ f.got = e.got /\ f.stream = e.stream
      /\ f.fed = e.fed /\ f.dp = e.dp /\ f.mask = e.mask
  BY DEF SlotFields, Opened
<1>2. GroupOK(f)
  BY <1>1 DEF SlotOK, GroupOK
<1>3. /\ f.recv \in Nat /\ f.peer \in Nat /\ f.recv <= f.peer /\ f.sq \in Nat
      /\ f.buff \in Buffs /\ f.buff.hi <= f.recv /\ f.got \in Nat /\ f.stream # "wrong"
      /\ f.sq > 0 => f.sq = f.recv /\ f.sq < SqSize /\ auto_reconnect /\ f.flag # "conn"
      /\ f.fed = "yes" => f.sq = 0 /\ f.recv > 0 /\ f.cb = "on_tunnel"
  BY <1>1 DEF SlotOK
<1> QED
  BY <1>1, <1>2, <1>3 DEF SlotOK

LEMMA RaisedFine ==
  ASSUME NEW st, Good(st), Fine(st), st.status = "run", NEW r \in Slots,
         st.ev[r].cb = "on_connect", NEW c, c = st.ev[r].pair
  PROVE  LET x == Raised(st, r, c)
         IN  /\ Good(x) /\ Fine(x) /\ x.status = "run" /\ Server(x, r) /\ Tunnel(x, r)
             /\ x.ev[r].pair = c
<1> DEFINE e == Opened(st.ev[r])
           y == Put(st, r, e)
           f == Opened(y.ev[c])
           x == Put(y, c, f)
<1>1. Good(x) /\ Tunnel(x, r)
  BY Joined DEF Opened
<1>2. Server(st, r)
  BY LinkPlace DEF Server, Good, Wired, WiredAt
<1>3. c \in Slots /\ c # r /\ st.ev[r].live /\ st.ev[c].live /\ ~Server(st, c)
      /\ st.ev[c].flag # "conn"
  BY <1>2, ServerReach
<1>4. Shape(st) /\ Pool(st) /\ \A t \in Slots : DOMAIN st.ev[t] = SlotFields /\ SlotOK(st.ev[t])
  BY DEF Good, Shape, Fine, Pool
<1>5. /\ DOMAIN e = SlotFields /\ SlotOK(e) /\ e.flag = st.ev[r].flag /\ e.pair = c
      /\ e.buff = st.ev[r].buff /\ e.recv = st.ev[r].recv /\ e.dp = st.ev[r].dp
      /\ e.got = st.ev[r].got /\ e.stream = st.ev[r].stream /\ e.cb = "on_tunnel"
  BY <1>3, <1>4, OpenedOK
<1> HIDE DEF e
<1>6. /\ Shape(y) /\ y.ev[r] = e /\ \A t \in Slots \ {r} : y.ev[t] = st.ev[t]
  BY <1>4, <1>5, PutIs
<1>7. Pool(y)
  BY <1>4, <1>5, PoolPut
<1>8. y.status = st.status
  BY <1>4 DEF Put, Shape
<1> HIDE DEF y
<1>9. /\ DOMAIN f = SlotFields /\ SlotOK(f) /\ f.flag = st.ev[c].flag /\ f.pair = st.ev[c].pair
      /\ f.buff = st.ev[c].buff /\ f.recv = st.ev[c].recv /\ f.dp = st.ev[c].dp
      /\ f.got = st.ev[c].got /\ f.stream = st.ev[c].stream /\ f.cb = "on_tunnel"
  BY <1>3, <1>4, <1>6, OpenedOK
<1> HIDE DEF f
<1>10. /\ Shape(x) /\ x.ev[c] = f /\ \A t \in Slots \ {c} : x.ev[t] = y.ev[t]
  <2>1. c \in Slots /\ Shape(y) /\ DOMAIN f = SlotFields
    BY <1>3, <1>6, <1>9
  <2> QED
    BY <2>1, PutIs
<1>11. Pool(x)
  BY <1>3, <1>6, <1>7, <1>9, PoolPut
<1>12. x.status = y.status
  BY <1>6 DEF Put, Shape
<1>13. Raised(st, r, c) = x
  BY DEF Raised, y, e, f
<1> HIDE DEF x
<1>14. x.ev[r] = e /\ \A t \in Slots \ {r, c} : x.ev[t] = st.ev[t]
  BY <1>3, <1>6, <1>10
<1>15. LinkedBut(x, {})
  <2>1. \A t \in Slots : /\ x.ev[t].pair = st.ev[t].pair /\ x.ev[t].buff = st.ev[t].buff
                         /\ x.ev[t].recv = st.ev[t].recv /\ x.ev[t].dp = st.ev[t].dp
                         /\ x.ev[t].got = st.ev[t].got /\ x.ev[t].stream = st.ev[t].stream
    BY <1>5, <1>9, <1>10, <1>14
  <2>2. \A t \in Slots : Server(x, t) => Server(st, t)
    BY <1>2, <1>3, <1>9, <1>10, <1>14 DEF Server
  <2> QED
    BY <2>1, <2>2, LinkedStays DEF Fine
<1>16. Server(x, r) /\ x.ev[r].pair = c
  BY <1>2, <1>5, <1>14 DEF Server
<1> QED
  BY <1>1, <1>8, <1>11, <1>12, <1>13, <1>15, <1>16 DEF Fine

LEMMA OnConnectFine ==
  ASSUME NEW st, Good(st), Fine(st), st.status = "run", NEW r \in Slots,
         st.ev[r].cb = "on_connect", NEW c, c = st.ev[r].pair, NEW et,
         NEW o \in on_connect(st, r, et)
  PROVE  Done(r, c, o)
<1> DEFINE x == Watched(st, r, c)
           up == Raised(x, r, c)
<1>1. o.st = st \/ o \in on_connerr(st, r) \/ o \in on_tunnel(up, r, et) \/ o.st = up
  BY ConnectIs
<1>2. Server(st, r)
  BY LinkPlace DEF Server, Good, Wired, WiredAt
<1>3. c \in Slots /\ c # r /\ st.ev[r].live /\ st.ev[c].live
  BY <1>2, ServerReach
<1>4. Good(x) /\ Fine(x) /\ Same(st, x) /\ x.status = st.status
  BY <1>3, WatchedFine
<1> HIDE DEF x
<1>5. x.ev[r].cb = "on_connect" /\ x.ev[r].pair = c
  BY <1>4 DEF Same, SameSlot
<1>6. /\ Good(up) /\ Fine(up) /\ up.status = "run" /\ Server(up, r) /\ Tunnel(up, r)
      /\ up.ev[r].pair = c
  BY <1>4, <1>5, RaisedFine
<1> HIDE DEF up
<1>7. CASE o.st = st \/ o.st = up
  BY <1>6, <1>7 DEF Done
<1>8. CASE o \in on_connerr(st, r)
  <2>1. o \in on_trigger(st, r, {"connect"}, TRUE)
    BY <1>8 DEF on_connerr
  <2>2. Torn(st, r, c) /\ st.ev[c].dp # 0
    BY <1>2, FineTorn DEF Fine, LinkedBut, Linked, Server
  <2>3. GaveUp(st, r, o) \/ Renewed(st, r, o)
    BY <2>1, <2>2, TriggerFine DEF Torn
  <2> QED
    BY <2>2, <2>3, TriedDone
<1>9. CASE o \in on_tunnel(up, r, et)
  BY <1>6, <1>9, OnTunnelFine
<1> QED
  BY <1>1, <1>7, <1>8, <1>9

\* A slot in use through which no bytes went, and which is no server's.
Bare(e) ==
  /\ DOMAIN e = SlotFields /\ SlotOK(e) /\ e.live /\ e.recv = 0 /\ e.buff = NoBuf
  /\ e.cb \notin {"on_connect", "on_tunnel"}
Rerouted(e, f) ==
  /\ DOMAIN f = SlotFields /\ f.live = e.live /\ f.buff = e.buff /\ f.sq = e.sq
  /\ f.recv = e.recv /\ f.peer = e.peer /\ f.got = e.got /\ f.stream = e.stream
  /\ f.fed = e.fed /\ f.dp = e.dp /\ f.mask = e.mask
  /\ f.cb \notin {"on_connect", "on_tunnel"}

LEMMA BareKeeps ==
  ASSUME NEW e, Bare(e), NEW f, Rerouted(e, f)
  PROVE  Bare(f)
<1>1. SlotOK(e) /\ e.recv = 0 /\ e.live /\ e.buff = NoBuf
  BY DEF Bare
<1>2. e.sq = 0 /\ e.fed # "yes"
  BY <1>1 DEF SlotOK
<1>3. GroupOK(f)
  BY <1>1 DEF SlotOK, GroupOK, Rerouted
<1>4. /\ f.recv \in Nat /\ f.peer \in Nat /\ f.recv <= f.peer /\ f.sq = 0
      /\ f.buff \in Buffs /\ f.buff.hi <= f.recv /\ f.got \in Nat /\ f.stream # "wrong"
      /\ f.fed # "yes" /\ f.live /\ f.recv = 0 /\ f.buff = NoBuf
  BY <1>1, <1>2 DEF SlotOK, Rerouted
<1>5. SlotOK(f)
  BY <1>3, <1>4 DEF SlotOK
<1> QED
  BY <1>4, <1>5 DEF Bare, Rerouted

\* A pool of which the slots in K have no part in a connection.
Ready(x, K) == Shape(x) /\ Pool(x) /\ \A t \in K : Bare(x.ev[t])

LEMMA ReadyPut ==
  ASSUME NEW x, NEW K \in SUBSET Slots, Ready(x, K), NEW t \in K, NEW f,
         Rerouted(x.ev[t], f)
  PROVE  LET y == Put(x, t, f)
         IN  Ready(y, K) /\ \A u \in Slots \ K : y.ev[u] = x.ev[u]
<1> DEFINE y == Put(x, t, f)
<1>1. Bare(f) /\ t \in Slots /\ Shape(x) /\ Pool(x)
  BY BareKeeps DEF Ready
<1>2. DOMAIN f = SlotFields /\ SlotOK(f)
  BY <1>1 DEF Bare
<1>3. Pool(y)
  BY <1>1, <1>2, PoolPut
<1>4. Shape(y) /\ y.ev[t] = f /\ \A u \in Slots \ {t} : y.ev[u] = x.ev[u]
  BY <1>1, <1>2, PutIs
<1> HIDE DEF y
<1>5. \A u \in K : Bare(y.ev[u])
  BY <1>1, <1>4 DEF Ready
<1> QED
  BY <1>3, <1>4, <1>5 DEF Ready, y

\* add_event: a slot is taken.
LEMMA TakenFine ==
  ASSUME NEW st, Shape(st), Pool(st), NEW s \in Slots,
         NEW cb, cb # "on_connect", cb # "on_tunnel", NEW want
  PROVE  LET y == add_event(st, s, cb, want)
         IN  /\ Shape(y) /\ Pool(y) /\ Bare(y.ev[s])
             /\ \A t \in Slots \ {s} : y.ev[t] = st.ev[t]
<1> DEFINE y == add_event(st, s, cb, want)
           e == [Blank EXCEPT !.live = TRUE, !.cb = cb, !.want = want]
<1>1. /\ DOMAIN e = SlotFields /\ e.live = TRUE /\ e.cb = cb /\ e.buff = NoBuf /\ e.sq = 0
      /\ e.recv = 0 /\ e.peer = 0 /\ e.got = 0 /\ e.stream = "whole" /\ e.fed = "no"
      /\ e.dp = Blank.dp /\ e.mask = Blank.mask
  BY BlankFields DEF SlotFields, Blank
<1>2. Taken(st, y, s, cb)
  BY AddEvent
<1>3. y.cache = st.cache /\ y.status = st.status /\ y.ev[s] = e
  <2>1. y = [st EXCEPT !.ev[s] = e, !.touched = @ \union {s}]
    BY DEF add_event
  <2> HIDE DEF e, y
  <2> QED
    BY <2>1 DEF Shape
<1> HIDE DEF e, y
<1>4. SlotOK(e)
  <2>1. GroupOK(e)
    BY <1>1, BlankOK DEF SlotOK, GroupOK
  <2>2. NoBuf \in Buffs /\ NoBuf.hi = 0
    BY DEF NoBuf, Buffs
  <2> QED
    BY <1>1, <2>1, <2>2 DEF SlotOK
<1>5. Pool(y)
  <2>1. CacheOK(y)
    BY <1>3 DEF Pool, CacheOK
  <2>2. \A t \in Slots : SlotOK(y.ev[t])
    BY <1>2, <1>3, <1>4 DEF Taken, Pool
  <2>3. y.touched \subseteq Slots /\ y.batch = st.batch
    BY <1>2 DEF Taken, Pool
  <2> QED
    BY <1>3, <2>1, <2>2, <2>3 DEF Pool
<1> QED
  BY <1>1, <1>2, <1>3, <1>4, <1>5 DEF Taken, Bare, y

\* What happens to slots that wait for a request, or are free, is no matter of a connection.
LEMMA LinkedAway ==
  ASSUME NEW st, Good(st), LinkedBut(st, {}), NEW K \in SUBSET Slots,
         \A t \in K : st.ev[t].cb = "on_request",
         NEW x, \A t \in Slots \ K : x.ev[t] = st.ev[t], \A t \in K : ~Server(x, t)
  PROVE  LinkedBut(x, {})
<1>1. \A t \in Slots \ K : st.ev[t].pair \notin K
  BY NotPaired DEF Good, Wired
<1>2. LinkedBut(x, K)
  BY <1>1, RestLinked
<1> QED
  BY <1>2 DEF LinkedBut

LEMMA FreeWaits ==
  ASSUME NEW st, Good(st), NEW s \in Slots, ~st.ev[s].live
  PROVE  st.ev[s].cb = "on_request"
BY PairPlace DEF Good, Wired

\* udp_associate: the ring is made, or one slot of it is given back.
HalfOf(st, p) == add_event(st, p, "on_udp_tunnel", {"in"})

LEMMA HalfFine ==
  ASSUME NEW st, Shape(st), Pool(st), NEW s \in Slots
  PROVE  LET y == HalfOf(st, s)
         IN  Ready(y, {s}) /\ \A t \in Slots \ {s} : y.ev[t] = st.ev[t]
<1> DEFINE w == {"in"}
           cb == "on_udp_tunnel"
<1>1. HalfOf(st, s) = add_event(st, s, cb, w) /\ cb # "on_connect" /\ cb # "on_tunnel"
  BY DEF HalfOf
<1> HIDE DEF w, cb
<1> DEFINE y == HalfOf(st, s)
<1> HIDE DEF y
<1>2. Shape(y) /\ Pool(y) /\ Bare(y.ev[s]) /\ \A t \in Slots \ {s} : y.ev[t] = st.ev[t]
  BY <1>1, TakenFine DEF y
<1> QED
  BY <1>2 DEF Ready, y

LEMMA AssociateIs ==
  ASSUME NEW st, NEW s, NEW o \in udp_associate(st, s)
  PROVE  \/ o.st = st
         \/ \E p \in OpenSlots(st) :
              \/ o.st = del_event(HalfOf(st, p), p)
              \/ \E c \in OpenSlots(HalfOf(st, p)) : o.st = RingOf(HalfOf(HalfOf(st, p), c), s, p, c)
<1> DEFINE Half(p) == add_event(st, p, "on_udp_tunnel", {"in"})
           Two(p, c) == add_event(Half(p), c, "on_udp_tunnel", {"in"})
           Ring(p, c) == [Two(p, c) EXCEPT
                            !.ev[s].cb = "on_ignore", !.ev[s].want = {"rdhup"},
                            !.ev[s].pair = c, !.ev[c].pair = p, !.ev[p].pair = s,
                            !.ev[c].flag = "conn"]
           More(p) == UNION {{Out(Ring(p, c), 0), Out(Ring(p, c), -1)}
                               : c \in OpenSlots(Half(p))}
           Some(p) == {Out(del_event(Half(p), p), -1)} \union More(p)
<1>1. o \in Fail(st) \union UNION {Some(p) : p \in OpenSlots(st)}
  BY DEF udp_associate
<1>2. ASSUME NEW p, NEW c
      PROVE  Half(p) = HalfOf(st, p) /\ Ring(p, c) = RingOf(HalfOf(HalfOf(st, p), c), s, p, c)
  BY DEF RingOf, HalfOf
<1> HIDE DEF Half, Ring
<1>3. ASSUME NEW p, o \in More(p)
      PROVE  \E c \in OpenSlots(Half(p)) : o.st = Ring(p, c)
  BY <1>3 DEF Out
<1> HIDE DEF More
<1>4. ASSUME NEW p, o \in Some(p)
      PROVE  \/ o.st = del_event(Half(p), p)
             \/ \E c \in OpenSlots(Half(p)) : o.st = Ring(p, c)
  BY <1>3, <1>4 DEF Out
<1> HIDE DEF Some
<1>5. o \in Fail(st) \/ \E p \in OpenSlots(st) : o \in Some(p)
  BY <1>1
<1>6. CASE o \in Fail(st)
  BY <1>6 DEF Fail, Out
<1>7. CASE \E p \in OpenSlots(st) : o \in Some(p)
  BY <1>2, <1>4, <1>7
<1> QED
  BY <1>5, <1>6, <1>7

LEMMA RingReady ==
  ASSUME NEW a, NEW s \in Slots, NEW p \in Slots, NEW c \in Slots, NEW K, K = {s, p, c},
         Ready(a, K)
  PROVE  LET y == RingOf(a, s, p, c)
         IN  Ready(y, K) /\ \A u \in Slots \ K : y.ev[u] = a.ev[u]
<1> DEFINE y1 == Put(a, s, [a.ev[s] EXCEPT !.cb = "on_ignore"])
           y2 == Put(y1, s, [y1.ev[s] EXCEPT !.want = {"rdhup"}])
           y3 == Put(y2, s, [y2.ev[s] EXCEPT !.pair = c])
           y4 == Put(y3, c, [y3.ev[c] EXCEPT !.pair = p])
           y5 == Put(y4, p, [y4.ev[p] EXCEPT !.pair = s])
           y6 == Put(y5, c, [y5.ev[c] EXCEPT !.flag = "conn"])
<1>1. RingOf(a, s, p, c) = y6
  BY DEF Put, RingOf
<1>2. ASSUME NEW e, Bare(e), NEW w, NEW q
      PROVE  /\ Rerouted(e, [e EXCEPT !.cb = "on_ignore"])
             /\ Rerouted(e, [e EXCEPT !.want = w])
             /\ Rerouted(e, [e EXCEPT !.pair = q])
             /\ Rerouted(e, [e EXCEPT !.flag = "conn"])
  <2>1. DOMAIN e = SlotFields /\ e.cb \notin {"on_connect", "on_tunnel"}
    BY <1>2 DEF Bare
  <2>2. Rerouted(e, [e EXCEPT !.cb = "on_ignore"])
    BY <2>1 DEF Rerouted, SlotFields
  <2>3. Rerouted(e, [e EXCEPT !.want = w])
    BY <2>1 DEF Rerouted, SlotFields
  <2>4. Rerouted(e, [e EXCEPT !.pair = q])
    BY <2>1 DEF Rerouted, SlotFields
  <2>5. Rerouted(e, [e EXCEPT !.flag = "conn"])
    BY <2>1 DEF Rerouted, SlotFields
  <2> QED
    BY <2>2, <2>3, <2>4, <2>5
<1>3. K \in SUBSET Slots /\ s \in K /\ p \in K /\ c \in K
  OBVIOUS
<1>4. Ready(y1, K) /\ \A u \in Slots \ K : y1.ev[u] = a.ev[u]
  <2> DEFINE f == [a.ev[s] EXCEPT !.cb = "on_ignore"]
  <2>1. Rerouted(a.ev[s], f)
    BY <1>2, <1>3 DEF Ready
  <2> HIDE DEF f
  <2> QED
    BY <1>3, <2>1, ReadyPut DEF f
<1> HIDE DEF y1
<1>5. Ready(y2, K) /\ \A u \in Slots \ K : y2.ev[u] = y1.ev[u]
  <2> DEFINE w == {"rdhup"}
             f == [y1.ev[s] EXCEPT !.want = w]
  <2> HIDE DEF w
  <2>1. Rerouted(y1.ev[s], f)
    BY <1>2, <1>3, <1>4 DEF Ready
  <2> HIDE DEF f
  <2>2. Ready(Put(y1, s, f), K) /\ \A u \in Slots \ K : Put(y1, s, f).ev[u] = y1.ev[u]
    BY <1>3, <1>4, <2>1, ReadyPut
  <2> QED
    BY <2>2 DEF f, w
<1> HIDE DEF y2
<1>6. Ready(y3, K) /\ \A u \in Slots \ K : y3.ev[u] = y2.ev[u]
  <2> DEFINE f == [y2.ev[s] EXCEPT !.pair = c]
  <2>1. Rerouted(y2.ev[s], f)
    BY <1>2, <1>3, <1>5 DEF Ready
  <2> HIDE DEF f
  <2> QED
    BY <1>3, <1>5, <2>1, ReadyPut DEF f
<1> HIDE DEF y3
<1>7. Ready(y4, K) /\ \A u \in Slots \ K : y4.ev[u] = y3.ev[u]
  <2> DEFINE f == [y3.ev[c] EXCEPT !.pair = p]
  <2>1. Rerouted(y3.ev[c], f)
    BY <1>2, <1>3, <1>6 DEF Ready
  <2> HIDE DEF f
  <2> QED
    BY <1>3, <1>6, <2>1, ReadyPut DEF f
<1> HIDE DEF y4
<1>8. Ready(y5, K) /\ \A u \in Slots \ K : y5.ev[u] = y4.ev[u]
  <2> DEFINE f == [y4.ev[p] EXCEPT !.pair = s]
  <2>1. Rerouted(y4.ev[p], f)
    BY <1>2, <1>3, <1>7 DEF Ready
  <2> HIDE DEF f
  <2> QED
    BY <1>3, <1>7, <2>1, ReadyPut DEF f
<1> HIDE DEF y5
<1>9. Ready(y6, K) /\ \A u \in Slots \ K : y6.ev[u] = y5.ev[u]
  <2> DEFINE f == [y5.ev[c] EXCEPT !.flag = "conn"]
  <2>1. Rerouted(y5.ev[c], f)
    BY <1>2, <1>3, <1>8 DEF Ready
  <2> HIDE DEF f
  <2> QED
    BY <1>3, <1>8, <2>1, ReadyPut DEF f
<1> HIDE DEF y6
<1> QED
  BY <1>1, <1>4, <1>5, <1>6, <1>7, <1>8, <1>9

\* on_request: the greeting, the first connection, or a ring.
LEMMA OnRequestFine ==
  ASSUME NEW st, Good(st), Fine(st), NEW s \in Slots, st.ev[s].live,
         st.ev[s].cb = "on_request", NEW o \in on_request(st, s)
  PROVE  Good(o.st) /\ Fine(o.st)
<1>1. Good(o.st)
  BY OnRequest
<1>2. \/ o = Out([st EXCEPT !.ev[s].flag = "s5"], 0)
      \/ o \in Fail(st) \/ o \in connect_hook(st, s) \/ o \in udp_associate(st, s)
  BY DEF on_request
<1>3. Shape(st) /\ Pool(st) /\ LinkedBut(st, {}) /\ SlotOK(st.ev[s]) /\ DOMAIN st.ev[s] = SlotFields
  BY DEF Good, Shape, Fine, Pool
<1>4. Bare(st.ev[s])
  BY <1>3 DEF Bare, SlotOK
<1>5. ASSUME NEW y, Ready(y, {s}), \A t \in Slots \ {s} : y.ev[t] = st.ev[t] PROVE Fine(y)
  <2> DEFINE K == {s}
  <2>1. /\ K \in SUBSET Slots /\ \A t \in K : ~Server(y, t) /\ st.ev[t].cb = "on_request"
        /\ \A t \in Slots \ K : y.ev[t] = st.ev[t]
    BY <1>5 DEF Ready, Bare, Server
  <2> HIDE DEF K
  <2>2. LinkedBut(y, {})
    BY <1>3, <2>1, LinkedAway
  <2> QED
    BY <1>5, <2>2 DEF Ready, Fine
<1>6. CASE o = Out([st EXCEPT !.ev[s].flag = "s5"], 0)
  <2> DEFINE f == [st.ev[s] EXCEPT !.flag = "s5"]
             y == Put(st, s, f)
  <2>1. o.st = y
    BY <1>6 DEF Out, Put
  <2>2. Rerouted(st.ev[s], f)
    BY <1>3 DEF Rerouted, SlotFields
  <2>3. Ready(st, {s})
    BY <1>3, <1>4 DEF Ready
  <2> HIDE DEF f
  <2>4. Ready(y, {s}) /\ \A t \in Slots \ {s} : y.ev[t] = st.ev[t]
    BY <2>2, <2>3, ReadyPut
  <2> QED
    BY <1>1, <1>5, <2>1, <2>4
<1>7. CASE o \in Fail(st)
  BY <1>1, <1>7 DEF Fail, Out
<1>8. CASE o \in connect_hook(st, s)
  <2>1. \/ o.st = st
        \/ \E f : /\ Alike(st.ev[s], f) /\ GroupOK(f) /\ f.dp # 0
                  /\ \/ o.st = Put(st, s, f)
                     \/ \E n \in Slots : Created(Put(st, s, f), o.st, s, n)
    BY <1>3, <1>8, ConnectHookIs
  <2>2. CASE o.st = st
    BY <1>1, <2>2
  <2>3. ASSUME NEW f, Alike(st.ev[s], f), GroupOK(f), f.dp # 0,
               \/ o.st = Put(st, s, f)
               \/ \E n \in Slots : Created(Put(st, s, f), o.st, s, n)
        PROVE  Fine(o.st)
    <3>1. CASE o.st = Put(st, s, f)
      <4> DEFINE y == Put(st, s, f)
      <4>1. SlotOK(f) /\ DOMAIN f = SlotFields
        BY <1>3, <2>3, AlikeOK DEF Alike
      <4>2. Pool(y)
        BY <1>3, <4>1, PoolPut
      <4>3. Shape(y) /\ y.ev[s] = f /\ \A t \in Slots \ {s} : y.ev[t] = st.ev[t]
        BY <1>3, <4>1, PutIs
      <4>4. Bare(f)
        BY <1>4, <2>3, <4>1 DEF Bare, Alike
      <4> HIDE DEF y
      <4>5. Ready(y, {s})
        BY <4>2, <4>3, <4>4 DEF Ready
      <4> QED
        BY <1>5, <3>1, <4>3, <4>5 DEF y
    <3>2. CASE \E n \in Slots : Created(Put(st, s, f), o.st, s, n)
      BY <2>3, <3>2, FirstFine
    <3> QED
      BY <2>3, <3>1, <3>2
  <2> QED
    BY <1>1, <2>1, <2>2, <2>3
<1>9. CASE o \in udp_associate(st, s)
  <2>1. \/ o.st = st
        \/ \E p \in OpenSlots(st) :
             \/ o.st = del_event(HalfOf(st, p), p)
             \/ \E c \in OpenSlots(HalfOf(st, p)) :
                  o.st = RingOf(HalfOf(HalfOf(st, p), c), s, p, c)
    BY <1>9, AssociateIs
  <2>2. ASSUME NEW p \in OpenSlots(st), o.st = del_event(HalfOf(st, p), p) PROVE Fine(o.st)
    <3> DEFINE h == HalfOf(st, p)  z == del_event(h, p)
    <3>1. p \in Slots /\ ~st.ev[p].live
      BY DEF OpenSlots
    <3>2. Ready(h, {p}) /\ \A t \in Slots \ {p} : h.ev[t] = st.ev[t]
      BY <1>3, <3>1, HalfFine
    <3>3. Taken(st, h, p, "on_udp_tunnel")
      BY <1>3, <3>1, AddEvent DEF HalfOf
    <3> HIDE DEF h
    <3>4. Reached(h, p) = {p} /\ h.ev[p].live /\ Shape(h)
      BY <3>1, <3>3, PoolAssumption DEF Taken, Reached
    <3>5. /\ \A x \in Slots : z.ev[x] = IF x \in {p} THEN Blank ELSE h.ev[x]
          /\ z.touched = h.touched \union {p} /\ z.cache = h.cache /\ z.status = h.status
          /\ (\A e \in h.batch : EventOK(e)) => \A e \in z.batch : EventOK(e)
      <4>1. Reached(h, p) \subseteq Slots
        BY <3>1, <3>4
      <4> HIDE DEF z
      <4> QED
        BY <3>1, <3>4, <4>1, DelIs DEF z
    <3> HIDE DEF z
    <3>6. Pool(z)
      <4>1. Pool(h)
        BY <3>2 DEF Ready
      <4>2. CacheOK(z)
        BY <3>5, <4>1 DEF Pool, CacheOK
      <4>3. \A x \in Slots : SlotOK(z.ev[x])
        BY <3>5, <4>1, BlankOK DEF Pool
      <4> QED
        BY <3>1, <3>5, <4>1, <4>2, <4>3 DEF Pool
    <3>7. LinkedBut(z, {})
      <4> DEFINE K == {p}
      <4>1. K \in SUBSET Slots /\ \A t \in K : st.ev[t].cb = "on_request"
        BY <3>1, FreeWaits
      <4>2. \A t \in Slots \ K : z.ev[t] = st.ev[t]
        BY <3>2, <3>5
      <4>3. \A t \in K : ~Server(z, t)
        BY <3>1, <3>5, BlankFields DEF Server
      <4> HIDE DEF K
      <4> QED
        BY <1>3, <4>1, <4>2, <4>3, LinkedAway
    <3> QED
      BY <2>2, <3>6, <3>7 DEF Fine, z, h
  <2>3. ASSUME NEW p \in OpenSlots(st), NEW c \in OpenSlots(HalfOf(st, p)),
               o.st = RingOf(HalfOf(HalfOf(st, p), c), s, p, c)
        PROVE  Fine(o.st)
    <3> DEFINE h == HalfOf(st, p)  a == HalfOf(h, c)  K == {s, p, c}
               y == RingOf(a, s, p, c)
    <3>1. p \in Slots /\ ~st.ev[p].live /\ c \in Slots /\ ~h.ev[c].live /\ p # s
      BY DEF OpenSlots
    <3>2. Ready(h, {p}) /\ \A t \in Slots \ {p} : h.ev[t] = st.ev[t]
      BY <1>3, <3>1, HalfFine
    <3> HIDE DEF h
    <3>3. Bare(h.ev[p]) /\ h.ev[s] = st.ev[s] /\ Shape(h) /\ Pool(h)
      BY <3>1, <3>2 DEF Ready
    <3>4. c # p /\ c # s /\ ~st.ev[c].live
      BY <3>1, <3>2, <3>3 DEF Bare
    <3>5. Ready(a, {c}) /\ \A t \in Slots \ {c} : a.ev[t] = h.ev[t]
      BY <3>1, <3>3, HalfFine
    <3> HIDE DEF a
    <3>6. Ready(a, K)
      BY <1>4, <3>1, <3>3, <3>4, <3>5 DEF Ready
    <3>7. Ready(y, K) /\ \A u \in Slots \ K : y.ev[u] = a.ev[u]
      <4>1. K = {s, p, c}
        OBVIOUS
      <4> HIDE DEF K
      <4> QED
        BY <3>1, <3>6, <4>1, RingReady
    <3> HIDE DEF y
    <3>8. LinkedBut(y, {})
      <4>1. \A t \in K : st.ev[t].cb = "on_request"
        BY <3>1, <3>4, FreeWaits
      <4>2. \A t \in Slots \ K : y.ev[t] = st.ev[t]
        BY <3>2, <3>5, <3>7
      <4>3. \A t \in K : ~Server(y, t)
        BY <3>7 DEF Ready, Bare, Server
      <4>4. K \in SUBSET Slots
        BY <3>1
      <4> HIDE DEF K
      <4> QED
        BY <1>3, <4>1, <4>2, <4>3, <4>4, LinkedAway
    <3> QED
      BY <2>3, <3>7, <3>8 DEF Ready, Fine, y, a, h
  <2> QED
    BY <1>1, <2>1, <2>2, <2>3
<1> QED
  BY <1>2, <1>6, <1>7, <1>8, <1>9

-----------------------------------------------------------------------------
(* The loop.                                                               *)

\* What loop_event is left with: it is Fine, or it is once the slot is deleted.
Settled(s, o) ==
  /\ Good(o.st) /\ Pool(o.st)
  /\ \/ LinkedBut(o.st, {})
     \/ o.ret = -1 /\ o.st.status = "run" /\ LinkedBut(o.st, Reached(o.st, s))

LEMMA DoneSettled ==
  ASSUME NEW r, NEW c, NEW o, Done(r, c, o), NEW s \in {r, c}
  PROVE  Settled(s, o)
<1>1. CASE Good(o.st) /\ Fine(o.st)
  BY <1>1 DEF Settled, Fine
<1>2. CASE o.ret = -1 /\ Torn(o.st, r, c)
  <2> DEFINE x == o.st
  <2>1. /\ Good(x) /\ Pool(x) /\ Server(x, r) /\ x.ev[r].pair = c /\ LinkedBut(x, {r})
        /\ x.status = "run"
    BY <1>2 DEF Torn
  <2> HIDE DEF x
  <2>2. Reached(x, s) = {r, c}
    BY <2>1, ServerReach
  <2>3. LinkedBut(x, {r, c})
    BY <2>1 DEF LinkedBut
  <2> QED
    BY <1>2, <2>1, <2>2, <2>3 DEF Settled, x
<1> QED
  BY <1>1, <1>2 DEF Done

LEMMA FineSettled ==
  ASSUME NEW s, NEW o, Good(o.st), Fine(o.st)
  PROVE  Settled(s, o)
BY DEF Settled, Fine

\* The pool of the next state.
LEMMA BecomesFine ==
  ASSUME NEW st, Fine(st), Becomes(st)
  PROVE  Fine(St')
<1> DEFINE x == St'
<1>1. /\ x.ev = st.ev /\ x.batch = st.batch /\ x.cache = st.cache /\ x.status = st.status
      /\ x.touched = {s \in st.touched : \E e \in st.batch : e.slot = s}
  BY DEF Becomes, St
<1> HIDE DEF x
<1>2. Pool(x)
  <2>1. CacheOK(x)
    BY <1>1 DEF Fine, Pool, CacheOK
  <2>2. x.touched \subseteq Slots
    BY <1>1 DEF Fine, Pool
  <2> QED
    BY <1>1, <2>1, <2>2 DEF Fine, Pool
<1>3. LinkedBut(x, {})
  BY <1>1 DEF Fine, LinkedBut, Server
<1> QED
  BY <1>2, <1>3 DEF Fine, x

LEMMA LoopFine ==
  ASSUME NEW s \in Slots, NEW outcomes, \A o \in outcomes : Settled(s, o), Loop(s, outcomes)
  PROVE  Fine(St')
<1>1. PICK o \in outcomes :
        Becomes(IF o.ret < 0 /\ o.st.status = "run" THEN del_event(o.st, s) ELSE o.st)
  BY DEF Loop
<1>2. Settled(s, o)
  BY <1>1
<1>3. CASE o.ret < 0 /\ o.st.status = "run"
  <2>1. LinkedBut(o.st, Reached(o.st, s))
    BY <1>2 DEF Settled, LinkedBut
  <2>2. Fine(del_event(o.st, s))
    BY <1>2, <2>1, DelFine DEF Settled
  <2> QED
    BY <1>1, <1>3, <2>2, BecomesFine
<1>4. CASE ~(o.ret < 0 /\ o.st.status = "run")
  <2>1. Fine(o.st)
    BY <1>2, <1>4 DEF Settled, Fine
  <2> QED
    BY <1>1, <1>4, <2>1, BecomesFine
<1> QED
  BY <1>3, <1>4

LEMMA GivenFine ==
  ASSUME Fine(St), NEW e \in batch
  PROVE  Fine(Given(e)) /\ Given(e).status = status
<1> DEFINE x == Given(e)
<1>1. /\ x.ev = St.ev /\ x.batch = St.batch \ {e} /\ x.cache = St.cache
      /\ x.status = St.status /\ x.touched = St.touched /\ St.status = status
  BY DEF Given, St
<1> HIDE DEF x
<1>2. Pool(x)
  <2>1. CacheOK(x)
    BY <1>1 DEF Fine, Pool, CacheOK
  <2> QED
    BY <1>1, <2>1 DEF Fine, Pool
<1>3. LinkedBut(x, {})
  BY <1>1 DEF Fine, LinkedBut, Server
<1> QED
  BY <1>1, <1>2, <1>3 DEF Fine, x

\* The peers change nothing that was read or sent.
LEMMA PeerFine ==
  ASSUME IInv, Fine(St), NEW s \in Slots, NEW e, DOMAIN e = SlotFields, SlotOK(e),
         SameSlot(ev[s], e), e.buff = ev[s].buff, e.recv = ev[s].recv, e.dp = ev[s].dp,
         e.got = ev[s].got, e.stream = ev[s].stream, Peer(s, e)
  PROVE  Fine(St')
<1>1. St.ev = ev /\ Good(St)
  BY DEF St, IInv
<1>2. St' = Put(St, s, e)
  BY DEF Peer, St, Put
<1>3. Fine(Put(St, s, e))
  BY <1>1, MildFine
<1> QED
  BY <1>2, <1>3

\* A slot in use whose peer has sent no less than before.
LEMMA PeerSlot ==
  ASSUME NEW e, DOMAIN e = SlotFields, SlotOK(e), e.live, NEW f, DOMAIN f = SlotFields,
         f.live = e.live, f.flag = e.flag, f.cb = e.cb, f.pair = e.pair,
         f.timer => e.timer, f.buff = e.buff, f.sq = e.sq, f.recv = e.recv, f.got = e.got,
         f.stream = e.stream, f.fed = e.fed, f.dp = e.dp, f.mask = e.mask,
         f.peer \in Nat, f.peer >= e.peer
  PROVE  SlotOK(f) /\ SameSlot(e, f)
<1>1. GroupOK(f)
  BY DEF SlotOK, GroupOK
<1>2. /\ f.recv \in Nat /\ f.recv <= f.peer
      /\ f.buff \in Buffs /\ f.buff.hi <= f.recv /\ f.sq \in Nat
      /\ f.got \in Nat /\ f.stream # "wrong"
  BY DEF SlotOK
<1>3. /\ f.sq > 0 => f.sq = f.recv /\ f.sq < SqSize /\ auto_reconnect /\ f.flag # "conn"
      /\ f.fed = "yes" => f.sq = 0 /\ f.recv > 0 /\ f.cb = "on_tunnel"
      /\ f.cb = "on_request" => f.recv = 0 /\ f.buff = NoBuf
  BY DEF SlotOK
<1>4. SlotOK(f)
  BY <1>1, <1>2, <1>3 DEF SlotOK
<1>5. SameSlot(e, f)
  BY DEF SameSlot
<1> QED
  BY <1>4, <1>5

LEMMA InitFine == Init => Fine(St)
<1> SUFFICES ASSUME Init PROVE Fine(St)
  OBVIOUS
<1>1. /\ St.ev = [s \in Slots |-> Blank] /\ St.batch = {} /\ St.touched = {}
      /\ St.status = "run" /\ St.cache = NoCache
  BY DEF Init, St
<1>2. Pool(St)
  BY <1>1, BlankOK DEF Pool, CacheOK
<1>3. LinkedBut(St, {})
  <2>1. \A r \in Slots : St.ev[r].flag # "conn"
    BY <1>1, BlankFields
  <2> QED
    BY <2>1 DEF LinkedBut, Server
<1> QED
  BY <1>2, <1>3 DEF Fine

LEMMA TunnelSettled ==
  ASSUME NEW st, Good(st), Fine(st), st.status = "run", NEW s, Tunnel(st, s), NEW et,
         "timeout" \in et => st.ev[s].flag = "conn", NEW o \in on_tunnel(st, s, et)
  PROVE  Settled(s, o)
<1> DEFINE p == st.ev[s].pair
<1>1. /\ st.ev[p].pair = s
      /\ st.ev[s].flag = "conn" => Server(st, s)
      /\ st.ev[s].flag # "conn" => Server(st, p)
  BY TunnelPair
<1>2. CASE st.ev[s].flag = "conn"
  <2>1. Done(s, p, o)
    BY <1>1, <1>2, OnTunnelFine
  <2> QED
    BY <2>1, DoneSettled
<1>3. CASE st.ev[s].flag # "conn"
  <2> HIDE DEF p
  <2>1. Server(st, p) /\ s = st.ev[p].pair /\ "timeout" \notin et
    BY <1>1, <1>3
  <2>2. Done(p, s, o)
    BY <2>1, OnTunnelFine
  <2> QED
    BY <2>2, DoneSettled
<1> QED
  BY <1>2, <1>3

\* The inductive invariant.
SInv == IInv /\ Fine(St)

LEMMA NextFine == SInv /\ [Next]_vars => Fine(St')
<1> SUFFICES ASSUME SInv, [Next]_vars PROVE Fine(St')
  OBVIOUS
<1>1. /\ IInv /\ Good(St) /\ Fine(St) /\ Shape(St) /\ St.ev = ev /\ St.batch = batch
      /\ St.touched = touched /\ St.status = status /\ St.cache = cache
  BY DEF SInv, IInv, Good, St
<1>2. \A s \in Slots : DOMAIN ev[s] = SlotFields /\ SlotOK(ev[s]) /\ WiredAt(St, s)
  BY <1>1 DEF Shape, Fine, Pool, Good, Wired
<1>3. CASE epoll_wait
  <2> DEFINE ready == {[slot |-> s, et |-> Events(ev[s]), open |-> TRUE] : s \in Slots \ Free}
             x == St'
  <2>1. /\ x.ev = St.ev /\ x.batch = {e \in ready : e.et # {}} /\ x.touched = {}
        /\ x.status = St.status /\ x.cache = St.cache
    BY <1>1, <1>3 DEF epoll_wait, St
  <2>2. ASSUME NEW e \in ready PROVE e.open \in BOOLEAN
    <3>1. PICK s \in Slots \ Free : e = [slot |-> s, et |-> Events(ev[s]), open |-> TRUE]
      BY <2>2
    <3>2. e.open = TRUE
      BY <3>1
    <3> QED
      BY <3>2, Zenon
  <2> HIDE DEF x, ready
  <2>3. \A e \in x.batch : EventOK(e)
    BY <2>1, <2>2 DEF EventOK
  <2>4. CacheOK(x)
    BY <1>1, <2>1 DEF Fine, Pool, CacheOK
  <2>5. Pool(x)
    BY <1>1, <2>1, <2>3, <2>4 DEF Fine, Pool
  <2>6. LinkedBut(x, {})
    BY <1>1, <2>1 DEF Fine, LinkedBut, Server
  <2> QED
    BY <2>5, <2>6 DEF Fine, x
<1>4. CASE call_request
  <2>1. PICK e \in batch : Gives(e, "on_request") /\ Loop(e.slot, on_request(Given(e), e.slot))
    BY <1>4 DEF call_request
  <2>2. Good(Given(e)) /\ Given(e).ev = ev /\ e.slot \in Slots /\ ev[e.slot].live
        /\ ev[e.slot].cb = "on_request" /\ Fine(Given(e))
    BY <1>1, <2>1, GivenGood, GivenFine DEF Gives
  <2>3. \A o \in on_request(Given(e), e.slot) : Settled(e.slot, o)
    BY <2>2, OnRequestFine, FineSettled
  <2> QED
    BY <2>1, <2>2, <2>3, LoopFine
<1>5. CASE call_connect
  <2>1. PICK e \in batch : Gives(e, "on_connect")
                           /\ Loop(e.slot, on_connect(Given(e), e.slot, e.et))
    BY <1>5 DEF call_connect
  <2>2. Good(Given(e)) /\ Given(e).ev = ev /\ e.slot \in Slots /\ Given(e).status = "run"
        /\ ev[e.slot].cb = "on_connect" /\ Fine(Given(e))
    BY <1>1, <2>1, GivenGood, GivenFine DEF Gives
  <2>3. ASSUME NEW o \in on_connect(Given(e), e.slot, e.et) PROVE Settled(e.slot, o)
    <3> DEFINE c == ev[e.slot].pair
    <3>1. Done(e.slot, c, o)
      BY <2>2, <2>3, OnConnectFine
    <3> QED
      BY <3>1, DoneSettled
  <2> QED
    BY <2>1, <2>2, <2>3, LoopFine
<1>6. CASE call_tunnel
  <2>1. PICK e \in batch : Gives(e, "on_tunnel")
                           /\ Loop(e.slot, on_tunnel(Given(e), e.slot, e.et))
    BY <1>6 DEF call_tunnel
  <2>2. Good(Given(e)) /\ Given(e).ev = ev /\ e.slot \in Slots /\ "timeout" \notin e.et
        /\ ev[e.slot].cb = "on_tunnel" /\ Fine(Given(e)) /\ Given(e).status = "run"
    BY <1>1, <2>1, GivenGood, GivenFine DEF Gives
  <2>3. \A o \in on_tunnel(Given(e), e.slot, e.et) : Settled(e.slot, o)
    BY <2>2, TunnelSettled DEF Tunnel
  <2> QED
    BY <2>1, <2>2, <2>3, LoopFine
<1>7. CASE call_ignore
  <2>1. PICK e \in batch : Gives(e, "on_ignore") /\ Loop(e.slot, on_ignore(Given(e), e.et))
    BY <1>7 DEF call_ignore
  <2>2. Good(Given(e)) /\ e.slot \in Slots /\ Fine(Given(e))
    BY <1>1, <2>1, GivenGood, GivenFine
  <2>3. \A o \in on_ignore(Given(e), e.et) : o.st = Given(e)
    BY DEF on_ignore, Out
  <2>4. \A o \in on_ignore(Given(e), e.et) : Settled(e.slot, o)
    BY <2>2, <2>3, FineSettled
  <2> QED
    BY <2>1, <2>2, <2>4, LoopFine
<1>8. CASE call_udp_tunnel
  <2>1. PICK e \in batch : Gives(e, "on_udp_tunnel") /\ Loop(e.slot, on_udp_tunnel(Given(e)))
    BY <1>8 DEF call_udp_tunnel
  <2>2. Good(Given(e)) /\ e.slot \in Slots /\ Fine(Given(e))
    BY <1>1, <2>1, GivenGood, GivenFine
  <2>3. \A o \in on_udp_tunnel(Given(e)) : o.st = Given(e)
    BY DEF on_udp_tunnel, Out, Fail
  <2>4. \A o \in on_udp_tunnel(Given(e)) : Settled(e.slot, o)
    BY <2>2, <2>3, FineSettled
  <2> QED
    BY <2>1, <2>2, <2>4, LoopFine
<1>9. CASE skip_event
  BY <1>1, <1>9, GivenFine, BecomesFine DEF skip_event
<1>10. CASE timer_due
  <2>1. PICK s \in Slots :
          /\ ev[s].timer /\ status = "run"
          /\ Loop(s, on_tunnel([St EXCEPT !.ev[s].timer = FALSE], s, {"timeout"}))
    BY <1>10 DEF timer_due
  <2> DEFINE e == ev[s]
             f == [e EXCEPT !.timer = FALSE]
             x == Put(St, s, f)
             et == {"timeout"}
  <2>2. Loop(s, on_tunnel(x, s, et))
    BY <1>1, <2>1 DEF Put
  <2>3. e.cb = "on_tunnel" /\ e.flag = "conn" /\ e.live
    BY <1>1, <1>2, <2>1 DEF WiredAt
  <2>4. DOMAIN e = SlotFields /\ SlotOK(e) /\ e.peer \in Nat /\ e.peer >= e.peer
    BY <1>2 DEF SlotOK
  <2> HIDE DEF e
  <2>5. /\ DOMAIN f = SlotFields /\ f.live = e.live /\ f.flag = e.flag /\ f.cb = e.cb
        /\ f.pair = e.pair /\ f.timer = FALSE /\ f.buff = e.buff /\ f.sq = e.sq
        /\ f.recv = e.recv /\ f.got = e.got /\ f.stream = e.stream /\ f.fed = e.fed
        /\ f.dp = e.dp /\ f.mask = e.mask /\ f.peer = e.peer
    BY <2>4 DEF SlotFields
  <2> HIDE DEF f, et
  <2>6. SlotOK(f) /\ SameSlot(e, f)
    BY <2>3, <2>4, <2>5, PeerSlot
  <2>7. Good(x) /\ Fine(x) /\ Same(St, x) /\ x.ev[s] = f
    BY <1>1, <2>5, <2>6, MildFine DEF e
  <2>8. x.status = "run"
    BY <1>1, <2>1 DEF Put, Shape
  <2>9. Tunnel(x, s) /\ x.ev[s].flag = "conn"
    BY <2>3, <2>5, <2>7 DEF Tunnel
  <2> HIDE DEF x
  <2>10. \A o \in on_tunnel(x, s, et) : Settled(s, o)
    BY <2>7, <2>8, <2>9, TunnelSettled
  <2> QED
    BY <2>2, <2>10, LoopFine
<1>11. CASE on_accept
  <2>1. PICK s \in Free : Becomes(add_event(St, s, "on_request", {"in"}))
    BY <1>11 DEF on_accept
  <2> DEFINE w == {"in"}
             cb == "on_request"
             y == add_event(St, s, cb, w)
             K == {s}
  <2>2. s \in Slots /\ ~St.ev[s].live /\ cb # "on_connect" /\ cb # "on_tunnel" /\ Pool(St)
    BY <1>1 DEF Free, Fine
  <2>3. Becomes(y)
    BY <2>1
  <2> HIDE DEF w, cb
  <2>4. /\ Shape(y) /\ Pool(y) /\ Bare(y.ev[s])
        /\ \A t \in Slots \ {s} : y.ev[t] = St.ev[t]
    BY <1>1, <2>2, TakenFine
  <2> HIDE DEF y
  <2>5. /\ K \in SUBSET Slots /\ \A t \in K : St.ev[t].cb = "on_request"
        /\ \A t \in Slots \ K : y.ev[t] = St.ev[t]
        /\ \A t \in K : ~Server(y, t)
    BY <1>1, <2>2, <2>4, FreeWaits DEF Bare, Server
  <2> HIDE DEF K
  <2>6. LinkedBut(y, {})
    BY <1>1, <2>5, LinkedAway DEF Fine
  <2> QED
    BY <2>3, <2>4, <2>6, BecomesFine DEF Fine
<1>12. CASE accept_fails
  <2>1. Becomes(Ended(St, "exit"))
    BY <1>12 DEF accept_fails
  <2>2. Fine(Ended(St, "exit"))
    BY <1>1, EndedFine DEF Fine, Pool
  <2> QED
    BY <2>1, <2>2, BecomesFine
<1>13. ASSUME NEW s \in Slots, ev[s].live,
              NEW e, DOMAIN e = SlotFields, e.live = ev[s].live, e.flag = ev[s].flag,
              e.cb = ev[s].cb, e.pair = ev[s].pair, e.timer = ev[s].timer,
              e.buff = ev[s].buff, e.sq = ev[s].sq, e.recv = ev[s].recv, e.got = ev[s].got,
              e.stream = ev[s].stream, e.fed = ev[s].fed, e.dp = ev[s].dp,
              e.mask = ev[s].mask, e.peer \in {ev[s].peer, ev[s].peer + 1}, Peer(s, e)
       PROVE  Fine(St')
  <2>1. ev[s].peer \in Nat
    BY <1>2 DEF SlotOK
  <2>2. e.peer \in Nat /\ e.peer >= ev[s].peer
    BY <1>13, <2>1
  <2>3. SlotOK(e) /\ SameSlot(ev[s], e)
    BY <1>2, <1>13, <2>2, PeerSlot
  <2> QED
    BY <1>1, <1>13, <2>3, PeerFine
<1>14. CASE client_sends \/ server_sends
  <2>1. PICK s \in Slots : ev[s].live /\ Peer(s, [ev[s] EXCEPT !.peer = @ + 1])
    BY <1>14 DEF client_sends, server_sends, Up
  <2> DEFINE e == [ev[s] EXCEPT !.peer = @ + 1]
  <2>2. /\ DOMAIN e = SlotFields /\ e.live = ev[s].live /\ e.flag = ev[s].flag
        /\ e.cb = ev[s].cb /\ e.pair = ev[s].pair /\ e.timer = ev[s].timer
        /\ e.buff = ev[s].buff /\ e.sq = ev[s].sq /\ e.recv = ev[s].recv /\ e.got = ev[s].got
        /\ e.stream = ev[s].stream /\ e.fed = ev[s].fed /\ e.dp = ev[s].dp
        /\ e.mask = ev[s].mask /\ e.peer \in {ev[s].peer, ev[s].peer + 1}
    BY <1>2 DEF SlotFields
  <2>3. Peer(s, e)
    BY <2>1
  <2> HIDE DEF e
  <2> QED
    BY <1>13, <2>1, <2>2, <2>3
<1>15. CASE server_connects \/ peer_ends
  <2>1. \E s \in Slots : ev[s].live /\ \E how : Peer(s, [ev[s] EXCEPT !.sock = how])
    BY <1>15 DEF server_connects, peer_ends, Up
  <2>2. PICK s \in Slots : ev[s].live /\ \E how : Peer(s, [ev[s] EXCEPT !.sock = how])
    BY <2>1
  <2>3. PICK how : Peer(s, [ev[s] EXCEPT !.sock = how])
    BY <2>2
  <2> DEFINE e == [ev[s] EXCEPT !.sock = how]
  <2>4. /\ DOMAIN e = SlotFields /\ e.live = ev[s].live /\ e.flag = ev[s].flag
        /\ e.cb = ev[s].cb /\ e.pair = ev[s].pair /\ e.timer = ev[s].timer
        /\ e.buff = ev[s].buff /\ e.sq = ev[s].sq /\ e.recv = ev[s].recv /\ e.got = ev[s].got
        /\ e.stream = ev[s].stream /\ e.fed = ev[s].fed /\ e.dp = ev[s].dp
        /\ e.mask = ev[s].mask /\ e.peer \in {ev[s].peer, ev[s].peer + 1}
    BY <1>2 DEF SlotFields
  <2>5. Peer(s, e)
    BY <2>3
  <2> HIDE DEF e
  <2> QED
    BY <1>13, <2>2, <2>4, <2>5
<1>16. CASE peer_reads
  <2>1. PICK s \in Slots : ev[s].full /\ Peer(s, [ev[s] EXCEPT !.full = FALSE])
    BY <1>16 DEF peer_reads
  <2> DEFINE e == [ev[s] EXCEPT !.full = FALSE]
  <2>2. ev[s].live
    <3>1. Blank.full = FALSE
      BY DEF Blank
    <3> QED
      BY <1>2, <2>1, <3>1 DEF SlotOK
  <2>3. /\ DOMAIN e = SlotFields /\ e.live = ev[s].live /\ e.flag = ev[s].flag
        /\ e.cb = ev[s].cb /\ e.pair = ev[s].pair /\ e.timer = ev[s].timer
        /\ e.buff = ev[s].buff /\ e.sq = ev[s].sq /\ e.recv = ev[s].recv /\ e.got = ev[s].got
        /\ e.stream = ev[s].stream /\ e.fed = ev[s].fed /\ e.dp = ev[s].dp
        /\ e.mask = ev[s].mask /\ e.peer \in {ev[s].peer, ev[s].peer + 1}
    BY <1>2 DEF SlotFields
  <2>4. Peer(s, e)
    BY <2>1
  <2> HIDE DEF e
  <2> QED
    BY <1>13, <2>2, <2>3, <2>4
<1>17. CASE UNCHANGED vars
  <2>1. St' = St
    BY <1>17 DEF vars, St
  <2> QED
    BY <1>1, <2>1
<1> QED
  BY <1>3, <1>4, <1>5, <1>6, <1>7, <1>8, <1>9, <1>10, <1>11, <1>12, <1>14, <1>15, <1>16, <1>17
  DEF Next
-----------------------------------------------------------------------------
(* The theorems.                                                           *)

\* In every reachable state each slot holds what was read through it, and each server of
\* which nothing was lost has what its client's slot has passed on.
THEOREM StreamInvariant == Spec => []SInv
<1>1. Init => SInv
  BY InitGood, InitFine DEF SInv
<1>2. SInv /\ [Next]_vars => SInv'
  BY NextGood, NextFine DEF SInv
<1> QED
  BY <1>1, <1>2, PTL DEF Spec

\* Every slot that is not in use is as memset() leaves it, the buffers hold bytes that were
\* read, a saved request (sq_buff) is all that was read and fits, only a server in a tunnel
\* has a timer, and a client in a tunnel has a group (desync.c reads params of dp).
THEOREM TypeCorrect == Spec => []TypeOK
<1>1. SInv => TypeOK
  <2> SUFFICES ASSUME SInv PROVE TypeOK
    OBVIOUS
  <2>1. /\ Good(St) /\ Shape(St) /\ Wired(St) /\ Pool(St) /\ LinkedBut(St, {})
        /\ St.ev = ev /\ St.batch = batch /\ St.touched = touched /\ St.status = status
        /\ St.cache = cache
    BY DEF SInv, IInv, Good, Fine, St
  <2>2. /\ touched \subseteq Slots /\ status \in {"run", "exit", "assert"}
        /\ \A e \in batch : e.slot \in Slots /\ e.open \in BOOLEAN /\ e.et # {}
    BY <2>1 DEF Pool, Shape, EventOK
  <2>3. cache = NoCache \/ (cache.dp \in Groups /\ cache.mask \subseteq Groups)
    BY <2>1 DEF Pool, CacheOK
  <2>4. ASSUME NEW s \in Slots
        PROVE  /\ ~ev[s].live => ev[s] = Blank
               /\ ev[s].buff \in Buffs /\ ev[s].buff.hi <= ev[s].recv /\ ev[s].recv <= ev[s].peer
               /\ ev[s].sq > 0 => ev[s].sq = ev[s].recv /\ ev[s].sq < SqSize
               /\ ev[s].dp \in 0..NGroups /\ ev[s].mask \subseteq Groups
    BY <2>1 DEF Pool, SlotOK, GroupOK
  <2>5. ASSUME NEW s \in Slots, ev[s].timer PROVE ev[s].flag = "conn" /\ ev[s].cb = "on_tunnel"
    BY <2>1, <2>5 DEF Wired, WiredAt
  <2>6. ASSUME NEW s \in Slots, ev[s].pair # NoSlot, ev[s].flag # "conn",
               ev[s].cb # "on_ignore", ev[s].cb # "on_udp_tunnel"
        PROVE  ev[s].dp # 0
    <3> DEFINE p == ev[s].pair
    <3>1. WiredAt(St, s) /\ St.ev[s].cb = "on_tunnel"
      BY <2>1, <2>6 DEF Wired, WiredAt
    <3>2. p \in Slots /\ ev[p].pair = s /\ ev[p].flag = "conn" /\ ev[p].cb = "on_tunnel"
      BY <2>1, <2>6, <3>1, LinkPlace
    <3> HIDE DEF p
    <3>3. WiredAt(St, p)
      BY <2>1, <3>2 DEF Wired
    <3>4. Server(St, p) /\ St.ev[St.ev[p].pair] = ev[s]
      BY <2>1, <3>2, <3>3, LinkPlace DEF Server
    <3>5. Linked(ev[s], St.ev[p])
      BY <2>1, <3>2, <3>4 DEF LinkedBut
    <3> QED
      BY <3>5 DEF Linked
  <2> QED
    BY <2>2, <2>3, <2>4, <2>5, <2>6 DEF TypeOK
<1> QED
  BY <1>1, StreamInvariant, PTL

\* reconnect(), on_trigger() and the buffers: whatever fails in whatever order, a server gets
\* the client's bytes from the first one on and each once, unless desync() lost some or a
\* failed reconnect made them pending again, and a client that was given an answer to its
\* request is not connected to another server.
THEOREM StreamsAreWhole == Spec => []StreamsWhole
<1>1. SInv => StreamsWhole
  <2> SUFFICES ASSUME SInv PROVE StreamsWhole
    OBVIOUS
  <2>1. \A s \in Slots : SlotOK(ev[s])
    BY DEF SInv, Fine, Pool, St
  <2> QED
    BY <2>1 DEF StreamsWhole, UploadWhole, OneAnswer, SlotOK
<1> QED
  BY <1>1, StreamInvariant, PTL

\* on_trigger() and connect_hook(), when all groups after the first have one --auto set: in
\* whatever order the connections to an address fail and write to its entry in the cache,
\* the entry leaves a group for the next client.
THEOREM CacheStaysUsable == ASSUME Uniform PROVE Spec => []CacheUsable
<1>1. SInv => CacheUsable
  <2> SUFFICES ASSUME SInv, cache # NoCache PROVE find_dp(cache).dp # 0
    BY DEF CacheUsable
  <2>1. CacheOK(St) /\ St.cache = cache
    BY DEF SInv, Fine, Pool, St
  <2> QED
    BY <2>1, CacheLeads
<1> QED
  BY <1>1, StreamInvariant, PTL

=============================================================================

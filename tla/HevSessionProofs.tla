--------------------------- MODULE HevSessionProofs ---------------------------
(***************************************************************************)
(* Proofs about HevSession for every size of the ring, of the windows and  *)
(* of the streams.                                                         *)
(***************************************************************************)
EXTENDS HevSession, SequenceTheorems, TLAPS

\* Where the task and the connection are: a session without its connection has none in
\* lwIP, and the send side is shut down once, by the slice that found the end of the
\* server's stream, never after a tcp_write that failed.
ShutStates == {"FIN_WAIT_1", "FIN_WAIT_2", "CLOSING", "LAST_ACK", "TIME_WAIT", "EXPIRED"}
DoneStates == {"FIN_WAIT_2", "TIME_WAIT", "EXPIRED"}
Connection ==
  /\ pc = "start" => task = "RUNNING"
  /\ pc = "ended" <=> task = "STOPPED"
  /\ pc = "ended" => ~pcb
  /\ pcb <=> state # "FREED"
  /\ ~pcb => outq = <<>> /\ cliSaw # "open"
  /\ pcb => /\ pcbEof <=> cliFin
            /\ cliFin <=> state \in {"CLOSE_WAIT", "CLOSING", "LAST_ACK", "TIME_WAIT", "EXPIRED"}
            /\ cliSaw = "open" <=> state \notin DoneStates
            /\ state \in DoneStates => outq = <<>>
            /\ state \in ShutStates =>
                 bDone /\ ~failed /\ srvRead = srvSent /\ (srvFin \/ srvRst)
  /\ failed => bDone
  /\ pcbEof => cliFin

\* The stream to the client.  Of what lwIP holds every byte is in its cell; as long as
\* no tcp_write failed the cells are the ones before rp, and nothing is missing.
Cell(k) == IF k < 0 THEN k + RingSize ELSE k
Ring ==
  /\ pcb => rda = 0
  /\ pcb /\ ~failed => /\ wp = rp /\ use = Len(outq) /\ srvRead = Len(cliGot) + use
                       /\ \A i \in 1..Len(outq) : outq[i] = Cell(rp - use + i - 1)
Down ==
  /\ \A i \in 1..Len(cliGot) : cliGot[i] \in 1..srvRead
  /\ \A i, j \in 1..Len(cliGot) : i < j => cliGot[i] < cliGot[j]
  /\ \A i \in 1..Len(outq) : data[outq[i]] \in 1..srvRead
  /\ \A i \in 1..Len(cliGot) : \A j \in 1..Len(outq) : cliGot[i] < data[outq[j]]
  /\ \A i, j \in 1..Len(outq) : i < j => data[outq[i]] < data[outq[j]]
  /\ ~failed => /\ \A i \in 1..Len(cliGot) : cliGot[i] = i
                /\ \A i \in 1..Len(outq) : data[outq[i]] = Len(cliGot) + i

\* The stream to the server: what it has, what its socket holds and what the session
\* still queues are the bytes of the client, until the server resets or the session ends.
Up ==
  /\ \A i \in 1..Len(srvGot) : srvGot[i] = i
  /\ \A i \in 1..Len(srvBuf) : srvBuf[i] = Len(srvGot) + i
  /\ Len(srvGot) + Len(srvBuf) <= cliSent
  /\ ~srvRst /\ pc # "ended" =>
       /\ Len(srvGot) + Len(srvBuf) + Len(queue) = cliSent
       /\ \A i \in 1..Len(queue) : queue[i] = Len(srvGot) + Len(srvBuf) + i
  /\ srvRst => srvBuf = <<>> /\ srvSaw # "open"
  /\ fDone => srvRst \/ srvEnd
  /\ srvEnd => /\ fDone /\ pcbEof /\ queue = <<>>
               /\ srvRst \/ srvSaw = "cut" \/ Len(srvGot) + Len(srvBuf) = cliSent
  /\ srvSaw # "open" => srvBuf = <<>> /\ (srvRst \/ fDone \/ pc = "ended")

\* A task that waits has nothing it could move.
Waiting ==
  task = "WAITING" =>
    /\ pc = "splice" => queue = <<>> \/ Len(srvBuf) = SockRoom \/ srvRst
    /\ pc = "splice" /\ bDone /\ pcbEof => queue # <<>> /\ Len(srvBuf) = SockRoom
    /\ pc = "drain" /\ pcb => use > 0

\* A session that leaves the loop has ended the stream to the server, or was reset by it,
\* or was terminated or timed out; the connection of the client takes it along.
Left ==
  /\ ~pcb => timeout = "zero" \/ pc = "ended"
  /\ pc \in {"drain", "ended"} => srvEnd \/ srvRst \/ timeout = "zero" \/ timedOut

IInv == TypeOK /\ Connection /\ Ring /\ Down /\ Up /\ Waiting /\ Left

USE DEF history
-----------------------------------------------------------------------------
(* Arithmetic of the ring and of the two moves.                            *)

\* The smaller of two numbers.
LEMMA MinTwo ==
  ASSUME NEW a \in Int, NEW b \in Int
  PROVE  Min({a, b}) = IF a <= b THEN a ELSE b
<1>1. \E x \in {a, b} : \A y \in {a, b} : x <= y
  OBVIOUS
<1> QED
  BY <1>1 DEF Min

\* The two halves of a sequence.
LEMMA TwoHalves ==
  ASSUME NEW S, NEW s \in Seq(S), NEW k \in 0..Len(s)
  PROVE  /\ SubSeq(s, 1, k) \in Seq(S) /\ Len(SubSeq(s, 1, k)) = k
         /\ \A i \in 1..k : SubSeq(s, 1, k)[i] = s[i]
         /\ SubSeq(s, k + 1, Len(s)) \in Seq(S) /\ Len(SubSeq(s, k + 1, Len(s))) = Len(s) - k
         /\ \A i \in 1..(Len(s) - k) : SubSeq(s, k + 1, Len(s))[i] = s[k + i]
<1>1. Len(s) \in Nat /\ k \in Int /\ \A i \in 1..Len(s) : s[i] \in S
  OBVIOUS
<1>2. \A i \in 1..k : s[i] \in S
  BY <1>1
<1>3. /\ SubSeq(s, 1, k) \in Seq(S)
      /\ Len(SubSeq(s, 1, k)) = IF 1 <= k THEN k - 1 + 1 ELSE 0
      /\ \A i \in 1..(k - 1 + 1) : SubSeq(s, 1, k)[i] = s[1 + i - 1]
  BY <1>1, <1>2, SubSeqProperties
<1>4. \A i \in (k + 1)..Len(s) : s[i] \in S
  BY <1>1
<1>5. /\ SubSeq(s, k + 1, Len(s)) \in Seq(S)
      /\ Len(SubSeq(s, k + 1, Len(s))) = IF k + 1 <= Len(s) THEN Len(s) - (k + 1) + 1 ELSE 0
      /\ \A i \in 1..(Len(s) - (k + 1) + 1) : SubSeq(s, k + 1, Len(s))[i] = s[k + 1 + i - 1]
  <2>1. k + 1 \in Int /\ Len(s) \in Int
    BY <1>1
  <2> QED
    BY <1>4, <2>1, SubSeqProperties
<1>6. k - 1 + 1 = k /\ Len(s) - (k + 1) + 1 = Len(s) - k
  BY <1>1
<1>7. ASSUME NEW i \in 1..k
      PROVE  SubSeq(s, 1, k)[i] = s[i]
  <2>1. 1 + i - 1 = i
    OBVIOUS
  <2> QED
    BY <1>3, <1>6, <2>1
<1>8. ASSUME NEW i \in 1..(Len(s) - k)
      PROVE  SubSeq(s, k + 1, Len(s))[i] = s[k + i]
  <2>1. k + 1 + i - 1 = k + i
    BY <1>1
  <2> QED
    BY <1>5, <1>6, <2>1
<1>9. Len(SubSeq(s, 1, k)) = k /\ Len(SubSeq(s, k + 1, Len(s))) = Len(s) - k
  BY <1>1, <1>3, <1>5
<1> QED
  BY <1>3, <1>5, <1>7, <1>8, <1>9

\* A position that is less than two rings away wraps once.
LEMMA WrapsOnce ==
  ASSUME NEW x \in 0..(2 * RingSize - 1)
  PROVE  x % RingSize = IF x < RingSize THEN x ELSE x - RingSize
<1>1. CASE x < RingSize
  BY <1>1, SizesAssumption
<1>2. CASE x >= RingSize
  BY <1>2, SizesAssumption
<1> QED
  BY <1>1, <1>2, SizesAssumption

\* What tcp_splice_f moves: no more than there is and than fits, and nothing only when
\* one of the two is 0, or the direction is done.
LEMMA MovedFBounds ==
  ASSUME TypeOK
  PROVE  /\ MovedF \in 0..Len(queue) /\ Len(srvBuf) + MovedF <= SockRoom
         /\ fDone \/ srvRst => MovedF = 0
         /\ ~fDone /\ ~srvRst /\ MovedF = 0 => queue = <<>> \/ Len(srvBuf) = SockRoom
<1>1. /\ Len(queue) \in Nat /\ Len(srvBuf) \in Nat /\ SockRoom \in Nat
      /\ Len(srvBuf) <= SockRoom /\ queue \in Seq(1..MaxUp)
  BY SizesAssumption DEF TypeOK
<1>2. Min({SockRoom - Len(srvBuf), Len(queue)})
        = IF SockRoom - Len(srvBuf) <= Len(queue) THEN SockRoom - Len(srvBuf)
                                                  ELSE Len(queue)
  BY <1>1, MinTwo
<1>3. Len(queue) = 0 => queue = <<>>
  BY <1>1
<1> QED
  BY <1>1, <1>2, <1>3 DEF MovedF

\* The bytes that tcp_splice_f moves and the ones that stay queued.
Sent == SubSeq(queue, 1, MovedF)
Rest == SubSeq(queue, MovedF + 1, Len(queue))
LEMMA QueueHalves ==
  ASSUME TypeOK
  PROVE  /\ Sent \in Seq(1..MaxUp) /\ Len(Sent) = MovedF
         /\ \A i \in 1..MovedF : Sent[i] = queue[i]
         /\ Rest \in Seq(1..MaxUp) /\ Len(Rest) = Len(queue) - MovedF
         /\ \A i \in 1..(Len(queue) - MovedF) : Rest[i] = queue[MovedF + i]
<1>1. queue \in Seq(1..MaxUp) /\ MovedF \in 0..Len(queue)
  BY MovedFBounds DEF TypeOK
<1> DEFINE U == 1..MaxUp
           k == MovedF
<1>2. queue \in Seq(U) /\ k \in 0..Len(queue)
  BY <1>1
<1> HIDE DEF U, k
<1>3. /\ SubSeq(queue, 1, k) \in Seq(U) /\ Len(SubSeq(queue, 1, k)) = k
      /\ \A i \in 1..k : SubSeq(queue, 1, k)[i] = queue[i]
      /\ SubSeq(queue, k + 1, Len(queue)) \in Seq(U)
      /\ Len(SubSeq(queue, k + 1, Len(queue))) = Len(queue) - k
      /\ \A i \in 1..(Len(queue) - k) : SubSeq(queue, k + 1, Len(queue))[i] = queue[k + i]
  BY <1>2, TwoHalves
<1> QED
  BY <1>3 DEF U, k, Sent, Rest

\* What tcp_splice_b reads: no more than the ring has room for and than was sent.
LEMMA MovedBBounds ==
  ASSUME TypeOK
  PROVE  /\ MovedB \in Nat /\ use + MovedB <= RingSize /\ srvRead + MovedB <= srvSent
         /\ bDone => MovedB = 0
         /\ srvRead = srvSent => MovedB = 0
<1>1. /\ use \in Nat /\ RingSize \in Nat /\ use <= RingSize
      /\ srvSent \in Nat /\ srvRead \in Nat /\ srvRead <= srvSent
  BY SizesAssumption, BoundsAssumption DEF TypeOK
<1>2. Min({RingSize - use, srvSent - srvRead})
        = IF RingSize - use <= srvSent - srvRead THEN RingSize - use ELSE srvSent - srvRead
  BY <1>1, MinTwo
<1> QED
  BY <1>1, <1>2 DEF MovedB

\* The ring after the readv: the free cells from wp on have the next bytes of the
\* server, the others are as before.
LEMMA FilledCells ==
  ASSUME TypeOK
  PROVE  /\ Filled \in [Cells -> 0..MaxDown]
         /\ \A c \in Cells : LET i == IF c >= wp THEN c - wp ELSE c + RingSize - wp
                             IN Filled[c] = IF i < MovedB THEN srvRead + i + 1 ELSE data[c]
<1>1. /\ RingSize \in Nat \ {0} /\ wp \in 0..(RingSize - 1)
      /\ data \in [Cells -> 0..MaxDown] /\ MaxDown \in Nat
      /\ srvSent \in 0..MaxDown /\ srvRead \in 0..srvSent
  BY SizesAssumption, BoundsAssumption DEF TypeOK, Cells
<1>2. MovedB \in Nat /\ srvRead + MovedB <= srvSent
  BY MovedBBounds
<1>3. ASSUME NEW c \in Cells
      PROVE  (c + RingSize - wp) % RingSize = IF c >= wp THEN c - wp ELSE c + RingSize - wp
  <2>1. c \in 0..(RingSize - 1) /\ c + RingSize - wp \in 0..(2 * RingSize - 1)
    BY <1>1 DEF Cells
  <2>2. (c + RingSize - wp) % RingSize
          = IF c + RingSize - wp < RingSize THEN c + RingSize - wp
            ELSE (c + RingSize - wp) - RingSize
    BY <2>1, WrapsOnce
  <2> QED
    BY <1>1, <2>1, <2>2
<1>4. ASSUME NEW c \in Cells
      PROVE  LET i == IF c >= wp THEN c - wp ELSE c + RingSize - wp
             IN /\ Filled[c] = IF i < MovedB THEN srvRead + i + 1 ELSE data[c]
                /\ Filled[c] \in 0..MaxDown
  <2>1. c \in 0..(RingSize - 1)
    BY DEF Cells
  <2> DEFINE i == IF c >= wp THEN c - wp ELSE c + RingSize - wp
  <2>2. i \in Nat
    BY <1>1, <2>1
  <2>3. Filled[c] = IF i < MovedB THEN srvRead + i + 1 ELSE data[c]
    BY <1>3 DEF Filled
  <2> HIDE DEF i
  <2>4. Filled[c] \in 0..MaxDown
    BY <1>1, <1>2, <2>2, <2>3
  <2> QED
    BY <2>3, <2>4 DEF i
<1>5. Filled = [c \in Cells |-> Filled[c]]
  BY DEF Filled
<1> QED
  BY <1>4, <1>5

\* The cell of the k-th byte that hev_ring_buffer_reading hands out.
CellAt(k) == IF rp + k - 1 < RingSize THEN rp + k - 1 ELSE rp + k - 1 - RingSize

\* What lwIP accepts is one run of those bytes, from the first or from the wrap on, and
\* the whole of them when no tcp_write fails.
Skipped(ok) == IF ok[1] THEN 0 ELSE Upper
LEMMA AcceptedCells ==
  ASSUME TypeOK, NEW ok \in [1..3 -> BOOLEAN]
  PROVE  /\ Accepted(ok) \in Seq(Cells)
         /\ Skipped(ok) \in Nat /\ Skipped(ok) + Len(Accepted(ok)) <= Readable
         /\ \A n \in 1..Len(Accepted(ok)) : Accepted(ok)[n] = CellAt(Skipped(ok) + n)
         /\ pcb /\ ~bDone /\ ~WriteFails(ok) =>
              Len(Accepted(ok)) = Readable /\ (Readable > 0 => Skipped(ok) = 0)
         /\ Readable \in 0..RingSize
         /\ Readable = 0 => ~WriteFails(ok)
<1>1. /\ RingSize \in Nat \ {0} /\ rp \in 0..(RingSize - 1)
      /\ rda \in Nat /\ use \in Nat /\ rda <= use
  BY SizesAssumption DEF TypeOK, Cells
<1>2. MovedB \in Nat /\ use + MovedB <= RingSize
  BY MovedBBounds
<1>3. Readable \in 0..RingSize
  BY <1>1, <1>2 DEF Readable
<1>4. Upper = IF Readable <= RingSize - rp THEN Readable ELSE RingSize - rp
  BY <1>1, <1>3, MinTwo DEF Upper
<1> DEFINE a == Iov(1)  b == Iov(2)
<1>5. /\ a \in Seq(Cells) /\ Len(a) = Upper /\ \A n \in 1..Upper : a[n] = CellAt(n)
      /\ b \in Seq(Cells) /\ Len(b) = Readable - Upper
      /\ \A n \in 1..(Readable - Upper) : b[n] = CellAt(Upper + n)
  <2>1. a = [n \in 1..Upper |-> rp + n - 1] /\ b = [n \in 1..(Readable - Upper) |-> n - 1]
    BY DEF Iov
  <2>2. /\ Upper \in Nat /\ Readable - Upper \in Nat
        /\ \A n \in 1..Upper : rp + n - 1 \in Cells /\ CellAt(n) = rp + n - 1
        /\ \A n \in 1..(Readable - Upper) : n - 1 \in Cells /\ CellAt(Upper + n) = n - 1
    BY <1>1, <1>3, <1>4 DEF Cells, CellAt
  <2>3. a \in [1..Upper -> Cells] /\ b \in [1..(Readable - Upper) -> Cells]
    BY <2>1, <2>2
  <2>4. a \in Seq(Cells) /\ Len(a) = Upper
    BY <2>2, <2>3, SeqDef
  <2>5. b \in Seq(Cells) /\ Len(b) = Readable - Upper
    <3> DEFINE k == Readable - Upper
    <3>1. k \in Nat /\ b \in [1..k -> Cells]
      BY <2>2, <2>3
    <3> HIDE DEF a, b, k
    <3>2. b \in Seq(Cells) /\ Len(b) = k
      BY <3>1, SeqDef
    <3> QED
      BY <3>2 DEF k
  <2> QED
    BY <2>1, <2>2, <2>4, <2>5
<1>6. Upper \in Nat /\ Readable - Upper \in Nat /\ Readable \in Nat
  BY <1>1, <1>3, <1>4
<1>7. Accepted(ok) = (IF ok[1] THEN a ELSE <<>>) \o (IF ok[2] THEN b ELSE <<>>)
  BY DEF Accepted
<1>8. WriteFails(ok) <=> ~bDone /\ pcb /\ ((~ok[1] /\ a # <<>>) \/ (~ok[2] /\ b # <<>>))
  <2>1. (\E i \in {1, 2} : ~ok[i] /\ Iov(i) # <<>>)
          <=> ((~ok[1] /\ Iov(1) # <<>>) \/ (~ok[2] /\ Iov(2) # <<>>))
    BY Zenon
  <2> QED
    BY <2>1 DEF WriteFails
<1>9. (a = <<>> <=> Upper = 0) /\ (b = <<>> <=> Readable = Upper)
  BY <1>5, <1>6
<1> HIDE DEF a, b
<1>10. CASE ok[1] /\ ok[2]
  <2>1. Accepted(ok) = a \o b /\ Skipped(ok) = 0
    BY <1>5, <1>7, <1>10 DEF Skipped
  <2> QED
    <3>1. ASSUME NEW n \in 1..Len(a \o b)
          PROVE  (a \o b)[n] = CellAt(n)
      <4>1. CASE n <= Upper
        BY <1>5, <1>6, <4>1
      <4>2. CASE n > Upper
        <5>1. n - Upper \in 1..(Readable - Upper) /\ (a \o b)[n] = b[n - Upper]
          BY <1>5, <1>6, <4>2
        <5>2. Upper + (n - Upper) = n
          BY <1>6
        <5>3. b[n - Upper] = CellAt(Upper + (n - Upper))
          BY <1>5, <5>1
        <5> QED
          BY <5>1, <5>2, <5>3
      <4> QED
        BY <1>5, <1>6, <4>1, <4>2
    <3>2. a \o b \in Seq(Cells) /\ Len(a \o b) = Readable
      BY <1>5, <1>6
    <3>3. \A n \in 1..Len(a \o b) : 0 + n = n
      BY <3>2
    <3> QED
      BY <1>3, <1>5, <1>6, <1>8, <1>10, <2>1, <3>1, <3>2, <3>3
<1>11. CASE ok[1] /\ ~ok[2]
  <2>1. Accepted(ok) = a /\ Skipped(ok) = 0
    BY <1>5, <1>7, <1>11 DEF Skipped
  <2> QED
    BY <1>3, <1>4, <1>5, <1>6, <1>8, <1>9, <1>11, <2>1
<1>12. CASE ~ok[1] /\ ok[2]
  <2>1. Accepted(ok) = b /\ Skipped(ok) = Upper
    BY <1>5, <1>7, <1>12 DEF Skipped
  <2> QED
    BY <1>1, <1>3, <1>4, <1>5, <1>6, <1>8, <1>9, <1>12, <2>1
<1>13. CASE ~ok[1] /\ ~ok[2]
  <2>1. Accepted(ok) = <<>> /\ Skipped(ok) = Upper
    BY <1>5, <1>7, <1>13 DEF Skipped
  <2> QED
    BY <1>1, <1>3, <1>4, <1>5, <1>6, <1>8, <1>9, <1>13, <2>1
<1> QED
  BY <1>10, <1>11, <1>12, <1>13

\* While the session has its connection and lwIP takes what it gets, the bytes that are
\* read land in the cells that lwIP is given next, and no cell it holds is overwritten.
LEMMA FreshCells ==
  ASSUME TypeOK, Connection, Ring, pcb, ~bDone
  PROVE  /\ ~failed /\ rda = 0 /\ Readable = MovedB /\ MovedB \in 0..RingSize
         /\ \A k \in 1..MovedB : CellAt(k) \in Cells /\ Filled[CellAt(k)] = srvRead + k
         /\ \A i \in 1..Len(outq) : outq[i] \in Cells /\ Filled[outq[i]] = data[outq[i]]
<1>1. ~failed /\ rda = 0 /\ wp = rp /\ use = Len(outq)
  BY DEF Connection, Ring
<1>2. \A i \in 1..Len(outq) : outq[i] = Cell(rp - use + i - 1)
  BY <1>1 DEF Ring
<1>3. /\ RingSize \in Nat \ {0} /\ rp \in 0..(RingSize - 1) /\ use \in 0..RingSize
      /\ srvRead \in Nat
  BY SizesAssumption, BoundsAssumption DEF TypeOK, Cells
<1>4. MovedB \in Nat /\ use + MovedB <= RingSize
  BY MovedBBounds
<1>5. Readable = MovedB /\ MovedB \in 0..RingSize
  BY <1>1, <1>3, <1>4 DEF Readable
<1>6. ASSUME NEW k \in 1..MovedB
      PROVE  CellAt(k) \in Cells /\ Filled[CellAt(k)] = srvRead + k
  <2>1. CellAt(k) \in Cells
    BY <1>3, <1>4 DEF CellAt, Cells
  <2> DEFINE i == IF CellAt(k) >= wp THEN CellAt(k) - wp ELSE CellAt(k) + RingSize - wp
  <2>2. i = k - 1
    BY <1>1, <1>3, <1>4 DEF CellAt
  <2>3. Filled[CellAt(k)] = IF i < MovedB THEN srvRead + i + 1 ELSE data[CellAt(k)]
    BY <2>1, FilledCells
  <2> HIDE DEF i
  <2> QED
    BY <1>3, <1>4, <2>1, <2>2, <2>3
<1>7. ASSUME NEW n \in 1..Len(outq)
      PROVE  outq[n] \in Cells /\ Filled[outq[n]] = data[outq[n]]
  <2>1. outq[n] = Cell(rp - use + n - 1) /\ n \in 1..use
    BY <1>1, <1>2
  <2>2. outq[n] \in Cells
    BY <1>3, <2>1 DEF Cell, Cells
  <2> DEFINE i == IF outq[n] >= wp THEN outq[n] - wp ELSE outq[n] + RingSize - wp
  <2>3. i = RingSize - use + n - 1
    BY <1>1, <1>3, <2>1 DEF Cell
  <2>4. Filled[outq[n]] = IF i < MovedB THEN srvRead + i + 1 ELSE data[outq[n]]
    BY <2>2, FilledCells
  <2> HIDE DEF i
  <2>5. ~(i < MovedB)
    BY <1>3, <1>4, <2>1, <2>3
  <2> QED
    BY <2>2, <2>4, <2>5
<1> QED
  BY <1>1, <1>5, <1>6, <1>7

\* How a slice ends: the loop goes on, the drain begins, or the session is destructed.
Kept(ok) ==
  /\ pcb' = pcb /\ cliSaw' = cliSaw
  /\ queue' = Rest /\ state' = StateB /\ outq' = Queued(ok)
  /\ \/ pc' = "splice" /\ task' = "RUNNING"
     \/ /\ pc' = "splice" /\ task' = "WAITING"
        /\ ResF <= 0 /\ ResB(ok) <= 0 /\ ~(ResF < 0 /\ ResB(ok) < 0)
     \/ pc' = "drain" /\ task' = "WAITING" /\ pcb /\ use' > 0 /\ ResF <= 0
LEMMA SliceEnds ==
  ASSUME NEW ok \in [1..3 -> BOOLEAN], Slice(ok)
  PROVE  Kept(ok) \/ (Destruct(StateB, Queued(ok)) /\ ResF <= 0)
<1> DEFINE waits == ResF <= 0 /\ ResB(ok) <= 0
           over == waits /\ (timeout = "zero" \/ (ResF < 0 /\ ResB(ok) < 0))
<1>1. \/ /\ ~over
         /\ pc' = "splice" /\ task' = IF waits THEN "WAITING" ELSE "RUNNING"
         /\ queue' = Rest /\ state' = StateB /\ outq' = Queued(ok)
         /\ UNCHANGED <<pcb, cliSaw>>
      \/ over /\ Leave(StateB, Queued(ok), use', Rest)
  BY DEF Slice, Rest
<1>2. CASE ~over /\ waits
  BY <1>1, <1>2 DEF Kept
<1>3. CASE ~over /\ ~waits
  BY <1>1, <1>3 DEF Kept
<1>4. CASE over /\ Leave(StateB, Queued(ok), use', Rest)
  BY <1>4 DEF Kept, Leave
<1> QED
  BY <1>1, <1>2, <1>3, <1>4

-----------------------------------------------------------------------------
(* Types.                                                                  *)

\* tcp_splice_f and tcp_splice_b keep the types.
LEMMA SliceTypeOK ==
  ASSUME TypeOK, NEW ok \in [1..3 -> BOOLEAN], Slice(ok)
  PROVE  TypeOK'
<1>1. /\ RingSize \in Nat \ {0} /\ TcpWnd \in Nat /\ SockRoom \in Nat
      /\ MaxUp \in Nat /\ MaxDown \in Nat
  BY SizesAssumption, BoundsAssumption
<1>2. /\ MovedF \in 0..Len(queue) /\ Len(srvBuf) + MovedF <= SockRoom
      /\ MovedB \in Nat /\ use + MovedB <= RingSize /\ srvRead + MovedB <= srvSent
      /\ bDone => MovedB = 0
  BY MovedFBounds, MovedBBounds
<1>3. Kept(ok) \/ Destruct(StateB, Queued(ok))
  BY SliceEnds
<1>4. /\ {pcb, pcbEof, fDone, bDone, cliFin, srvFin, srvRst, srvEnd}' \subseteq BOOLEAN
      /\ {failed, unflushed, timedOut}' \subseteq BOOLEAN
  <2>1. pcb' \in BOOLEAN
    BY <1>3 DEF TypeOK, Kept, Destruct
  <2>2. fDone' \in BOOLEAN /\ srvEnd' \in BOOLEAN
    BY DEF Slice, tcp_splice_f
  <2>3. bDone' \in BOOLEAN /\ failed' \in BOOLEAN /\ unflushed' \in BOOLEAN
    BY DEF Slice, tcp_splice_b
  <2> QED
    BY <2>1, <2>2, <2>3 DEF Slice, TypeOK
<1>5. /\ pc' \in {"start", "splice", "drain", "ended"}
      /\ task' \in {"RUNNING", "WAITING", "STOPPED"} /\ timeout' \in {"set", "zero"}
      /\ cliSaw' \in {"open", "eof", "cut"} /\ srvSaw' \in {"open", "eof", "cut"}
  <2>1. CASE Kept(ok)
    BY <2>1 DEF TypeOK, Kept, Slice
  <2>2. CASE Destruct(StateB, Queued(ok))
    BY <2>2 DEF TypeOK, Destruct, Slice
  <2> QED
    BY <1>3, <2>1, <2>2
<1>6. state' \in States
  BY <1>3 DEF TypeOK, Kept, Destruct, StateB, Shutdown, States
<1>7. /\ data' \in [Cells -> 0..MaxDown] /\ wp' \in Cells /\ use' \in 0..RingSize
      /\ srvSent' \in 0..MaxDown /\ srvRead' \in 0..srvSent' /\ cliSent' \in 0..MaxUp
  <2>1. data' = Filled /\ wp' = (wp + MovedB) % RingSize /\ use' = use + MovedB
        /\ srvRead' = srvRead + MovedB /\ UNCHANGED <<srvSent, cliSent>>
    BY DEF Slice, tcp_splice_b
  <2>2. wp' \in 0..(RingSize - 1)
    <3>1. wp \in 0..(RingSize - 1)
      BY DEF TypeOK, Cells
    <3>2. wp + MovedB \in Nat /\ RingSize \in Nat \ {0}
      BY <1>1, <1>2, <3>1
    <3> QED
      BY <2>1, <3>2
  <2>3. use' \in 0..RingSize /\ srvRead' \in 0..srvSent'
    <3>1. use \in 0..RingSize /\ srvRead \in 0..srvSent /\ srvSent \in 0..MaxDown
      BY DEF TypeOK
    <3> QED
      BY <1>1, <1>2, <2>1, <3>1
  <2> QED
    BY <2>1, <2>2, <2>3, FilledCells DEF TypeOK, Cells
<1>8. rp' \in Cells /\ rda' \in 0..use' /\ outq' \in Seq(Cells) /\ Len(outq') + rda' <= use'
  <2>1. /\ Accepted(ok) \in Seq(Cells) /\ Len(Accepted(ok)) <= Readable
        /\ Readable \in 0..RingSize /\ Readable = rda + MovedB
    BY <1>1, AcceptedCells DEF Readable
  <2>2. /\ rp \in 0..(RingSize - 1) /\ rda \in 0..use /\ use \in 0..RingSize
        /\ outq \in Seq(Cells) /\ Len(outq) + rda <= use
    BY DEF TypeOK, Cells
  <2>3. use' = use + MovedB
    BY DEF Slice, tcp_splice_b
  <2>4. outq' = Queued(ok) \/ (outq' \in Seq(Cells) /\ Len(outq') = 0)
    <3>1. <<>> \in Seq(Cells) /\ Len(<<>>) = 0
      OBVIOUS
    <3> QED
      BY <1>3, <3>1 DEF Kept, Destruct
  <2>5. CASE ~bDone /\ pcb
    <3>1. rda' = 0 /\ rp' = (rp + Readable) % RingSize
      BY <2>5 DEF Slice, tcp_splice_b
    <3>2. Queued(ok) = outq \o Accepted(ok)
      BY <2>5 DEF Queued
    <3>3. rp' \in 0..(RingSize - 1)
      <4>1. rp + Readable \in Nat /\ RingSize \in Nat \ {0}
        BY <1>1, <2>1, <2>2
      <4> QED
        BY <3>1, <4>1
    <3>4. rp' \in Cells
      BY <3>3 DEF Cells
    <3>5. Len(Queued(ok)) = Len(outq) + Len(Accepted(ok)) /\ Queued(ok) \in Seq(Cells)
      BY <2>1, <2>2, <3>2
    <3>6. /\ Len(Queued(ok)) + rda' <= use' /\ 0 + rda' <= use' /\ rda' \in 0..use'
          /\ rda' \in Int /\ use' \in Int
      BY <1>1, <1>2, <2>1, <2>2, <2>3, <3>1, <3>5
    <3>7. CASE outq' = Queued(ok)
      BY <3>4, <3>5, <3>6, <3>7
    <3>8. CASE outq' \in Seq(Cells) /\ Len(outq') = 0
      BY <3>4, <3>6, <3>8
    <3> QED
      BY <2>4, <3>7, <3>8
  <2>6. CASE ~(~bDone /\ pcb)
    <3>1. rda' = Readable /\ rp' = rp
      BY <2>6 DEF Slice, tcp_splice_b
    <3>2. Queued(ok) = outq
      BY <2>6 DEF Queued
    <3>3. rp' \in Cells
      BY <2>2, <3>1 DEF Cells
    <3>4. /\ Len(Queued(ok)) + rda' <= use' /\ 0 + rda' <= use' /\ rda' \in 0..use'
          /\ rda' \in Int /\ use' \in Int
      BY <1>1, <1>2, <2>1, <2>2, <2>3, <3>1, <3>2
    <3>5. CASE outq' = Queued(ok)
      BY <2>2, <3>2, <3>3, <3>4, <3>5
    <3>6. CASE outq' \in Seq(Cells) /\ Len(outq') = 0
      BY <3>3, <3>4, <3>6
    <3> QED
      BY <2>4, <3>5, <3>6
  <2> QED
    BY <2>5, <2>6
<1>9. /\ queue' \in Seq(1..MaxUp) /\ rcvWnd' \in 0..TcpWnd
      /\ pcb' => rcvWnd' + Len(queue') = TcpWnd
  <2>1. /\ queue \in Seq(1..MaxUp) /\ rcvWnd \in 0..TcpWnd
        /\ pcb => rcvWnd + Len(queue) = TcpWnd
    BY DEF TypeOK
  <2>2. Rest \in Seq(1..MaxUp) /\ Len(Rest) = Len(queue) - MovedF
    BY QueueHalves
  <2>3. rcvWnd' = IF pcb THEN rcvWnd + MovedF ELSE rcvWnd
    BY DEF Slice, tcp_splice_f
  <2>4. (queue' = Rest /\ pcb' = pcb) \/ (queue' = <<>> /\ pcb' = FALSE)
    BY <1>3 DEF Kept, Destruct
  <2>5. CASE queue' = Rest /\ pcb' = pcb
    <3>1. CASE pcb
      <4>1. /\ rcvWnd' = rcvWnd + MovedF /\ Len(queue') = Len(queue) - MovedF
            /\ rcvWnd + Len(queue) = TcpWnd /\ Len(queue) \in Nat
        BY <2>1, <2>2, <2>3, <2>5, <3>1
      <4>2. rcvWnd' \in 0..TcpWnd /\ rcvWnd' + Len(queue') = TcpWnd
        BY <1>1, <1>2, <2>1, <4>1
      <4> QED
        BY <2>2, <2>5, <4>2
    <3>2. CASE ~pcb
      BY <1>1, <1>2, <2>1, <2>2, <2>3, <2>5, <3>2
    <3> QED
      BY <3>1, <3>2
  <2>6. CASE queue' = <<>> /\ pcb' = FALSE
    BY <1>1, <1>2, <2>1, <2>3, <2>6
  <2> QED
    BY <2>4, <2>5, <2>6
<1>10. /\ cliGot' \in Seq(0..MaxDown) /\ srvGot' \in Seq(1..MaxUp)
       /\ srvBuf' \in Seq(1..MaxUp) /\ Len(srvBuf') <= SockRoom
  <2>1. srvBuf' = srvBuf \o Sent /\ UNCHANGED <<cliGot, srvGot>>
    BY DEF Slice, tcp_splice_f, Sent
  <2>2. Sent \in Seq(1..MaxUp) /\ Len(Sent) = MovedF
    BY QueueHalves
  <2> QED
    BY <1>1, <1>2, <2>1, <2>2 DEF TypeOK
<1> QED
  BY <1>4, <1>5, <1>6, <1>7, <1>8, <1>9, <1>10 DEF TypeOK

\* The end of the session keeps the types.
LEMMA DestructTypeOK ==
  ASSUME TypeOK, Destruct(state, outq), UNCHANGED quiet, timedOut' \in {timedOut, TRUE}
  PROVE  TypeOK'
<1>1. /\ queue' = <<>> /\ outq' = <<>> /\ pcb' = FALSE
      /\ pc' = "ended" /\ task' = "STOPPED" /\ cliSaw' \in {"open", "eof", "cut"}
      /\ state' \in {"FREED", state}
  BY DEF Destruct, TypeOK
<1>2. <<>> \in Seq(1..MaxUp) /\ <<>> \in Seq(Cells) /\ Len(<<>>) = 0
  OBVIOUS
<1>3. /\ use \in Nat /\ rda \in 0..use /\ RingSize \in Nat
  BY SizesAssumption DEF TypeOK
<1>4. Len(outq') + rda' <= use'
  BY <1>1, <1>2, <1>3 DEF quiet, ring
<1> QED
  BY <1>1, <1>2, <1>4 DEF TypeOK, quiet, ring, server, States

\* Every step keeps the types.
LEMMA NextTypeOK == TypeOK /\ [Next]_vars => TypeOK'
<1> SUFFICES ASSUME TypeOK, [Next]_vars PROVE TypeOK'
  OBVIOUS
<1> USE SizesAssumption, BoundsAssumption
<1>1. ASSUME NEW ok \in [1..3 -> BOOLEAN], Slice(ok) PROVE TypeOK'
  BY <1>1, SliceTypeOK
<1>2. CASE splice_refused
  BY <1>2, DestructTypeOK DEF splice_refused
<1>3. ASSUME NEW held, Leave(state, outq, held, queue), UNCHANGED quiet,
             timedOut' \in {timedOut, TRUE}
      PROVE  TypeOK'
  BY <1>3, DestructTypeOK DEF Leave, TypeOK, quiet, ring, server
<1>4. CASE drain
  BY <1>3, <1>4 DEF drain
<1>5. CASE io_timeout
  BY <1>3, <1>5, DestructTypeOK DEF io_timeout
<1>6. CASE hev_socks5_session_terminate
  BY <1>6 DEF hev_socks5_session_terminate, TypeOK, Terminates, Wakes, ring, lwip, client, server
<1>7. CASE client_data
  <2>1. /\ queue \in Seq(1..MaxUp) /\ cliSent \in 0..MaxUp /\ rcvWnd \in 0..TcpWnd
        /\ pcb => rcvWnd + Len(queue) = TcpWnd
    BY DEF TypeOK
  <2>2. /\ cliSent < MaxUp /\ rcvWnd > 0 /\ cliSent' = cliSent + 1 /\ rcvWnd' = rcvWnd - 1
        /\ queue' = Append(queue, cliSent + 1) /\ pcb' = pcb
    BY <1>7 DEF client_data
  <2>3. /\ cliSent' \in 0..MaxUp /\ rcvWnd' \in 0..TcpWnd
        /\ queue' \in Seq(1..MaxUp) /\ Len(queue') = Len(queue) + 1
    <3>1. cliSent' \in 0..MaxUp /\ rcvWnd' \in 0..TcpWnd /\ cliSent + 1 \in 1..MaxUp
      BY <2>1, <2>2, SizesAssumption, BoundsAssumption
    <3>2. queue' \in Seq(1..MaxUp) /\ Len(queue') = Len(queue) + 1
      BY <2>1, <2>2, <3>1, AppendProperties
    <3> QED
      BY <3>1, <3>2
  <2>4. pcb' => rcvWnd' + Len(queue') = TcpWnd
    <3>1. rcvWnd \in Nat /\ Len(queue) \in Nat /\ TcpWnd \in Nat
      BY <2>1, SizesAssumption
    <3> QED
      BY <2>1, <2>2, <2>3, <3>1
  <2> QED
    BY <1>7, <2>3, <2>4 DEF client_data, TypeOK, Wakes, ring, server
<1>8. CASE client_fin
  BY <1>8 DEF client_fin, TypeOK, Wakes, ring, server, States
<1>9. CASE client_acks_fin
  <2>1. CASE state # "LAST_ACK"
    BY <1>9, <2>1 DEF client_acks_fin, TypeOK, ring, server, States
  <2>2. CASE state = "LAST_ACK"
    BY <1>9, <2>2 DEF client_acks_fin, TypeOK, Wakes, ring, server, States
  <2> QED
    BY <2>1, <2>2
<1>10. ASSUME NEW n \in 1..RingSize, client_acks(n) PROVE TypeOK'
  <2>1. /\ outq \in Seq(Cells) /\ n \in 0..Len(outq) /\ use \in 0..RingSize
        /\ rda \in 0..use /\ Len(outq) + rda <= use
    <3>1. /\ outq \in Seq(Cells) /\ use \in 0..RingSize
          /\ rda \in 0..use /\ Len(outq) + rda <= use
      BY DEF TypeOK
    <3>2. n <= Len(outq)
      BY <1>10 DEF client_acks
    <3>3. n \in Nat /\ Len(outq) \in Nat
      BY <3>1, SizesAssumption
    <3> QED
      BY <3>1, <3>2, <3>3
  <2>2. /\ outq' = SubSeq(outq, n + 1, Len(outq)) /\ use' = use - n /\ rda' = rda
        /\ rp' \in {rp, 0} /\ wp' \in {wp, 0}
    BY <1>10 DEF client_acks
  <2>3. outq' \in Seq(Cells) /\ Len(outq') = Len(outq) - n
    BY <2>1, <2>2, TwoHalves
  <2>4. use' \in 0..RingSize /\ rda' \in 0..use' /\ Len(outq') + rda' <= use'
    BY <2>1, <2>2, <2>3
  <2>5. rp' \in Cells /\ wp' \in Cells
    <3>1. rp \in Cells /\ wp \in Cells
      BY DEF TypeOK
    <3>2. 0 \in Cells
      BY SizesAssumption DEF Cells
    <3> QED
      BY <2>2, <3>1, <3>2
  <2>6. cliGot' \in Seq(0..MaxDown)
    <3> DEFINE d == [i \in 1..n |-> data[outq[i]]]
    <3>1. n \in Nat /\ \A i \in 1..n : data[outq[i]] \in 0..MaxDown
      <4>1. data \in [Cells -> 0..MaxDown] /\ n \in Nat
        BY DEF TypeOK
      <4>2. \A i \in 1..n : outq[i] \in Cells
        BY <2>1
      <4> QED
        BY <4>1, <4>2
    <3>2. d \in [1..n -> 0..MaxDown]
      BY <3>1
    <3>3. d \in Seq(0..MaxDown)
      BY <3>1, <3>2, SeqDef
    <3> QED
      BY <1>10, <3>3 DEF client_acks, TypeOK
  <2> QED
    BY <1>10, <2>3, <2>4, <2>5, <2>6 DEF client_acks, TypeOK, Wakes, ring, server
<1>11. CASE connection_lost
  <2>1. <<>> \in Seq(Cells) /\ Len(<<>>) = 0 /\ use \in Nat /\ rda \in 0..use
    BY DEF TypeOK
  <2>2. outq' \in Seq(Cells) /\ Len(outq') + rda' <= use'
    BY <1>11, <2>1 DEF connection_lost, ring
  <2> QED
    BY <1>11, <2>2 DEF connection_lost, TypeOK, Terminates, Wakes, ring, server, States
<1>12. CASE time_wait_over
  BY <1>12 DEF time_wait_over, TypeOK, session, ring, client, server, States
<1>13. CASE server_sends
  BY <1>13 DEF server_sends, TypeOK, Wakes, ring, lwip, client
<1>14. CASE server_closes
  BY <1>14 DEF server_closes, TypeOK, Wakes, ring, lwip, client
<1>15. CASE server_resets
  BY <1>15 DEF server_resets, TypeOK, Wakes, ring, lwip, client
<1>16. CASE server_reads
  <2>1. srvBuf \in Seq(1..MaxUp) /\ srvBuf # <<>> /\ srvGot \in Seq(1..MaxUp)
    BY <1>16 DEF server_reads, TypeOK
  <2>2. /\ Head(srvBuf) \in 1..MaxUp /\ Tail(srvBuf) \in Seq(1..MaxUp)
        /\ Len(Tail(srvBuf)) = Len(srvBuf) - 1 /\ Len(srvBuf) \in Nat
    <3>1. Len(srvBuf) \in Nat
      BY <2>1, LenProperties
    <3> QED
      BY <2>1, <3>1, HeadTailProperties
  <2>3. Append(srvGot, Head(srvBuf)) \in Seq(1..MaxUp)
    BY <2>1, <2>2
  <2>4. Len(srvBuf) <= SockRoom /\ SockRoom \in Nat
    BY DEF TypeOK
  <2>5. /\ srvGot' \in Seq(1..MaxUp) /\ srvBuf' \in Seq(1..MaxUp)
        /\ Len(srvBuf') <= SockRoom
    BY <1>16, <2>2, <2>3, <2>4 DEF server_reads
  <2> QED
    BY <1>16, <2>5 DEF server_reads, TypeOK, Wakes, ring, lwip, client
<1>17. CASE server_sees_end
  BY <1>17 DEF server_sees_end, TypeOK, session, ring, lwip, client
<1>20. CASE server_sees_reset
  <2>1. <<>> \in Seq(1..MaxUp) /\ Len(<<>>) = 0 /\ 0 <= SockRoom
    OBVIOUS
  <2>2. srvBuf' \in Seq(1..MaxUp) /\ Len(srvBuf') <= SockRoom
    BY <1>20, <2>1 DEF server_sees_reset
  <2> QED
    BY <1>20, <2>2 DEF server_sees_reset, TypeOK, session, ring, lwip, client
<1>18. CASE UNCHANGED vars
  BY <1>18 DEF vars, TypeOK, session, ring, lwip, client, server
<1> QED
  BY <1>1, <1>2, <1>4, <1>5, <1>6, <1>7, <1>8, <1>9, <1>10, <1>11, <1>12, <1>13, <1>14,
     <1>15, <1>16, <1>17, <1>18, <1>20 DEF Next, TaskStep

-----------------------------------------------------------------------------
(* The task and the connection.                                            *)

\* When tcp_splice_b is done, and what the end of the server's stream then means.
LEMMA SliceEndsB ==
  ASSUME TypeOK, Connection, NEW ok \in [1..3 -> BOOLEAN], Slice(ok)
  PROVE  /\ bDone' <=> bDone \/ ~pcb \/ WriteFails(ok) \/ OutputFails(ok) \/ ShutsB
         /\ failed' <=> failed \/ WriteFails(ok)
         /\ WriteFails(ok) => ~bDone /\ pcb /\ ~ShutsB
         /\ ShutsB => /\ ~bDone /\ pcb /\ MovedB = 0 /\ srvRead' = srvSent
                      /\ srvFin \/ srvRst
                      /\ state \in {"ESTABLISHED", "CLOSE_WAIT"}
                      /\ StateB = IF state = "ESTABLISHED" THEN "FIN_WAIT_1" ELSE "LAST_ACK"
         /\ ~ShutsB => StateB = state
<1>1. /\ bDone' = (ResB(ok) < 0) /\ failed' = (failed \/ WriteFails(ok))
      /\ srvRead' = srvRead + MovedB
  BY DEF Slice, tcp_splice_b
<1>2. ResB(ok) < 0 <=> bDone \/ ~pcb \/ WriteFails(ok) \/ OutputFails(ok) \/ ShutsB
  BY DEF ResB
<1>3. WriteFails(ok) => ~bDone /\ pcb /\ ~ShutsB
  BY AcceptedCells DEF WriteFails, ShutsB
<1>4. ASSUME ShutsB
      PROVE  /\ ~bDone /\ pcb /\ MovedB = 0 /\ srvRead' = srvSent
             /\ srvFin \/ srvRst
             /\ state \in {"ESTABLISHED", "CLOSE_WAIT"}
             /\ StateB = IF state = "ESTABLISHED" THEN "FIN_WAIT_1" ELSE "LAST_ACK"
  <2>1. ~bDone /\ pcb /\ srvSent = srvRead /\ (srvFin \/ srvRst)
    BY <1>4 DEF ShutsB, EndB
  <2>2. MovedB = 0 /\ srvRead \in Nat
    BY <2>1, MovedBBounds, BoundsAssumption DEF TypeOK
  <2>3. state \in {"ESTABLISHED", "CLOSE_WAIT"}
    BY <2>1 DEF TypeOK, Connection, States, ShutStates
  <2> QED
    BY <1>1, <1>4, <2>1, <2>2, <2>3 DEF StateB, Shutdown
<1>5. ~ShutsB => StateB = state
  BY DEF StateB
<1> QED
  BY <1>1, <1>2, <1>3, <1>4, <1>5

\* A slice keeps the connection's invariant.
LEMMA SliceConnection ==
  ASSUME TypeOK, Connection, NEW ok \in [1..3 -> BOOLEAN], Slice(ok)
  PROVE  Connection'
<1>1. /\ UNCHANGED <<pcbEof, cliFin, srvSent, srvFin, srvRst>>
      /\ srvRead' = srvRead + MovedB
  BY DEF Slice, tcp_splice_b
<1>2. failed' => bDone'
  BY SliceEndsB DEF Connection
<1>3. CASE Kept(ok)
  <2>1. /\ pcb' = pcb /\ cliSaw' = cliSaw /\ state' = StateB /\ outq' = Queued(ok)
        /\ pc' \in {"splice", "drain"} /\ task' \in {"RUNNING", "WAITING"}
    BY <1>3 DEF Kept
  <2>2. CASE ~pcb
    BY <1>1, <1>2, <2>1, <2>2, SliceEndsB DEF Connection, Queued
  <2>3. CASE pcb /\ ShutsB
    BY <1>1, <1>2, <2>1, <2>3, SliceEndsB DEF Connection, ShutStates, DoneStates
  <2>4. CASE pcb /\ ~ShutsB
    <3>1. state' = state
      BY <2>1, <2>4, SliceEndsB
    <3>2. ASSUME state \in ShutStates
          PROVE  bDone' /\ ~failed' /\ srvRead' = srvSent' /\ (srvFin \/ srvRst)'
                 /\ outq' = outq
      <4>1. bDone /\ ~failed /\ srvRead = srvSent /\ (srvFin \/ srvRst)
        BY <2>4, <3>2 DEF Connection
      <4>2. MovedB = 0 /\ srvRead \in Nat
        BY <4>1, MovedBBounds, BoundsAssumption DEF TypeOK
      <4> QED
        BY <1>1, <2>1, <4>1, <4>2, SliceEndsB DEF Queued
    <3>3. DoneStates \subseteq ShutStates
      BY DEF DoneStates, ShutStates
    <3> QED
      BY <1>1, <1>2, <2>1, <2>4, <3>1, <3>2, <3>3 DEF Connection
  <2> QED
    BY <2>2, <2>3, <2>4
<1>4. CASE Destruct(StateB, Queued(ok))
  <2>1. ~pcb => StateB = "FREED"
    BY SliceEndsB DEF Connection
  <2>2. state' = "FREED" /\ cliSaw' # "open"
    BY <1>4, <2>1 DEF Destruct
  <2>3. pc' = "ended" /\ task' = "STOPPED" /\ pcb' = FALSE /\ outq' = <<>>
    BY <1>4 DEF Destruct
  <2> QED
    BY <1>1, <1>2, <2>2, <2>3 DEF Connection
<1> QED
  BY <1>3, <1>4, SliceEnds

\* So does every step.
LEMMA NextConnection == TypeOK /\ Connection /\ [Next]_vars => Connection'
<1> SUFFICES ASSUME TypeOK, Connection, [Next]_vars PROVE Connection'
  OBVIOUS
<1>1. ASSUME NEW ok \in [1..3 -> BOOLEAN], Slice(ok) PROVE Connection'
  BY <1>1, SliceConnection
<1>2. ASSUME Destruct(state, outq), UNCHANGED quiet PROVE Connection'
  BY <1>2 DEF Destruct, Connection, quiet, server
<1>3. ASSUME NEW held, pc # "start", Leave(state, outq, held, queue), UNCHANGED quiet
      PROVE  Connection'
  BY <1>2, <1>3 DEF Leave, Connection, quiet, server
<1>4. CASE splice_refused
  BY <1>2, <1>4 DEF splice_refused
<1>5. CASE drain
  BY <1>3, <1>5 DEF drain
<1>6. CASE io_timeout
  BY <1>2, <1>3, <1>6 DEF io_timeout
<1>7. CASE hev_socks5_session_terminate
  BY <1>7 DEF hev_socks5_session_terminate, Connection, Terminates, Wakes, lwip, client, server
<1>8. CASE client_data
  BY <1>8 DEF client_data, Connection, Wakes, server
<1>9. CASE client_fin
  BY <1>9 DEF client_fin, Connection, Wakes, server, ShutStates, DoneStates
<1>10. CASE client_acks_fin
  BY <1>10 DEF client_acks_fin, Connection, Wakes, server, ShutStates, DoneStates
<1>11. ASSUME NEW n \in 1..RingSize, client_acks(n) PROVE Connection'
  BY <1>11 DEF client_acks, Connection, Wakes, server, DoneStates
<1>12. CASE connection_lost
  BY <1>12 DEF connection_lost, Connection, Terminates, Wakes, server
<1>13. CASE time_wait_over
  BY <1>13 DEF time_wait_over, Connection, session, client, server, ShutStates, DoneStates
<1>14. CASE server_sends
  BY <1>14 DEF server_sends, Connection, Wakes, lwip, client
<1>15. CASE server_closes
  BY <1>15 DEF server_closes, Connection, Wakes, lwip, client
<1>16. CASE server_resets
  BY <1>16 DEF server_resets, Connection, Wakes, lwip, client
<1>17. CASE server_reads
  BY <1>17 DEF server_reads, Connection, Wakes, lwip, client
<1>18. CASE server_sees_end \/ server_sees_reset
  BY <1>18 DEF server_sees_end, server_sees_reset, Connection, session, lwip, client
<1>19. CASE UNCHANGED vars
  BY <1>19 DEF vars, Connection, session, lwip, client, server
<1> QED
  BY <1>1, <1>4, <1>5, <1>6, <1>7, <1>8, <1>9, <1>10, <1>11, <1>12, <1>13, <1>14,
     <1>15, <1>16, <1>17, <1>18, <1>19 DEF Next, TaskStep

-----------------------------------------------------------------------------
(* The ring and the stream to the client.                                  *)

\* What lwIP holds after a slice: what it held, byte for byte, and behind it a run of
\* the bytes just read, the whole of them when no tcp_write fails.
LEMMA QueuedBytes ==
  ASSUME TypeOK, Connection, Ring, pcb, ~bDone, NEW ok \in [1..3 -> BOOLEAN]
  PROVE  /\ Len(Queued(ok)) \in Nat /\ Len(Queued(ok)) >= Len(outq)
         /\ \A i \in 1..Len(outq) :
              Queued(ok)[i] = outq[i] /\ Filled[Queued(ok)[i]] = data[outq[i]]
         /\ \A i \in (Len(outq) + 1)..Len(Queued(ok)) :
              LET k == Skipped(ok) + (i - Len(outq))
              IN /\ k \in 1..MovedB /\ Queued(ok)[i] = CellAt(k)
                 /\ Filled[Queued(ok)[i]] = srvRead + k
         /\ Skipped(ok) \in Nat
         /\ ~WriteFails(ok) => /\ Len(Queued(ok)) = Len(outq) + MovedB
                               /\ MovedB > 0 => Skipped(ok) = 0
<1> DEFINE a == Accepted(ok)
<1>1. outq \in Seq(Cells) /\ Len(outq) \in Nat
  BY DEF TypeOK
<1>2. /\ a \in Seq(Cells) /\ Len(a) \in Nat /\ Skipped(ok) \in Nat
      /\ Skipped(ok) + Len(a) <= MovedB /\ MovedB \in Nat
      /\ \A n \in 1..Len(a) : a[n] = CellAt(Skipped(ok) + n)
      /\ ~WriteFails(ok) => Len(a) = MovedB /\ (MovedB > 0 => Skipped(ok) = 0)
  BY AcceptedCells, FreshCells
<1>3. Queued(ok) = outq \o a
  BY DEF Queued
<1> HIDE DEF a
<1>4. Len(Queued(ok)) = Len(outq) + Len(a)
  BY <1>1, <1>2, <1>3
<1>5. \A i \in 1..Len(outq) : Queued(ok)[i] = outq[i]
  BY <1>1, <1>2, <1>3
<1>6. ASSUME NEW i \in (Len(outq) + 1)..Len(Queued(ok))
      PROVE  LET k == Skipped(ok) + (i - Len(outq))
             IN /\ k \in 1..MovedB /\ Queued(ok)[i] = CellAt(k)
                /\ Filled[Queued(ok)[i]] = srvRead + k
  <2> DEFINE k == Skipped(ok) + (i - Len(outq))
  <2>1. i - Len(outq) \in 1..Len(a) /\ k \in 1..MovedB
    BY <1>1, <1>2, <1>4
  <2>2. Queued(ok)[i] = a[i - Len(outq)]
    BY <1>1, <1>2, <1>3, <1>4
  <2>3. Queued(ok)[i] = CellAt(k)
    BY <1>2, <2>1, <2>2
  <2> QED
    BY <2>1, <2>3, FreshCells
<1>7. \A i \in 1..Len(outq) : Filled[Queued(ok)[i]] = data[outq[i]]
  BY <1>5, FreshCells
<1>8. Len(Queued(ok)) \in Nat /\ Len(Queued(ok)) >= Len(outq)
  BY <1>1, <1>2, <1>4
<1> QED
  BY <1>2, <1>4, <1>5, <1>6, <1>7, <1>8

\* A slice keeps the place of what lwIP holds in the ring.
LEMMA SliceRing ==
  ASSUME TypeOK, Connection, Ring, NEW ok \in [1..3 -> BOOLEAN], Slice(ok)
  PROVE  Ring'
<1> SUFFICES ASSUME pcb'
             PROVE  /\ rda' = 0
                    /\ ~failed' =>
                         /\ wp' = rp' /\ use' = Len(outq') /\ srvRead' = Len(cliGot') + use'
                         /\ \A i \in 1..Len(outq') : outq'[i] = Cell(rp - use + i - 1)'
  BY DEF Ring
<1>1. pcb /\ outq' = Queued(ok)
  BY SliceEnds DEF Kept, Destruct
<1>2. /\ wp' = (wp + MovedB) % RingSize /\ use' = use + MovedB /\ srvRead' = srvRead + MovedB
      /\ IF ~bDone THEN rda' = 0 /\ rp' = (rp + Readable) % RingSize
                   ELSE rda' = Readable /\ rp' = rp
      /\ cliGot' = cliGot
  BY <1>1 DEF Slice, tcp_splice_b
<1>3. /\ RingSize \in Nat \ {0} /\ rp \in 0..(RingSize - 1) /\ wp \in 0..(RingSize - 1)
      /\ use \in 0..RingSize /\ srvRead \in Nat /\ Len(cliGot) \in Nat /\ Len(outq) \in Nat
      /\ rda = 0
  BY <1>1, SizesAssumption, BoundsAssumption DEF TypeOK, Ring, Cells
<1>4. MovedB \in Nat /\ use + MovedB <= RingSize /\ (bDone => MovedB = 0)
  BY MovedBBounds
<1>5. failed' <=> failed \/ WriteFails(ok)
  BY SliceEndsB
<1>6. CASE bDone
  <2>1. MovedB = 0 /\ Readable = 0 /\ Queued(ok) = outq
    BY <1>3, <1>4, <1>6 DEF Readable, Queued
  <2>2. /\ wp' = wp /\ rp' = rp /\ use' = use /\ srvRead' = srvRead /\ rda' = 0
        /\ outq' = outq
    <3>1. wp % RingSize = wp
      BY <1>3
    <3> QED
      BY <1>1, <1>2, <1>3, <1>6, <2>1, <3>1
  <2> QED
    BY <1>1, <1>2, <1>5, <2>2 DEF Ring, Cell
<1>7. CASE ~bDone
  <2>1. rda' = 0 /\ Readable = MovedB
    BY <1>1, <1>2, <1>7, FreshCells
  <2>2. SUFFICES ASSUME ~failed'
                 PROVE  /\ wp' = rp' /\ use' = Len(outq') /\ srvRead' = Len(cliGot') + use'
                        /\ \A i \in 1..Len(outq') : outq'[i] = Cell(rp - use + i - 1)'
    BY <2>1
  <2>3. ~failed /\ ~WriteFails(ok)
    BY <1>5, <2>2
  <2>4. /\ wp = rp /\ use = Len(outq) /\ srvRead = Len(cliGot) + use
        /\ \A i \in 1..Len(outq) : outq[i] = Cell(rp - use + i - 1)
    BY <1>1, <2>3 DEF Ring
  <2>5. Len(outq') = Len(outq) + MovedB
    BY <1>1, <1>7, <2>3, QueuedBytes
  <2>6. rp' = IF rp + MovedB < RingSize THEN rp + MovedB ELSE rp + MovedB - RingSize
    <3> DEFINE x == rp + MovedB
    <3>1. x \in 0..(2 * RingSize - 1)
      BY <1>3, <1>4
    <3>2. rp' = x % RingSize
      BY <1>2, <1>7, <2>1
    <3> HIDE DEF x
    <3>3. rp' = IF x < RingSize THEN x ELSE x - RingSize
      BY <3>1, <3>2, WrapsOnce
    <3> QED
      BY <1>3, <1>4, <3>3 DEF x
  <2>7. wp' = rp' /\ use' = Len(outq') /\ srvRead' = Len(cliGot') + use'
    BY <1>2, <1>3, <1>4, <1>7, <2>1, <2>4, <2>5
  <2>8. ASSUME NEW i \in 1..Len(outq)
        PROVE  outq'[i] = Cell(rp - use + i - 1)'
    <3>1. outq'[i] = Cell(rp - use + i - 1)
      BY <1>1, <1>7, <2>4, QueuedBytes
    <3>2. rp' - use' + i - 1 = IF rp + MovedB < RingSize THEN rp - use + i - 1
                               ELSE rp - use + i - 1 - RingSize
      BY <1>2, <1>3, <1>4, <2>6
    <3> QED
      BY <1>3, <1>4, <2>4, <3>1, <3>2 DEF Cell
  <2>9. ASSUME NEW i \in (Len(outq) + 1)..(Len(outq) + MovedB)
        PROVE  outq'[i] = Cell(rp - use + i - 1)'
    <3> DEFINE k == i - Len(outq)
    <3>1. k \in 1..MovedB /\ Skipped(ok) = 0 /\ Skipped(ok) + k = k
      BY <1>1, <1>3, <1>4, <1>7, <2>3, QueuedBytes
    <3>2. outq'[i] = CellAt(k)
      BY <1>1, <1>7, <2>5, <3>1, QueuedBytes
    <3>3. rp' - use' + i - 1 = IF rp + MovedB < RingSize THEN rp + k - 1
                               ELSE rp + k - 1 - RingSize
      BY <1>2, <1>3, <1>4, <2>4, <2>6
    <3> HIDE DEF k
    <3> QED
      BY <1>3, <1>4, <3>1, <3>2, <3>3 DEF Cell, CellAt
  <2> QED
    BY <1>3, <1>4, <2>5, <2>7, <2>8, <2>9
<1> QED
  BY <1>6, <1>7

\* An acknowledgement moves the first n bytes that lwIP holds to the client.
LEMMA AckedBytes ==
  ASSUME TypeOK, NEW n \in 1..RingSize, client_acks(n)
  PROVE  /\ n <= Len(outq) /\ Len(outq) \in Nat /\ Len(cliGot) \in Nat
         /\ Len(cliGot') = Len(cliGot) + n /\ Len(outq') = Len(outq) - n
         /\ \A i \in 1..Len(cliGot) : cliGot'[i] = cliGot[i]
         /\ \A i \in (Len(cliGot) + 1)..(Len(cliGot) + n) :
              cliGot'[i] = data[outq[i - Len(cliGot)]]
         /\ \A i \in 1..(Len(outq) - n) : outq'[i] = outq[n + i]
<1>1. /\ outq \in Seq(Cells) /\ n \in 0..Len(outq) /\ n <= Len(outq)
      /\ data \in [Cells -> 0..MaxDown] /\ cliGot \in Seq(0..MaxDown)
      /\ Len(outq) \in Nat /\ Len(cliGot) \in Nat
  <2>1. outq \in Seq(Cells) /\ data \in [Cells -> 0..MaxDown] /\ cliGot \in Seq(0..MaxDown)
    BY DEF TypeOK
  <2>2. n <= Len(outq) /\ n \in Nat
    BY SizesAssumption DEF client_acks
  <2> QED
    BY <2>1, <2>2
<1> DEFINE d == [i \in 1..n |-> data[outq[i]]]
<1>2. d \in Seq(0..MaxDown) /\ Len(d) = n /\ \A i \in 1..n : d[i] = data[outq[i]]
  <2>1. \A i \in 1..n : data[outq[i]] \in 0..MaxDown
    BY <1>1
  <2>2. d \in [1..n -> 0..MaxDown] /\ n \in Nat
    BY <1>1, <2>1
  <2> QED
    BY <2>2, SeqDef
<1>3. cliGot' = cliGot \o d
  BY DEF client_acks
<1>4. outq' = SubSeq(outq, n + 1, Len(outq))
  BY DEF client_acks
<1> HIDE DEF d
<1>5. /\ Len(cliGot') = Len(cliGot) + n
      /\ \A i \in 1..Len(cliGot) : cliGot'[i] = cliGot[i]
      /\ \A i \in (Len(cliGot) + 1)..(Len(cliGot) + n) : cliGot'[i] = d[i - Len(cliGot)]
  <2> DEFINE D == 0..MaxDown
  <2>1. cliGot \in Seq(D) /\ d \in Seq(D)
    BY <1>1, <1>2
  <2> HIDE DEF D
  <2>2. /\ Len(cliGot \o d) = Len(cliGot) + Len(d)
        /\ \A i \in 1..(Len(cliGot) + Len(d)) :
             (cliGot \o d)[i] = IF i <= Len(cliGot) THEN cliGot[i] ELSE d[i - Len(cliGot)]
    BY <2>1, ConcatProperties
  <2>3. Len(cliGot) \in Nat /\ Len(d) = n /\ n \in Nat
    BY <1>1, <1>2
  <2> QED
    BY <1>3, <2>2, <2>3
<1>6. ASSUME NEW i \in (Len(cliGot) + 1)..(Len(cliGot) + n)
      PROVE  cliGot'[i] = data[outq[i - Len(cliGot)]]
  <2>1. i - Len(cliGot) \in 1..n
    BY <1>1
  <2> QED
    BY <1>2, <1>5, <2>1
<1>7. Len(outq') = Len(outq) - n /\ \A i \in 1..(Len(outq) - n) : outq'[i] = outq[n + i]
  BY <1>1, <1>4, TwoHalves
<1> QED
  BY <1>1, <1>5, <1>6, <1>7

\* Every step keeps the place of what lwIP holds in the ring.
LEMMA NextRing == TypeOK /\ Connection /\ Ring /\ [Next]_vars => Ring'
<1> SUFFICES ASSUME TypeOK, Connection, Ring, [Next]_vars PROVE Ring'
  OBVIOUS
<1> USE DEF Cell
<1>1. ASSUME NEW ok \in [1..3 -> BOOLEAN], Slice(ok) PROVE Ring'
  BY <1>1, SliceRing
<1>2. ASSUME Destruct(state, outq) PROVE Ring'
  BY <1>2 DEF Destruct, Ring
<1>3. ASSUME NEW held, Leave(state, outq, held, queue), UNCHANGED quiet PROVE Ring'
  BY <1>2, <1>3 DEF Leave, Ring, quiet, ring, server
<1>4. CASE splice_refused
  BY <1>2, <1>4 DEF splice_refused
<1>5. CASE drain
  BY <1>3, <1>5 DEF drain
<1>6. CASE io_timeout
  BY <1>2, <1>3, <1>6 DEF io_timeout
<1>7. CASE hev_socks5_session_terminate
  BY <1>7 DEF hev_socks5_session_terminate, Ring, ring, lwip, client, server
<1>8. CASE client_data
  BY <1>8 DEF client_data, Ring, ring, server
<1>9. CASE client_fin
  BY <1>9 DEF client_fin, Ring, ring, server
<1>10. CASE client_acks_fin
  BY <1>10 DEF client_acks_fin, Ring, ring, server
<1>11. ASSUME NEW n \in 1..RingSize, client_acks(n) PROVE Ring'
  <2>1. /\ UNCHANGED <<pcb, rda, failed, srvRead>> /\ use' = use - n
        /\ IF use = n THEN rp' = 0 /\ wp' = 0 ELSE UNCHANGED <<rp, wp>>
    BY <1>11 DEF client_acks, server
  <2>2. SUFFICES ASSUME pcb, ~failed
                 PROVE  /\ wp' = rp' /\ use' = Len(outq') /\ srvRead' = Len(cliGot') + use'
                        /\ \A i \in 1..Len(outq') : outq'[i] = Cell(rp - use + i - 1)'
    BY <2>1 DEF Ring
  <2>3. /\ wp = rp /\ use = Len(outq) /\ srvRead = Len(cliGot) + use
        /\ \A i \in 1..Len(outq) : outq[i] = Cell(rp - use + i - 1)
    BY <2>2 DEF Ring
  <2>4. /\ n <= Len(outq) /\ Len(outq) \in Nat /\ Len(cliGot) \in Nat
        /\ Len(cliGot') = Len(cliGot) + n /\ Len(outq') = Len(outq) - n
        /\ \A i \in 1..(Len(outq) - n) : outq'[i] = outq[n + i]
    BY <1>11, AckedBytes
  <2>5. wp' = rp' /\ use' = Len(outq') /\ srvRead' = Len(cliGot') + use'
    BY <2>1, <2>3, <2>4
  <2>6. ASSUME NEW i \in 1..Len(outq')
        PROVE  outq'[i] = Cell(rp - use + i - 1)'
    <3>1. use # n /\ rp' = rp /\ n + i \in 1..Len(outq) /\ i \in 1..(Len(outq) - n)
      BY <2>1, <2>3, <2>4
    <3>2. outq'[i] = Cell(rp - use + (n + i) - 1)
      BY <2>3, <2>4, <3>1
    <3>3. rp \in Int
      BY DEF TypeOK, Cells
    <3>4. rp - use + (n + i) - 1 = rp' - use' + i - 1
      BY <2>1, <2>3, <2>4, <3>1, <3>3
    <3> QED
      BY <3>2, <3>4
  <2> QED
    BY <2>5, <2>6
<1>12. CASE connection_lost
  BY <1>12 DEF connection_lost, Ring
<1>13. CASE time_wait_over
  BY <1>13 DEF time_wait_over, Ring, session, ring, client, server
<1>14. CASE server_sends
  BY <1>14 DEF server_sends, Ring, ring, lwip, client
<1>15. CASE server_closes
  BY <1>15 DEF server_closes, Ring, ring, lwip, client
<1>16. CASE server_resets
  BY <1>16 DEF server_resets, Ring, ring, lwip, client
<1>17. CASE server_reads
  BY <1>17 DEF server_reads, Ring, ring, lwip, client
<1>18. CASE server_sees_end \/ server_sees_reset
  BY <1>18 DEF server_sees_end, server_sees_reset, Ring, session, ring, lwip, client
<1>19. CASE UNCHANGED vars
  BY <1>19 DEF vars, Ring, session, ring, lwip, client, server
<1> QED
  BY <1>1, <1>4, <1>5, <1>6, <1>7, <1>8, <1>9, <1>10, <1>11, <1>12, <1>13, <1>14,
     <1>15, <1>16, <1>17, <1>18, <1>19 DEF Next, TaskStep

\* A slice keeps the stream to the client.
LEMMA SliceDown ==
  ASSUME TypeOK, Connection, Ring, Down, NEW ok \in [1..3 -> BOOLEAN], Slice(ok)
  PROVE  Down'
<1>1. /\ data' = Filled /\ srvRead' = srvRead + MovedB /\ cliGot' = cliGot
      /\ failed' <=> failed \/ WriteFails(ok)
  BY SliceEndsB DEF Slice, tcp_splice_b
<1>2. /\ MovedB \in Nat /\ srvRead \in Nat /\ Len(cliGot) \in Nat /\ Len(outq) \in Nat
      /\ \A i \in 1..Len(cliGot) : cliGot[i] \in Nat
  <2>1. /\ srvRead \in Nat /\ cliGot \in Seq(0..MaxDown) /\ outq \in Seq(Cells)
    BY BoundsAssumption DEF TypeOK
  <2>2. \A i \in 1..Len(cliGot) : cliGot[i] \in 0..MaxDown
    BY <2>1, ElementOfSeq
  <2> QED
    BY <2>1, <2>2, MovedBBounds, BoundsAssumption
<1>3. /\ \A i \in 1..Len(cliGot) : cliGot[i] \in 1..srvRead
      /\ \A i, j \in 1..Len(cliGot) : i < j => cliGot[i] < cliGot[j]
      /\ ~failed => \A i \in 1..Len(cliGot) : cliGot[i] = i
  BY DEF Down
<1>4. /\ \A i \in 1..Len(cliGot') : cliGot'[i] \in 1..srvRead'
      /\ \A i, j \in 1..Len(cliGot') : i < j => cliGot'[i] < cliGot'[j]
      /\ ~failed' => \A i \in 1..Len(cliGot') : cliGot'[i] = i
  BY <1>1, <1>2, <1>3
<1>5. CASE outq' = <<>>
  BY <1>4, <1>5 DEF Down
<1>6. CASE Kept(ok) /\ pcb /\ bDone
  <2>1. outq' = outq /\ MovedB = 0
    BY <1>6, MovedBBounds DEF Kept, Queued
  <2>2. \A i \in 1..Len(outq) : data'[outq[i]] = data[outq[i]]
    <3>1. \A i \in 1..Len(outq) : outq[i] \in Cells
      BY DEF TypeOK
    <3>2. \A c \in Cells : Filled[c] = data[c]
      <4>1. ASSUME NEW c \in Cells
            PROVE  Filled[c] = data[c]
        <5> DEFINE i == IF c >= wp THEN c - wp ELSE c + RingSize - wp
        <5>1. i \in Nat
          BY SizesAssumption DEF TypeOK, Cells
        <5>2. Filled[c] = IF i < MovedB THEN srvRead + i + 1 ELSE data[c]
          BY FilledCells
        <5> HIDE DEF i
        <5> QED
          BY <2>1, <5>1, <5>2
      <4> QED
        BY <4>1
    <3> QED
      BY <1>1, <3>1, <3>2
  <2>3. srvRead' = srvRead /\ ~(WriteFails(ok))
    BY <1>1, <1>2, <1>6, <2>1 DEF WriteFails
  <2> QED
    BY <1>1, <2>1, <2>2, <2>3 DEF Down
<1>7. CASE Kept(ok) /\ pcb /\ ~bDone
  <2> DEFINE L == Len(outq)  q == Queued(ok)  b(i) == Filled[q[i]]
  <2>1. outq' = q
    BY <1>7 DEF Kept
  <2>2. /\ Len(q) \in Nat /\ Len(q) >= L /\ L \in Nat /\ Skipped(ok) \in Nat
        /\ \A i \in 1..L : b(i) = data[outq[i]]
        /\ \A i \in (L + 1)..Len(q) : /\ Skipped(ok) + (i - L) \in 1..MovedB
                                      /\ b(i) = srvRead + (Skipped(ok) + (i - L))
        /\ ~WriteFails(ok) => Len(q) = L + MovedB /\ (MovedB > 0 => Skipped(ok) = 0)
    BY <1>2, <1>7, QueuedBytes
  <2>3. /\ \A i \in 1..L : data[outq[i]] \in 1..srvRead
        /\ \A i \in 1..Len(cliGot) : \A j \in 1..L : cliGot[i] < data[outq[j]]
        /\ \A i, j \in 1..L : i < j => data[outq[i]] < data[outq[j]]
        /\ ~failed => \A i \in 1..L : data[outq[i]] = Len(cliGot) + i
    BY DEF Down
  <2>4. ~failed /\ srvRead = Len(cliGot) + L
    BY <1>7, FreshCells DEF Ring
  <2> HIDE DEF q, L, b
  <2>5. \A i \in 1..Len(q) : b(i) \in 1..(srvRead + MovedB)
    <3> SUFFICES ASSUME NEW i \in 1..Len(q) PROVE b(i) \in 1..(srvRead + MovedB)
      OBVIOUS
    <3>1. CASE i <= L
      <4>1. i \in 1..L
        BY <2>2, <3>1
      <4>2. b(i) \in 1..srvRead
        BY <2>2, <2>3, <4>1
      <4> QED
        BY <1>2, <4>2
    <3>2. CASE i > L
      <4>1. i \in (L + 1)..Len(q)
        BY <2>2, <3>2
      <4>2. Skipped(ok) + (i - L) \in 1..MovedB /\ b(i) = srvRead + (Skipped(ok) + (i - L))
        BY <2>2, <4>1
      <4> QED
        BY <1>2, <4>2
    <3> QED
      BY <2>2, <3>1, <3>2
  <2>6. \A i \in 1..Len(cliGot) : \A j \in 1..Len(q) : cliGot[i] < b(j)
    <3> SUFFICES ASSUME NEW i \in 1..Len(cliGot), NEW j \in 1..Len(q) PROVE cliGot[i] < b(j)
      OBVIOUS
    <3>1. CASE j <= L
      <4>1. j \in 1..L
        BY <2>2, <3>1
      <4>2. b(j) = data[outq[j]]
        BY <2>2, <4>1
      <4> QED
        BY <2>3, <4>1, <4>2
    <3>2. CASE j > L
      <4>1. b(j) > srvRead /\ b(j) \in Int
        <5>1. j \in (L + 1)..Len(q)
          BY <2>2, <3>2
        <5>2. /\ Skipped(ok) + (j - L) \in 1..MovedB
              /\ b(j) = srvRead + (Skipped(ok) + (j - L))
          BY <2>2, <5>1
        <5> QED
          BY <1>2, <5>2
      <4> QED
        BY <1>2, <1>3, <4>1
    <3> QED
      BY <2>2, <3>1, <3>2
  <2>7. \A i, j \in 1..Len(q) : i < j => b(i) < b(j)
    <3> SUFFICES ASSUME NEW i \in 1..Len(q), NEW j \in 1..Len(q), i < j PROVE b(i) < b(j)
      OBVIOUS
    <3>1. CASE j <= L
      <4>1. i \in 1..L /\ j \in 1..L
        BY <2>2, <3>1
      <4>2. b(i) = data[outq[i]] /\ b(j) = data[outq[j]]
        BY <2>2, <4>1
      <4> QED
        BY <2>3, <4>1, <4>2
    <3>2. CASE i <= L /\ j > L
      <4>1. b(i) <= srvRead /\ b(i) \in Int
        <5>1. i \in 1..L
          BY <2>2, <3>2
        <5>2. b(i) \in 1..srvRead
          BY <2>2, <2>3, <5>1
        <5> QED
          BY <1>2, <5>2
      <4>2. b(j) > srvRead /\ b(j) \in Int
        <5>1. j \in (L + 1)..Len(q)
          BY <2>2, <3>2
        <5>2. /\ Skipped(ok) + (j - L) \in 1..MovedB
              /\ b(j) = srvRead + (Skipped(ok) + (j - L))
          BY <2>2, <5>1
        <5> QED
          BY <1>2, <5>2
      <4> QED
        BY <1>2, <4>1, <4>2
    <3>3. CASE i > L
      <4>1. b(i) = srvRead + (Skipped(ok) + (i - L)) /\ b(j) = srvRead + (Skipped(ok) + (j - L))
        BY <2>2, <3>3
      <4> QED
        BY <1>2, <2>2, <4>1
    <3> QED
      BY <2>2, <3>1, <3>2, <3>3
  <2>8. ~failed' => \A i \in 1..Len(q) : b(i) = Len(cliGot) + i
    <3> SUFFICES ASSUME ~failed', NEW i \in 1..Len(q) PROVE b(i) = Len(cliGot) + i
      OBVIOUS
    <3>1. CASE i <= L
      <4>1. i \in 1..L
        BY <2>2, <3>1
      <4>2. b(i) = data[outq[i]] /\ data[outq[i]] = Len(cliGot) + i
        BY <2>2, <2>3, <2>4, <4>1
      <4> QED
        BY <4>2
    <3>2. CASE i > L
      <4>1. b(i) = srvRead + (Skipped(ok) + (i - L)) /\ MovedB > 0
        BY <1>2, <2>2, <3>2
      <4>2. Skipped(ok) = 0
        BY <1>1, <2>2, <4>1
      <4> QED
        BY <1>2, <2>2, <2>4, <4>1, <4>2
    <3> QED
      BY <2>2, <3>1, <3>2
  <2>9. /\ \A i \in 1..Len(outq') : data'[outq'[i]] \in 1..srvRead'
        /\ \A i \in 1..Len(cliGot') : \A j \in 1..Len(outq') : cliGot'[i] < data'[outq'[j]]
        /\ \A i, j \in 1..Len(outq') : i < j => data'[outq'[i]] < data'[outq'[j]]
        /\ ~failed' => \A i \in 1..Len(outq') : data'[outq'[i]] = Len(cliGot') + i
    BY <1>1, <2>1, <2>5, <2>6, <2>7, <2>8 DEF b
  <2> QED
    BY <1>4, <2>9 DEF Down
<1>8. CASE Kept(ok) /\ ~pcb
  BY <1>5, <1>8 DEF Kept, Queued, Connection
<1> QED
  BY <1>5, <1>6, <1>7, <1>8, SliceEnds DEF Destruct

\* Every step keeps the stream to the client.
LEMMA NextDown == TypeOK /\ Connection /\ Ring /\ Down /\ [Next]_vars => Down'
<1> SUFFICES ASSUME TypeOK, Connection, Ring, Down, [Next]_vars PROVE Down'
  OBVIOUS
<1>1. ASSUME NEW ok \in [1..3 -> BOOLEAN], Slice(ok) PROVE Down'
  BY <1>1, SliceDown
<1>2. ASSUME outq' = <<>>, UNCHANGED <<cliGot, srvRead, failed>> PROVE Down'
  BY <1>2 DEF Down
<1>3. ASSUME NEW held, Leave(state, outq, held, queue), UNCHANGED quiet PROVE Down'
  BY <1>2, <1>3 DEF Leave, Destruct, Down, quiet, ring, server
<1>4. CASE splice_refused
  BY <1>2, <1>4 DEF splice_refused, Destruct, quiet, server
<1>5. CASE drain
  BY <1>3, <1>5 DEF drain
<1>6. CASE io_timeout
  BY <1>2, <1>3, <1>6 DEF io_timeout, Destruct, quiet, server
<1>7. CASE hev_socks5_session_terminate
  BY <1>7 DEF hev_socks5_session_terminate, Down, ring, lwip, client, server
<1>8. CASE client_data
  BY <1>8 DEF client_data, Down, ring, server
<1>9. CASE client_fin
  BY <1>9 DEF client_fin, Down, ring, server
<1>10. CASE client_acks_fin
  BY <1>10 DEF client_acks_fin, Down, ring, server
<1>11. ASSUME NEW n \in 1..RingSize, client_acks(n) PROVE Down'
  <2> DEFINE G == Len(cliGot)  L == Len(outq)
  <2>1. UNCHANGED <<data, srvRead, failed>>
    BY <1>11 DEF client_acks, server
  <2>2. /\ n <= L /\ L \in Nat /\ G \in Nat /\ n \in Nat
        /\ Len(cliGot') = G + n /\ Len(outq') = L - n
        /\ \A i \in 1..G : cliGot'[i] = cliGot[i]
        /\ \A i \in (G + 1)..(G + n) : cliGot'[i] = data[outq[i - G]]
        /\ \A i \in 1..(L - n) : outq'[i] = outq[n + i]
    <3>1. n \in Nat
      BY SizesAssumption
    <3> QED
      BY <1>11, <3>1, AckedBytes
  <2>3. /\ \A i \in 1..G : cliGot[i] \in 1..srvRead
        /\ \A i, j \in 1..G : i < j => cliGot[i] < cliGot[j]
        /\ \A i \in 1..L : data[outq[i]] \in 1..srvRead
        /\ \A i \in 1..G : \A j \in 1..L : cliGot[i] < data[outq[j]]
        /\ \A i, j \in 1..L : i < j => data[outq[i]] < data[outq[j]]
    BY DEF Down
  <2>4. ~failed => /\ \A i \in 1..G : cliGot[i] = i
                   /\ \A i \in 1..L : data[outq[i]] = G + i
    BY DEF Down
  <2> HIDE DEF G, L
  <2>5. \A i \in (G + 1)..(G + n) : i - G \in 1..L
    BY <2>2
  <2>6. \A i \in 1..(L - n) : n + i \in 1..L
    BY <2>2
  <2>7. \A i \in 1..(G + n) : cliGot'[i] \in 1..srvRead
    BY <2>2, <2>3, <2>5
  <2>8. \A i, j \in 1..(G + n) : i < j => cliGot'[i] < cliGot'[j]
    BY <2>2, <2>3, <2>5
  <2>9. \A i \in 1..(L - n) : data[outq'[i]] \in 1..srvRead
    BY <2>2, <2>3, <2>6
  <2>10. \A i \in 1..(G + n) : \A j \in 1..(L - n) : cliGot'[i] < data[outq'[j]]
    <3> SUFFICES ASSUME NEW i \in 1..(G + n), NEW j \in 1..(L - n)
                 PROVE  cliGot'[i] < data[outq[n + j]]
      BY <2>2
    <3>1. n + j \in 1..L
      BY <2>6
    <3>2. CASE i <= G
      BY <2>2, <2>3, <3>1, <3>2
    <3>3. CASE i > G
      <4>1. i - G \in 1..L /\ cliGot'[i] = data[outq[i - G]] /\ i - G < n + j
        BY <2>2, <2>5, <3>3
      <4> QED
        BY <2>3, <3>1, <4>1
    <3> QED
      BY <2>2, <3>2, <3>3
  <2>11. \A i, j \in 1..(L - n) : i < j => data[outq'[i]] < data[outq'[j]]
    <3> SUFFICES ASSUME NEW i \in 1..(L - n), NEW j \in 1..(L - n), i < j
                 PROVE  data[outq[n + i]] < data[outq[n + j]]
      BY <2>2
    <3>1. n + i \in 1..L /\ n + j \in 1..L /\ n + i < n + j
      BY <2>2, <2>6
    <3> QED
      BY <2>3, <3>1
  <2>12. ~failed => /\ \A i \in 1..(G + n) : cliGot'[i] = i
                    /\ \A i \in 1..(L - n) : data[outq'[i]] = (G + n) + i
    <3> SUFFICES ASSUME ~failed
                 PROVE  /\ \A i \in 1..(G + n) : cliGot'[i] = i
                        /\ \A i \in 1..(L - n) : data[outq'[i]] = (G + n) + i
      OBVIOUS
    <3>1. ASSUME NEW i \in 1..(G + n) PROVE cliGot'[i] = i
      <4>1. CASE i <= G
        <5>1. i \in 1..G
          BY <2>2, <4>1
        <5> QED
          BY <2>2, <2>4, <5>1
      <4>2. CASE i > G
        <5>1. i \in (G + 1)..(G + n)
          BY <2>2, <4>2
        <5>2. i - G \in 1..L /\ cliGot'[i] = data[outq[i - G]]
          BY <2>2, <2>5, <5>1
        <5>3. data[outq[i - G]] = G + (i - G)
          BY <2>4, <5>2
        <5> QED
          BY <2>2, <5>2, <5>3
      <4> QED
        BY <2>2, <4>1, <4>2
    <3>2. ASSUME NEW i \in 1..(L - n) PROVE data[outq'[i]] = (G + n) + i
      <4>1. n + i \in 1..L /\ outq'[i] = outq[n + i]
        BY <2>2, <2>6
      <4>2. data[outq[n + i]] = G + (n + i)
        BY <2>4, <4>1
      <4> QED
        BY <2>2, <4>1, <4>2
    <3> QED
      BY <3>1, <3>2
  <2> QED
    BY <2>1, <2>2, <2>7, <2>8, <2>9, <2>10, <2>11, <2>12 DEF Down
<1>12. CASE connection_lost
  BY <1>2, <1>12 DEF connection_lost, server
<1>13. CASE time_wait_over
  BY <1>13 DEF time_wait_over, Down, session, ring, client, server
<1>14. CASE server_sends
  BY <1>14 DEF server_sends, Down, ring, lwip, client
<1>15. CASE server_closes
  BY <1>15 DEF server_closes, Down, ring, lwip, client
<1>16. CASE server_resets
  BY <1>16 DEF server_resets, Down, ring, lwip, client
<1>17. CASE server_reads
  BY <1>17 DEF server_reads, Down, ring, lwip, client
<1>18. CASE server_sees_end \/ server_sees_reset
  BY <1>18 DEF server_sees_end, server_sees_reset, Down, session, ring, lwip, client
<1>19. CASE UNCHANGED vars
  BY <1>19 DEF vars, Down, session, ring, lwip, client, server
<1> QED
  BY <1>1, <1>4, <1>5, <1>6, <1>7, <1>8, <1>9, <1>10, <1>11, <1>12, <1>13, <1>14,
     <1>15, <1>16, <1>17, <1>18, <1>19 DEF Next, TaskStep

-----------------------------------------------------------------------------
(* The stream to the server, and when the task waits.                      *)

\* tcp_splice_f moves the first bytes of the queue, or none when its direction is done.
LEMMA SliceMovesF ==
  ASSUME TypeOK, NEW ok \in [1..3 -> BOOLEAN], Slice(ok)
  PROVE  /\ UNCHANGED <<srvGot, cliSent, pcbEof, srvRst, srvSaw>> /\ pc # "ended"
         /\ fDone' <=> fDone \/ ShutsF \/ (queue # <<>> /\ srvRst)
         /\ srvEnd' <=> srvEnd \/ ShutsF
         /\ MovedF \in 0..Len(queue) /\ Len(srvBuf) \in Nat /\ Len(queue) \in Nat
         /\ Len(srvBuf') = Len(srvBuf) + MovedF
         /\ \A i \in 1..Len(srvBuf) : srvBuf'[i] = srvBuf[i]
         /\ \A i \in (Len(srvBuf) + 1)..(Len(srvBuf) + MovedF) :
              srvBuf'[i] = queue[i - Len(srvBuf)]
         /\ MovedF = 0 => srvBuf' = srvBuf
         /\ (queue' = Rest /\ pc' # "ended") \/ (queue' = <<>> /\ pc' = "ended" /\ ResF <= 0)
<1>1. /\ srvBuf \in Seq(1..MaxUp) /\ queue \in Seq(1..MaxUp)
      /\ Len(srvBuf) \in Nat /\ Len(queue) \in Nat /\ MovedF \in 0..Len(queue)
  <2>1. srvBuf \in Seq(1..MaxUp) /\ queue \in Seq(1..MaxUp)
    BY DEF TypeOK
  <2>2. Len(srvBuf) \in Nat /\ Len(queue) \in Nat
    BY <2>1, LenProperties
  <2> QED
    BY <2>1, <2>2, MovedFBounds
<1>2. srvBuf' = srvBuf \o Sent /\ srvEnd' = (srvEnd \/ ShutsF) /\ fDone' = (ResF < 0)
  BY DEF Slice, tcp_splice_f, Sent
<1>3. fDone' <=> fDone \/ ShutsF \/ (queue # <<>> /\ srvRst)
  <2> DEFINE over == fDone \/ ShutsF \/ (queue # <<>> /\ srvRst)
  <2>1. ResF = IF over THEN -1 ELSE IF MovedF > 0 THEN 1 ELSE 0
    BY DEF ResF
  <2> HIDE DEF over
  <2>2. ResF < 0 <=> over
    BY <2>1
  <2> QED
    BY <1>2, <2>2 DEF over
<1>4. /\ Sent \in Seq(1..MaxUp) /\ Len(Sent) = MovedF
      /\ \A i \in 1..MovedF : Sent[i] = queue[i]
  BY QueueHalves
<1>5. /\ Len(srvBuf') = Len(srvBuf) + MovedF
      /\ \A i \in 1..Len(srvBuf) : srvBuf'[i] = srvBuf[i]
      /\ \A i \in (Len(srvBuf) + 1)..(Len(srvBuf) + MovedF) : srvBuf'[i] = queue[i - Len(srvBuf)]
  <2> DEFINE U == 1..MaxUp
  <2>1. srvBuf \in Seq(U) /\ Sent \in Seq(U)
    BY <1>1, <1>4
  <2> HIDE DEF U
  <2>2. /\ Len(srvBuf \o Sent) = Len(srvBuf) + Len(Sent)
        /\ \A i \in 1..(Len(srvBuf) + Len(Sent)) :
             (srvBuf \o Sent)[i] = IF i <= Len(srvBuf) THEN srvBuf[i] ELSE Sent[i - Len(srvBuf)]
    BY <2>1, ConcatProperties
  <2>3. \A i \in (Len(srvBuf) + 1)..(Len(srvBuf) + MovedF) : i - Len(srvBuf) \in 1..MovedF
    BY <1>1
  <2> QED
    BY <1>1, <1>2, <1>4, <2>2, <2>3
<1>6. MovedF = 0 => srvBuf' = srvBuf
  <2>1. Len(Sent) = 0 => Sent = <<>>
    BY <1>4
  <2> QED
    BY <1>1, <1>2, <1>4, <2>1
<1>7. (queue' = Rest /\ pc' # "ended") \/ (queue' = <<>> /\ pc' = "ended" /\ ResF <= 0)
  BY SliceEnds DEF Kept, Destruct
<1> QED
  BY <1>1, <1>2, <1>3, <1>5, <1>6, <1>7 DEF Slice

\* A slice keeps the stream to the server.
LEMMA SliceUp ==
  ASSUME TypeOK, Up, NEW ok \in [1..3 -> BOOLEAN], Slice(ok)
  PROVE  Up'
<1> DEFINE G == Len(srvGot)  B == Len(srvBuf)  Q == Len(queue)
<1>1. /\ UNCHANGED <<srvGot, cliSent, pcbEof, srvRst, srvSaw>> /\ pc # "ended"
      /\ MovedF \in 0..Q /\ B \in Nat /\ Q \in Nat /\ G \in Nat /\ cliSent \in Nat
      /\ Len(srvBuf') = B + MovedF
      /\ MovedF = 0 => srvBuf' = srvBuf
      /\ fDone \/ srvRst => MovedF = 0
  <2>1. G \in Nat /\ cliSent \in Nat
    BY BoundsAssumption DEF TypeOK
  <2> QED
    BY <2>1, SliceMovesF, MovedFBounds
<1>2. ~srvRst => G + B + Q = cliSent /\ \A i \in 1..Q : queue[i] = G + B + i
  BY <1>1 DEF Up
<1>3. \A i \in 1..(B + MovedF) : srvBuf'[i] = G + i
  <2> SUFFICES ASSUME NEW i \in 1..(B + MovedF) PROVE srvBuf'[i] = G + i
    OBVIOUS
  <2>1. CASE i <= B
    <3>1. i \in 1..B
      BY <1>1, <2>1
    <3> QED
      BY <3>1, SliceMovesF DEF Up
  <2>2. CASE i > B
    <3>1. i - B \in 1..Q /\ i \in (B + 1)..(B + MovedF) /\ ~srvRst
      BY <1>1, <2>2
    <3>2. srvBuf'[i] = queue[i - B] /\ queue[i - B] = G + B + (i - B)
      BY <1>2, <3>1, SliceMovesF
    <3> QED
      BY <1>1, <3>2
  <2> QED
    BY <1>1, <2>1, <2>2
<1>4. G + (B + MovedF) <= cliSent
  <2>1. G + B <= cliSent
    BY DEF Up
  <2> QED
    BY <1>1, <1>2, <2>1
<1>5. /\ Len(Rest) = Q - MovedF
      /\ \A i \in 1..(Q - MovedF) : Rest[i] = queue[MovedF + i]
  BY QueueHalves
<1>6. ~srvRst => /\ G + (B + MovedF) + Len(Rest) = cliSent
                 /\ \A i \in 1..Len(Rest) : Rest[i] = G + (B + MovedF) + i
  <2>1. \A i \in 1..(Q - MovedF) : MovedF + i \in 1..Q
    BY <1>1
  <2> SUFFICES ASSUME ~srvRst
               PROVE  /\ G + (B + MovedF) + Len(Rest) = cliSent
                      /\ \A i \in 1..(Q - MovedF) : Rest[i] = G + (B + MovedF) + i
    BY <1>5
  <2>2. G + (B + MovedF) + Len(Rest) = cliSent
    <3>1. G + B + Q = cliSent /\ Len(Rest) = Q - MovedF
      BY <1>2, <1>5
    <3>2. MovedF \in Nat /\ G \in Nat /\ B \in Nat /\ Q \in Nat
      BY <1>1
    <3> HIDE DEF G, B, Q
    <3> QED
      BY <3>1, <3>2
  <2>3. ASSUME NEW i \in 1..(Q - MovedF)
        PROVE  Rest[i] = G + (B + MovedF) + i
    <3>1. Rest[i] = queue[MovedF + i] /\ queue[MovedF + i] = G + B + (MovedF + i)
      BY <1>2, <1>5, <2>1
    <3> QED
      BY <1>1, <3>1
  <2> QED
    BY <2>2, <2>3
<1>7. queue = <<>> => MovedF = 0 /\ queue' = <<>>
  <2>1. queue = <<>> => Q = 0
    OBVIOUS
  <2>2. Len(Rest) = 0 => Rest = <<>>
    BY QueueHalves
  <2> QED
    BY <1>1, <1>5, <2>1, <2>2, SliceMovesF
<1>8. srvEnd' => /\ fDone' /\ pcbEof' /\ queue' = <<>>
                 /\ srvRst' \/ Len(srvGot') + Len(srvBuf') = cliSent'
  <2>1. CASE srvEnd
    BY <1>1, <1>7, <2>1, SliceMovesF DEF Up
  <2>2. CASE ShutsF
    <3>1. queue = <<>> /\ pcbEof /\ Q = 0
      BY <2>2 DEF ShutsF
    <3> QED
      BY <1>1, <1>2, <1>7, <2>2, <3>1, SliceMovesF
  <2> QED
    BY <2>1, <2>2, SliceMovesF
<1>9. fDone' => srvRst' \/ srvEnd'
  BY <1>1, SliceMovesF DEF Up
<1>10. srvRst' => srvBuf' = <<>> /\ srvSaw' # "open"
  BY <1>1 DEF Up
<1>11. srvSaw' # "open" => srvBuf' = <<>> /\ (srvRst' \/ fDone' \/ pc' = "ended")
  BY <1>1, SliceMovesF DEF Up
<1>12. ~srvRst' /\ pc' # "ended" =>
         /\ Len(srvGot') + Len(srvBuf') + Len(queue') = cliSent'
         /\ \A i \in 1..Len(queue') : queue'[i] = Len(srvGot') + Len(srvBuf') + i
  BY <1>1, <1>6, SliceMovesF
<1>13. /\ \A i \in 1..Len(srvGot') : srvGot'[i] = i
       /\ \A i \in 1..Len(srvBuf') : srvBuf'[i] = Len(srvGot') + i
       /\ Len(srvGot') + Len(srvBuf') <= cliSent'
  BY <1>1, <1>3, <1>4 DEF Up
<1> QED
  BY <1>8, <1>9, <1>10, <1>11, <1>12, <1>13 DEF Up

\* Every step keeps the stream to the server.
LEMMA NextUp == TypeOK /\ Connection /\ Up /\ [Next]_vars => Up'
<1> SUFFICES ASSUME TypeOK, Connection, Up, [Next]_vars PROVE Up'
  OBVIOUS
<1>1. ASSUME NEW ok \in [1..3 -> BOOLEAN], Slice(ok) PROVE Up'
  BY <1>1, SliceUp
<1>2. ASSUME Destruct(state, outq), UNCHANGED quiet PROVE Up'
  BY <1>2 DEF Destruct, Up, quiet, server
<1>3. ASSUME NEW held, pc # "ended", Leave(state, outq, held, queue), UNCHANGED quiet
      PROVE  Up'
  BY <1>2, <1>3 DEF Leave, Up, quiet, server
<1>4. CASE splice_refused
  BY <1>2, <1>4 DEF splice_refused
<1>5. CASE drain
  BY <1>3, <1>5 DEF drain
<1>6. CASE io_timeout
  BY <1>2, <1>3, <1>6 DEF io_timeout
<1>7. CASE hev_socks5_session_terminate
  BY <1>7 DEF hev_socks5_session_terminate, Up, lwip, client, server
<1>8. CASE client_data
  <2>1. /\ UNCHANGED <<srvGot, srvBuf, srvRst, srvSaw, srvEnd, fDone, pcbEof, pc>>
        /\ cliSent' = cliSent + 1 /\ queue' = Append(queue, cliSent + 1)
    BY <1>8 DEF client_data, server
  <2>2. ~srvEnd
    BY <1>8 DEF client_data, Connection, Up
  <2>3. /\ Len(queue) \in Nat /\ Len(srvGot) \in Nat /\ Len(srvBuf) \in Nat
        /\ cliSent \in Nat /\ queue \in Seq(1..MaxUp)
    BY BoundsAssumption DEF TypeOK
  <2>4. Len(queue') = Len(queue) + 1 /\ queue'[Len(queue) + 1] = cliSent + 1
        /\ \A i \in 1..Len(queue) : queue'[i] = queue[i]
    BY <2>1, <2>3
  <2>5. ASSUME ~srvRst, pc # "ended"
        PROVE  /\ Len(srvGot) + Len(srvBuf) + Len(queue') = cliSent'
               /\ \A i \in 1..Len(queue') : queue'[i] = Len(srvGot) + Len(srvBuf) + i
    <3>1. /\ Len(srvGot) + Len(srvBuf) + Len(queue) = cliSent
          /\ \A i \in 1..Len(queue) : queue[i] = Len(srvGot) + Len(srvBuf) + i
      BY <2>5 DEF Up
    <3>2. Len(srvGot) + Len(srvBuf) + Len(queue') = cliSent'
      BY <2>1, <2>3, <2>4, <3>1
    <3>3. ASSUME NEW i \in 1..Len(queue')
          PROVE  queue'[i] = Len(srvGot) + Len(srvBuf) + i
      <4>1. CASE i = Len(queue) + 1
        BY <2>3, <2>4, <3>1, <4>1
      <4>2. CASE i \in 1..Len(queue)
        BY <2>4, <3>1, <4>2
      <4> QED
        BY <2>3, <2>4, <4>1, <4>2
    <3> QED
      BY <3>2, <3>3
  <2>6. Len(srvGot') + Len(srvBuf') <= cliSent'
    BY <2>1, <2>3 DEF Up
  <2> QED
    BY <2>1, <2>2, <2>5, <2>6 DEF Up
<1>9. CASE client_fin
  BY <1>9 DEF client_fin, Up, server
<1>10. CASE client_acks_fin
  BY <1>10 DEF client_acks_fin, Up, server
<1>11. ASSUME NEW n \in 1..RingSize, client_acks(n) PROVE Up'
  BY <1>11 DEF client_acks, Up, server
<1>12. CASE connection_lost
  BY <1>12 DEF connection_lost, Up, server
<1>13. CASE time_wait_over
  BY <1>13 DEF time_wait_over, Up, session, client, server
<1>14. CASE server_sends
  BY <1>14 DEF server_sends, Up, client
<1>15. CASE server_closes
  BY <1>15 DEF server_closes, Up, client
<1>16. CASE server_resets
  <2>1. /\ UNCHANGED <<srvGot, cliSent, queue, srvEnd, fDone, pcbEof, pc>>
        /\ srvRst' = TRUE /\ srvSaw' = "cut" /\ srvBuf' = <<>> /\ Len(srvBuf') = 0
    BY <1>16 DEF server_resets, client
  <2>2. Len(srvGot) \in Nat /\ Len(srvBuf) \in Nat /\ cliSent \in Nat
    BY BoundsAssumption DEF TypeOK
  <2>3. Len(srvGot') + Len(srvBuf') <= cliSent'
    BY <2>1, <2>2 DEF Up
  <2> QED
    BY <2>1, <2>3 DEF Up
<1>17. CASE server_reads
  <2> DEFINE G == Len(srvGot)  B == Len(srvBuf)
  <2>1. /\ UNCHANGED <<cliSent, queue, srvEnd, fDone, pcbEof, pc, srvRst, srvSaw>>
        /\ srvBuf # <<>> /\ srvGot' = Append(srvGot, Head(srvBuf)) /\ srvBuf' = Tail(srvBuf)
    BY <1>17 DEF server_reads, client
  <2>2. ~srvRst /\ srvSaw = "open"
    BY <2>1 DEF Up
  <2>3. /\ srvGot \in Seq(1..MaxUp) /\ srvBuf \in Seq(1..MaxUp) /\ G \in Nat
        /\ B \in Nat \ {0} /\ cliSent \in Nat /\ Len(queue) \in Nat
    <3>1. /\ srvGot \in Seq(1..MaxUp) /\ srvBuf \in Seq(1..MaxUp)
          /\ queue \in Seq(1..MaxUp) /\ cliSent \in Nat
      BY BoundsAssumption DEF TypeOK
    <3>2. Len(srvGot) \in Nat /\ Len(srvBuf) \in Nat /\ Len(queue) \in Nat
      BY <3>1, LenProperties
    <3>3. Len(srvBuf) # 0
      BY <2>1, <3>1, EmptySeq
    <3> QED
      BY <3>1, <3>2, <3>3
  <2>4. /\ Head(srvBuf) = srvBuf[1] /\ Head(srvBuf) \in 1..MaxUp /\ Len(srvBuf') = B - 1
        /\ \A i \in 1..(B - 1) : srvBuf'[i] = srvBuf[i + 1]
    <3>1. Head(srvBuf) = srvBuf[1]
      BY <2>1, <2>3
    <3>2. /\ Head(srvBuf) \in 1..MaxUp /\ Len(Tail(srvBuf)) = Len(srvBuf) - 1
          /\ \A i \in 1..Len(Tail(srvBuf)) : Tail(srvBuf)[i] = srvBuf[i + 1]
      BY <2>1, <2>3, HeadTailProperties
    <3> QED
      BY <2>1, <3>1, <3>2
  <2>5. /\ Len(srvGot') = G + 1 /\ srvGot'[G + 1] = srvBuf[1]
        /\ \A i \in 1..G : srvGot'[i] = srvGot[i]
    BY <2>1, <2>3, <2>4
  <2>6. /\ \A i \in 1..G : srvGot[i] = i
        /\ \A i \in 1..B : srvBuf[i] = G + i
        /\ G + B <= cliSent
        /\ pc # "ended" => /\ G + B + Len(queue) = cliSent
                           /\ \A i \in 1..Len(queue) : queue[i] = G + B + i
        /\ fDone => srvEnd
        /\ srvEnd => fDone /\ pcbEof /\ queue = <<>> /\ G + B = cliSent
    BY <2>2 DEF Up
  <2> HIDE DEF G, B
  <2>7. \A i \in 1..(G + 1) : srvGot'[i] = i
    BY <2>3, <2>5, <2>6
  <2>8. \A i \in 1..(B - 1) : srvBuf'[i] = (G + 1) + i
    <3> SUFFICES ASSUME NEW i \in 1..(B - 1) PROVE srvBuf'[i] = (G + 1) + i
      OBVIOUS
    <3>1. i + 1 \in 1..B
      BY <2>3
    <3>2. srvBuf'[i] = G + (i + 1)
      BY <2>4, <2>6, <3>1
    <3> QED
      BY <2>3, <3>2
  <2>9. (G + 1) + (B - 1) = G + B
    BY <2>3
  <2> QED
    BY <2>1, <2>2, <2>4, <2>5, <2>6, <2>7, <2>8, <2>9 DEF Up
<1>18. CASE server_sees_end \/ server_sees_reset
  <2>1. CASE server_sees_end
    BY <2>1 DEF server_sees_end, Up, session, client
  <2>2. CASE server_sees_reset
    <3>1. /\ srvBuf' = <<>> /\ Len(srvBuf') = 0 /\ srvSaw' = "cut" /\ pc = "ended" /\ pc' = pc
          /\ UNCHANGED <<srvGot, srvRst, srvEnd, cliSent, queue, fDone, pcbEof>>
      BY <2>2 DEF server_sees_reset, session, client
    <3>2. Len(srvGot) \in Nat /\ Len(srvBuf) \in Nat /\ cliSent \in Nat
      BY BoundsAssumption DEF TypeOK
    <3>3. Len(srvGot') + Len(srvBuf') <= cliSent'
      BY <3>1, <3>2 DEF Up
    <3> QED
      BY <3>1, <3>3 DEF Up
  <2> QED
    BY <1>18, <2>1, <2>2
<1>19. CASE UNCHANGED vars
  BY <1>19 DEF vars, Up, session, client, server
<1> QED
  BY <1>1, <1>4, <1>5, <1>6, <1>7, <1>8, <1>9, <1>10, <1>11, <1>12, <1>13, <1>14,
     <1>15, <1>16, <1>17, <1>18, <1>19 DEF Next, TaskStep

\* A slice that ends in a wait found nothing to move; one that ends the loop gives up
\* bytes of the client only to a server that reset or whose socket is full.
LEMMA SliceWaits ==
  ASSUME TypeOK, Connection, Up, NEW ok \in [1..3 -> BOOLEAN], Slice(ok), ResF <= 0
  PROVE  /\ MovedF = 0
         /\ queue = <<>> \/ Len(srvBuf) = SockRoom \/ srvRst
         /\ ResF = 0 /\ pcbEof => queue # <<>> /\ Len(srvBuf) = SockRoom
<1> DEFINE over == fDone \/ ShutsF \/ (queue # <<>> /\ srvRst)
<1>1. ResF = IF over THEN -1 ELSE IF MovedF > 0 THEN 1 ELSE 0
  BY DEF ResF
<1>2. /\ MovedF \in Nat /\ MovedF <= Len(queue) /\ Len(queue) \in Nat
      /\ fDone \/ srvRst => MovedF = 0
      /\ ~fDone /\ ~srvRst /\ MovedF = 0 => queue = <<>> \/ Len(srvBuf) = SockRoom
  BY MovedFBounds DEF TypeOK
<1>3. queue = <<>> => MovedF = 0
  <2>1. queue = <<>> => Len(queue) = 0
    OBVIOUS
  <2> QED
    BY <1>2, <2>1
<1>4. fDone => srvRst \/ queue = <<>>
  BY DEF Up
<1>5. CASE over
  <2>1. ResF # 0
    BY <1>1, <1>5
  <2> QED
    BY <1>2, <1>3, <1>4, <1>5, <2>1 DEF ShutsF
<1>6. CASE ~over
  <2>1. MovedF = 0
    <3> HIDE DEF over
    <3> QED
      BY <1>1, <1>2, <1>6
  <2> QED
    BY <1>2, <1>6, <2>1 DEF ShutsF
<1> QED
  BY <1>5, <1>6

\* Every step keeps the invariant of the waits.
LEMMA NextWaiting == TypeOK /\ Connection /\ Up /\ Waiting /\ [Next]_vars => Waiting'
<1> SUFFICES ASSUME TypeOK, Connection, Up, Waiting, [Next]_vars PROVE Waiting'
  OBVIOUS
<1>1. ASSUME NEW ok \in [1..3 -> BOOLEAN], Slice(ok) PROVE Waiting'
  <2>1. CASE Destruct(StateB, Queued(ok))
    BY <2>1 DEF Destruct, Waiting
  <2>2. CASE Kept(ok)
    <3> SUFFICES ASSUME task' = "WAITING"
                 PROVE  /\ pc' = "splice" => /\ queue' = <<>> \/ Len(srvBuf') = SockRoom \/ srvRst'
                                             /\ bDone' /\ pcbEof' =>
                                                  queue' # <<>> /\ Len(srvBuf') = SockRoom
                        /\ pc' = "drain" /\ pcb' => use' > 0
      BY DEF Waiting
    <3>1. ASSUME pc' = "splice"
          PROVE  /\ queue' = <<>> \/ Len(srvBuf') = SockRoom \/ srvRst'
                 /\ bDone' /\ pcbEof' => queue' # <<>> /\ Len(srvBuf') = SockRoom
      <4>1. ResF <= 0 /\ ~(ResF < 0 /\ ResB(ok) < 0) /\ queue' = Rest
        BY <2>2, <3>1 DEF Kept
      <4>2. /\ MovedF = 0
            /\ queue = <<>> \/ Len(srvBuf) = SockRoom \/ srvRst
            /\ ResF = 0 /\ pcbEof => queue # <<>> /\ Len(srvBuf) = SockRoom
        BY <1>1, <4>1, SliceWaits
      <4>3. srvBuf' = srvBuf /\ UNCHANGED <<srvRst, pcbEof>>
        BY <1>1, <4>2, SliceMovesF
      <4>4. queue' = <<>> <=> queue = <<>>
        <5>1. Len(Rest) = Len(queue) /\ queue \in Seq(1..MaxUp) /\ Rest \in Seq(1..MaxUp)
          BY <4>2, QueueHalves DEF TypeOK
        <5> QED
          BY <4>1, <5>1
      <4>5. bDone' => ResF = 0
        <5>1. bDone' => ResB(ok) < 0
          BY <1>1 DEF Slice, tcp_splice_b
        <5>2. ResF \in {-1, 0, 1}
          BY DEF ResF
        <5>3. bDone' => ~(ResF < 0)
          BY <4>1, <5>1
        <5> QED
          BY <4>1, <5>2, <5>3
      <4> QED
        BY <4>2, <4>3, <4>4, <4>5
    <3>2. pc' = "drain" => use' > 0
      BY <2>2 DEF Kept
    <3> QED
      BY <3>1, <3>2
  <2> QED
    BY <1>1, <2>1, <2>2, SliceEnds
<1>2. ASSUME Destruct(state, outq) PROVE Waiting'
  BY <1>2 DEF Destruct, Waiting
<1>3. ASSUME Leave(state, outq, use, queue), UNCHANGED quiet PROVE Waiting'
  BY <1>2, <1>3 DEF Leave, Waiting, quiet, ring
<1>4. CASE splice_refused
  BY <1>2, <1>4 DEF splice_refused
<1>5. CASE drain
  BY <1>3, <1>5 DEF drain
<1>6. CASE io_timeout
  BY <1>2, <1>3, <1>6 DEF io_timeout
<1>7. ASSUME Wakes PROVE Waiting'
  BY <1>7 DEF Wakes, Waiting
<1>8. CASE client_acks_fin
  BY <1>7, <1>8 DEF client_acks_fin, Waiting, ring, server
<1>9. CASE time_wait_over
  BY <1>9 DEF time_wait_over, Waiting, session, ring, server
<1>10. CASE server_sees_end
  BY <1>10 DEF server_sees_end, Waiting, session, ring
<1>13. CASE server_sees_reset
  BY <1>13 DEF server_sees_reset, Connection, Waiting, session
<1>11. CASE UNCHANGED vars
  BY <1>11 DEF vars, Waiting, session, ring, server
<1>12. CASE \/ hev_socks5_session_terminate \/ client_data \/ client_fin \/ connection_lost
            \/ server_sends \/ server_closes \/ server_resets \/ server_reads
            \/ \E n \in 1..RingSize : client_acks(n)
  BY <1>7, <1>12 DEF hev_socks5_session_terminate, client_data, client_fin, connection_lost,
     Terminates, server_sends, server_closes, server_resets, server_reads, client_acks
<1> QED
  BY <1>1, <1>4, <1>5, <1>6, <1>8, <1>9, <1>10, <1>11, <1>12, <1>13 DEF Next, TaskStep

\* A slice leaves the loop when the session was terminated, or both directions are done.
LEMMA SliceLeft ==
  ASSUME TypeOK, Up, Left, NEW ok \in [1..3 -> BOOLEAN], Slice(ok)
  PROVE  Left'
<1>1. /\ UNCHANGED <<timeout, timedOut, srvRst>>
      /\ srvEnd' = (srvEnd \/ ShutsF)
  BY DEF Slice, tcp_splice_f
<1>2. \/ pc' = "splice" /\ pcb' = pcb
      \/ timeout = "zero" /\ (pcb' = pcb \/ pc' = "ended")
      \/ ResF < 0 /\ (pcb' = pcb \/ pc' = "ended")
  BY DEF Slice, Leave, Destruct
<1>3. ResF < 0 => fDone \/ ShutsF \/ srvRst
  BY DEF ResF
<1>4. fDone => srvRst \/ srvEnd
  BY DEF Up
<1>5. pc \in {"start", "splice"}
  BY DEF Slice
<1> QED
  BY <1>1, <1>2, <1>3, <1>4, <1>5 DEF Left

\* Every step keeps what a session has left behind.
LEMMA NextLeft == TypeOK /\ Connection /\ Up /\ Left /\ [Next]_vars => Left'
<1> SUFFICES ASSUME TypeOK, Connection, Up, Left, [Next]_vars PROVE Left'
  OBVIOUS
<1>1. ASSUME NEW ok \in [1..3 -> BOOLEAN], Slice(ok) PROVE Left'
  BY <1>1, SliceLeft
<1>2. CASE splice_refused
  BY <1>2 DEF splice_refused, Destruct, quiet, server, Left
<1>3. CASE drain
  BY <1>3 DEF drain, Leave, Destruct, quiet, server, Left
<1>4. CASE io_timeout
  BY <1>4 DEF io_timeout, Leave, Destruct, Left, Connection
<1>5. CASE \/ hev_socks5_session_terminate \/ connection_lost
  BY <1>5 DEF hev_socks5_session_terminate, connection_lost, Terminates, server, Left
<1>6. CASE client_acks_fin
  BY <1>6 DEF client_acks_fin, server, Left
<1>7. CASE client_data \/ client_fin \/ (\E n \in 1..RingSize : client_acks(n))
  BY <1>7 DEF client_data, client_fin, client_acks, server, Left
<1>8. CASE time_wait_over \/ server_sees_end \/ server_sees_reset \/ UNCHANGED vars
  BY <1>8 DEF time_wait_over, server_sees_end, server_sees_reset, vars, session, server, Left
<1>9. CASE server_sends \/ server_closes \/ server_resets \/ server_reads
  BY <1>9 DEF server_sends, server_closes, server_resets, server_reads, Left
<1> QED
  BY <1>1, <1>2, <1>3, <1>4, <1>5, <1>6, <1>7, <1>8, <1>9 DEF Next, TaskStep

-----------------------------------------------------------------------------
(* The theorems.                                                           *)

\* The session starts in the invariant.
LEMMA InitIInv == Init => IInv
<1> SUFFICES ASSUME Init PROVE IInv
  OBVIOUS
<1> USE SizesAssumption, BoundsAssumption DEF Init
<1>1. TypeOK
  <2>1. /\ <<>> \in Seq(Cells) /\ <<>> \in Seq(1..MaxUp) /\ <<>> \in Seq(0..MaxDown)
        /\ Len(<<>>) = 0
    OBVIOUS
  <2>2. 0 \in Cells /\ [c \in Cells |-> 0] \in [Cells -> 0..MaxDown]
    BY DEF Cells
  <2>3. data \in [Cells -> 0..MaxDown] /\ rp \in Cells /\ wp \in Cells
    BY <2>2
  <2>4. /\ outq \in Seq(Cells) /\ queue \in Seq(1..MaxUp) /\ cliGot \in Seq(0..MaxDown)
        /\ srvGot \in Seq(1..MaxUp) /\ srvBuf \in Seq(1..MaxUp)
        /\ Len(outq) + rda <= use /\ Len(srvBuf) <= SockRoom /\ rcvWnd + Len(queue) = TcpWnd
    BY <2>1
  <2> QED
    BY <2>3, <2>4 DEF TypeOK, States
<1>2. Connection
  BY DEF Connection, ShutStates, DoneStates
<1>3. Ring /\ Down /\ Up /\ Waiting /\ Left
  BY DEF Ring, Down, Up, Waiting, Left
<1> QED
  BY <1>1, <1>2, <1>3 DEF IInv

\* Every step keeps it.
LEMMA NextIInv == IInv /\ [Next]_vars => IInv'
BY NextTypeOK, NextConnection, NextRing, NextDown, NextUp, NextWaiting, NextLeft DEF IInv

\* The invariant of the session.
THEOREM Invariant == Spec => []IInv
BY InitIInv, NextIInv, PTL DEF Spec

\* The variables keep their types: in particular the ring never holds more than it has
\* cells, and what lwIP and the queue hold fits the ring and the receive window.
THEOREM TypeCorrect == Spec => []TypeOK
<1>1. IInv => TypeOK
  BY DEF IInv
<1> QED
  BY <1>1, Invariant, PTL

\* The bytes that lwIP was given stay in their cells until the client has acknowledged
\* them, whatever is read into the ring meanwhile and however it wraps or rewinds.
THEOREM SendQueueIsStable == Spec => []SendQueueStable
<1>1. IInv => SendQueueStable
  <2>1. TypeOK => DOMAIN outq = 1..Len(outq)
    BY DEF TypeOK
  <2> QED
    BY <2>1 DEF IInv, Down, SendQueueStable
<1> QED
  BY <1>1, Invariant, PTL

\* The session holds no freed connection, except at the end of TIME_WAIT while the server
\* does not read the client's rest.
THEOREM ConnectionValid == Spec => []PcbValid
<1>1. IInv => PcbValid
  <2> SUFFICES ASSUME IInv, pcb, state = "EXPIRED", task = "WAITING"
               PROVE  queue # <<>> /\ Len(srvBuf) = SockRoom
    BY DEF IInv, Connection, PcbValid
  <2>1. /\ bDone /\ ~failed /\ pcbEof /\ outq = <<>> /\ Len(outq) = 0
        /\ pc \in {"splice", "drain"}
    BY DEF IInv, Connection, TypeOK, ShutStates, DoneStates
  <2>2. use = 0
    BY <2>1 DEF IInv, Ring
  <2> QED
    BY <2>1, <2>2 DEF IInv, Waiting
<1> QED
  BY <1>1, Invariant, PTL

\* A sequence whose elements are its positions.
LEMMA IsStream ==
  ASSUME NEW S, NEW s \in Seq(S), \A i \in 1..Len(s) : s[i] = i
  PROVE  s = [i \in 1..Len(s) |-> i]
<1>1. s \in [1..Len(s) -> S]
  OBVIOUS
<1>2. s = [i \in 1..Len(s) |-> s[i]]
  BY <1>1
<1> QED
  BY <1>2

\* The loop leaves bytes of the client behind only when the server reset or its socket
\* takes no more.
LEMMA UploadIsKept ==
  ASSUME IInv, [Next]_vars, pc = "splice", pc' \in {"drain", "ended"}
  PROVE  \/ srvGot' \o srvBuf' = [i \in 1..cliSent |-> i]
         \/ Len(srvBuf') = SockRoom \/ srvRst
<1>1. /\ UNCHANGED <<srvGot, srvBuf>>
      /\ queue = <<>> \/ Len(srvBuf) = SockRoom \/ srvRst
  <2>1. CASE \E ok \in [1..3 -> BOOLEAN] : Slice(ok)
    <3>1. PICK ok \in [1..3 -> BOOLEAN] : Slice(ok)
      BY <2>1
    <3>2. ResF <= 0
      BY <3>1, SliceEnds DEF Kept
    <3>3. MovedF = 0 /\ (queue = <<>> \/ Len(srvBuf) = SockRoom \/ srvRst)
      BY <3>1, <3>2, SliceWaits DEF IInv
    <3> QED
      BY <3>1, <3>3, SliceMovesF DEF IInv
  <2>2. CASE io_timeout
    BY <2>2 DEF io_timeout, quiet, server, IInv, Waiting
  <2>3. CASE \/ hev_socks5_session_terminate \/ client_data \/ client_fin \/ client_acks_fin
             \/ (\E n \in 1..RingSize : client_acks(n)) \/ connection_lost
             \/ server_sends \/ server_closes \/ server_resets \/ server_reads
    BY <2>3 DEF hev_socks5_session_terminate, client_data, client_fin, client_acks_fin,
       client_acks, connection_lost, server_sends, server_closes, server_resets, server_reads
  <2>4. CASE time_wait_over \/ server_sees_end \/ server_sees_reset \/ UNCHANGED vars
    BY <2>4 DEF time_wait_over, server_sees_end, server_sees_reset, vars, session
  <2> QED
    BY <2>1, <2>2, <2>3, <2>4 DEF Next, TaskStep, splice_refused, drain
<1>2. CASE queue = <<>> /\ ~srvRst
  <2>1. /\ srvGot \in Seq(1..MaxUp) /\ srvBuf \in Seq(1..MaxUp)
        /\ Len(srvGot) \in Nat /\ Len(srvBuf) \in Nat /\ cliSent \in Nat
    <3>1. srvGot \in Seq(1..MaxUp) /\ srvBuf \in Seq(1..MaxUp) /\ cliSent \in 0..MaxUp
      BY DEF IInv, TypeOK
    <3> QED
      BY <3>1, BoundsAssumption, LenProperties
  <2>2. Len(srvGot) + Len(srvBuf) + 0 = cliSent
    BY <1>2 DEF IInv, Up
  <2>3. /\ \A i \in 1..Len(srvGot) : srvGot[i] = i
        /\ \A i \in 1..Len(srvBuf) : srvBuf[i] = Len(srvGot) + i
    BY DEF IInv, Up
  <2> DEFINE U == 1..MaxUp  s == srvGot \o srvBuf
  <2>4. srvGot \in Seq(U) /\ srvBuf \in Seq(U)
    BY <2>1
  <2> HIDE DEF U
  <2>5. /\ s \in Seq(U) /\ Len(s) = Len(srvGot) + Len(srvBuf)
        /\ \A i \in 1..(Len(srvGot) + Len(srvBuf)) :
             s[i] = IF i <= Len(srvGot) THEN srvGot[i] ELSE srvBuf[i - Len(srvGot)]
    BY <2>4, ConcatProperties
  <2> HIDE DEF s
  <2>6. Len(s) = cliSent
    BY <2>1, <2>2, <2>5
  <2>7. ASSUME NEW i \in 1..Len(s) PROVE s[i] = i
    <3>1. CASE i <= Len(srvGot)
      BY <2>1, <2>3, <2>5, <3>1
    <3>2. CASE i > Len(srvGot)
      <4>1. i - Len(srvGot) \in 1..Len(srvBuf) /\ s[i] = srvBuf[i - Len(srvGot)]
        BY <2>1, <2>5, <3>2
      <4> QED
        BY <2>1, <2>3, <4>1
    <3> QED
      BY <2>1, <2>5, <3>1, <3>2
  <2>8. s = [i \in 1..cliSent |-> i]
    BY <2>5, <2>6, <2>7, IsStream
  <2> QED
    BY <1>1, <2>8 DEF s
<1> QED
  BY <1>1, <1>2

\* However the loop is left, what the client sent is at the server or in its socket, or
\* the server reset, or its socket is full.
THEOREM UploadSurvives == Spec => UploadKept
<1>1. IInv /\ [Next]_vars =>
        [pc = "splice" /\ pc' \in {"drain", "ended"} =>
           \/ srvGot' \o srvBuf' = [i \in 1..cliSent |-> i]
           \/ Len(srvBuf') = SockRoom \/ srvRst]_vars
  BY UploadIsKept
<1> QED
  BY <1>1, Invariant, PTL DEF Spec, UploadKept

-----------------------------------------------------------------------------
(* The session implements Relay.                                           *)

\* The steps of one stream of the Relay, in the variables of the session.
Broken == timeout = "zero" \/ timedOut
UpFixed == srvGot' = srvGot /\ srvSaw' = srvSaw /\ cliSent' = cliSent
UpSame == UpFixed /\ cliFin' = cliFin /\ Broken' = Broken
DownSame == /\ srvSent' = srvSent /\ (srvFin' \/ srvRst') = (srvFin \/ srvRst)
            /\ cliGot' = cliGot /\ cliSaw' = cliSaw /\ failed' = failed
LEMMA RelaySame ==
  /\ UpSame => RelayOf!Same("up")
  /\ DownSame => RelayOf!Same("down")
BY DEF UpSame, UpFixed, Broken, DownSame, RelayOf!Same

\* The session is terminated or times out, perhaps because the client has gone.
LEMMA RelayBreaks ==
  ASSUME UpFixed, Broken' = TRUE, cliFin' \in {cliFin, TRUE}, cliFin \in BOOLEAN
  PROVE  RelayOf!Step("up") \/ RelayOf!Same("up")
<1>1. CASE Broken /\ cliFin' = cliFin
  BY <1>1, RelaySame DEF UpSame
<1>2. CASE Broken /\ cliFin' # cliFin
  BY <1>2 DEF UpFixed, Broken, RelayOf!Step, RelayOf!EndStream
<1>3. CASE ~Broken
  BY <1>3 DEF UpFixed, Broken, RelayOf!Step, RelayOf!BreakOff
<1> QED
  BY <1>1, <1>2, <1>3

\* When the client has acknowledged everything up to the FIN, the server's stream has
\* ended and has arrived whole.
LEMMA DownArrived ==
  ASSUME IInv, pcb, outq = <<>>, ~failed, srvRead = srvSent
  PROVE  cliGot = RelayOf!Stream(srvSent)
<1>1. Len(cliGot) = srvSent
  <2>1. use = Len(outq) /\ srvRead = Len(cliGot) + use /\ Len(outq) = 0
    BY DEF IInv, Ring
  <2>2. Len(cliGot) \in Nat
    BY DEF IInv, TypeOK
  <2> QED
    BY <2>1, <2>2
<1>2. cliGot \in Seq(0..MaxDown) /\ \A i \in 1..Len(cliGot) : cliGot[i] = i
  BY DEF IInv, TypeOK, Down
<1>3. cliGot = [i \in 1..Len(cliGot) |-> i]
  BY <1>2, IsStream
<1> QED
  BY <1>1, <1>3 DEF RelayOf!Stream

\* What the client sees of the end: nothing new, a cut, or an orderly end of the whole
\* stream.
LEMMA EndOfDown ==
  ASSUME IInv, NEW st, NEW oq, Destruct(st, oq),
         oq = <<>> /\ st \in {"FIN_WAIT_1", "CLOSING", "LAST_ACK"} =>
           (srvFin \/ srvRst) /\ cliGot = RelayOf!Stream(srvSent),
         srvSent' = srvSent, (srvFin' \/ srvRst') = (srvFin \/ srvRst),
         cliGot' = cliGot, failed' = failed
  PROVE  RelayOf!Step("down") \/ RelayOf!Same("down")
<1>1. CASE cliSaw' = cliSaw
  BY <1>1, RelaySame DEF DownSame
<1>2. CASE cliSaw = "open" /\ cliSaw' = "cut"
  BY <1>2 DEF RelayOf!Step, RelayOf!Cut
<1>3. CASE /\ cliSaw = "open" /\ cliSaw' = "eof"
           /\ oq = <<>> /\ st \in {"FIN_WAIT_1", "CLOSING", "LAST_ACK"}
  BY <1>3 DEF RelayOf!Step, RelayOf!SeeEof
<1> QED
  BY <1>1, <1>2, <1>3 DEF Destruct

\* A slice may damage the stream to the client, and may end it.
LEMMA SliceRelaysDown ==
  ASSUME IInv, NEW ok \in [1..3 -> BOOLEAN], Slice(ok)
  PROVE  RelayOf!Step("down") \/ RelayOf!Same("down")
<1> USE DEF IInv
<1>1. /\ srvSent' = srvSent /\ (srvFin' \/ srvRst') = (srvFin \/ srvRst) /\ cliGot' = cliGot
      /\ failed \in BOOLEAN
  BY DEF Slice, TypeOK
<1>2. CASE WriteFails(ok)
  <2>1. ~failed /\ failed' = TRUE /\ ~bDone /\ pcb /\ StateB = state
    BY <1>2, SliceEndsB DEF Connection, Slice, tcp_splice_b
  <2>2. state \notin ShutStates
    BY <2>1 DEF Connection
  <2>3. cliSaw' \in {cliSaw, "cut"}
    BY <2>1, <2>2, SliceEnds DEF Kept, Destruct, ShutStates
  <2> QED
    BY <1>1, <2>1, <2>3 DEF RelayOf!Step, RelayOf!Damage
<1>3. CASE ~WriteFails(ok)
  <2>1. failed' = failed
    BY <1>1, <1>3 DEF Slice, tcp_splice_b
  <2>2. CASE Kept(ok)
    BY <1>1, <2>1, <2>2, RelaySame DEF Kept, DownSame
  <2>3. CASE Destruct(StateB, Queued(ok))
    <3>1. ASSUME Queued(ok) = <<>>, StateB \in {"FIN_WAIT_1", "CLOSING", "LAST_ACK"}
          PROVE  (srvFin \/ srvRst) /\ cliGot = RelayOf!Stream(srvSent)
      <4>1. pcb
        BY <3>1, SliceEndsB DEF Connection
      <4>2. outq = <<>>
        <5>1. CASE bDone
          BY <3>1, <5>1 DEF Queued
        <5>2. CASE ~bDone
          <6>1. Len(Queued(ok)) >= Len(outq) /\ Len(Queued(ok)) = 0
            BY <3>1, <4>1, <5>2, QueuedBytes
          <6>2. outq \in Seq(Cells)
            BY DEF TypeOK
          <6> QED
            BY <6>1, <6>2
        <5> QED
          BY <5>1, <5>2
      <4>3. ~failed /\ srvRead = srvSent /\ (srvFin \/ srvRst)
        <5>1. CASE ShutsB
          BY <5>1, SliceEndsB DEF Connection, ShutsB, EndB
        <5>2. CASE ~ShutsB
          BY <3>1, <4>1, <5>2, SliceEndsB DEF Connection, ShutStates
        <5> QED
          BY <5>1, <5>2
      <4> QED
        BY <4>1, <4>2, <4>3, DownArrived
    <3> QED
      BY <1>1, <2>1, <2>3, <3>1, EndOfDown
  <2> QED
    BY <2>2, <2>3, SliceEnds
<1> QED
  BY <1>2, <1>3

\* The stream to the client, step by step.
LEMMA NextRelaysDown ==
  ASSUME IInv, [Next]_vars
  PROVE  RelayOf!Step("down") \/ RelayOf!Same("down")
<1>1. ASSUME NEW ok \in [1..3 -> BOOLEAN], Slice(ok)
      PROVE  RelayOf!Step("down") \/ RelayOf!Same("down")
  BY <1>1, SliceRelaysDown
<1>2. ASSUME outq = <<>>, state \in {"FIN_WAIT_1", "CLOSING", "LAST_ACK"}
      PROVE  /\ cliSaw = "open" /\ (srvFin \/ srvRst) /\ cliGot = RelayOf!Stream(srvSent)
             /\ ~failed
  <2>1. pcb /\ cliSaw = "open" /\ (srvFin \/ srvRst) /\ ~failed /\ srvRead = srvSent
    BY <1>2 DEF IInv, Connection, ShutStates, DoneStates
  <2> QED
    BY <1>2, <2>1, DownArrived
<1>3. ASSUME Destruct(state, outq), UNCHANGED quiet
      PROVE  RelayOf!Step("down") \/ RelayOf!Same("down")
  <2>1. /\ srvSent' = srvSent /\ (srvFin' \/ srvRst') = (srvFin \/ srvRst)
        /\ cliGot' = cliGot /\ failed' = failed
    BY <1>3 DEF quiet, server
  <2> QED
    BY <1>2, <1>3, <2>1, EndOfDown
<1>4. ASSUME NEW held, Leave(state, outq, held, queue), UNCHANGED quiet
      PROVE  RelayOf!Step("down") \/ RelayOf!Same("down")
  <2>1. CASE cliSaw' = cliSaw
    BY <1>4, <2>1, RelaySame DEF DownSame, quiet, server
  <2> QED
    BY <1>3, <1>4, <2>1 DEF Leave
<1>5. CASE splice_refused
  BY <1>3, <1>5 DEF splice_refused
<1>6. CASE drain
  BY <1>4, <1>6 DEF drain
<1>7. CASE io_timeout
  BY <1>3, <1>4, <1>7 DEF io_timeout
<1>8. CASE client_acks_fin
  <2>1. /\ cliSaw' = "eof" /\ srvSent' = srvSent /\ cliGot' = cliGot /\ failed' = failed
        /\ srvFin' = srvFin /\ srvRst' = srvRst
        /\ outq = <<>> /\ state \in {"FIN_WAIT_1", "CLOSING", "LAST_ACK"}
    BY <1>8 DEF client_acks_fin, server
  <2> QED
    BY <1>2, <2>1 DEF RelayOf!Step, RelayOf!SeeEof
<1>9. ASSUME NEW n \in 1..RingSize, client_acks(n)
      PROVE  RelayOf!Step("down") \/ RelayOf!Same("down")
  <2>1. /\ srvSent' = srvSent /\ failed' = failed /\ srvFin' = srvFin /\ srvRst' = srvRst
        /\ cliSaw' = cliSaw /\ srvRead' = srvRead
    BY <1>9 DEF client_acks, server
  <2>2. cliSaw = "open"
    BY <1>9 DEF client_acks, IInv, Connection, DoneStates
  <2>3. TypeOK /\ TypeOK' /\ Down'
    BY NextTypeOK, NextDown DEF IInv
  <2>4. /\ Len(cliGot') = Len(cliGot) + n /\ n > 0 /\ n \in Nat /\ Len(cliGot) \in Nat
        /\ \A i \in 1..Len(cliGot) : cliGot'[i] = cliGot[i]
    <3>1. n > 0 /\ n \in Nat
      BY SizesAssumption
    <3> QED
      BY <1>9, <2>3, <3>1, AckedBytes
  <2>5. /\ cliGot \in Seq(0..MaxDown) /\ cliGot' \in Seq(0..MaxDown)
        /\ srvRead \in Nat /\ srvSent \in Nat /\ srvRead <= srvSent
    BY <2>3, BoundsAssumption DEF TypeOK
  <2>6. SubSeq(cliGot', 1, Len(cliGot)) = cliGot
    <3> DEFINE D == 0..MaxDown  s == cliGot'  k == Len(cliGot)  t == SubSeq(s, 1, k)
    <3>1. s \in Seq(D) /\ k \in 0..Len(s) /\ cliGot \in Seq(D)
      BY <2>4, <2>5
    <3> HIDE DEF D, s, k
    <3>2. t \in Seq(D) /\ Len(t) = k /\ \A i \in 1..k : t[i] = s[i]
      BY <3>1, TwoHalves
    <3>3. \A i \in 1..k : t[i] = cliGot[i]
      BY <2>4, <3>2 DEF s, k
    <3> HIDE DEF t
    <3>4. t = cliGot
      BY <3>1, <3>2, <3>3, SeqEqual DEF k
    <3> QED
      BY <3>4 DEF t, s, k
  <2>7. DOMAIN cliGot' = 1..Len(cliGot') /\ Len(cliGot') > Len(cliGot)
    BY <2>4, <2>5
  <2>8. \A i \in 1..Len(cliGot') : cliGot'[i] \in 1..srvSent
    BY <2>1, <2>3, <2>5 DEF Down
  <2>9. \A i \in 2..Len(cliGot') : cliGot'[i - 1] < cliGot'[i]
    <3>1. \A i \in 2..Len(cliGot') : /\ i - 1 \in 1..Len(cliGot') /\ i \in 1..Len(cliGot')
                                     /\ i - 1 < i
      BY <2>4
    <3> QED
      BY <2>3, <3>1 DEF Down
  <2>10. ~failed => cliGot' = RelayOf!Stream(Len(cliGot'))
    <3>1. ~failed => \A i \in 1..Len(cliGot') : cliGot'[i] = i
      BY <2>1, <2>3 DEF Down
    <3> DEFINE s == cliGot'
    <3>2. s \in Seq(0..MaxDown) /\ (~failed => \A i \in 1..Len(s) : s[i] = i)
      BY <2>5, <3>1
    <3> HIDE DEF s
    <3>3. ~failed => s = [i \in 1..Len(s) |-> i]
      BY <3>2, IsStream
    <3> QED
      BY <3>3 DEF s, RelayOf!Stream
  <2> QED
    BY <2>1, <2>2, <2>6, <2>7, <2>8, <2>9, <2>10 DEF RelayOf!Step, RelayOf!Deliver
<1>10. CASE connection_lost
  <2>1. /\ srvSent' = srvSent /\ cliGot' = cliGot /\ failed' = failed
        /\ srvFin' = srvFin /\ srvRst' = srvRst
        /\ cliSaw' = IF cliSaw = "open" THEN "cut" ELSE cliSaw
    BY <1>10 DEF connection_lost, server
  <2>2. CASE cliSaw = "open"
    BY <2>1, <2>2 DEF RelayOf!Step, RelayOf!Cut
  <2>3. CASE cliSaw # "open"
    BY <2>1, <2>3, RelaySame DEF DownSame
  <2> QED
    BY <2>2, <2>3
<1>11. CASE server_sends
  BY <1>11 DEF server_sends, client, RelayOf!Step, RelayOf!Send
<1>12. CASE server_closes
  BY <1>12 DEF server_closes, client, RelayOf!Step, RelayOf!EndStream
<1>13. CASE server_resets
  <2>1. CASE srvFin
    BY <1>13, <2>1, RelaySame DEF server_resets, client, DownSame
  <2>2. CASE ~srvFin
    BY <1>13, <2>2 DEF server_resets, client, RelayOf!Step, RelayOf!EndStream
  <2> QED
    BY <2>1, <2>2
<1>14. CASE hev_socks5_session_terminate \/ client_data \/ client_fin \/ server_reads
  BY <1>14, RelaySame DEF hev_socks5_session_terminate, client_data, client_fin, server_reads,
     client, server, DownSame
<1>15. CASE time_wait_over \/ server_sees_end \/ server_sees_reset \/ UNCHANGED vars
  BY <1>15, RelaySame DEF time_wait_over, server_sees_end, server_sees_reset, vars, client,
     server, DownSame
<1> QED
  BY <1>1, <1>5, <1>6, <1>7, <1>8, <1>9, <1>10, <1>11, <1>12, <1>13, <1>14, <1>15
  DEF Next, TaskStep

\* The stream to the server, step by step.
LEMMA NextRelaysUp ==
  ASSUME IInv, [Next]_vars
  PROVE  RelayOf!Step("up") \/ RelayOf!Same("up")
<1>1. CASE TaskStep
  <2>1. UpSame
    BY <1>1 DEF TaskStep, Slice, splice_refused, drain, quiet, server, UpSame, UpFixed, Broken
  <2> QED
    BY <2>1, RelaySame
<1>10. CASE io_timeout \/ hev_socks5_session_terminate \/ connection_lost
  <2>1. UpFixed /\ Broken' = TRUE /\ cliFin' \in {cliFin, TRUE}
    BY <1>10 DEF io_timeout, hev_socks5_session_terminate, connection_lost, Terminates, quiet,
       client, server, UpFixed, Broken
  <2> QED
    BY <2>1, RelayBreaks DEF IInv, TypeOK
<1>11. CASE client_acks_fin
  <2>1. UpFixed /\ cliFin' = cliFin /\ (Broken' = Broken \/ Broken' = TRUE)
    BY <1>11 DEF client_acks_fin, server, UpFixed, Broken
  <2> QED
    BY <2>1, RelaySame, RelayBreaks DEF UpSame, IInv, TypeOK
<1>2. CASE client_data
  <2>1. ~cliFin
    BY <1>2 DEF client_data, IInv, Connection
  <2> QED
    BY <1>2, <2>1 DEF client_data, server, RelayOf!Step, RelayOf!Send
<1>3. CASE client_fin
  BY <1>3 DEF client_fin, server, RelayOf!Step, RelayOf!EndStream
<1>4. CASE server_sees_reset
  BY <1>4 DEF server_sees_reset, session, client, RelayOf!Step, RelayOf!Cut
<1>5. CASE server_resets
  BY <1>5 DEF server_resets, client, RelayOf!Step, RelayOf!Cut
<1>6. CASE server_reads
  <2>1. /\ cliSent' = cliSent /\ cliFin' = cliFin /\ srvSaw' = srvSaw
        /\ srvBuf # <<>> /\ srvGot' = Append(srvGot, Head(srvBuf))
        /\ timeout' = timeout /\ timedOut' = timedOut
    BY <1>6 DEF server_reads, client
  <2>2. srvSaw = "open"
    BY <2>1 DEF IInv, Up
  <2>3. TypeOK /\ TypeOK' /\ Up'
    BY NextTypeOK, NextUp DEF IInv
  <2>4. /\ srvGot \in Seq(1..MaxUp) /\ srvGot' \in Seq(1..MaxUp) /\ Len(srvGot) \in Nat
        /\ Len(srvBuf') \in Nat /\ cliSent \in Nat
    <3>1. /\ srvGot \in Seq(1..MaxUp) /\ srvGot' \in Seq(1..MaxUp)
          /\ srvBuf' \in Seq(1..MaxUp) /\ cliSent \in Nat
      BY <2>3, BoundsAssumption DEF TypeOK
    <3> QED
      BY <3>1
  <2>5. \A i \in 1..Len(srvGot') : srvGot'[i] = i
    BY <2>3 DEF Up
  <2>6. Len(srvGot') = Len(srvGot) + 1 /\ Len(srvGot') <= cliSent
    <3>1. Len(srvGot') = Len(srvGot) + 1
      BY <2>1, <2>4
    <3>2. Len(srvGot') + Len(srvBuf') <= cliSent'
      BY <2>3 DEF Up
    <3> QED
      BY <2>1, <2>4, <3>1, <3>2
  <2> DEFINE U == 1..MaxUp  s == srvGot'  k == Len(srvGot)  t == SubSeq(s, 1, k)
  <2>7. s \in Seq(U) /\ k \in 0..Len(s) /\ srvGot \in Seq(U)
    BY <2>4, <2>6
  <2>8. \A i \in 1..k : srvGot[i] = i /\ s[i] = i
    BY <2>4, <2>5, <2>6 DEF IInv, Up
  <2> HIDE DEF U, s, k
  <2>9. t \in Seq(U) /\ Len(t) = k /\ \A i \in 1..k : t[i] = s[i]
    BY <2>7, TwoHalves
  <2>10. t = srvGot
    <3> HIDE DEF t
    <3> QED
      BY <2>7, <2>8, <2>9, SeqEqual DEF k
  <2>11. s = [i \in 1..Len(s) |-> i]
    BY <2>5, <2>7, IsStream DEF s
  <2>12. /\ DOMAIN srvGot' = 1..Len(srvGot') /\ Len(srvGot') > Len(srvGot)
         /\ \A i \in 1..Len(srvGot') : srvGot'[i] \in 1..cliSent
    BY <2>4, <2>5, <2>6
  <2>13. \A i \in 2..Len(srvGot') : srvGot'[i - 1] < srvGot'[i]
    <3>1. \A i \in 2..Len(srvGot') : /\ i - 1 \in 1..Len(srvGot') /\ i \in 1..Len(srvGot')
                                     /\ i - 1 < i
      BY <2>4, <2>6
    <3> QED
      BY <2>5, <3>1
  <2>14. /\ SubSeq(srvGot', 1, Len(srvGot)) = srvGot
         /\ srvGot' = RelayOf!Stream(Len(srvGot'))
    BY <2>10, <2>11 DEF t, s, k, RelayOf!Stream
  <2> QED
    BY <2>1, <2>2, <2>12, <2>13, <2>14 DEF RelayOf!Step, RelayOf!Deliver
<1>7. CASE server_sees_end
  <2>1. /\ cliSent' = cliSent /\ cliFin' = cliFin /\ srvGot' = srvGot
        /\ srvSaw = "open" /\ srvBuf = <<>> /\ Len(srvBuf) = 0
        /\ srvSaw' = "eof" /\ (srvEnd \/ pc = "ended")
        /\ timeout' = timeout /\ timedOut' = timedOut
    BY <1>7 DEF server_sees_end, client, session
  <2>2. CASE ~srvEnd
    <3>1. ~srvRst
      BY <2>1 DEF IInv, Up
    <3>2. timeout = "zero" \/ timedOut
      BY <2>1, <2>2, <3>1 DEF IInv, Left
    <3> QED
      BY <2>1, <3>2 DEF RelayOf!Step, RelayOf!SeeEof
  <2>3. CASE srvEnd
    <3>1. cliFin /\ ~srvRst
      BY <2>1, <2>3 DEF IInv, Up, Connection
    <3>2. /\ Len(srvGot) + Len(srvBuf) = cliSent
          /\ \A i \in 1..Len(srvGot) : srvGot[i] = i
      BY <2>1, <2>3, <3>1 DEF IInv, Up
    <3>3. srvGot \in Seq(1..MaxUp) /\ Len(srvGot) \in Nat
      BY DEF IInv, TypeOK
    <3>4. Len(srvGot) = cliSent
      BY <2>1, <3>2, <3>3
    <3>5. srvGot = [i \in 1..Len(srvGot) |-> i]
      BY <3>2, <3>3, IsStream
    <3>6. srvGot = RelayOf!Stream(cliSent)
      BY <3>4, <3>5 DEF RelayOf!Stream
    <3> QED
      BY <2>1, <2>3, <3>1, <3>6 DEF RelayOf!Step, RelayOf!SeeEof
  <2> QED
    BY <2>2, <2>3
<1>8. CASE server_sends \/ server_closes \/ (\E n \in 1..RingSize : client_acks(n))
  BY <1>8, RelaySame DEF server_sends, server_closes, client_acks, client, server, UpSame,
     UpFixed, Broken
<1>9. CASE time_wait_over \/ UNCHANGED vars
  BY <1>9, RelaySame DEF time_wait_over, vars, session, client, server, UpSame, UpFixed, Broken
<1> QED
  BY <1>1, <1>2, <1>3, <1>4, <1>5, <1>6, <1>7, <1>8, <1>9, <1>10, <1>11 DEF Next

\* Every step of the session is a step of the Relay, or changes nothing of it.
LEMMA NextRelays == IInv /\ [Next]_vars => [RelayOf!Next]_(RelayOf!relayVars)
<1> SUFFICES ASSUME IInv, [Next]_vars PROVE RelayOf!Next
  OBVIOUS
<1>1. ASSUME NEW d \in {"up", "down"} PROVE RelayOf!Step(d) \/ RelayOf!Same(d)
  BY NextRelaysUp, NextRelaysDown
<1> QED
  BY <1>1 DEF RelayOf!Next, RelayOf!Dir

\* The session is a Relay for its two ends: bytes arrive in order, none twice and, as long
\* as no tcp_write failed, none missing; an orderly end is seen only of a stream that has
\* ended and arrived whole.
THEOREM RefinesRelay == Spec => ImplementsRelay
<1>1. Init => RelayOf!Init
  <2> SUFFICES ASSUME Init PROVE RelayOf!Init
    OBVIOUS
  <2>1. [up |-> cliSent, down |-> srvSent] = [d \in RelayOf!Dir |-> 0]
    BY DEF Init, RelayOf!Dir
  <2>2. [up |-> srvGot, down |-> cliGot] = [d \in RelayOf!Dir |-> <<>>]
    BY DEF Init, RelayOf!Dir
  <2>3. [up |-> srvSaw, down |-> cliSaw] = [d \in RelayOf!Dir |-> "open"]
    BY DEF Init, RelayOf!Dir
  <2> DEFINE no == FALSE  over == srvFin \/ srvRst  off == timeout = "zero" \/ timedOut
  <2>4. cliFin = no /\ over = no /\ failed = no /\ off = no
    BY DEF Init
  <2> HIDE DEF no, over, off
  <2>5. /\ [up |-> cliFin, down |-> over] = [d \in RelayOf!Dir |-> no]
        /\ [up |-> no, down |-> failed] = [d \in RelayOf!Dir |-> no]
        /\ [up |-> off, down |-> no] = [d \in RelayOf!Dir |-> no]
    BY <2>4 DEF RelayOf!Dir
  <2>6. /\ [up |-> cliFin, down |-> srvFin \/ srvRst] = [d \in RelayOf!Dir |-> FALSE]
        /\ [up |-> FALSE, down |-> failed] = [d \in RelayOf!Dir |-> FALSE]
        /\ [up |-> timeout = "zero" \/ timedOut, down |-> FALSE] = [d \in RelayOf!Dir |-> FALSE]
    BY <2>5, Zenon DEF no, over, off
  <2> QED
    BY <2>1, <2>2, <2>3, <2>6, Zenon DEF RelayOf!Init
<1> QED
  BY <1>1, Invariant, NextRelays, PTL DEF Spec, ImplementsRelay, RelayOf!Spec
=============================================================================

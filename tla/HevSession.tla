------------------------------ MODULE HevSession ------------------------------
(***************************************************************************)
(* One TCP session of hev-socks5-tunnel while it splices                   *)
(* (hev-socks5-session-tcp.c): the connection of the client in lwIP, the   *)
(* ring buffer for the bytes of the server (hev-ring-buffer.c) and the     *)
(* socket to the SOCKS server.  A byte is its position in its stream.      *)
(*                                                                         *)
(* The task of the session is not preempted: what it does from one yield   *)
(* to the next is one Slice.  Between two slices lwIP works off packets    *)
(* and timers and calls the handlers of the session, and the socket makes  *)
(* the task ready when its state changes (epoll is edge-triggered).        *)
(* tcp_write does not copy: lwIP sends from the cells of the ring, and     *)
(* sends them again until the client acknowledges them.  Segments, loss    *)
(* and retransmission of TCP itself are left out: the client acknowledges  *)
(* any prefix of what lwIP holds.                                          *)
(***************************************************************************)
EXTENDS Integers, Sequences, SequencesExt, FiniteSetsExt

CONSTANTS
  RingSize,   \* misc/tcp-buffer-size, at most TCP_SND_BUF (hev-config.c)
  TcpWnd,     \* TCP_WND, the receive window of lwIP
  SockRoom,   \* bytes the send buffer of the socket takes
  MaxUp,      \* bound on the bytes of the client
  MaxDown     \* bound on the bytes of the server

ASSUME SizesAssumption == /\ RingSize \in Nat \ {0} /\ TcpWnd \in Nat \ {0}
                          /\ SockRoom \in Nat \ {0}
ASSUME BoundsAssumption == MaxUp \in Nat /\ MaxDown \in Nat

VARIABLES
  \* the session
  pc, task, timeout,
  pcb,              \* self->pcb is not NULL
  pcbEof,           \* self->pcb_eof
  queue,            \* self->queue
  fDone, bDone,     \* res_f, res_b are -1
  data, rp, wp, rda, use,   \* the ring buffer
  \* lwIP
  state,            \* of the connection; FREED with, EXPIRED without a call of err
  outq,             \* cells of the ring that are queued for the client
  rcvWnd,           \* pcb->rcv_wnd
  \* the two ends
  cliSent, cliFin, cliGot, cliSaw,
  srvSent, srvFin, srvGot, srvSaw, srvRst,
  srvRead,          \* bytes of the server that readv has taken
  srvBuf,           \* bytes of the client in the socket
  srvEnd,           \* shutdown() has ended the stream to the server
  \* history
  failed,           \* a tcp_write has failed
  unflushed,        \* a tcp_output has failed
  timedOut          \* a wait of the session was over its timeout

ring == <<data, rp, wp, rda, use>>
session == <<pc, task, timeout, pcb, pcbEof, queue, fDone, bDone, ring>>
lwip == <<state, outq, rcvWnd>>
client == <<cliSent, cliFin, cliGot, cliSaw>>
server == <<srvSent, srvFin, srvGot, srvSaw, srvRst, srvRead, srvBuf, srvEnd>>
history == <<failed, unflushed, timedOut>>
vars == <<session, lwip, client, server, history>>

Cells == 0..(RingSize - 1)
States == {"ESTABLISHED", "CLOSE_WAIT", "FIN_WAIT_1", "FIN_WAIT_2", "CLOSING", "LAST_ACK",
           "TIME_WAIT", "FREED", "EXPIRED"}

TypeOK ==
  /\ pc \in {"start", "splice", "drain", "ended"} /\ task \in {"RUNNING", "WAITING", "STOPPED"}
  /\ timeout \in {"set", "zero"}
  /\ {pcb, pcbEof, fDone, bDone, cliFin, srvFin, srvRst, srvEnd} \subseteq BOOLEAN
  /\ {failed, unflushed, timedOut} \subseteq BOOLEAN
  /\ data \in [Cells -> 0..MaxDown] /\ rp \in Cells /\ wp \in Cells
  /\ use \in 0..RingSize /\ rda \in 0..use
  /\ state \in States /\ outq \in Seq(Cells) /\ Len(outq) + rda <= use
  /\ queue \in Seq(1..MaxUp) /\ rcvWnd \in 0..TcpWnd
  /\ pcb => rcvWnd + Len(queue) = TcpWnd
  /\ cliSent \in 0..MaxUp /\ srvSent \in 0..MaxDown /\ srvRead \in 0..srvSent
  /\ cliGot \in Seq(0..MaxDown) /\ srvGot \in Seq(1..MaxUp) /\ srvBuf \in Seq(1..MaxUp)
  /\ Len(srvBuf) <= SockRoom
  /\ cliSaw \in {"open", "eof", "cut"} /\ srvSaw \in {"open", "eof", "cut"}

\* The connection is accepted; the connect and the handshake of the session, which
\* HevTunnel has, are under way.
Init ==
  /\ pc = "start" /\ task = "RUNNING" /\ timeout = "set"
  /\ pcb = TRUE /\ pcbEof = FALSE /\ queue = <<>> /\ fDone = FALSE /\ bDone = FALSE
  /\ data = [c \in Cells |-> 0] /\ rp = 0 /\ wp = 0 /\ rda = 0 /\ use = 0
  /\ state = "ESTABLISHED" /\ outq = <<>> /\ rcvWnd = TcpWnd
  /\ cliSent = 0 /\ cliFin = FALSE /\ cliGot = <<>> /\ cliSaw = "open"
  /\ srvSent = 0 /\ srvFin = FALSE /\ srvGot = <<>> /\ srvSaw = "open" /\ srvRst = FALSE
  /\ srvRead = 0 /\ srvBuf = <<>> /\ srvEnd = FALSE
  /\ failed = FALSE /\ unflushed = FALSE /\ timedOut = FALSE

-----------------------------------------------------------------------------
(* The task.                                                               *)

\* tcp_splice_f: what writev moves, and the result.  The server's reset makes it fail.
MovedF == IF fDone \/ srvRst THEN 0 ELSE Min({SockRoom - Len(srvBuf), Len(queue)})
ShutsF == ~fDone /\ queue = <<>> /\ pcbEof
ResF == IF fDone \/ ShutsF \/ (queue # <<>> /\ srvRst) THEN -1
        ELSE IF MovedF > 0 THEN 1 ELSE 0

\* Mutant: tcp_recved is forgotten.
SpliceFWithoutRecved ==
  /\ srvBuf' = srvBuf \o SubSeq(queue, 1, MovedF)
  /\ srvEnd' = (srvEnd \/ ShutsF)
  /\ fDone' = (ResF < 0)
  /\ UNCHANGED rcvWnd

tcp_splice_f ==
  /\ srvBuf' = srvBuf \o SubSeq(queue, 1, MovedF)
  /\ rcvWnd' = IF pcb THEN rcvWnd + MovedF ELSE rcvWnd
  /\ srvEnd' = (srvEnd \/ ShutsF)
  /\ fDone' = (ResF < 0)

\* tcp_splice_b, its first half: readv into the free cells (hev_ring_buffer_writing,
\* hev_ring_buffer_write_finish).  A reset is read as an end.
MovedB == IF bDone THEN 0 ELSE Min({RingSize - use, srvSent - srvRead})
EndB == use < RingSize /\ srvSent = srvRead /\ (srvFin \/ srvRst)
Filled == [c \in Cells |->
             LET i == (c + RingSize - wp) % RingSize
             IN IF i < MovedB THEN srvRead + i + 1 ELSE data[c]]

\* hev_ring_buffer_reading after the readv: one or two runs of cells.
Readable == rda + MovedB
Upper == Min({Readable, RingSize - rp})
Iov(i) == IF i = 1 THEN [n \in 1..Upper |-> rp + n - 1]
          ELSE [n \in 1..(Readable - Upper) |-> n - 1]

\* Its second half: every run is handed to tcp_write, the second one also when the
\* first has failed, and hev_ring_buffer_read_finish takes all of it.  tcp_write may
\* fail whenever the pools of lwIP, which all sessions share, are empty, and tcp_output
\* (ok[3]) when the TUN takes no packet: lwIP then holds the bytes and sends them later.
Accepted(ok) == (IF ok[1] THEN Iov(1) ELSE <<>>) \o (IF ok[2] THEN Iov(2) ELSE <<>>)
WriteFails(ok) == ~bDone /\ pcb /\ \E i \in {1, 2} : ~ok[i] /\ Iov(i) # <<>>
OutputFails(ok) == ~bDone /\ pcb /\ Readable > 0 /\ ~ok[3]
ShutsB == ~bDone /\ pcb /\ Readable = 0 /\ EndB
\* Mutant: the result of tcp_write is not looked at.
ResBIgnoresErr(ok) == IF bDone \/ ~pcb \/ ShutsB THEN -1
                      ELSE IF Readable > 0 THEN 1 ELSE 0

\* Mutant: a full ring is taken for the end of the stream.
ResBFullIsEnd(ok) == IF \/ bDone \/ ~pcb \/ WriteFails(ok) \/ OutputFails(ok)
                        \/ ShutsB \/ use = RingSize THEN -1
                     ELSE IF Readable > 0 THEN 1 ELSE 0

ResB(ok) == IF bDone \/ ~pcb \/ WriteFails(ok) \/ OutputFails(ok) \/ ShutsB THEN -1
            ELSE IF Readable > 0 THEN 1 ELSE 0

\* tcp_shutdown of the send side: the FIN follows what is queued.
Shutdown(st) == CASE st = "ESTABLISHED" -> "FIN_WAIT_1"
                  [] st = "CLOSE_WAIT" -> "LAST_ACK"
                  [] OTHER -> st

tcp_splice_b(ok) ==
  /\ data' = Filled
  /\ wp' = (wp + MovedB) % RingSize
  /\ use' = use + MovedB
  /\ srvRead' = srvRead + MovedB
  /\ bDone' = (ResB(ok) < 0)
  /\ failed' = (failed \/ WriteFails(ok))
  /\ unflushed' = (unflushed \/ OutputFails(ok))
  /\ IF ~bDone /\ pcb THEN rda' = 0 /\ rp' = (rp + Readable) % RingSize
                      ELSE rda' = Readable /\ rp' = rp

\* What lwIP holds after it.
Queued(ok) == IF ~bDone /\ pcb THEN outq \o Accepted(ok) ELSE outq
StateB == IF ShutsB THEN Shutdown(state) ELSE state

\* hev_socks5_session_tcp_destruct and the close() of the socket: tcp_abort resets the
\* client, which has the FIN before the RST when nothing else is queued.
Destruct(st, oq) ==
  /\ pc' = "ended" /\ task' = "STOPPED"
  /\ pcb' = FALSE /\ queue' = <<>> /\ outq' = <<>>
  /\ state' = IF pcb THEN "FREED" ELSE st
  /\ cliSaw' \in IF cliSaw # "open" THEN {cliSaw}
                 ELSE IF oq = <<>> /\ st \in {"FIN_WAIT_1", "CLOSING", "LAST_ACK"}
                      THEN {"eof", "cut"} ELSE {"cut"}

\* The drain: the loop waits for the acknowledgement of what the ring holds.
Leave(st, oq, held, rest) ==
  LET waits == pcb /\ held > 0 /\ timeout # "zero"
  IN \/ /\ waits
        /\ pc' = "drain" /\ task' = "WAITING"
        /\ state' = st /\ outq' = oq /\ queue' = rest
        /\ UNCHANGED <<pcb, cliSaw>>
     \/ ~waits /\ Destruct(st, oq)

\* One turn of the loop of hev_socks5_session_tcp_splice, up to its yield.
Slice(ok) ==
  /\ task = "RUNNING" /\ pc \in {"start", "splice"}
  /\ pc = "start" => pcb
  /\ tcp_splice_f /\ tcp_splice_b(ok)
  /\ LET waits == ResF <= 0 /\ ResB(ok) <= 0
         over == waits /\ (timeout = "zero" \/ (ResF < 0 /\ ResB(ok) < 0))
         rest == SubSeq(queue, MovedF + 1, Len(queue))
     IN \/ /\ ~over
           /\ pc' = "splice" /\ task' = IF waits THEN "WAITING" ELSE "RUNNING"
           /\ queue' = rest /\ state' = StateB /\ outq' = Queued(ok)
           /\ UNCHANGED <<pcb, cliSaw>>
        \/ over /\ Leave(StateB, Queued(ok), use', rest)
  /\ UNCHANGED <<timeout, pcbEof, cliSent, cliFin, cliGot, srvSent, srvFin, srvGot, srvSaw,
                 srvRst, timedOut>>

quiet == <<timeout, pcbEof, fDone, bDone, ring, rcvWnd, cliSent, cliFin, cliGot, server,
           failed, unflushed>>

\* The connection died before the splice, which then returns at once.
splice_refused ==
  /\ task = "RUNNING" /\ pc = "start" /\ ~pcb
  /\ Destruct(state, outq)
  /\ UNCHANGED <<quiet, timedOut>>

drain ==
  /\ task = "RUNNING" /\ pc = "drain"
  /\ Leave(state, outq, use, queue)
  /\ UNCHANGED <<quiet, timedOut>>

\* hev_socks5_task_io_yielder: the sleep is over and nothing woke the task.
io_timeout ==
  /\ task = "WAITING" /\ timeout = "set"
  /\ \/ pc = "splice" /\ Leave(state, outq, use, queue)
     \/ pc = "drain" /\ Destruct(state, outq)
  /\ timedOut' = TRUE
  /\ UNCHANGED quiet

-----------------------------------------------------------------------------
(* lwIP and its handlers.                                                  *)

Wakes == task' = IF task = "WAITING" THEN "RUNNING" ELSE task

\* hev_socks5_session_terminate, by the tunnel or by tcp_err_handler.
Terminates == timeout' = "zero" /\ Wakes

hev_socks5_session_terminate ==
  /\ pc # "ended" /\ timeout # "zero"
  /\ Terminates
  /\ UNCHANGED <<pc, pcb, pcbEof, queue, fDone, bDone, ring, lwip, client, server, history>>

\* Mutant: tcp_recv_handler does not wake the task.
DataWithoutWakeup ==
  /\ state \in {"ESTABLISHED", "FIN_WAIT_1", "FIN_WAIT_2"} /\ pcb
  /\ cliSent < MaxUp /\ rcvWnd > 0
  /\ cliSent' = cliSent + 1 /\ rcvWnd' = rcvWnd - 1
  /\ queue' = Append(queue, cliSent + 1)
  /\ UNCHANGED <<pc, task, timeout, pcb, pcbEof, fDone, bDone, ring, state, outq, cliFin,
                 cliGot, cliSaw, server, history>>

\* tcp_recv_handler: a byte that fits the window.
client_data ==
  /\ state \in {"ESTABLISHED", "FIN_WAIT_1", "FIN_WAIT_2"} /\ pcb
  /\ cliSent < MaxUp /\ rcvWnd > 0
  /\ cliSent' = cliSent + 1 /\ rcvWnd' = rcvWnd - 1
  /\ queue' = Append(queue, cliSent + 1)
  /\ Wakes
  /\ UNCHANGED <<pc, timeout, pcb, pcbEof, fDone, bDone, ring, state, outq, cliFin, cliGot,
                 cliSaw, server, history>>

\* tcp_recv_handler without a pbuf: the client's FIN.
client_fin ==
  /\ ~cliFin /\ pcb
  /\ \/ state = "ESTABLISHED" /\ state' = "CLOSE_WAIT"
     \/ state = "FIN_WAIT_1" /\ state' = "CLOSING"
     \/ state = "FIN_WAIT_2" /\ state' = "TIME_WAIT"
  /\ cliFin' = TRUE /\ pcbEof' = TRUE
  /\ Wakes
  /\ UNCHANGED <<pc, timeout, pcb, queue, fDone, bDone, ring, outq, rcvWnd, cliSent, cliGot,
                 cliSaw, server, history>>

\* Mutant: the ring is rewound when nothing is left to read.
AcksRewindEarly(n) ==
  /\ state \in {"ESTABLISHED", "CLOSE_WAIT", "FIN_WAIT_1", "CLOSING", "LAST_ACK"}
  /\ n <= Len(outq)
  /\ cliGot' = cliGot \o [i \in 1..n |-> data[outq[i]]]
  /\ outq' = SubSeq(outq, n + 1, Len(outq))
  /\ use' = use - n
  /\ IF rda = 0 THEN rp' = 0 /\ wp' = 0 ELSE UNCHANGED <<rp, wp>>
  /\ Wakes
  /\ UNCHANGED <<pc, timeout, pcb, pcbEof, queue, fDone, bDone, data, rda, state, rcvWnd,
                 cliSent, cliFin, cliSaw, server, history>>

\* An acknowledgement of the first n bytes, which the client has by now; tcp_sent_handler
\* releases them (hev_ring_buffer_read_release, which rewinds an empty ring).
client_acks(n) ==
  /\ state \in {"ESTABLISHED", "CLOSE_WAIT", "FIN_WAIT_1", "CLOSING", "LAST_ACK"}
  /\ n <= Len(outq)
  /\ cliGot' = cliGot \o [i \in 1..n |-> data[outq[i]]]
  /\ outq' = SubSeq(outq, n + 1, Len(outq))
  /\ use' = use - n
  /\ IF use = n THEN rp' = 0 /\ wp' = 0 ELSE UNCHANGED <<rp, wp>>
  /\ Wakes
  /\ UNCHANGED <<pc, timeout, pcb, pcbEof, queue, fDone, bDone, data, rda, state, rcvWnd,
                 cliSent, cliFin, cliSaw, server, history>>

\* Mutant: the last acknowledgement frees the connection and calls no handler.
AcksFinWithoutErr ==
  /\ outq = <<>> /\ state \in {"FIN_WAIT_1", "CLOSING", "LAST_ACK"}
  /\ cliSaw' = "eof"
  /\ state' = CASE state = "FIN_WAIT_1" -> "FIN_WAIT_2"
                [] state = "CLOSING" -> "TIME_WAIT"
                [] state = "LAST_ACK" -> "FREED"
  /\ UNCHANGED <<pc, task, timeout, pcb, pcbEof, queue, fDone, bDone, ring, outq, rcvWnd,
                 cliSent, cliFin, cliGot, server, history>>

\* The acknowledgement of the FIN.  In LAST_ACK it frees the connection, and
\* tcp_err_handler is called because the receive side was never shut down.
client_acks_fin ==
  /\ outq = <<>> /\ state \in {"FIN_WAIT_1", "CLOSING", "LAST_ACK"}
  /\ cliSaw' = "eof"
  /\ \/ /\ state # "LAST_ACK"
        /\ state' = IF state = "FIN_WAIT_1" THEN "FIN_WAIT_2" ELSE "TIME_WAIT"
        /\ UNCHANGED <<pcb, timeout, task>>
     \/ /\ state = "LAST_ACK" /\ state' = "FREED"
        /\ pcb' = FALSE /\ timeout' = "zero" /\ Wakes
  /\ UNCHANGED <<pc, pcbEof, queue, fDone, bDone, ring, outq, rcvWnd, cliSent, cliFin, cliGot,
                 server, history>>

\* The client's RST, or a connection that tcp_slowtmr gives up.
connection_lost ==
  /\ state \notin {"TIME_WAIT", "FREED", "EXPIRED"}
  /\ state' = "FREED" /\ outq' = <<>> /\ pcb' = FALSE
  /\ cliSaw' = IF cliSaw = "open" THEN "cut" ELSE cliSaw
  /\ cliFin' = TRUE
  /\ Terminates
  /\ UNCHANGED <<pc, pcbEof, queue, fDone, bDone, ring, rcvWnd, cliSent, cliGot, server, history>>

\* tcp_slowtmr frees a connection in TIME_WAIT after two minutes and calls no handler.
\* A task that is ready has had its slice long before.
time_wait_over ==
  /\ state = "TIME_WAIT" /\ task # "RUNNING"
  /\ state' = "EXPIRED"
  /\ UNCHANGED <<session, outq, rcvWnd, client, server, history>>

-----------------------------------------------------------------------------
(* The server behind its socket (external).                                *)

server_sends ==
  /\ ~srvFin /\ ~srvRst /\ pc # "ended" /\ srvSent < MaxDown
  /\ srvSent' = srvSent + 1
  /\ Wakes
  /\ UNCHANGED <<pc, timeout, pcb, pcbEof, queue, fDone, bDone, ring, lwip, client, srvFin,
                 srvGot, srvSaw, srvRst, srvRead, srvBuf, srvEnd, history>>

server_closes ==
  /\ ~srvFin /\ ~srvRst /\ pc # "ended"
  /\ srvFin' = TRUE
  /\ Wakes
  /\ UNCHANGED <<pc, timeout, pcb, pcbEof, queue, fDone, bDone, ring, lwip, client, srvSent,
                 srvGot, srvSaw, srvRst, srvRead, srvBuf, srvEnd, history>>

server_resets ==
  /\ ~srvRst /\ pc # "ended" /\ srvSaw = "open"
  /\ srvRst' = TRUE /\ srvSaw' = "cut" /\ srvBuf' = <<>>
  /\ Wakes
  /\ UNCHANGED <<pc, timeout, pcb, pcbEof, queue, fDone, bDone, ring, lwip, client, srvSent,
                 srvFin, srvGot, srvRead, srvEnd, history>>

server_reads ==
  /\ srvBuf # <<>>
  /\ srvGot' = Append(srvGot, Head(srvBuf)) /\ srvBuf' = Tail(srvBuf)
  /\ Wakes
  /\ UNCHANGED <<pc, timeout, pcb, pcbEof, queue, fDone, bDone, ring, lwip, client, srvSent,
                 srvFin, srvSaw, srvRst, srvRead, srvEnd, history>>

\* The FIN of shutdown(), or of the close() of a session that broke off: the server cannot
\* tell one from the other.
server_sees_end ==
  /\ srvSaw = "open" /\ srvBuf = <<>>
  /\ srvEnd \/ (pc = "ended" /\ srvRead = srvSent)
  /\ srvSaw' = "eof"
  /\ UNCHANGED <<session, lwip, client, srvSent, srvFin, srvGot, srvRst, srvRead, srvBuf, srvEnd,
                 history>>

\* A close() with bytes of the server unread is a reset.
server_sees_reset ==
  /\ srvSaw = "open" /\ pc = "ended" /\ srvRead < srvSent
  /\ srvSaw' = "cut" /\ srvBuf' = <<>>
  /\ UNCHANGED <<session, lwip, client, srvSent, srvFin, srvGot, srvRst, srvRead, srvEnd, history>>

-----------------------------------------------------------------------------

TaskStep == \/ \E ok \in [1..3 -> BOOLEAN] : Slice(ok)
            \/ splice_refused \/ drain

Next ==
  \/ TaskStep \/ io_timeout \/ hev_socks5_session_terminate
  \/ client_data \/ client_fin \/ client_acks_fin \/ \E n \in 1..RingSize : client_acks(n)
  \/ connection_lost \/ time_wait_over
  \/ server_sends \/ server_closes \/ server_resets \/ server_reads
  \/ server_sees_end \/ server_sees_reset

\* The scheduler runs a ready task, the client acknowledges what lwIP sends it again and
\* again, and the server reads.  Nobody has to send or to close, and no timeout helps.
Fairness ==
  /\ WF_vars(TaskStep) /\ WF_vars(server_reads)
  /\ WF_vars(\E n \in 1..RingSize : client_acks(n)) /\ WF_vars(client_acks_fin)

Spec == Init /\ [][Next]_vars /\ Fairness

-----------------------------------------------------------------------------
(* Properties.                                                             *)

\* "The memory behind dataptr must not change until the data is ACKed" (tcp_write): the
\* cells lwIP may still send keep the bytes it was given, in the order of the stream,
\* whatever is read into the ring meanwhile and however it wraps or rewinds.
SendQueueStable ==
  /\ \A i, j \in DOMAIN outq : i < j => data[outq[i]] < data[outq[j]]
  /\ ~failed => \A i \in DOMAIN outq : data[outq[i]] = Len(cliGot) + i

\* The session never holds a connection that lwIP has freed, with one exception: the
\* end of TIME_WAIT, and that only while the server does not read the client's rest.
PcbValid ==
  pcb => /\ state # "FREED"
         /\ state = "EXPIRED" /\ task = "WAITING" => queue # <<>> /\ Len(srvBuf) = SockRoom

\* However the loop is left (end, reset, timeout or terminate), bytes of the client are
\* given up only when the server reset or its socket takes no more.  The second happens to
\* a client that did nothing wrong: when both sides have closed, the client's last ACK
\* frees the connection and terminates the session.
UploadKept ==
  [][pc = "splice" /\ pc' \in {"drain", "ended"} =>
       \/ srvGot' \o srvBuf' = [i \in 1..cliSent |-> i]
       \/ Len(srvBuf') = SockRoom \/ srvRst]_vars

\* The session is a Relay: a reset at either side counts as the end of its stream, the
\* stream to the client is damaged by a tcp_write that fails, and the stream to the server
\* may end early once the session is terminated or has timed out.  Every other upload the
\* server sees the orderly end of has arrived whole, and every download whose orderly end
\* the client sees, whatever happened.
RelayOf == INSTANCE Relay WITH
  sent <- [up |-> cliSent, down |-> srvSent],
  ended <- [up |-> cliFin, down |-> srvFin \/ srvRst],
  got <- [up |-> srvGot, down |-> cliGot],
  saw <- [up |-> srvSaw, down |-> cliSaw],
  damaged <- [up |-> FALSE, down |-> failed],
  broken <- [up |-> timeout = "zero" \/ timedOut, down |-> FALSE]
ImplementsRelay == RelayOf!Spec

\* No wakeup is lost: without the help of a timeout every byte is taken as long as the
\* loop runs, and what is taken reaches the other side or the session ends.  Exceptions
\* are a server that reset, a tcp_write that failed, and a tcp_output that failed: it loses
\* nothing, but tcp_splice_b does not run again, so that nobody reads the server any more.
NeverStalls ==
  /\ Len(srvGot) < cliSent ~> \/ Len(srvGot) = cliSent \/ srvRst \/ pc \in {"drain", "ended"}
  /\ srvRead < srvSent ~>
       srvRead = srvSent \/ failed \/ unflushed \/ pc \in {"drain", "ended"}
  /\ Len(cliGot) < srvRead ~> \/ Len(cliGot) = srvRead \/ failed \/ pc = "ended"
=============================================================================

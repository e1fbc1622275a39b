------------------------ MODULE HevSocks5SessionTCP ------------------------
(***************************************************************************)
(* One TCP session: the splice of hev-socks5-session-tcp.c between lwIP's  *)
(* connection with the application (pcb) and the socket of the SOCKS5      *)
(* server (fd), from the moment its handshake has started.                 *)
(*                                                                         *)
(* The session's task shares one thread with the lwIP tasks, so between    *)
(* two of its yields nothing else of the program runs: the callbacks and   *)
(* the timer act only while the task is OffCpu.  The kernel does run       *)
(* beside it: the server's bytes arrive at any time, and epoll's edge      *)
(* (edge) is delivered the next time the scheduler polls.                  *)
(*                                                                         *)
(* The bytes of the server are numbered from 0.  mem[j] is the number of   *)
(* the byte stored in data[j].  The segments of lwIP point into data[]     *)
(* (tcp_write is called without TCP_WRITE_FLAG_COPY): held is the set of   *)
(* the bytes lwIP may still transmit, each with its number in the          *)
(* application's stream (seq), the server's byte it was taken from (pos)   *)
(* and the place it points to (slot).                                      *)
(*                                                                         *)
(* Bounds: the server sends at most MaxSrv bytes and the application at    *)
(* most MaxApp; Wnd is TCP_WND, SndCap the send buffer of fd.              *)
(***************************************************************************)
EXTENDS HevRingBuffer, FiniteSets

CONSTANTS MaxSrv, MaxApp, Wnd, SndCap

ASSUME BoundsAssumption ==
    /\ MaxSrv \in Nat /\ MaxApp \in Nat
    /\ Wnd \in Nat \ {0} /\ SndCap \in Nat \ {0}

VARIABLES
    pc,        \* where the session's task is
    task,      \* its scheduler state
    armed,     \* inside hev_task_sleep
    expired,   \* the sleep has run to its end
    timeout,   \* HevSocks5.timeout: "rw" (tcp_read_write_timeout) or "zero"
    resF, resB,
    ring, mem, \* HevRingBuffer and its data[]
    queue,     \* bytes of the pbuf chain received from the application
    pcbEof, pcb,
    lwip,      \* the pcb: [una, nxt, fin, wnd]
    held, writeFailed,
    appLeft,   \* bytes the application has still to send
    srvSent, srvRead, srvEnd,  \* the server's direction of fd
    srvGot, sndSpace, shutWr,  \* the other direction of fd
    edge       \* epoll holds an undelivered edge for fd

ctl == <<pc, task, armed, expired, timeout>>
res == <<resF, resB>>
buf == <<ring, mem, held, writeFailed, srvRead>>
app == <<queue, pcbEof, pcb, lwip, appLeft>>
srv == <<srvSent, srvEnd, srvGot, sndSpace, shutWr, edge>>
vars == <<ctl, res, buf, app, srv>>

OffCpu == pc \in {"handshake", "splice", "drain", "done"}

Init ==
    /\ pc = "handshake" /\ task = "WAITING" /\ armed = TRUE /\ expired = FALSE
    /\ timeout = "rw" /\ resF = 1 /\ resB = 1
    /\ ring = EmptyRing /\ mem = [j \in Slots |-> -1]
    /\ held = {} /\ writeFailed = FALSE
    /\ queue = 0 /\ pcbEof = FALSE /\ pcb = TRUE /\ appLeft = MaxApp
    /\ lwip = [una |-> 0, nxt |-> 0, fin |-> FALSE, wnd |-> Wnd]
    /\ srvSent = 0 /\ srvRead = 0 /\ srvEnd = "open"
    /\ srvGot = 0 /\ sndSpace = SndCap /\ shutWr = FALSE /\ edge = FALSE

----------------------------------------------------------------------------
(* The task sleeps in the yielder with its timeout, or only yields.        *)

Sleep(where) ==
    /\ pc' = where /\ task' = "WAITING" /\ armed' = TRUE /\ expired' = FALSE
    /\ UNCHANGED timeout

Goto(where) ==
    /\ pc' = where /\ armed' = FALSE /\ expired' = FALSE
    /\ UNCHANGED <<task, timeout>>

Resumed(where) == pc = where /\ task = "RUNNING"

\* The handshake's I/O completes, fails or times out, or still blocks.
HandshakeDone ==
    /\ Resumed("handshake") /\ ~expired
    /\ Goto(IF pcb THEN "f" ELSE "destruct")
    /\ UNCHANGED <<res, buf, app, srv>>

HandshakeFail ==
    /\ Resumed("handshake")
    /\ Goto("destruct")
    /\ UNCHANGED <<res, buf, app, srv>>

HandshakeBlocked ==
    /\ Resumed("handshake") /\ ~expired /\ timeout # "zero"
    /\ Sleep("handshake")
    /\ UNCHANGED <<res, buf, app, srv>>

----------------------------------------------------------------------------
(* The iteration of hev_socks5_session_tcp_splice.                         *)

\* Mutant: tcp_recved is forgotten.
Forwarded_NoRecved(s) ==
    /\ queue' = queue - s /\ resF' = 1
    /\ srvGot' = srvGot + s /\ sndSpace' = sndSpace - s
    /\ UNCHANGED <<resB, shutWr, lwip>>

\* writev to the server took s bytes.
Forwarded(s) ==
    /\ queue' = queue - s
    /\ lwip' = IF pcb THEN [lwip EXCEPT !.wnd = @ + s] ELSE lwip
    /\ srvGot' = srvGot + s /\ sndSpace' = sndSpace - s
    /\ resF' = 1
    /\ UNCHANGED <<resB, shutWr>>

NothingForwarded(r, shut) ==
    /\ resF' = r /\ shutWr' = (shutWr \/ shut)
    /\ UNCHANGED <<resB, queue, lwip, srvGot, sndSpace>>

tcp_splice_f ==
    /\ pc = "f" /\ Goto("b")
    /\ UNCHANGED <<buf, pcbEof, pcb, appLeft, srvSent, srvEnd, edge>>
    /\ \/ resF < 0 /\ NothingForwarded(resF, FALSE)
       \/ resF >= 0 /\ queue > 0 /\ srvEnd = "error"
          /\ NothingForwarded(-1, FALSE)
       \/ resF >= 0 /\ queue > 0 /\ srvEnd # "error" /\ sndSpace = 0
          /\ NothingForwarded(0, FALSE)
       \/ resF >= 0 /\ srvEnd # "error"
          /\ \E s \in 1 .. sndSpace : s <= queue /\ Forwarded(s)
       \/ resF >= 0 /\ queue = 0 /\ pcbEof /\ NothingForwarded(-1, TRUE)
       \/ resF >= 0 /\ queue = 0 /\ ~pcbEof /\ NothingForwarded(0, FALSE)

\* readv from the server: the first half of tcp_splice_b.
Stored(iov, s) ==
    /\ mem' = [j \in Slots |->
                IF \E i \in 0 .. s - 1 : Slot(iov, i) = j
                THEN srvRead + (CHOOSE i \in 0 .. s - 1 : Slot(iov, i) = j)
                ELSE mem[j]]
    /\ ring' = WriteFinish(ring, s)
    /\ srvRead' = srvRead + s
    /\ resB' = 1

NothingRead(r) == resB' = r /\ UNCHANGED <<ring, mem, srvRead>>

\* Mutant: splice goes on with the direction that has ended.
tcp_splice_b_read_Again ==
    /\ pc = "b" /\ Goto("w")
    /\ UNCHANGED <<resF, held, writeFailed, app, srv>>
    /\ LET iov == Writing(ring)
       IN  \/ iov = <<>> /\ NothingRead(0)
           \/ srvEnd = "open" /\ srvRead = srvSent /\ NothingRead(0)
           \/ iov # <<>> /\ srvEnd = "error" /\ NothingRead(-1)
           \/ iov # <<>> /\ srvEnd = "eof" /\ srvRead = srvSent
              /\ NothingRead(-1)
           \/ iov # <<>>
              /\ \E s \in 1 .. IovLen(iov) :
                    s <= srvSent - srvRead /\ Stored(iov, s)

tcp_splice_b_read ==
    /\ pc = "b"
    /\ Goto(IF resB < 0 THEN "y" ELSE "w")
    /\ UNCHANGED <<resF, held, writeFailed, app, srv>>
    /\ LET iov == Writing(ring)
           full == iov = <<>>
       IN  \/ resB < 0 /\ NothingRead(resB)
           \/ resB >= 0 /\ full /\ NothingRead(0)
           \/ resB >= 0 /\ ~full /\ srvEnd = "error" /\ NothingRead(-1)
           \/ resB >= 0 /\ ~full /\ srvEnd = "eof" /\ srvRead = srvSent
              /\ NothingRead(-1)
           \/ resB >= 0 /\ ~full /\ srvEnd = "open" /\ srvRead = srvSent
              /\ NothingRead(0)
           \/ resB >= 0 /\ ~full
              /\ \E s \in 1 .. IovLen(iov) :
                    s <= srvSent - srvRead /\ Stored(iov, s)

\* The bytes of the segments in ok, as tcp_write takes them over.
TakenOver(iov, ok) ==
    LET taken == {i \in 0 .. ring.rda_size - 1 : SegOf(iov, i) \in ok}
        skipped == IF 1 \in ok THEN 0 ELSE iov[1].len
    IN  {[seq  |-> lwip.nxt + i - skipped,
          pos  |-> srvRead - ring.rda_size + i,
          slot |-> Slot(iov, i)] : i \in taken}

TakenLen(iov, ok) ==
    (IF 1 \in ok THEN iov[1].len ELSE 0)
        + (IF 2 \in ok THEN iov[2].len ELSE 0)

\* Mutant: the length of the first segment only is counted as read.
Handed_FirstOnly(iov) ==
    \E ok \in SUBSET (1 .. Len(iov)), outputOk \in BOOLEAN :
        /\ held' = held \cup TakenOver(iov, ok)
        /\ lwip' = [lwip EXCEPT !.nxt = @ + TakenLen(iov, ok)]
        /\ ring' = ReadFinish(ring, iov[1].len)
        /\ writeFailed' = (writeFailed \/ ok # 1 .. Len(iov))
        /\ resB' = IF ok = 1 .. Len(iov) /\ outputOk THEN 1 ELSE -1

\* tcp_write of every segment, tcp_output: the second half.  tcp_write fails
\* for the segments not in ok, and the bytes count as read all the same.
Handed(iov) ==
    \E ok \in SUBSET (1 .. Len(iov)), outputOk \in BOOLEAN :
        /\ held' = held \cup TakenOver(iov, ok)
        /\ lwip' = [lwip EXCEPT !.nxt = @ + TakenLen(iov, ok)]
        /\ ring' = ReadFinish(ring, IovLen(iov))
        /\ writeFailed' = (writeFailed \/ ok # 1 .. Len(iov))
        /\ resB' = IF ok = 1 .. Len(iov) /\ outputOk THEN 1 ELSE -1

NothingHanded(r, fin) ==
    /\ resB' = r /\ lwip' = [lwip EXCEPT !.fin = @ \/ fin]
    /\ UNCHANGED <<held, ring, writeFailed>>

tcp_splice_b_write ==
    /\ pc = "w" /\ Goto("y")
    /\ UNCHANGED <<resF, mem, srvRead, queue, pcbEof, pcb, appLeft, srv>>
    /\ LET iov == Reading(ring)
       IN  \/ pcb /\ iov # <<>> /\ Handed(iov)
           \/ pcb /\ iov = <<>> /\ NothingHanded(resB, resB < 0)
           \/ ~pcb /\ NothingHanded(-1, FALSE)

\* task_io_yielder after an iteration: HEV_TASK_YIELD does not look at the
\* timeout; HEV_TASK_WAITIO sleeps with it, and a sleep of 0 fails at once.
SpliceYield ==
    /\ pc = "y"
    /\ UNCHANGED <<res, buf, app, srv>>
    /\ LET busy == resF > 0 \/ resB > 0
           idle == ~busy /\ (resF = 0 \/ resB = 0)
       IN  \/ busy /\ Goto("splice")
           \/ idle /\ timeout # "zero" /\ Sleep("splice")
           \/ idle /\ timeout = "zero" /\ Goto("leave")
           \/ ~busy /\ ~idle /\ Goto("leave")

SpliceResume ==
    /\ Resumed("splice")
    /\ Goto(IF expired THEN "leave" ELSE "f")
    /\ UNCHANGED <<res, buf, app, srv>>

\* Mutant: no drain loop.
Drain_Skipped ==
    /\ pc = "leave" /\ Goto("destruct")
    /\ UNCHANGED <<res, buf, app, srv>>

\* The loop that waits for the application to acknowledge what is in flight.
Drain ==
    /\ pc = "leave"
    /\ IF ~pcb \/ ring.use_size = 0 \/ timeout = "zero"
       THEN Goto("destruct") ELSE Sleep("drain")
    /\ UNCHANGED <<res, buf, app, srv>>

\* Mutant: the drain loop ignores the yielder's result.
DrainResume_Forever ==
    /\ Resumed("drain") /\ Sleep("drain")
    /\ UNCHANGED <<res, buf, app, srv>>

DrainResume ==
    /\ Resumed("drain")
    /\ Goto(IF expired THEN "destruct" ELSE "leave")
    /\ UNCHANGED <<res, buf, app, srv>>

\* hev_socks5_session_tcp_destruct: the callbacks are cleared and the pcb
\* aborted, so lwIP frees its segments.
destruct ==
    /\ pc = "destruct" /\ pc' = "done" /\ task' = "STOPPED"
    /\ pcb' = FALSE /\ held' = {} /\ queue' = 0
    /\ UNCHANGED <<armed, expired, timeout, res, ring, mem, writeFailed,
                   srvRead, pcbEof, lwip, appLeft, srv>>

SessionStep ==
    \/ HandshakeDone \/ HandshakeFail \/ HandshakeBlocked
    \/ tcp_splice_f \/ tcp_splice_b_read \/ tcp_splice_b_write
    \/ SpliceYield \/ SpliceResume \/ Drain \/ DrainResume \/ destruct

----------------------------------------------------------------------------
(* lwIP's callbacks, run by the lwIP tasks.                                *)

Wakeup == task' = "RUNNING" /\ UNCHANGED <<pc, armed, expired>>

\* A segment of n bytes that fits the window announced to the application.
\* Beyond TCP_WND_MAX queued bytes the handler returns ERR_WOULDBLOCK.
tcp_recv_handler(n) ==
    /\ OffCpu /\ pcb /\ ~pcbEof /\ n <= appLeft /\ n <= lwip.wnd
    /\ queue = 0 \/ queue <= Wnd
    /\ queue' = queue + n /\ appLeft' = appLeft - n
    /\ lwip' = [lwip EXCEPT !.wnd = @ - n]
    /\ Wakeup
    /\ UNCHANGED <<timeout, res, buf, pcbEof, pcb, srv>>

\* Mutant: hev_task_wakeup only when a pbuf was queued.
tcp_recv_fin_NoWakeup ==
    /\ OffCpu /\ pcb /\ ~pcbEof
    /\ pcbEof' = TRUE
    /\ UNCHANGED <<ctl, res, buf, queue, pcb, lwip, appLeft, srv>>

tcp_recv_fin ==
    /\ OffCpu /\ pcb /\ ~pcbEof
    /\ pcbEof' = TRUE
    /\ Wakeup
    /\ UNCHANGED <<timeout, res, buf, queue, pcb, lwip, appLeft, srv>>

\* Mutant: no hev_task_wakeup.
tcp_sent_handler_NoWakeup(n) ==
    /\ OffCpu /\ pcb /\ n <= lwip.nxt - lwip.una
    /\ lwip' = [lwip EXCEPT !.una = @ + n]
    /\ held' = {h \in held : h.seq >= lwip.una + n}
    /\ ring' = ReadRelease(ring, n)
    /\ UNCHANGED <<ctl, res, mem, writeFailed, srvRead, queue, pcbEof,
                   pcb, appLeft, srv>>

\* The application acknowledges n bytes.
tcp_sent_handler(n) ==
    /\ OffCpu /\ pcb /\ n <= lwip.nxt - lwip.una
    /\ lwip' = [lwip EXCEPT !.una = @ + n]
    /\ held' = {h \in held : h.seq >= lwip.una + n}
    /\ ring' = ReadRelease(ring, n)
    /\ Wakeup
    /\ UNCHANGED <<timeout, res, mem, writeFailed, srvRead, queue, pcbEof,
                   pcb, appLeft, srv>>

\* Mutant: the queue is freed with the pcb.
tcp_err_handler_Frees ==
    /\ OffCpu /\ pcb
    /\ pcb' = FALSE /\ held' = {} /\ timeout' = "zero" /\ queue' = 0
    /\ Wakeup
    /\ UNCHANGED <<res, ring, mem, writeFailed, srvRead, pcbEof, lwip,
                   appLeft, srv>>

\* A reset, a closed connection, lwIP giving up on retransmission.
tcp_err_handler ==
    /\ OffCpu /\ pcb
    /\ pcb' = FALSE /\ held' = {} /\ timeout' = "zero"
    /\ Wakeup
    /\ UNCHANGED <<res, ring, mem, writeFailed, srvRead, queue, pcbEof, lwip,
                   appLeft, srv>>

\* hev_socks5_session_terminate, called by the tunnel.
terminate ==
    /\ OffCpu /\ pc # "done" /\ timeout' = "zero"
    /\ Wakeup
    /\ UNCHANGED <<res, buf, app, srv>>

----------------------------------------------------------------------------
(* The SOCKS5 server, the kernel and the scheduler's poll.                 *)

SrvSend ==
    /\ pc # "done" /\ srvEnd = "open" /\ srvSent < MaxSrv
    /\ srvSent' = srvSent + 1 /\ edge' = TRUE
    /\ UNCHANGED <<ctl, res, buf, app, srvEnd, srvGot, sndSpace, shutWr>>

SrvEnd(how) ==
    /\ pc # "done" /\ srvEnd \notin {how, "error"}
    /\ srvEnd' = how /\ edge' = TRUE
    /\ UNCHANGED <<ctl, res, buf, app, srvSent, srvGot, sndSpace, shutWr>>

\* POLLOUT is an edge only when the send buffer was full.
SrvTake ==
    /\ pc # "done" /\ sndSpace < SndCap
    /\ sndSpace' = sndSpace + 1 /\ edge' = (edge \/ sndSpace = 0)
    /\ UNCHANGED <<ctl, res, buf, app, srvSent, srvEnd, srvGot, shutWr>>

Poll ==
    /\ OffCpu /\ pc # "done" /\ edge
    /\ edge' = FALSE
    /\ Wakeup
    /\ UNCHANGED <<timeout, res, buf, app, srvSent, srvEnd, srvGot, sndSpace,
                   shutWr>>

\* The handshake's answer arrives.
SrvAnswer ==
    /\ pc = "handshake" /\ task = "WAITING"
    /\ Wakeup
    /\ UNCHANGED <<timeout, res, buf, app, srv>>

\* hev_task_sleep counts as expired also when the task was woken in time but
\* scheduled late.
TimerExpire ==
    /\ OffCpu /\ armed /\ ~expired
    /\ expired' = TRUE /\ task' = "RUNNING"
    /\ UNCHANGED <<pc, armed, timeout, res, buf, app, srv>>

Environment ==
    \/ \E n \in 1 .. Wnd : tcp_recv_handler(n)
    \/ tcp_recv_fin
    \/ \E n \in 1 .. MaxSize : tcp_sent_handler(n)
    \/ tcp_err_handler \/ terminate
    \/ SrvSend \/ SrvEnd("eof") \/ SrvEnd("error") \/ SrvTake \/ SrvAnswer

Done == pc = "done" /\ UNCHANGED vars

Next == SessionStep \/ Environment \/ Poll \/ TimerExpire \/ Done

Spec == Init /\ [][Next]_vars

(* The scheduler picks every runnable task (sched_key grows with the time a *)
(* task has run) and polls before it picks.                                *)
FairSpec == Spec /\ WF_vars(SessionStep) /\ WF_vars(Poll)

(* The clock advances.                                                     *)
ClockRuns == WF_vars(TimerExpire)

(* The server takes, and the application acknowledges, what it is sent.    *)
PeersRespond == /\ WF_vars(SrvTake)
                /\ WF_vars(\E n \in 1 .. MaxSize : tcp_sent_handler(n))

----------------------------------------------------------------------------
Pcs == {"handshake", "f", "b", "w", "y", "splice", "leave", "drain",
        "destruct", "done"}

TypeCtl ==
    /\ pc \in Pcs /\ task \in {"RUNNING", "WAITING", "STOPPED"}
    /\ timeout \in {"rw", "zero"}

TypeFlags ==
    /\ armed \in BOOLEAN /\ expired \in BOOLEAN
    /\ writeFailed \in BOOLEAN /\ pcbEof \in BOOLEAN /\ pcb \in BOOLEAN
    /\ shutWr \in BOOLEAN /\ edge \in BOOLEAN

TypeNumbers ==
    /\ resF \in -1 .. 1 /\ resB \in -1 .. 1
    /\ queue \in Nat /\ appLeft \in Nat
    /\ srvSent \in Nat /\ srvRead \in Nat
    /\ srvGot \in Nat /\ sndSpace \in Nat
    /\ srvEnd \in {"open", "eof", "error"}

TypePcb == lwip \in [una : Nat, nxt : Nat, fin : BOOLEAN, wnd : Nat]

TypeBytes ==
    /\ ring \in RingBuffer
    /\ mem \in [Slots -> Nat \cup {-1}]
    /\ held \subseteq [seq : Nat, pos : Nat, slot : Slots]

\* The values the variables of the session take; the counters of the ring
\* buffer never wrap below 0 although they are unsigned.
TypeOK == TypeCtl /\ TypeFlags /\ TypeNumbers /\ TypePcb /\ TypeBytes

\* A byte that lwIP may still have to (re)transmit is not overwritten by a
\* later readv: tcp_splice_b gives tcp_write pointers into the ring buffer
\* and only tcp_sent_handler gives their place back.
InFlightIntact == \A h \in held : mem[h.slot] = h.pos

\* As long as tcp_write accepts everything, the application's stream is the
\* server's: no byte is skipped, repeated or reordered where the ring wraps
\* or is reset to its start.
StreamInOrder ==
    pcb /\ ~writeFailed =>
        /\ \A h \in held : h.seq = h.pos
        /\ lwip.nxt + ring.rda_size = srvRead
        /\ lwip.nxt - lwip.una + ring.rda_size = ring.use_size

\* tcp_shutdown sends the application a FIN only behind the last byte of the
\* server's stream.
FinAfterLastByte ==
    lwip.fin => /\ srvEnd # "open"
                /\ pcb /\ srvEnd = "eof" /\ ~writeFailed => lwip.nxt = srvSent

\* shutdown (SHUT_WR) reaches the server only behind the last byte of the
\* application, and never while the application may send more.
ShutWrAfterLastByte == shutWr => pcbEof /\ queue = 0

\* tcp_recved opens the window by exactly what was forwarded, so the queue
\* plus the open window is TCP_WND: the queue never exceeds TCP_WND (nor the
\* 16 bits of tot_len) and tcp_recv_handler never has to refuse a pbuf.
WindowAccounting == pcb => queue + lwip.wnd = Wnd

\* The splice never sleeps over work: when it could forward, read or close,
\* an event that will wake it is pending.
NoLostWakeup ==
    LET wantF == \/ queue > 0 /\ (sndSpace > 0 \/ srvEnd = "error")
                 \/ queue = 0 /\ pcbEof
        wantB == /\ ring.use_size < MaxSize
                 /\ srvRead < srvSent \/ srvEnd # "open"
        work == (resF >= 0 /\ wantF) \/ (resB >= 0 /\ wantB)
    IN  pc = "splice" /\ task = "WAITING" /\ work => edge

\* hev_socks5_session_terminate cannot be slept over: a session whose timeout
\* is 0 is awake until it ends.
TerminatedNeverSleeps == timeout = "zero" => task # "WAITING"

\* The drain loop: when the session closes by itself after the server's EOF,
\* the tcp_abort of its destructor finds nothing unacknowledged.
AbortLosesNothing ==
    [][/\ pc = "leave" /\ pc' = "destruct" /\ pcb /\ timeout # "zero"
       /\ ~writeFailed /\ srvEnd = "eof" /\ lwip.fin
       => lwip.una = srvSent]_vars

\* What the session is to its two peers.  The bytes of the application are
\* lost with the session, those of the server when lwIP refuses some of them
\* or loses the connection.
upStream ==
    IF pc = "done"
    THEN [sent |-> 0, got |-> 0, end |-> "broken", eof |-> FALSE]
    ELSE [sent |-> MaxApp - appLeft, got |-> srvGot,
          end  |-> IF pcbEof THEN "eof" ELSE "open", eof |-> shutWr]

downStream ==
    IF ~pcb \/ writeFailed
    THEN [sent |-> 0, got |-> 0, end |-> "broken", eof |-> FALSE]
    ELSE [sent |-> srvSent, got |-> lwip.nxt, end |-> srvEnd,
          eof  |-> lwip.fin]

Up == INSTANCE HevStream WITH Chunk <- Wnd, stream <- upStream
Down == INSTANCE HevStream WITH Chunk <- MaxSize, stream <- downStream

\* tcp_recv_handler, tcp_splice_f and the half-close carry the application's
\* stream to the server as HevStream says, and go on doing so after the
\* server's direction has ended or lwIP has reset the connection.
CarriesUp == Up!Spec

\* tcp_splice_b, the ring buffer and tcp_shutdown carry the server's stream
\* to the application as HevStream says, also after the application closed.
CarriesDown == Down!Spec

\* Every session ends: its sleeps are bounded by the timeout, also in the
\* drain loop when lwIP has refused bytes that will never be acknowledged.
SessionEnds == ClockRuns => <>(pc = "done")

\* Once both sides have closed the session ends without the help of its
\* timeout, unless lwIP refused bytes.
BothClosedEnds ==
    PeersRespond => ((pc # "handshake" /\ srvEnd # "open" /\ pcbEof)
                        ~> (pc = "done" \/ writeFailed))
============================================================================

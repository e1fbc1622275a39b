------------------------ MODULE HevSocks5SessionUDP ------------------------
(***************************************************************************)
(* One UDP session: hev-socks5-session-udp.c, which relays the datagrams   *)
(* of one pcb of lwIP to the SOCKS5 server and back, over the library's    *)
(* hev-socks5-udp.c, composed with the handshake it starts with.  A        *)
(* session of type "TCP" stops after its handshake here (its splice is     *)
(* HevSocks5SessionTCP).                                                   *)
(*                                                                         *)
(* UDP_IN_TCP frames the datagrams in the bytes of the connection: going   *)
(* up a frame is Frame units, coming down it is a head of Head5 units (the *)
(* 5 bytes of its first recv) and a body of Body units; a send or a        *)
(* receive may stop behind any unit.  UDP_IN_UDP has a socket of its own,  *)
(* where a datagram is one unit; the connection is kept only to notice     *)
(* that the server has gone.                                               *)
(*                                                                         *)
(* Datagrams are numbered from the one the receiver is to get next: those  *)
(* of the application from the one the server expects, those of the server *)
(* from the one the application expects.  So a session may go on for ever. *)
(*                                                                         *)
(* Bounds: Pool is UDP_POOL_SIZE, Num udp_copy_buffer_nums, SndCap and     *)
(* RcvCap the buffers of the socket in units.                              *)
(***************************************************************************)
EXTENDS HevSocks5Handshake, FiniteSets

CONSTANTS Pool, Num, SndCap, RcvCap, Frame, Head5, Body

ASSUME SizesAssumption ==
    /\ Pool \in Nat /\ Num \in Nat \ {0}
    /\ SndCap \in Nat \ {0} /\ RcvCap \in Nat \ {0}
    /\ Frame \in Nat \ {0} /\ Head5 \in Nat \ {0} /\ Body \in Nat \ {0}

VARIABLES
    pc, task, armed, expired, timeout,   \* as in HevSocks5SessionTCP
    resF, resB,
    frames, idIn,     \* frame_list, and the number of the next to arrive
    num, pos,         \* fwd_f: the batch, and the units of it sent
    sndSpace, sent,   \* room to send, and units of datagram 0 the server has
    torn,             \* a frame has been left unfinished
    avail, next,      \* units that can be received, and those taken before
    part, got,        \* recvmmsg: units read of a frame, and whole datagrams
    wild,             \* a part of a frame has been taken for something else
    edge,             \* epoll holds an undelivered edge
    freed             \* the frames the destructor has freed, still linked

ctl == <<pc, task, armed, expired, timeout>>
res == <<resF, resB>>
upv == <<frames, idIn, num, pos, sndSpace, sent, torn>>
dnv == <<avail, next, part, got, wild>>
batch == <<resF, frames, idIn, num, pos, sent, torn>>
vars == <<hvars, ctl, res, upv, dnv, edge, freed>>

Stream == conf.type = "UDP_IN_TCP"
UpUnits == IF Stream THEN Frame ELSE 1
DownUnits == IF Stream THEN Head5 + Body ELSE 1

OffCpu == pc \in {"hswait", "fwait", "hwait", "bwait", "splice", "lock", "free",
                 "done"}
Ended == pc \in {"done", "crashed"}

Init ==
    /\ HInit
    /\ pc = "hs" /\ task = "RUNNING" /\ armed = FALSE /\ expired = FALSE
    /\ timeout = "rw" /\ resF = 1 /\ resB = 1
    /\ frames = <<>> /\ idIn = 0 /\ num = 0 /\ pos = 0
    /\ sndSpace = SndCap /\ sent = 0 /\ torn = FALSE
    /\ avail = 0 /\ next = 0 /\ part = 0 /\ got = <<>>
    /\ wild = FALSE /\ edge = FALSE /\ freed = 0

Least(a, b) == IF a < b THEN a ELSE b

----------------------------------------------------------------------------
(* The yielders.                                                           *)

Goto(where) ==
    /\ pc' = where /\ armed' = FALSE /\ expired' = FALSE
    /\ UNCHANGED <<task, timeout>>

Sleep(where) ==
    /\ pc' = where /\ task' = "WAITING" /\ armed' = TRUE /\ expired' = FALSE
    /\ UNCHANGED timeout

Resumed(where) == pc = where /\ task = "RUNNING"

\* The connection that keeps a UDP_IN_UDP association alive is gone.
ControlLost == conf.type = "UDP_IN_UDP" /\ downEnd

\* A wait for I/O is allowed, and one that fails at once: task_io_yielder
\* looks at the control connection first, and then sleeps for the timeout.
MayWait == ~ControlLost /\ timeout # "zero"

GiveUp(where) ==
    /\ pc' = where /\ armed' = FALSE /\ expired' = FALSE
    /\ timeout' = IF ControlLost THEN "zero" ELSE timeout
    /\ UNCHANGED task

----------------------------------------------------------------------------
(* hev_socks5_client_handshake, inside hev_socks5_session_run.             *)

\* The end of the handshake sets the timeout of UDP, whatever it was.
AfterHandshake ==
    IF cpc' \notin {"ok", "fail"} THEN Goto("hs")
    ELSE /\ pc' = IF cpc' = "ok" /\ conf.type # "TCP" THEN "f" ELSE "destruct"
         /\ armed' = FALSE /\ expired' = FALSE
         /\ timeout' = IF conf.type # "TCP" THEN "rw" ELSE timeout
         /\ UNCHANGED task

hs_io ==
    /\ pc = "hs" /\ ClientIO /\ AfterHandshake
    /\ UNCHANGED <<res, upv, dnv, edge>>

hs_wait ==
    /\ pc = "hs" /\ ClientBlocked /\ timeout # "zero"
    /\ Sleep("hswait")
    /\ UNCHANGED <<hvars, res, upv, dnv, edge>>

\* The yielder fails: its sleep is over, or the timeout is 0.
hs_timeout ==
    /\ \/ Resumed("hswait") /\ expired
       \/ pc = "hs" /\ ClientBlocked /\ timeout = "zero"
    /\ client_read_timeout /\ AfterHandshake
    /\ UNCHANGED <<res, upv, dnv, edge>>

hs_resume ==
    /\ Resumed("hswait") /\ ~expired /\ Goto("hs")
    /\ UNCHANGED <<hvars, res, upv, dnv, edge>>

----------------------------------------------------------------------------
(* hev_socks5_session_udp_fwd_f: the application's frames to the server.   *)

fwd_f ==
    /\ pc = "f"
    /\ IF resF < 0 \/ frames = <<>>
       THEN /\ resF' = (IF resF < 0 THEN resF ELSE 0) /\ Goto("b")
            /\ UNCHANGED <<num, pos>>
       ELSE /\ num' = Least(Len(frames), Num) /\ pos' = 0 /\ Goto("fs")
            /\ UNCHANGED resF
    /\ UNCHANGED <<hvars, resB, frames, idIn, sndSpace, sent, torn, dnv, edge>>

\* The server has got s more units, n datagrams leave the list and are freed.
\* Once a frame is left unfinished the datagrams are no longer told apart.
Sent(s, n, unfinished) ==
    LET done == (sent + s) \div UpUnits
        rest == SubSeq(frames, n + 1, Len(frames))
        lost == torn \/ unfinished
    IN  /\ torn' = lost
        /\ frames' = [i \in DOMAIN rest |-> IF lost THEN 0 ELSE rest[i] - done]
        /\ idIn' = IF lost THEN 0 ELSE idIn - done
        /\ sent' = IF lost THEN 0 ELSE (sent + s) % UpUnits

\* Mutant: the whole batch is freed although sendmmsg sent a part of it.
SendReturns_FreesAll(s) ==
    LET p == pos + s
    IN  /\ Sent(s, IF p = 0 THEN 0 ELSE num,
                Stream /\ p \in 1 .. num * Frame - 1)
        /\ resF' = IF p = 0 THEN -1 ELSE 1
        /\ num' = 0 /\ pos' = 0

\* hev_socks5_udp_sendmmsg returns, after s last units.  sendmmsg_tcp says
\* that the whole batch is sent as soon as a part of it is.
SendReturns(s) ==
    LET p == pos + s
    IN  /\ Sent(s, IF p = 0 THEN 0 ELSE IF Stream THEN num ELSE p,
                Stream /\ p \in 1 .. num * Frame - 1)
        /\ resF' = IF p = 0 THEN -1 ELSE 1
        /\ num' = 0 /\ pos' = 0

\* Mutant: without MSG_WAITALL.
sendmmsg_Short ==
    /\ pc = "fs" /\ Goto("b")
    /\ \E s \in 1 .. sndSpace :
        /\ pos + s <= num * UpUnits
        /\ sndSpace' = sndSpace - s
        /\ SendReturns(s)
    /\ UNCHANGED <<hvars, resB, dnv, edge>>

sendmmsg ==
    /\ pc = "fs"
    /\ \E s \in 1 .. sndSpace :
        /\ pos + s <= num * UpUnits
        /\ sndSpace' = sndSpace - s
        /\ IF pos + s = num * UpUnits
           THEN SendReturns(s) /\ Goto("b")
           ELSE /\ Sent(s, 0, FALSE) /\ pos' = pos + s /\ Goto("fs")
                /\ UNCHANGED <<resF, num>>
    /\ UNCHANGED <<hvars, resB, dnv, edge>>

\* The server has closed, or refused a datagram of UDP_IN_UDP.
sendmmsg_error ==
    /\ pc = "fs" /\ (downEnd \/ ~Stream)
    /\ SendReturns(0) /\ Goto("b")
    /\ UNCHANGED <<hvars, resB, sndSpace, dnv, edge>>

sendmmsg_wait ==
    /\ pc = "fs" /\ sndSpace = 0
    /\ IF MayWait THEN Sleep("fwait") /\ UNCHANGED batch
       ELSE SendReturns(0) /\ GiveUp("b")
    /\ UNCHANGED <<hvars, resB, sndSpace, dnv, edge>>

sendmmsg_resume ==
    /\ Resumed("fwait")
    /\ IF expired THEN SendReturns(0) /\ Goto("b")
       ELSE Goto("fs") /\ UNCHANGED batch
    /\ UNCHANGED <<hvars, resB, sndSpace, dnv, edge>>

----------------------------------------------------------------------------
(* hev_socks5_session_udp_fwd_b: recvmmsg, then udp_sendfrom.              *)

Aside == UNCHANGED <<hvars, resF, upv, edge>>

\* n units are taken out of the socket.
Take(n) == avail' = avail - n /\ next' = next + n

\* The place in the stream is lost: its datagrams are no longer told apart.
Lost == wild' = TRUE /\ next' = 0
Kept == UNCHANGED <<next, wild>>

\* recvmmsg returns nothing: fwd_b returns r.
NothingRead(r) ==
    /\ resB' = r /\ part' = 0 /\ got' = <<>>

\* A number of bytes is returned for a number of messages: fwd_b reads
\* messages that were never filled in.
Undefined ==
    /\ Lost
    /\ \/ NothingRead(-1) /\ Goto("crashed")
       \/ \E r \in {1, -1} : NothingRead(r) /\ Goto("y")

fwd_b_skip ==
    /\ pc = "b" /\ resB < 0 /\ Goto("y")
    /\ UNCHANGED <<resB, dnv>> /\ Aside

\* The first recv of a frame does not wait.
recv_head ==
    /\ pc = "b" /\ Stream /\ resB >= 0 /\ ~wild /\ avail > 0
    /\ LET n == Least(avail, Head5)
       IN  Take(n) /\ part' = n /\ Goto(IF n = Head5 THEN "bb" ELSE "bh")
    /\ UNCHANGED <<resB, got, wild>> /\ Aside

recv_head_none ==
    /\ pc = "b" /\ resB >= 0 /\ avail = 0
    /\ IF got # <<>> THEN Goto("d") /\ UNCHANGED <<resB, part, got>>
       ELSE /\ NothingRead(IF Stream /\ downEnd THEN -1 ELSE 0)
            /\ Goto("y")
    /\ Kept /\ UNCHANGED avail /\ Aside

\* The recv for the rest of the head returned r, behind the k bytes of the
\* first one.  errno may be that of an earlier call.
ShortHead(r) ==
    \/ /\ got # <<>> /\ Goto("d")
       /\ Lost /\ part' = 0 /\ UNCHANGED <<resB, got>>
    \/ \E k \in 1 .. 4 :
        /\ got = <<>>
        /\ \/ k + r > 0 /\ Undefined
           \/ k + r <= 0 /\ NothingRead(-1) /\ Goto("y") /\ Kept
           \/ k + r = -1 /\ NothingRead(0) /\ Goto("y") /\ Lost

recv_rest ==
    /\ pc = "bh" /\ avail > 0
    /\ LET n == Least(avail, Head5 - part)
       IN  /\ Take(n) /\ part' = part + n
           /\ Goto(IF part + n = Head5 THEN "bb" ELSE "bh")
    /\ UNCHANGED <<resB, got, wild>> /\ Aside

recv_rest_wait ==
    /\ pc = "bh" /\ avail = 0
    /\ \/ ~downEnd /\ MayWait /\ Sleep("hwait") /\ Kept
          /\ UNCHANGED <<resB, part, got>>
       \/ ~downEnd /\ ~MayWait /\ ShortHead(-2)
       \/ downEnd /\ \E r \in {0, -1} : ShortHead(r)
    /\ UNCHANGED avail /\ Aside

recv_rest_resume ==
    /\ Resumed("hwait")
    /\ IF expired THEN ShortHead(-2)
       ELSE Goto("bh") /\ Kept /\ UNCHANGED <<resB, part, got>>
    /\ UNCHANGED avail /\ Aside

\* recvmsg returned before the body was complete.
ShortBody ==
    IF part > Head5 THEN Undefined
    ELSE NothingRead(-1) /\ Goto("y") /\ Kept

recv_body ==
    /\ pc = "bb" /\ avail > 0
    /\ LET n == Least(avail, DownUnits - part)
       IN  /\ Take(n)
           /\ IF part + n = DownUnits
              THEN /\ got' = Append(got, next \div DownUnits) /\ part' = 0
                   /\ Goto(IF Len(got) + 1 = Num THEN "d" ELSE "b")
              ELSE UNCHANGED got /\ part' = part + n /\ Goto("bb")
    /\ UNCHANGED <<resB, wild>> /\ Aside

recv_body_wait ==
    /\ pc = "bb" /\ avail = 0
    /\ \/ ~downEnd /\ MayWait /\ Sleep("bwait") /\ Kept
          /\ UNCHANGED <<resB, part, got>>
       \/ (downEnd \/ ~MayWait) /\ ShortBody
    /\ UNCHANGED avail /\ Aside

recv_body_resume ==
    /\ Resumed("bwait")
    /\ IF expired THEN ShortBody
       ELSE Goto("bb") /\ Kept /\ UNCHANGED <<resB, part, got>>
    /\ UNCHANGED avail /\ Aside

\* Behind a lost part of a frame, a head is read where there is none.
recv_wild ==
    /\ pc = "b" /\ Stream /\ resB >= 0 /\ wild /\ avail > 0
    /\ avail' = avail - 1
    /\ \E r \in {-1, 0, 1} : NothingRead(r)
    /\ Goto("y") /\ Kept /\ Aside

\* UDP_IN_UDP: up to num datagrams at once, or the error of an earlier send.
recvmmsg_udp ==
    /\ pc = "b" /\ ~Stream /\ resB >= 0
    /\ \/ \E n \in 1 .. Least(avail, Num) :
            /\ Take(n) /\ Goto("d")
            /\ got' = [i \in 1 .. n |-> next + i - 1]
            /\ UNCHANGED <<resB, part>>
       \/ NothingRead(-1) /\ Goto("y") /\ UNCHANGED <<avail, next>>
    /\ UNCHANGED wild /\ Aside

\* k datagrams reach the application.
Delivered(k) ==
    /\ next' = IF wild THEN 0 ELSE next - k * DownUnits
    /\ got' = <<>>

\* Mutant: the loop goes on behind a datagram that udp_sendfrom refused.
deliver_GoesOn ==
    /\ pc = "d" /\ Goto("y")
    /\ \E k \in 0 .. Len(got) : Delivered(k)
    /\ resB' = 1
    /\ UNCHANGED <<avail, part, wild>> /\ Aside

\* udp_sendfrom for each, up to the first that fails: the rest is lost.
deliver ==
    /\ pc = "d" /\ Goto("y")
    /\ \E k \in 0 .. Len(got) :
        Delivered(k) /\ resB' = IF k = Len(got) THEN 1 ELSE -1
    /\ UNCHANGED <<avail, part, wild>> /\ Aside

----------------------------------------------------------------------------
(* The rest of the splice, and the destructor.                             *)

\* Mutant: the control connection is only looked at when there is no traffic.
splice_yield_Unwatched ==
    /\ pc = "y"
    /\ LET busy == resF > 0 \/ resB > 0
           idle == ~busy /\ (resF = 0 \/ resB = 0)
       IN  \/ busy /\ Goto("splice")
           \/ idle /\ MayWait /\ Sleep("splice")
           \/ idle /\ ~MayWait /\ GiveUp("destruct")
           \/ ~busy /\ ~idle /\ Goto("destruct")
    /\ UNCHANGED <<hvars, res, upv, dnv, edge>>

splice_yield ==
    /\ pc = "y"
    /\ LET busy == resF > 0 \/ resB > 0
           idle == ~busy /\ (resF = 0 \/ resB = 0)
       IN  \/ busy /\ ~ControlLost /\ Goto("splice")
           \/ idle /\ MayWait /\ Sleep("splice")
           \/ busy /\ ControlLost /\ GiveUp("destruct")
           \/ idle /\ ~MayWait /\ GiveUp("destruct")
           \/ ~busy /\ ~idle /\ Goto("destruct")
    /\ UNCHANGED <<hvars, res, upv, dnv, edge>>

\* Mutant: the result of the yielder is not looked at.
splice_resume_Forever ==
    /\ Resumed("splice") /\ Goto("f")
    /\ UNCHANGED <<hvars, res, upv, dnv, edge>>

splice_resume ==
    /\ Resumed("splice") /\ Goto(IF expired THEN "destruct" ELSE "f")
    /\ UNCHANGED <<hvars, res, upv, dnv, edge>>

\* The end of the destructors: the pcb and the sockets are closed, nothing of
\* the session is left.
Destructed ==
    /\ pc' = "done" /\ task' = "STOPPED"
    /\ client_close
    /\ resF' = 1 /\ resB' = 1 /\ frames' = <<>> /\ idIn' = 0 /\ sent' = 0
    /\ avail' = 0 /\ next' = 0 /\ sndSpace' = SndCap /\ freed' = 0
    /\ torn' = FALSE /\ wild' = FALSE /\ timeout' = "rw" /\ edge' = FALSE
    /\ UNCHANGED <<armed, expired, num, pos, part, got>>

\* hev_socks5_session_udp_destruct frees the frames, which stay linked, and
\* then locks the mutex of lwIP, which another task may hold.
destruct ==
    /\ pc = "destruct"
    /\ \/ Destructed
       \/ /\ freed' = Len(frames)
          /\ pc' = "lock" /\ task' = "WAITING"
          /\ UNCHANGED <<hvars, armed, expired, timeout, res, upv, dnv, edge>>

\* The loop of hev_task_mutex_lock, woken up by something else or at last by
\* the unlock.
destruct_resume ==
    \/ /\ Resumed("lock") /\ task' = "WAITING"
       /\ UNCHANGED <<hvars, pc, armed, expired, timeout, res, upv, dnv, edge,
                      freed>>
    \/ Resumed("free") /\ Destructed

SessionStep ==
    \/ /\ \/ hs_io \/ hs_wait \/ hs_timeout \/ hs_resume
          \/ fwd_f \/ sendmmsg \/ sendmmsg_error \/ sendmmsg_wait
          \/ sendmmsg_resume \/ fwd_b_skip \/ recv_head \/ recv_head_none
          \/ recv_rest \/ recv_rest_wait \/ recv_rest_resume \/ recv_body
          \/ recv_body_wait \/ recv_body_resume \/ recv_wild \/ recvmmsg_udp
          \/ deliver \/ splice_yield \/ splice_resume
       /\ UNCHANGED freed
    \/ destruct \/ destruct_resume

----------------------------------------------------------------------------
(* lwIP's callback, the tunnel, the server and the kernel.                 *)

Wakeup == task' = "RUNNING" /\ UNCHANGED <<pc, armed, expired>>

\* The tail of the list has been freed: to link a frame to it is undefined.
TailFreed == freed > 0 /\ freed = Len(frames)

\* Mutant: no hev_task_wakeup.
udp_recv_handler_NoWakeup ==
    /\ OffCpu /\ pc # "done" /\ Len(frames) <= Pool
    /\ frames' = Append(frames, idIn) /\ idIn' = IF torn THEN 0 ELSE idIn + 1
    /\ UNCHANGED <<hvars, ctl, res, num, pos, sndSpace, sent, torn, dnv, edge,
                   freed>>

\* A datagram is queued unless more than UDP_POOL_SIZE are; one that is
\* dropped, for that or for want of memory, changes nothing.
udp_recv_handler ==
    /\ OffCpu /\ pc # "done" /\ Len(frames) <= Pool
    /\ frames' = Append(frames, idIn) /\ idIn' = IF torn THEN 0 ELSE idIn + 1
    /\ \/ Wakeup
       \/ TailFreed /\ pc' = "crashed" /\ UNCHANGED <<task, armed, expired>>
    /\ UNCHANGED <<hvars, timeout, res, num, pos, sndSpace, sent, torn, dnv,
                   edge, freed>>

\* hev_socks5_session_terminate, by the tunnel or a udp_recv_handler without
\* a pbuf.
terminate ==
    /\ OffCpu /\ pc # "done" /\ timeout' = "zero" /\ Wakeup
    /\ UNCHANGED <<hvars, res, upv, dnv, edge, freed>>

\* The task that holds lwIP's mutex unlocks it.
mutex_unlock ==
    /\ pc = "lock" /\ pc' = "free" /\ task' = "RUNNING"
    /\ UNCHANGED <<hvars, armed, expired, timeout, res, upv, dnv, edge, freed>>

\* What the server does to the connection is an edge of epoll.
Server ==
    /\ ServerIO \/ ServerReadFailure \/ server_close
    /\ edge' = (edge \/ down' # down \/ downEnd' # downEnd)
    /\ UNCHANGED <<ctl, res, upv, dnv, freed>>

\* What fwd_b will not read any more is left out.
SrvSend ==
    /\ spc = "service" /\ ~Ended /\ conf.type # "TCP"
    /\ avail < RcvCap /\ resB >= 0
    /\ avail' = avail + 1 /\ edge' = TRUE
    /\ UNCHANGED <<hvars, ctl, res, upv, next, part, got, wild, freed>>

\* POLLOUT is an edge only when the send buffer was full.
SrvTake ==
    /\ ~Ended /\ sndSpace < SndCap
    /\ sndSpace' = sndSpace + 1 /\ edge' = (edge \/ sndSpace = 0)
    /\ UNCHANGED <<hvars, ctl, res, frames, idIn, num, pos, sent, torn, dnv,
                   freed>>

Poll ==
    /\ OffCpu /\ pc # "done" /\ edge
    /\ edge' = FALSE /\ Wakeup
    /\ UNCHANGED <<hvars, timeout, res, upv, dnv, freed>>

TimerExpire ==
    /\ OffCpu /\ armed /\ ~expired
    /\ expired' = TRUE /\ task' = "RUNNING"
    /\ UNCHANGED <<hvars, pc, armed, timeout, res, upv, dnv, edge, freed>>

Done == Ended /\ UNCHANGED vars

Next ==
    \/ SessionStep \/ udp_recv_handler \/ terminate \/ mutex_unlock
    \/ Server \/ SrvSend \/ SrvTake \/ Poll \/ TimerExpire \/ Done

Spec == Init /\ [][Next]_vars

(* The scheduler runs every runnable task and polls (HevTaskSystem), and    *)
(* lwIP's mutex is given back.                                             *)
FairSpec ==
    Spec /\ WF_vars(SessionStep) /\ WF_vars(Poll) /\ WF_vars(mutex_unlock)

(* The clock advances.                                                     *)
ClockRuns == WF_vars(TimerExpire)

(* Neither side goes on sending for ever.                                  *)
TrafficStops == <>[][~(udp_recv_handler \/ SrvSend)]_vars

----------------------------------------------------------------------------
\* The values of the variables, those of the handshake included.
TypeOK ==
    /\ HTypeOK
    /\ pc \in {"hs", "hswait", "f", "fs", "fwait", "b", "bh", "hwait", "bb",
               "bwait", "d", "y", "splice", "destruct", "lock", "free", "done",
               "crashed"}
    /\ task \in {"RUNNING", "WAITING", "STOPPED"} /\ timeout \in {"rw", "zero"}
    /\ armed \in BOOLEAN /\ expired \in BOOLEAN
    /\ resF \in -1 .. 1 /\ resB \in -1 .. 1
    /\ frames \in Seq(Int) /\ idIn \in Int
    /\ num \in 0 .. Num /\ pos \in 0 .. Num * UpUnits
    /\ sndSpace \in 0 .. SndCap /\ sent \in 0 .. UpUnits - 1
    /\ avail \in 0 .. RcvCap /\ next \in 0 .. Num * DownUnits
    /\ part \in 0 .. DownUnits - 1 /\ got \in Seq(Nat)
    /\ torn \in BOOLEAN /\ wild \in BOOLEAN /\ edge \in BOOLEAN
    /\ freed \in Nat

\* The datagrams of the application reach the server once, in order and
\* whole, whatever part of a batch a send takes and however often it waits,
\* until a frame is left unfinished.  A batch stays at the head of frame_list
\* until it has been sent, while datagrams are added to it: up to one more
\* than UDP_POOL_SIZE.
UpInOrder ==
    /\ Len(frames) <= Pool + 1
    /\ pc \in {"fs", "fwait"} => num \in 1 .. Len(frames)
    /\ ~torn =>
        LET first == idIn - Len(frames)
        IN  /\ \A i \in 1 .. Len(frames) : frames[i] = first + i - 1
            /\ first * UpUnits + pos = sent

\* The datagrams of the server reach the application once and in order, as
\* long as no error has ended that direction and no frame was cut.
DownInOrder ==
    ~wild /\ resB >= 0 =>
        /\ \A i \in 1 .. Len(got) : got[i] = i - 1
        /\ next = Len(got) * DownUnits + part

\* A frame is left unfinished, or taken apart at the wrong place, only in a
\* stream and only when the server is gone, the session has been terminated
\* or it has waited for its whole timeout inside that frame.  Nothing else
\* leads to undefined behaviour but a datagram that comes while the destructor
\* waits for the mutex with frames freed.
DamageNeedsLoss ==
    [][(torn' # torn \/ wild' # wild \/ (pc' = "crashed" /\ pc # "crashed"))
        => \/ pc = "destruct" \/ pc = "free"
           \/ pc = "lock" /\ freed > 0
           \/ Stream /\ (expired \/ timeout = "zero" \/ downEnd)]_vars

\* The session never sleeps over work: an event that will wake it is pending.
\* What happened while recvmmsg waited inside a frame is slept over when that
\* wait fails, which ends the server's direction or leaves it wild.
NoLostWakeup ==
    LET readable == avail > 0 \/ (Stream /\ downEnd)
        work == CASE pc = "hswait" -> down # <<>> \/ downEnd
                  [] pc = "fwait" -> sndSpace > 0 \/ ControlLost
                  [] pc \in {"hwait", "bwait"} -> readable
                  [] pc = "splice" ->
                        \/ resB >= 0 /\ ~wild
                           /\ (readable \/ (resF >= 0 /\ frames # <<>>))
                        \/ ControlLost
                  [] OTHER -> FALSE
    IN  task = "WAITING" /\ work => edge

\* A session ends once nothing more is sent, also when it was terminated
\* during its handshake, whose end sets the timeout again: while there is
\* traffic the splice only yields, and does not look at the timeout.
SessionEnds == ClockRuns /\ TrafficStops => <>Ended

\* When the control connection of UDP_IN_UDP ends, the session ends without
\* waiting for its timeout, in spite of any traffic.
ControlLossEnds == ControlLost ~> Ended
============================================================================

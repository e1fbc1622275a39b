-------------------- MODULE HevSocks5SessionTCP_proofs --------------------
(***************************************************************************)
(* Proofs about the TCP session, for every size of the ring buffer, every  *)
(* window and every length of the two streams, and that it implements      *)
(* HevStream in each of its two directions.                                *)
(*                                                                         *)
(* NoLostWakeup compares what the splice found when it last looked with    *)
(* what is there now.  WakeInv follows that from the look to the sleep: a  *)
(* direction that found nothing to do has nothing, or an edge on its way.  *)
(***************************************************************************)
EXTENDS HevSocks5SessionTCP, TLAPS

\* Index x of data[], for an x that has passed the end at most once.
Wrap(x) == IF x < MaxSize THEN x ELSE x - MaxSize

\* The place d bytes behind the read position p.
Behind(p, d) == IF d <= p THEN p - d ELSE p + MaxSize - d

\* The counters of a ring buffer: the unread bytes lie between rp and wp.
RingOK(rb) ==
    /\ rb \in RingBuffer
    /\ rb.rp \in Slots /\ rb.wp \in Slots
    /\ rb.rda_size <= rb.use_size /\ rb.use_size <= MaxSize
    /\ rb.wp = Wrap(rb.rp + rb.rda_size)

\* What lwIP has not acknowledged is in flight; it is all that is in flight
\* unless a tcp_write failed.
InFlightCount ==
    /\ lwip.una <= lwip.nxt
    /\ lwip.nxt - lwip.una <= ring.use_size - ring.rda_size
    /\ pcb /\ ~writeFailed =>
        /\ lwip.nxt - lwip.una = ring.use_size - ring.rda_size
        /\ lwip.nxt + ring.rda_size = srvRead

\* A failed tcp_write ends this direction, so nothing is stored after it.
FailedStops == writeFailed => resB = -1 /\ pc # "w"

\* Between its two halves tcp_splice_b holds the bytes just read.
Unread ==
    pcb => IF pc = "w"
           THEN \A i \in 0 .. ring.rda_size - 1 :
                    mem[Wrap(ring.rp + i)] = srvRead - ring.rda_size + i
           ELSE ring.rda_size = 0

\* The held byte with number seq lies nxt - seq places behind rp.
HeldPlaces ==
    /\ ~pcb => held = {}
    /\ \A h \in held :
        /\ lwip.una <= h.seq /\ h.seq < lwip.nxt
        /\ mem[h.slot] = h.pos
        /\ ~writeFailed => /\ h.pos = h.seq
                           /\ h.slot = Behind(ring.rp, lwip.nxt - h.seq)

\* The inductive invariant.
IInv == /\ TypeOK /\ RingOK(ring) /\ InFlightCount /\ FailedStops
        /\ Unread /\ HeldPlaces
----------------------------------------------------------------------------
(* The ring buffer.                                                        *)

\* An index that has passed the end at most once is reduced by %.
LEMMA ModIsWrap ==
    ASSUME NEW x \in Nat, x < 2 * MaxSize
    PROVE  x % MaxSize = Wrap(x)
  <1>1. CASE x < MaxSize
    BY <1>1, MaxSizeAssumption DEF Wrap
  <1>2. CASE x >= MaxSize
    BY <1>2, MaxSizeAssumption DEF Wrap
  <1> QED BY <1>1, <1>2, MaxSizeAssumption

\* hev_ring_buffer_writing offers exactly the free bytes, from wp on.
LEMMA WritingFree ==
    ASSUME NEW rb, RingOK(rb)
    PROVE  /\ IovLen(Writing(rb)) = MaxSize - rb.use_size
           /\ \A i \in 0 .. MaxSize - rb.use_size - 1 :
                Slot(Writing(rb), i) = Wrap(rb.wp + i)
  <1> USE MaxSizeAssumption DEF RingOK, RingBuffer, Slots
  <1>1. CASE rb.use_size = MaxSize
    BY <1>1 DEF Writing, IovLen
  <1>2. CASE rb.use_size # MaxSize /\ MaxSize - rb.use_size <= MaxSize - rb.wp
    BY <1>2 DEF Writing, IovLen, Segments, Iovec, Slot, Wrap
  <1>3. CASE rb.use_size # MaxSize /\ MaxSize - rb.use_size > MaxSize - rb.wp
    BY <1>3 DEF Writing, IovLen, Segments, Iovec, Slot, Wrap
  <1> QED BY <1>1, <1>2, <1>3

\* hev_ring_buffer_reading offers exactly the unread bytes, from rp on.
LEMMA ReadingUnread ==
    ASSUME NEW rb, RingOK(rb), rb.rda_size # 0
    PROVE  /\ IovLen(Reading(rb)) = rb.rda_size
           /\ \A i \in 0 .. rb.rda_size - 1 :
                Slot(Reading(rb), i) = Wrap(rb.rp + i)
           /\ \/ Len(Reading(rb)) = 1 /\ Reading(rb)[1].len = rb.rda_size
              \/ /\ Len(Reading(rb)) = 2 /\ Reading(rb)[1].len \in Nat
                 /\ Reading(rb)[2].len \in Nat
                 /\ Reading(rb)[1].len + Reading(rb)[2].len = rb.rda_size
  <1> USE MaxSizeAssumption DEF RingOK, RingBuffer, Slots
  <1>1. CASE rb.rda_size <= MaxSize - rb.rp
    BY <1>1 DEF Reading, IovLen, Segments, Iovec, Slot, Wrap
  <1>2. CASE rb.rda_size > MaxSize - rb.rp
    BY <1>2 DEF Reading, IovLen, Segments, Iovec, Slot, Wrap
  <1> QED BY <1>1, <1>2

\* Each operation keeps the counters consistent.
LEMMA WriteFinishOK ==
    ASSUME NEW rb, RingOK(rb), NEW s \in Nat, s <= MaxSize - rb.use_size
    PROVE  /\ RingOK(WriteFinish(rb, s))
           /\ WriteFinish(rb, s).rp = rb.rp
           /\ WriteFinish(rb, s).rda_size = rb.rda_size + s
           /\ WriteFinish(rb, s).use_size = rb.use_size + s
  <1> USE MaxSizeAssumption DEF RingOK, RingBuffer, Slots
  <1>1. (rb.wp + s) % MaxSize = Wrap(rb.wp + s)
    BY ModIsWrap
  <1>2. Wrap(rb.wp + s) = Wrap(rb.rp + (rb.rda_size + s))
    BY DEF Wrap
  <1>3. Wrap(rb.wp + s) \in 0 .. MaxSize - 1
    BY DEF Wrap
  <1>4. WriteFinish(rb, s) = [rp |-> rb.rp, wp |-> Wrap(rb.wp + s),
                              rda_size |-> rb.rda_size + s,
                              use_size |-> rb.use_size + s]
    <2> DEFINE w == (rb.wp + s) % MaxSize
    <2>1. WriteFinish(rb, s) =
            [rb EXCEPT !.wp = w, !.use_size = @ + s, !.rda_size = @ + s]
      BY DEF WriteFinish
    <2>2. w = Wrap(rb.wp + s)
      BY <1>1
    <2> HIDE DEF w
    <2> QED BY <2>1, <2>2, Zenon
  <1> QED BY <1>2, <1>3, <1>4

\* Bytes handed over stay in use but are no longer unread.
LEMMA ReadFinishOK ==
    ASSUME NEW rb, RingOK(rb)
    PROVE  /\ RingOK(ReadFinish(rb, rb.rda_size))
           /\ ReadFinish(rb, rb.rda_size).rp = Wrap(rb.rp + rb.rda_size)
           /\ ReadFinish(rb, rb.rda_size).rda_size = 0
           /\ ReadFinish(rb, rb.rda_size).use_size = rb.use_size
  <1> USE MaxSizeAssumption DEF RingOK, RingBuffer, Slots
  <1>1. (rb.rp + rb.rda_size) % MaxSize = Wrap(rb.rp + rb.rda_size)
    BY ModIsWrap
  <1>2. ReadFinish(rb, rb.rda_size) =
            [rp |-> Wrap(rb.rp + rb.rda_size), wp |-> rb.wp,
             rda_size |-> 0, use_size |-> rb.use_size]
    <2> DEFINE r == (rb.rp + rb.rda_size) % MaxSize
    <2>1. ReadFinish(rb, rb.rda_size) =
            [rb EXCEPT !.rp = r, !.rda_size = @ - rb.rda_size]
      BY DEF ReadFinish
    <2>2. r = Wrap(rb.rp + rb.rda_size)
      BY <1>1
    <2>3. rb.rda_size - rb.rda_size = 0
      OBVIOUS
    <2> HIDE DEF r
    <2>4. ReadFinish(rb, rb.rda_size) =
            [rp |-> r, wp |-> rb.wp, rda_size |-> 0, use_size |-> rb.use_size]
      BY <2>1, <2>3, Zenon
    <2> QED BY <2>2, <2>4
  <1>3. rb.wp = Wrap(rb.wp + 0)
    BY DEF Wrap
  <1> QED BY <1>2, <1>3

\* Bytes acknowledged become free; an emptied buffer starts at 0 again.
LEMMA ReadReleaseOK ==
    ASSUME NEW rb, RingOK(rb), NEW n \in Nat, n <= rb.use_size - rb.rda_size
    PROVE  /\ RingOK(ReadRelease(rb, n))
           /\ ReadRelease(rb, n).rda_size = rb.rda_size
           /\ ReadRelease(rb, n).use_size = rb.use_size - n
           /\ n # rb.use_size => ReadRelease(rb, n).rp = rb.rp
  <1> USE MaxSizeAssumption DEF RingOK, RingBuffer, Slots
  <1>1. CASE rb.use_size = n
    <2>1. ReadRelease(rb, n) = [rp |-> 0, wp |-> 0, rda_size |-> rb.rda_size,
                                use_size |-> 0]
      BY <1>1, Zenon DEF ReadRelease
    <2>2. rb.rda_size = 0 /\ Wrap(0 + 0) = 0
      BY <1>1 DEF Wrap
    <2> QED BY <1>1, <2>1, <2>2
  <1>2. CASE rb.use_size # n
    <2>1. ReadRelease(rb, n) =
            [rp |-> rb.rp, wp |-> rb.wp, rda_size |-> rb.rda_size,
             use_size |-> rb.use_size - n]
      BY <1>2 DEF ReadRelease
    <2> QED BY <1>2, <2>1
  <1> QED BY <1>1, <1>2

\* A free place is not the place of a byte in flight: the bytes in flight
\* end at rp, the free places start rda_size bytes behind it.
LEMMA FreeIsNotHeld ==
    ASSUME NEW rb, RingOK(rb), NEW d \in Nat, NEW i \in Nat,
           1 <= d, d <= rb.use_size - rb.rda_size,
           i < MaxSize - rb.use_size
    PROVE  Behind(rb.rp, d) # Wrap(rb.wp + i)
  BY MaxSizeAssumption DEF RingOK, RingBuffer, Slots, Behind, Wrap
----------------------------------------------------------------------------
(* The inductive invariant holds initially and is preserved by each action. *)

\* The ring buffer and the bytes in it, without the types.
RingInv == /\ RingOK(ring) /\ InFlightCount /\ FailedStops
           /\ Unread /\ HeldPlaces

\* The session before its handshake.
LEMMA InitIInv == Init => IInv
  <1> USE MaxSizeAssumption, BoundsAssumption
  <1> SUFFICES ASSUME Init PROVE IInv
    OBVIOUS
  <1>1. TypeOK
    <2>1. TypeCtl /\ TypeNumbers
      BY DEF Init, TypeCtl, TypeNumbers, Pcs
    <2>2. TypeFlags
      BY Zenon DEF Init, TypeFlags
    <2>3. TypeBytes
      BY DEF Init, TypeBytes, EmptyRing, RingBuffer, Slots
    <2>4. TypePcb
      BY DEF Init, TypePcb
    <2> QED BY <2>1, <2>2, <2>3, <2>4 DEF TypeOK
  <1>2. RingOK(ring)
    BY DEF Init, RingOK, EmptyRing, RingBuffer, Slots, Wrap
  <1>3. InFlightCount /\ FailedStops /\ Unread /\ HeldPlaces
    BY DEF Init, InFlightCount, FailedStops, Unread, HeldPlaces, EmptyRing
  <1> QED BY <1>1, <1>2, <1>3 DEF IInv

\* The actions that leave the bytes alone and run outside of tcp_splice_b.
LEMMA Frame ==
    ASSUME RingInv, pc # "w", pc' # "w",
           UNCHANGED <<ring, mem, held, writeFailed, srvRead, pcb, resB>>,
           lwip'.una = lwip.una, lwip'.nxt = lwip.nxt
    PROVE  RingInv'
  BY DEF RingInv, RingOK, InFlightCount, FailedStops, Unread, HeldPlaces,
         Behind

\* The steps of the kernel, which may come between the halves of tcp_splice_b.
LEMMA KernelFrame ==
    ASSUME RingInv,
           UNCHANGED <<pc, ring, mem, held, writeFailed, srvRead, pcb, resB,
                       lwip>>
    PROVE  RingInv'
  BY DEF RingInv, RingOK, InFlightCount, FailedStops, Unread, HeldPlaces

\* The steps of the task that move no byte, and the environment's.
LEMMA ControlStep ==
    ASSUME IInv,
           \/ HandshakeDone \/ HandshakeFail \/ HandshakeBlocked
           \/ SpliceYield \/ SpliceResume \/ Drain \/ DrainResume
           \/ terminate \/ SrvAnswer \/ TimerExpire \/ Poll
           \/ SrvSend \/ SrvEnd("eof") \/ SrvEnd("error") \/ SrvTake
    PROVE  IInv'
  <1> USE DEF IInv, RingInv, TypeOK, ctl, res, buf, app, srv, Goto, Sleep,
              Wakeup, Resumed, OffCpu
  <1>1. CASE \/ HandshakeDone \/ HandshakeFail \/ HandshakeBlocked
             \/ SpliceYield \/ SpliceResume \/ Drain \/ DrainResume
    <2>1. TypeCtl'
      BY <1>1, ZenonT(60)
         DEF TypeCtl, Pcs, HandshakeDone, HandshakeFail, HandshakeBlocked,
             SpliceYield, SpliceResume, Drain, DrainResume
    <2>2. TypeFlags'
      BY <1>1, ZenonT(60)
         DEF TypeFlags, HandshakeDone, HandshakeFail, HandshakeBlocked,
             SpliceYield, SpliceResume, Drain, DrainResume
    <2>3. TypeNumbers'
      BY <1>1, Zenon
         DEF TypeNumbers, HandshakeDone, HandshakeFail, HandshakeBlocked,
             SpliceYield, SpliceResume, Drain, DrainResume
    <2>4. TypePcb'
      BY <1>1, Zenon
         DEF TypePcb, HandshakeDone, HandshakeFail, HandshakeBlocked,
             SpliceYield, SpliceResume, Drain, DrainResume
    <2>5. TypeBytes'
      BY <1>1, Zenon
         DEF TypeBytes, HandshakeDone, HandshakeFail, HandshakeBlocked,
             SpliceYield, SpliceResume, Drain, DrainResume
    <2>6. RingInv'
      BY <1>1, Frame, Zenon DEF HandshakeDone, HandshakeFail, HandshakeBlocked,
                  SpliceYield, SpliceResume, Drain, DrainResume
    <2> QED BY <2>1, <2>2, <2>3, <2>4, <2>5, <2>6
  <1>2. CASE terminate \/ SrvAnswer \/ TimerExpire \/ Poll
    <2>1. TypeCtl'
      BY <1>2, ZenonT(60)
         DEF TypeCtl, Pcs, terminate, SrvAnswer, TimerExpire, Poll
    <2>2. TypeFlags'
      BY <1>2, ZenonT(60) DEF TypeFlags, terminate, SrvAnswer, TimerExpire, Poll
    <2>3. TypeNumbers'
      BY <1>2, ZenonT(60)
         DEF TypeNumbers, terminate, SrvAnswer, TimerExpire, Poll
    <2>4. TypePcb'
      BY <1>2, ZenonT(60) DEF TypePcb, terminate, SrvAnswer, TimerExpire, Poll
    <2>5. TypeBytes'
      BY <1>2, ZenonT(60) DEF TypeBytes, terminate, SrvAnswer, TimerExpire, Poll
    <2>6. RingInv'
      BY <1>2, Frame, ZenonT(60) DEF terminate, SrvAnswer, TimerExpire, Poll
    <2> QED BY <2>1, <2>2, <2>3, <2>4, <2>5, <2>6
  <1>3. CASE SrvSend \/ SrvEnd("eof") \/ SrvEnd("error") \/ SrvTake
    <2>1. TypeCtl'
      BY <1>3, ZenonT(60) DEF TypeCtl, Pcs, SrvSend, SrvEnd, SrvTake
    <2>2. TypeFlags'
      BY <1>3, ZenonT(60) DEF TypeFlags, SrvSend, SrvEnd, SrvTake
    <2>3. TypeNumbers'
      <3>1. UNCHANGED <<resF, resB, queue, appLeft, srvRead, srvGot>>
        BY <1>3, ZenonT(60) DEF SrvSend, SrvEnd, SrvTake
      <3>2. /\ srvSent' = srvSent \/ srvSent' = srvSent + 1
            /\ sndSpace' = sndSpace \/ sndSpace' = sndSpace + 1
            /\ srvEnd' \in {srvEnd, "eof", "error"}
        BY <1>3, ZenonT(60) DEF SrvSend, SrvEnd, SrvTake
      <3> QED BY <3>1, <3>2 DEF TypeNumbers
    <2>4. TypePcb'
      BY <1>3, ZenonT(60) DEF TypePcb, SrvSend, SrvEnd, SrvTake
    <2>5. TypeBytes'
      BY <1>3, ZenonT(60) DEF TypeBytes, SrvSend, SrvEnd, SrvTake
    <2>6. RingInv'
      <3>1. UNCHANGED <<pc, ring, mem, held, writeFailed, srvRead, pcb, resB,
                        lwip>>
        BY <1>3, ZenonT(60) DEF SrvSend, SrvEnd, SrvTake
      <3> QED BY <3>1, KernelFrame
    <2> QED BY <2>1, <2>2, <2>3, <2>4, <2>5, <2>6
  <1> QED BY <1>1, <1>2, <1>3

\* tcp_splice_f and the bytes of the application.
LEMMA ForwardStep ==
    ASSUME IInv,
           tcp_splice_f \/ tcp_recv_fin
             \/ \E n \in 1 .. Wnd : tcp_recv_handler(n)
    PROVE  IInv'
  <1> USE BoundsAssumption
          DEF IInv, RingInv, TypeOK, ctl, res, buf, app, srv, Goto, Wakeup,
              OffCpu
  <1>1. CASE tcp_splice_f
    <2>1. TypeCtl'
      BY <1>1 DEF TypeCtl, Pcs, tcp_splice_f, Forwarded,
                  NothingForwarded
    <2>2. TypeFlags'
      BY <1>1, Zenon DEF TypeFlags, tcp_splice_f, Forwarded,
                  NothingForwarded
    <2>3. TypeNumbers'
      BY <1>1 DEF TypeNumbers, tcp_splice_f, Forwarded,
                  NothingForwarded
    <2>4. TypePcb'
      BY <1>1 DEF TypePcb, tcp_splice_f, Forwarded,
                  NothingForwarded
    <2>5. TypeBytes'
      BY <1>1 DEF TypeBytes, tcp_splice_f, Forwarded,
                  NothingForwarded
    <2>6. RingInv'
      BY <1>1, Frame DEF tcp_splice_f, Forwarded, NothingForwarded, TypePcb
    <2> QED BY <2>1, <2>2, <2>3, <2>4, <2>5, <2>6
  <1>2. CASE tcp_recv_fin
    BY <1>2, Frame DEF TypeCtl, TypeFlags, TypeNumbers, TypePcb,
                       TypeBytes, tcp_recv_fin
  <1>3. ASSUME NEW n \in 1 .. Wnd, tcp_recv_handler(n)
        PROVE  IInv'
    <2>1. TypeCtl'
      BY <1>3 DEF TypeCtl, Pcs, tcp_recv_handler
    <2>2. TypeFlags'
      BY <1>3 DEF TypeFlags, tcp_recv_handler
    <2>3. TypeNumbers'
      BY <1>3 DEF TypeNumbers, tcp_recv_handler
    <2>4. TypePcb'
      BY <1>3 DEF TypePcb, tcp_recv_handler
    <2>5. TypeBytes'
      BY <1>3 DEF TypeBytes, tcp_recv_handler
    <2>6. RingInv'
      BY <1>3, Frame DEF tcp_recv_handler, TypePcb
    <2> QED BY <2>1, <2>2, <2>3, <2>4, <2>5, <2>6
  <1> QED BY <1>1, <1>2, <1>3

\* readv stores the bytes behind the unread ones, in places that no byte in
\* flight points to.
LEMMA StoreStep ==
    ASSUME IInv, pc = "b", resB >= 0, NEW s \in Nat,
           s >= 1, s <= IovLen(Writing(ring)), Stored(Writing(ring), s),
           pc' = "w", UNCHANGED <<held, writeFailed, pcb, lwip>>
    PROVE  RingInv' /\ TypeBytes'
  <1> USE MaxSizeAssumption
  <1>1. s <= MaxSize - ring.use_size /\ RingOK(ring)
    BY WritingFree DEF IInv
  <1>2. \A i \in 0 .. s - 1 : Slot(Writing(ring), i) = Wrap(ring.wp + i)
    BY <1>1, WritingFree DEF RingOK, RingBuffer
  <1>3. /\ RingOK(ring)' /\ ring'.rp = ring.rp
        /\ ring'.rda_size = ring.rda_size + s
        /\ ring'.use_size = ring.use_size + s
    BY <1>1, WriteFinishOK DEF Stored
  <1>4. /\ mem' \in [Slots -> Nat \cup {-1}]
        /\ \A j \in Slots : (\A i \in 0 .. s - 1 : Wrap(ring.wp + i) # j)
                                => mem'[j] = mem[j]
        /\ \A i \in 0 .. s - 1 : mem'[Wrap(ring.wp + i)] = srvRead + i
    <2>1. ASSUME NEW j \in Slots
          PROVE  /\ mem'[j] \in Nat \cup {-1}
                 /\ (\A i \in 0 .. s - 1 : Wrap(ring.wp + i) # j)
                        => mem'[j] = mem[j]
      BY <1>2 DEF Stored, IInv, TypeOK, TypeBytes, TypeNumbers
    <2>2. ASSUME NEW i \in 0 .. s - 1
          PROVE  mem'[Wrap(ring.wp + i)] = srvRead + i
      <3> DEFINE j == Wrap(ring.wp + i)
      <3>1. j \in Slots
        BY <1>1 DEF Wrap, Slots, RingOK, RingBuffer
      <3>2. \A k \in 0 .. s - 1 : Wrap(ring.wp + k) = j => k = i
        BY <1>1 DEF Wrap, Slots, RingOK, RingBuffer
      <3>3. \A k \in 0 .. s - 1 : Slot(Writing(ring), k) = j <=> k = i
        BY <1>2, <3>2
      <3>4. (CHOOSE k \in 0 .. s - 1 : Slot(Writing(ring), k) = j) = i
        BY <3>3
      <3> HIDE DEF j
      <3>5. mem'[j] = srvRead + i
        BY <3>1, <3>3, <3>4 DEF Stored
      <3> QED BY <3>5 DEF j
    <2>3. mem' = [j \in Slots |-> mem'[j]]
      BY DEF Stored
    <2> QED BY <2>1, <2>2, <2>3
  <1>5. srvRead' = srvRead + s /\ srvRead \in Nat /\ ~writeFailed
    BY DEF Stored, IInv, TypeOK, TypeNumbers, FailedStops
  <1>6. \A h \in held : h.slot \in Slots /\ mem'[h.slot] = mem[h.slot]
    <2> SUFFICES ASSUME NEW h \in held
                 PROVE  h.slot \in Slots /\ mem'[h.slot] = mem[h.slot]
      OBVIOUS
    <2>1. h.slot \in Slots /\ h.seq \in Nat /\ lwip.nxt \in Nat
          /\ lwip.una \in Nat
      BY DEF IInv, TypeOK, TypeBytes, TypePcb
    <2>2. /\ lwip.una <= h.seq /\ h.seq < lwip.nxt
          /\ h.slot = Behind(ring.rp, lwip.nxt - h.seq)
          /\ lwip.nxt - lwip.una <= ring.use_size - ring.rda_size
      BY <1>5 DEF IInv, HeldPlaces, InFlightCount
    <2>3. ASSUME NEW i \in 0 .. s - 1
          PROVE  Wrap(ring.wp + i) # h.slot
      <3>1. i \in Nat /\ i < MaxSize - ring.use_size
        BY <1>1 DEF RingOK, RingBuffer
      <3>2. /\ lwip.nxt - h.seq \in Nat /\ 1 <= lwip.nxt - h.seq
            /\ lwip.nxt - h.seq <= ring.use_size - ring.rda_size
        BY <1>1, <2>1, <2>2 DEF RingOK, RingBuffer
      <3> QED BY <1>1, <2>2, <3>1, <3>2, FreeIsNotHeld
    <2> QED BY <1>4, <2>1, <2>3
  <1>7. InFlightCount' /\ FailedStops'
    BY <1>1, <1>3, <1>5 DEF IInv, InFlightCount, FailedStops, RingOK,
                            RingBuffer, TypeOK, TypePcb
  <1>8. Unread'
    <2> SUFFICES ASSUME pcb
                 PROVE  \A i \in 0 .. ring'.rda_size - 1 :
                          mem'[Wrap(ring'.rp + i)]
                            = srvRead' - ring'.rda_size + i
      BY DEF Unread
    <2>1. ring.rda_size = 0 /\ ring.wp = ring.rp
      BY <1>1 DEF IInv, Unread, RingOK, RingBuffer, Wrap, Slots
    <2> QED BY <1>3, <1>4, <1>5, <2>1 DEF RingOK, RingBuffer
  <1>9. HeldPlaces'
    BY <1>3, <1>6 DEF IInv, HeldPlaces, Behind
  <1>10. TypeBytes'
    BY <1>3, <1>4 DEF IInv, TypeOK, TypeBytes, RingOK
  <1> QED BY <1>3, <1>7, <1>8, <1>9, <1>10 DEF RingInv

\* The first half of tcp_splice_b: a read that stores bytes, or none.
LEMMA ReadStep == ASSUME IInv, tcp_splice_b_read PROVE IInv'
  <1> USE DEF tcp_splice_b_read, app, srv, Goto
  <1>1. TypeCtl' /\ TypeFlags' /\ TypePcb'
    BY ZenonT(60) DEF IInv, TypeOK, TypeCtl, TypeFlags, TypePcb, Pcs
  <1>2. ASSUME NEW s \in 1 .. IovLen(Writing(ring)), resB >= 0,
               Stored(Writing(ring), s)
        PROVE  IInv'
    <2>1. s \in Nat /\ s >= 1 /\ s <= IovLen(Writing(ring))
      <3>1. IovLen(Writing(ring)) = MaxSize - ring.use_size /\ RingOK(ring)
        BY WritingFree DEF IInv
      <3> QED BY <1>2, <3>1, MaxSizeAssumption DEF RingOK, RingBuffer
    <2>2. RingInv' /\ TypeBytes'
      <3>1. pc = "b" /\ pc' = "w" /\ UNCHANGED <<held, writeFailed, pcb, lwip>>
        BY <1>2 DEF IInv, TypeOK, TypeNumbers
      <3> HIDE DEF tcp_splice_b_read
      <3> QED BY <1>2, <2>1, <3>1, StoreStep
    <2>3. TypeNumbers'
      BY <1>2, <2>1 DEF Stored, IInv, TypeOK, TypeNumbers
    <2> QED BY <1>1, <2>2, <2>3 DEF IInv, TypeOK, RingInv
  <1>3. ASSUME NEW r \in {resB, 0, -1}, NothingRead(r), resB < 0 => r = resB
        PROVE  IInv'
    <2>1. TypeNumbers' /\ TypeBytes'
      BY <1>3 DEF NothingRead, IInv, TypeOK, TypeNumbers, TypeBytes
    <2>2. RingInv'
      <3>1. /\ pc = "b" /\ pc' = (IF resB < 0 THEN "y" ELSE "w")
            /\ UNCHANGED <<ring, mem, srvRead, held, writeFailed, pcb, lwip>>
            /\ resB' = r /\ (resB < 0 => r = resB)
        BY <1>3, Zenon DEF NothingRead
      <3> HIDE DEF tcp_splice_b_read
      <3>2. RingOK(ring)' /\ InFlightCount' /\ HeldPlaces'
        BY <3>1, Zenon DEF IInv, RingInv, RingOK, InFlightCount, HeldPlaces,
                           Behind
      <3>3. FailedStops'
        BY <3>1 DEF IInv, RingInv, FailedStops
      <3>4. Unread'
        BY <3>1 DEF IInv, RingInv, Unread
      <3> QED BY <3>2, <3>3, <3>4 DEF RingInv
    <2> QED BY <1>1, <2>1, <2>2 DEF IInv, TypeOK, RingInv
  <1>4. \/ resB < 0 /\ NothingRead(resB)
        \/ resB >= 0 /\ (NothingRead(0) \/ NothingRead(-1))
        \/ resB >= 0 /\ \E s \in 1 .. IovLen(Writing(ring)) :
                            Stored(Writing(ring), s)
    OBVIOUS
  <1>5. resB \in -1 .. 1
    BY DEF IInv, TypeOK, TypeNumbers
  <1> HIDE DEF tcp_splice_b_read
  <1> QED BY <1>2, <1>3, <1>4, <1>5

\* tcp_write takes over the unread bytes, which then lie behind rp.
LEMMA HandStep ==
    ASSUME IInv, pc = "w", pc' = "y", pcb, Reading(ring) # <<>>,
           Handed(Reading(ring)), UNCHANGED <<mem, pcb, srvRead>>
    PROVE  /\ RingInv' /\ TypeBytes' /\ TypePcb'
           /\ writeFailed' \in BOOLEAN /\ resB' \in -1 .. 1
  <1> USE MaxSizeAssumption
  <1> DEFINE iov == Reading(ring)
             rda == ring.rda_size
  <1>1. RingOK(ring) /\ rda # 0 /\ rda \in Nat
    BY DEF IInv, Reading, RingOK, RingBuffer
  <1>2. /\ IovLen(iov) = rda
        /\ \A i \in 0 .. rda - 1 : Slot(iov, i) = Wrap(ring.rp + i)
        /\ \/ Len(iov) = 1 /\ iov[1].len = rda
           \/ /\ Len(iov) = 2 /\ iov[1].len \in Nat /\ iov[2].len \in Nat
              /\ iov[1].len + iov[2].len = rda
    BY <1>1, ReadingUnread
  <1>3. PICK ok \in SUBSET (1 .. Len(iov)), outputOk \in BOOLEAN :
        /\ held' = held \cup TakenOver(iov, ok)
        /\ lwip' = [lwip EXCEPT !.nxt = @ + TakenLen(iov, ok)]
        /\ ring' = ReadFinish(ring, IovLen(iov))
        /\ writeFailed' = (writeFailed \/ ok # 1 .. Len(iov))
        /\ resB' = IF ok = 1 .. Len(iov) /\ outputOk THEN 1 ELSE -1
    BY Zenon DEF Handed
  <1> HIDE DEF iov
  <1>4. /\ TakenLen(iov, ok) \in 0 .. rda
        /\ ok = 1 .. Len(iov) => TakenLen(iov, ok) = rda
    <2>1. CASE Len(iov) = 1 /\ iov[1].len = rda
      <3>1. 2 \notin ok
        BY <2>1
      <3>2. ok = 1 .. Len(iov) => 1 \in ok
        BY <2>1
      <3> QED BY <1>1, <2>1, <3>1, <3>2 DEF TakenLen
    <2>2. CASE /\ Len(iov) = 2 /\ iov[1].len \in Nat /\ iov[2].len \in Nat
               /\ iov[1].len + iov[2].len = rda
      <3>1. ok = 1 .. Len(iov) => 1 \in ok /\ 2 \in ok
        BY <2>2
      <3> QED BY <1>1, <2>2, <3>1 DEF TakenLen
    <2> QED BY <1>2, <2>1, <2>2
  <1>5. /\ RingOK(ring)' /\ ring'.rp = Wrap(ring.rp + rda)
        /\ ring'.rda_size = 0 /\ ring'.use_size = ring.use_size
    BY <1>1, <1>2, <1>3, ReadFinishOK
  <1>6. /\ lwip' \in [una : Nat, nxt : Nat, fin : BOOLEAN, wnd : Nat]
        /\ lwip'.una = lwip.una /\ lwip'.nxt = lwip.nxt + TakenLen(iov, ok)
        /\ lwip.una \in Nat /\ lwip.nxt \in Nat
    BY <1>3, <1>4 DEF IInv, TypeOK, TypePcb
  <1>7. /\ ~writeFailed /\ srvRead \in Nat
        /\ lwip.nxt + rda = srvRead /\ lwip.una <= lwip.nxt
        /\ lwip.nxt - lwip.una = ring.use_size - rda
    BY DEF IInv, FailedStops, InFlightCount, TypeOK, TypeNumbers
  <1>8. InFlightCount'
    <2>1. ring.use_size \in Nat /\ rda <= ring.use_size
      BY <1>1 DEF RingOK, RingBuffer
    <2> DEFINE t == TakenLen(iov, ok)
    <2>2. /\ lwip'.una = lwip.una /\ lwip'.nxt = lwip.nxt + t /\ t \in Nat
          /\ t <= rda /\ lwip.una \in Nat /\ lwip.nxt \in Nat
      BY <1>1, <1>4, <1>6
    <2> HIDE DEF rda, t
    <2>3. /\ lwip'.una <= lwip'.nxt
          /\ lwip'.nxt - lwip'.una <= ring'.use_size - ring'.rda_size
      BY <1>1, <1>5, <1>7, <2>1, <2>2, SMTT(60)
    <2>4. CASE ok = 1 .. Len(iov)
      <3>1. /\ lwip'.nxt - lwip'.una = ring'.use_size - ring'.rda_size
            /\ lwip'.nxt + ring'.rda_size = srvRead
        BY <1>1, <1>4, <1>5, <1>6, <1>7, <2>1, <2>4, SMTT(60)
      <3> QED BY <2>3, <3>1 DEF InFlightCount
    <2>5. CASE ok # 1 .. Len(iov)
      <3>1. writeFailed'
        BY <1>3, <2>5, Zenon
      <3> QED BY <2>3, <3>1 DEF InFlightCount
    <2> QED BY <2>4, <2>5
  <1>9. ASSUME NEW h \in TakenOver(iov, ok)
        PROVE  /\ h \in [seq : Nat, pos : Nat, slot : Slots]
               /\ lwip.una <= h.seq /\ h.seq < lwip'.nxt
               /\ mem[h.slot] = h.pos
               /\ ok = 1 .. Len(iov) =>
                    /\ h.pos = h.seq
                    /\ h.slot = Behind(ring'.rp, lwip'.nxt - h.seq)
    <2> DEFINE skipped == IF 1 \in ok THEN 0 ELSE iov[1].len
    <2>1. PICK i \in 0 .. rda - 1 :
            /\ SegOf(iov, i) \in ok
            /\ h = [seq |-> lwip.nxt + i - skipped,
                    pos |-> srvRead - rda + i, slot |-> Slot(iov, i)]
      BY DEF TakenOver
    <2>2. Slot(iov, i) = Wrap(ring.rp + i) /\ Wrap(ring.rp + i) \in Slots
      BY <1>1, <1>2, SMTT(90) DEF RingOK, RingBuffer, Slots, Wrap
    <2>3. skipped \in 0 .. i /\ i - skipped < TakenLen(iov, ok)
      BY <1>1, <1>2, <1>3, <2>1, SMTT(60) DEF SegOf, TakenLen
    <2>4. mem[Wrap(ring.rp + i)] = srvRead - rda + i
      BY DEF IInv, Unread
    <2>5. ok = 1 .. Len(iov) => skipped = 0 /\ lwip'.nxt = lwip.nxt + rda
      BY <1>2, <1>4, <1>6
    <2>6. Wrap(ring.rp + i) = Behind(Wrap(ring.rp + rda), rda - i)
      BY <1>1, SMTT(60) DEF RingOK, RingBuffer, Slots, Wrap, Behind
    <2> HIDE DEF skipped, rda
    <2>7. h.seq = lwip.nxt + i - skipped /\ h.pos = srvRead - rda + i
          /\ h.slot = Wrap(ring.rp + i)
      BY <2>1, <2>2
    <2>8. h \in [seq : Nat, pos : Nat, slot : Slots]
      BY <1>1, <1>6, <1>7, <2>1, <2>2, <2>3, SMTT(60)
    <2>9. lwip.una <= h.seq /\ h.seq < lwip'.nxt
      BY <1>1, <1>4, <1>6, <1>7, <2>3, <2>7, SMTT(60)
    <2>10. ok = 1 .. Len(iov) => h.pos = h.seq /\ lwip'.nxt - h.seq = rda - i
      BY <1>1, <1>6, <1>7, <2>5, <2>7, SMTT(60)
    <2> QED BY <1>5, <2>4, <2>6, <2>7, <2>8, <2>9, <2>10
  <1>10. ASSUME NEW h \in held
         PROVE  /\ lwip.una <= h.seq /\ h.seq < lwip'.nxt
                /\ mem[h.slot] = h.pos
                /\ ok = 1 .. Len(iov) =>
                    /\ h.pos = h.seq
                    /\ h.slot = Behind(ring'.rp, lwip'.nxt - h.seq)
    <2>1. /\ lwip.una <= h.seq /\ h.seq < lwip.nxt /\ h.seq \in Nat
          /\ mem[h.slot] = h.pos /\ h.pos = h.seq
          /\ h.slot = Behind(ring.rp, lwip.nxt - h.seq)
      BY <1>7 DEF IInv, HeldPlaces, TypeOK, TypeBytes
    <2>2. ASSUME NEW d \in Nat, 1 <= d, d <= ring.use_size - rda
          PROVE  Behind(ring.rp, d) = Behind(Wrap(ring.rp + rda), d + rda)
      BY <1>1, <2>2 DEF RingOK, RingBuffer, Slots, Wrap, Behind
    <2> HIDE DEF rda
    <2>3. /\ lwip.nxt - h.seq \in Nat /\ 1 <= lwip.nxt - h.seq
          /\ lwip.nxt - h.seq <= ring.use_size - rda
      <3>1. lwip.nxt - h.seq <= lwip.nxt - lwip.una
        BY <1>6, <2>1
      <3>2. lwip.nxt - h.seq \in Nat /\ 1 <= lwip.nxt - h.seq
        BY <1>6, <2>1
      <3> QED BY <1>7, <3>1, <3>2
    <2>4. h.slot = Behind(ring'.rp, lwip.nxt - h.seq + rda)
      BY <1>5, <2>1, <2>2, <2>3
    <2>5. ok = 1 .. Len(iov) => lwip'.nxt - h.seq = lwip.nxt - h.seq + rda
      BY <1>1, <1>4, <1>6, <2>1
    <2>6. h.seq < lwip'.nxt
      BY <1>1, <1>4, <1>6, <2>1
    <2> QED BY <2>1, <2>4, <2>5, <2>6
  <1>11. HeldPlaces'
    BY <1>3, <1>6, <1>9, <1>10, ZenonT(60) DEF HeldPlaces
  <1>12. FailedStops' /\ Unread'
    BY <1>3, <1>5, <1>7, Zenon DEF FailedStops, Unread
  <1>13. TypeBytes'
    BY <1>3, <1>5, <1>9 DEF IInv, TypeOK, TypeBytes, RingOK
  <1>14. writeFailed' \in BOOLEAN
    BY <1>3
  <1>15. resB' \in -1 .. 1
    BY <1>3
  <1> QED BY <1>5, <1>6, <1>8, <1>11, <1>12, <1>13, <1>14, <1>15
          DEF RingInv, TypePcb

\* The second half of tcp_splice_b: bytes handed over, refused or none.
LEMMA WriteStep == ASSUME IInv, tcp_splice_b_write PROVE IInv'
  <1>1. pc = "w" /\ pc' = "y" /\ armed' = FALSE /\ expired' = FALSE
        /\ UNCHANGED <<task, timeout, resF, mem, srvRead, queue, pcbEof, pcb,
                       appLeft, srv>>
    BY DEF tcp_splice_b_write, Goto
  <1>2. TypeCtl'
    BY <1>1 DEF IInv, TypeOK, TypeCtl, Pcs
  <1>3. CASE pcb /\ Reading(ring) # <<>> /\ Handed(Reading(ring))
    <2>1. /\ RingInv' /\ TypeBytes' /\ TypePcb'
          /\ writeFailed' \in BOOLEAN /\ resB' \in -1 .. 1
      BY <1>1, <1>3, HandStep
    <2>2. TypeFlags'
      BY <1>1, <2>1, Zenon DEF IInv, TypeOK, TypeFlags, srv
    <2>3. TypeNumbers'
      BY <1>1, <2>1 DEF IInv, TypeOK, TypeNumbers, srv
    <2> QED BY <1>2, <2>1, <2>2, <2>3 DEF IInv, RingInv, TypeOK
  <1>4. ASSUME NEW r \in {resB, -1}, NEW fin \in BOOLEAN,
               NothingHanded(r, fin), pcb => Reading(ring) = <<>>
        PROVE  IInv'
    <2>1. TypePcb' /\ lwip'.una = lwip.una /\ lwip'.nxt = lwip.nxt
      BY <1>4 DEF NothingHanded, IInv, TypeOK, TypePcb
    <2>2. TypeFlags'
      BY <1>1, <1>4, Zenon DEF NothingHanded, IInv, TypeOK, TypeFlags, srv
    <2>3. TypeNumbers'
      BY <1>1, <1>4 DEF NothingHanded, IInv, TypeOK, TypeNumbers, srv
    <2>4. TypeBytes'
      BY <1>1, <1>4 DEF NothingHanded, IInv, TypeOK, TypeBytes
    <2>5. pcb => ring.rda_size = 0
      BY <1>4 DEF Reading, Segments
    <2>6. RingInv'
      BY <1>1, <1>4, <2>1, <2>5
         DEF NothingHanded, IInv, RingInv, RingOK, InFlightCount, FailedStops,
             Unread, HeldPlaces, Behind
    <2> QED BY <1>2, <2>1, <2>2, <2>3, <2>4, <2>6 DEF IInv, RingInv, TypeOK
  <1>5. \/ pcb /\ Reading(ring) # <<>> /\ Handed(Reading(ring))
        \/ pcb /\ Reading(ring) = <<>> /\ NothingHanded(resB, resB < 0)
        \/ ~pcb /\ NothingHanded(-1, FALSE)
    BY Zenon DEF tcp_splice_b_write
  <1>6. (resB < 0) \in BOOLEAN
    OBVIOUS
  <1> QED BY <1>3, <1>4, <1>5, <1>6, Zenon

\* An acknowledgement releases the oldest bytes; the reset of an emptied
\* buffer finds no byte held.
LEMMA SentStep ==
    ASSUME IInv, NEW n \in 1 .. MaxSize, tcp_sent_handler(n)
    PROVE  IInv'
  <1> USE MaxSizeAssumption
  <1>1. /\ pcb /\ n <= lwip.nxt - lwip.una /\ pc # "w" /\ pc' = pc
        /\ held' = {h \in held : h.seq >= lwip.una + n}
        /\ ring' = ReadRelease(ring, n)
        /\ UNCHANGED <<mem, writeFailed, srvRead, pcb, res>>
    BY DEF tcp_sent_handler, OffCpu, Wakeup
  <1>2. /\ lwip' \in [una : Nat, nxt : Nat, fin : BOOLEAN, wnd : Nat]
        /\ lwip'.una = lwip.una + n /\ lwip'.nxt = lwip.nxt
        /\ lwip.una \in Nat /\ lwip.nxt \in Nat
    BY DEF tcp_sent_handler, IInv, TypeOK, TypePcb
  <1>3. /\ RingOK(ring) /\ ring.use_size \in Nat /\ ring.rda_size = 0
        /\ lwip.nxt - lwip.una <= ring.use_size
    BY <1>1 DEF IInv, RingOK, RingBuffer, Unread, InFlightCount
  <1>4. /\ RingOK(ring)' /\ ring'.rda_size = 0
        /\ ring'.use_size = ring.use_size - n
        /\ n # ring.use_size => ring'.rp = ring.rp
    BY <1>1, <1>2, <1>3, ReadReleaseOK
  <1>5. InFlightCount'
    <2>1. /\ lwip'.una <= lwip'.nxt
          /\ lwip'.nxt - lwip'.una <= ring'.use_size - ring'.rda_size
      BY <1>1, <1>2, <1>3, <1>4
    <2>2. ASSUME ~writeFailed
          PROVE  /\ lwip'.nxt - lwip'.una = ring'.use_size - ring'.rda_size
                 /\ lwip'.nxt + ring'.rda_size = srvRead
      <3>1. lwip.nxt - lwip.una = ring.use_size - ring.rda_size
            /\ lwip.nxt + ring.rda_size = srvRead
        BY <1>1, <2>2 DEF IInv, InFlightCount
      <3> QED BY <1>2, <1>3, <1>4, <3>1
    <2> QED BY <1>1, <2>1, <2>2 DEF InFlightCount
  <1>6. HeldPlaces'
    <2>1. ASSUME NEW h \in held'
          PROVE  /\ h \in held /\ lwip'.una <= h.seq /\ n # ring.use_size
                 /\ h.seq < lwip.nxt
      <3>1. h \in held /\ h.seq >= lwip.una + n /\ h.seq \in Nat
        BY <1>1 DEF IInv, TypeOK, TypeBytes
      <3>2. h.seq < lwip.nxt
        BY <3>1, ZenonT(60) DEF IInv, HeldPlaces
      <3> QED BY <1>1, <1>2, <1>3, <3>1, <3>2
    <2> QED BY <1>1, <1>2, <1>4, <2>1, ZenonT(60) DEF IInv, HeldPlaces
  <1>7. FailedStops' /\ Unread'
    BY <1>1, <1>4 DEF IInv, FailedStops, Unread, res
  <1>8. TypeCtl' /\ TypeNumbers'
    BY DEF tcp_sent_handler, Wakeup, IInv, TypeOK, TypeCtl, TypeNumbers, res,
           srv
  <1>9. TypeFlags'
    BY DEF tcp_sent_handler, Wakeup, IInv, TypeOK, TypeFlags, srv
  <1>10. TypeBytes'
    BY <1>1, <1>4 DEF IInv, TypeOK, TypeBytes, RingOK
  <1> QED BY <1>2, <1>4, <1>5, <1>6, <1>7, <1>8, <1>9, <1>10
          DEF IInv, TypeOK, TypePcb

\* lwIP drops the connection, or the session does: no byte is held.
LEMMA EndStep == ASSUME IInv, tcp_err_handler \/ destruct PROVE IInv'
  <1> USE DEF tcp_err_handler, destruct, OffCpu, Wakeup, res, buf, srv
  <1>1. TypeCtl'
    BY DEF IInv, TypeOK, TypeCtl, Pcs
  <1>2. TypeFlags'
    BY ZenonT(60) DEF IInv, TypeOK, TypeFlags
  <1>3. TypeNumbers'
    BY DEF IInv, TypeOK, TypeNumbers
  <1>4. TypePcb' /\ TypeBytes'
    BY DEF IInv, TypeOK, TypePcb, TypeBytes
  <1>5. RingInv'
    <2>1. /\ pcb' = FALSE /\ held' = {} /\ pc # "w" /\ pc' # "w"
          /\ UNCHANGED <<ring, mem, writeFailed, srvRead, resB, lwip>>
      OBVIOUS
    <2> HIDE DEF tcp_err_handler, destruct, OffCpu, Wakeup, res, buf, srv
    <2>2. RingOK(ring)' /\ FailedStops'
      BY <2>1 DEF IInv, RingOK, FailedStops
    <2>3. InFlightCount' /\ Unread' /\ HeldPlaces'
      BY <2>1, ZenonT(60) DEF IInv, InFlightCount, Unread, HeldPlaces
    <2> QED BY <2>2, <2>3 DEF RingInv
  <1> QED BY <1>1, <1>2, <1>3, <1>4, <1>5 DEF IInv, TypeOK, RingInv

\* One step per group of actions.
LEMMA NextIInv == IInv /\ [Next]_vars => IInv'
  <1> SUFFICES ASSUME IInv, [Next]_vars PROVE IInv'
    OBVIOUS
  <1>1. CASE UNCHANGED vars
    <2>1. TypeOK'
      BY <1>1 DEF IInv, TypeOK, TypeCtl, TypeFlags, TypeNumbers, TypePcb,
                  TypeBytes, vars, ctl, res, buf, app, srv
    <2>2. RingInv'
      BY <1>1, ZenonT(60)
         DEF IInv, RingInv, RingOK, InFlightCount, FailedStops, Unread,
             HeldPlaces, Behind, vars, ctl, res, buf, app, srv
    <2> QED BY <2>1, <2>2 DEF IInv, RingInv
  <1>2. CASE SessionStep
    BY <1>2, ControlStep, ForwardStep, ReadStep, WriteStep, EndStep
       DEF SessionStep
  <1>3. CASE Environment
    BY <1>3, ControlStep, ForwardStep, SentStep, EndStep DEF Environment
  <1>4. CASE Poll \/ TimerExpire
    BY <1>4, ControlStep
  <1> QED BY <1>1, <1>2, <1>3, <1>4 DEF Next, Done

----------------------------------------------------------------------------
\* The inductive invariant of the session.
THEOREM SessionIInv == Spec => []IInv
  <1> QED BY InitIInv, NextIInv, PTL DEF Spec

\* hev-socks5-session-tcp.c: the session's variables have their types and no
\* counter of the ring buffer wraps below 0.
THEOREM SessionTypeOK == Spec => []TypeOK
  <1>1. IInv => TypeOK
    BY DEF IInv
  <1> QED BY <1>1, SessionIInv, PTL

\* tcp_splice_b: no byte that lwIP may still transmit is overwritten.
THEOREM SessionInFlightIntact == Spec => []InFlightIntact
  <1>1. IInv => InFlightIntact
    BY DEF IInv, HeldPlaces, InFlightIntact
  <1> QED BY <1>1, SessionIInv, PTL

\* tcp_splice_b: the application receives the server's stream, in order.
THEOREM SessionStreamInOrder == Spec => []StreamInOrder
  <1>1. IInv => StreamInOrder
    <2> SUFFICES ASSUME IInv, pcb, ~writeFailed PROVE StreamInOrder
      BY DEF StreamInOrder
    <2>1. \A h \in held : h.seq = h.pos
      BY DEF IInv, HeldPlaces
    <2>2. /\ lwip.nxt + ring.rda_size = srvRead
          /\ lwip.nxt - lwip.una + ring.rda_size = ring.use_size
      BY DEF IInv, InFlightCount, RingOK, RingBuffer, TypeOK, TypePcb
    <2> QED BY <2>1, <2>2 DEF StreamInOrder
  <1> QED BY <1>1, SessionIInv, PTL

----------------------------------------------------------------------------
(* The two ways a session closes, its window and its termination.          *)

\* tcp_splice_b reports -1 behind the server's last byte, and a FIN sent
\* then is the last thing it does.
FinInv ==
    /\ pc = "w" /\ resB = -1 =>
        srvEnd # "open" /\ (srvEnd = "eof" => srvRead = srvSent)
    /\ lwip.fin =>
        /\ resB = -1 /\ pc # "w" /\ srvEnd # "open"
        /\ pcb /\ srvEnd = "eof" /\ ~writeFailed => lwip.nxt = srvSent

\* The properties of the close hold at the start.
LEMMA InitClose ==
    Init => /\ WindowAccounting /\ ShutWrAfterLastByte
            /\ TerminatedNeverSleeps /\ FinInv
  BY BoundsAssumption DEF Init, WindowAccounting, ShutWrAfterLastByte,
     TerminatedNeverSleeps, FinInv

\* Only the callbacks and tcp_splice_f touch the queue and the window.
LEMMA WindowStep ==
    ASSUME TypeOK, WindowAccounting, [Next]_vars PROVE WindowAccounting'
  <1> USE BoundsAssumption
          DEF TypeOK, TypeNumbers, TypePcb, WindowAccounting, app
  <1>1. CASE tcp_splice_f
    BY <1>1 DEF tcp_splice_f, Forwarded, NothingForwarded
  <1>2. CASE tcp_splice_b_write
    BY <1>2 DEF tcp_splice_b_write, Handed, NothingHanded
  <1>3. ASSUME NEW n \in 1 .. Wnd, tcp_recv_handler(n)
        PROVE  WindowAccounting'
    BY <1>3 DEF tcp_recv_handler
  <1>4. ASSUME NEW n \in 1 .. MaxSize, tcp_sent_handler(n)
        PROVE  WindowAccounting'
    BY <1>4 DEF tcp_sent_handler
  <1>5. CASE tcp_recv_fin \/ tcp_err_handler \/ destruct
    BY <1>5 DEF tcp_recv_fin, tcp_err_handler, destruct
  <1>6. CASE UNCHANGED app
    BY <1>6
  <1>7. \/ tcp_splice_f \/ tcp_splice_b_write \/ tcp_recv_fin
        \/ tcp_err_handler \/ destruct \/ UNCHANGED app
        \/ \E n \in 1 .. Wnd : tcp_recv_handler(n)
        \/ \E n \in 1 .. MaxSize : tcp_sent_handler(n)
    BY ZenonT(60) DEF Next, SessionStep, Environment, vars, Done, HandshakeDone,
           HandshakeFail, HandshakeBlocked, SpliceYield, SpliceResume, Drain,
           DrainResume, tcp_splice_b_read, terminate, SrvSend, SrvEnd, SrvTake,
           SrvAnswer, Poll, TimerExpire
  <1> QED BY <1>1, <1>2, <1>3, <1>4, <1>5, <1>6, <1>7, Zenon

\* Only tcp_splice_f shuts down, with the queue empty.
LEMMA ShutStep ==
    ASSUME TypeOK, ShutWrAfterLastByte, [Next]_vars PROVE ShutWrAfterLastByte'
  <1> USE BoundsAssumption
          DEF TypeOK, TypeNumbers, ShutWrAfterLastByte, app, srv
  <1>1. CASE tcp_splice_f
    <2>1. pcbEof' = pcbEof
      BY <1>1 DEF tcp_splice_f
    <2>2. CASE \E s \in 1 .. sndSpace : s <= queue /\ Forwarded(s)
      BY <2>1, <2>2 DEF Forwarded
    <2>3. CASE /\ queue' = queue
               /\ shutWr' = shutWr \/ (queue = 0 /\ pcbEof)
      BY <2>1, <2>3, Zenon
    <2> QED BY <1>1, <2>2, <2>3, Zenon DEF tcp_splice_f, NothingForwarded
  <1>2. ASSUME NEW n \in 1 .. Wnd, tcp_recv_handler(n)
        PROVE  ShutWrAfterLastByte'
    BY <1>2 DEF tcp_recv_handler
  <1>3. CASE tcp_recv_fin \/ destruct
    BY <1>3, Zenon DEF tcp_recv_fin, destruct
  <1>4. CASE UNCHANGED <<queue, pcbEof, shutWr>>
    BY <1>4
  <1>5. \/ tcp_splice_f \/ tcp_recv_fin \/ destruct
        \/ UNCHANGED <<queue, pcbEof, shutWr>>
        \/ \E n \in 1 .. Wnd : tcp_recv_handler(n)
    BY ZenonT(60) DEF Next, SessionStep, Environment, vars, Done, HandshakeDone,
           HandshakeFail, HandshakeBlocked, SpliceYield, SpliceResume, Drain,
           DrainResume, tcp_splice_b_read, tcp_splice_b_write,
           tcp_sent_handler, tcp_err_handler, terminate, SrvSend, SrvEnd,
           SrvTake, SrvAnswer, Poll, TimerExpire
  <1> QED BY <1>1, <1>2, <1>3, <1>4, <1>5, Zenon

\* The yielder refuses to sleep when the timeout is 0.
LEMMA TerminatedStep ==
    ASSUME TerminatedNeverSleeps, [Next]_vars PROVE TerminatedNeverSleeps'
  BY ZenonT(60)
     DEF TerminatedNeverSleeps, Next, SessionStep, Environment, vars, ctl,
         Done, Goto, Sleep, Wakeup, Resumed, HandshakeDone, HandshakeFail,
         HandshakeBlocked, tcp_splice_f, tcp_splice_b_read,
         tcp_splice_b_write, SpliceYield, SpliceResume, Drain, DrainResume,
         destruct, tcp_recv_handler, tcp_recv_fin, tcp_sent_handler,
         tcp_err_handler, terminate, SrvSend, SrvEnd, SrvTake, SrvAnswer,
         Poll, TimerExpire

\* tcp_shutdown is reached only when nothing is unread after the end.
LEMMA FinStep == ASSUME IInv, FinInv, [Next]_vars PROVE FinInv'
  <1> USE DEF FinInv, Goto, Wakeup, OffCpu
  <1>1. lwip \in [una : Nat, nxt : Nat, fin : BOOLEAN, wnd : Nat]
        /\ srvRead \in Nat /\ srvSent \in Nat /\ resB \in -1 .. 1
        /\ srvEnd \in {"open", "eof", "error"}
    BY DEF IInv, TypeOK, TypePcb, TypeNumbers
  <1>2. CASE tcp_splice_b_read
    <2>1. UNCHANGED <<lwip, pcb, writeFailed, srvEnd, srvSent>> /\ pc = "b"
      BY <1>2 DEF tcp_splice_b_read, app, srv
    <2>2. \/ resB < 0 /\ resB' = resB /\ srvRead' = srvRead /\ pc' = "y"
          \/ resB >= 0 /\ resB' \in {0, 1} /\ pc' = "w"
          \/ /\ resB >= 0 /\ resB' = -1 /\ srvRead' = srvRead /\ pc' = "w"
             /\ srvEnd # "open" /\ (srvEnd = "eof" => srvRead = srvSent)
      <3>1. ~(resB < 0) <=> resB >= 0
        BY <1>1
      <3> QED BY <1>2, <3>1, ZenonT(60)
              DEF tcp_splice_b_read, NothingRead, Stored
    <2> QED BY <1>1, <2>1, <2>2
  <1>3. CASE tcp_splice_b_write
    <2>1. CASE resB = -1 /\ pcb /\ Reading(ring) = <<>>
               /\ NothingHanded(resB, resB < 0)
      <3>1. ring.rda_size = 0
        BY <2>1 DEF Reading, Segments
      <3>2. ~writeFailed => lwip.nxt = srvRead
        BY <1>1, <2>1, <3>1 DEF IInv, InFlightCount
      <3> QED BY <1>1, <1>3, <2>1, <3>2
              DEF tcp_splice_b_write, NothingHanded, srv
    <2>2. CASE ~(resB = -1 /\ pcb /\ Reading(ring) = <<>>
                 /\ NothingHanded(resB, resB < 0))
      BY <1>1, <1>3, <2>2 DEF tcp_splice_b_write, NothingHanded, Handed, srv
    <2> QED BY <2>1, <2>2
  <1>4. CASE tcp_splice_f \/ tcp_recv_fin
             \/ \E n \in 1 .. Wnd : tcp_recv_handler(n)
    BY <1>1, <1>4 DEF tcp_splice_f, Forwarded, NothingForwarded, tcp_recv_fin,
       tcp_recv_handler, buf, res, srv
  <1>5. CASE tcp_err_handler \/ destruct
             \/ \E n \in 1 .. MaxSize : tcp_sent_handler(n)
    BY <1>1, <1>5 DEF tcp_err_handler, destruct, tcp_sent_handler, res, srv
  <1>6. CASE SrvSend \/ SrvEnd("eof") \/ SrvEnd("error") \/ SrvTake
    <2>1. UNCHANGED <<pc, resB, srvRead, lwip, pcb, writeFailed>>
      BY <1>6, ZenonT(60) DEF SrvSend, SrvEnd, SrvTake, ctl, res, buf, app
    <2>2. \/ UNCHANGED <<srvSent, srvEnd>>
          \/ srvEnd = "open" /\ srvEnd' = srvEnd
          \/ srvEnd' \in {"eof", "error"} /\ srvEnd # "error"
             /\ srvSent' = srvSent /\ srvEnd' # srvEnd
      BY <1>6 DEF SrvSend, SrvEnd, SrvTake
    <2> QED BY <1>1, <2>1, <2>2
  <1>7. CASE \/ HandshakeDone \/ HandshakeFail \/ HandshakeBlocked
             \/ SpliceYield \/ SpliceResume \/ Drain \/ DrainResume
             \/ terminate \/ SrvAnswer \/ TimerExpire \/ Poll
    <2>1. /\ UNCHANGED <<resB, srvRead, srvSent, srvEnd, lwip, pcb,
                         writeFailed>>
          /\ pc' # "w"
      BY <1>7, Zenon
         DEF HandshakeDone, HandshakeFail, HandshakeBlocked, SpliceYield,
             SpliceResume, Drain, DrainResume, terminate, SrvAnswer,
             TimerExpire, Poll, Sleep, Resumed, res, buf, app, srv
    <2> QED BY <2>1
  <1>8. CASE UNCHANGED vars
    BY <1>8 DEF vars, ctl, res, buf, app, srv
  <1> QED BY <1>2, <1>3, <1>4, <1>5, <1>6, <1>7, <1>8, ZenonT(60)
          DEF Next, SessionStep, Environment, Done

\* tcp_recv_handler and tcp_recved: queue and window add up to TCP_WND.
THEOREM SessionWindow == Spec => []WindowAccounting
  <1> QED BY InitClose, WindowStep, SessionTypeOK, PTL DEF Spec

\* tcp_splice_f: the server sees the end only behind the last byte.
THEOREM SessionShutWr == Spec => []ShutWrAfterLastByte
  <1> QED BY InitClose, ShutStep, SessionTypeOK, PTL DEF Spec

\* tcp_splice_b: the application sees the end only behind the last byte.
THEOREM SessionFin == Spec => []FinAfterLastByte
  <1>1. Spec => []FinInv
    BY InitClose, FinStep, SessionIInv, PTL DEF Spec
  <1>2. FinInv => FinAfterLastByte
    BY DEF FinInv, FinAfterLastByte
  <1> QED BY <1>1, <1>2, PTL

\* hev_socks5_session_terminate: a terminated session is not left asleep.
THEOREM SessionTerminated == Spec => []TerminatedNeverSleeps
  <1> QED BY InitClose, TerminatedStep, PTL DEF Spec
----------------------------------------------------------------------------
(* Each of the two directions implements HevStream.                        *)


\* Every byte of the application is at the server, in the queue or still to
\* be sent, until the session is destroyed.
UpInv ==
    /\ queue <= Wnd
    /\ pc # "done" => srvGot + queue + appLeft = MaxApp

\* tcp_splice_b never reads past what the server has sent.
DownInv == srvRead <= srvSent

----------------------------------------------------------------------------
(* From the application to the server.                                     *)

\* What a step does to the upward direction.
UpForward ==
    \E s \in 1 .. queue :
        /\ queue' = queue - s /\ srvGot' = srvGot + s
        /\ pc # "done" /\ pc' # "done"
        /\ UNCHANGED <<pcbEof, shutWr, appLeft>>

UpShut ==
    /\ queue = 0 /\ pcbEof /\ shutWr' = TRUE /\ pc # "done" /\ pc' # "done"
    /\ UNCHANGED <<queue, srvGot, pcbEof, appLeft>>

UpReceive ==
    \E n \in 1 .. Wnd :
        /\ ~pcbEof /\ n <= appLeft /\ queue + n <= Wnd
        /\ queue' = queue + n /\ appLeft' = appLeft - n /\ pc' = pc
        /\ UNCHANGED <<pcbEof, shutWr, srvGot>>

UpFin ==
    /\ ~pcbEof /\ pcbEof' = TRUE /\ pc' = pc
    /\ UNCHANGED <<queue, srvGot, shutWr, appLeft>>

UpDestroy ==
    /\ pc' = "done" /\ queue' = 0
    /\ UNCHANGED <<srvGot, appLeft>>

UpIdle ==
    /\ pc' = "done" <=> pc = "done"
    /\ UNCHANGED <<queue, srvGot, pcbEof, shutWr, appLeft>>

\* Every step of the session is one of these.
LEMMA UpSteps ==
    ASSUME TypeOK, WindowAccounting, [Next]_vars
    PROVE  \/ UpForward \/ UpShut \/ UpReceive \/ UpFin \/ UpDestroy
           \/ UpIdle
  <1>0. /\ queue \in Nat /\ sndSpace \in Nat /\ appLeft \in Nat
        /\ shutWr \in BOOLEAN /\ lwip.wnd \in Nat
    BY DEF TypeOK, TypeNumbers, TypeFlags, TypePcb
  <1>1. CASE tcp_splice_f
    <2>1. pc = "f" /\ pc' = "b" /\ UNCHANGED <<pcbEof, appLeft>>
      BY <1>1 DEF tcp_splice_f, Goto
    <2>2. ASSUME NEW s \in 1 .. sndSpace, s <= queue, Forwarded(s)
          PROVE  UpForward
      <3>1. s \in 1 .. queue
        BY <1>0, <2>2
      <3> QED BY <2>1, <2>2, <3>1, Zenon DEF Forwarded, UpForward
    <2>3. CASE queue = 0 /\ pcbEof /\ NothingForwarded(-1, TRUE)
      BY <2>1, <2>3, Zenon DEF NothingForwarded, UpShut
    <2>4. ASSUME NEW r, NothingForwarded(r, FALSE)
          PROVE  UpIdle
      BY <1>0, <2>1, <2>4, Zenon DEF NothingForwarded, UpIdle
    <2> QED BY <1>1, <2>2, <2>3, <2>4, Zenon DEF tcp_splice_f
  <1>2. ASSUME NEW n \in 1 .. Wnd, tcp_recv_handler(n)
        PROVE  UpReceive
    <2>1. /\ pcb /\ ~pcbEof /\ n <= appLeft /\ n <= lwip.wnd
          /\ queue' = queue + n /\ appLeft' = appLeft - n /\ pc' = pc
          /\ UNCHANGED <<pcbEof, shutWr, srvGot>>
      BY <1>2, Zenon DEF tcp_recv_handler, Wakeup, srv
    <2>2. queue + n <= Wnd
      BY <1>0, <2>1, BoundsAssumption DEF WindowAccounting
    <2> QED BY <2>1, <2>2, Zenon DEF UpReceive
  <1>3. CASE tcp_recv_fin
    BY <1>3, Zenon DEF tcp_recv_fin, Wakeup, srv, UpFin
  <1>4. CASE destruct
    BY <1>4, Zenon DEF destruct, srv, UpDestroy
  <1>5. CASE UNCHANGED vars
    BY <1>5, Zenon DEF vars, ctl, app, srv, UpIdle
  <1>6. CASE \/ HandshakeDone \/ HandshakeFail \/ HandshakeBlocked
             \/ SpliceYield \/ SpliceResume \/ Drain \/ DrainResume
    BY <1>6, ZenonT(60)
       DEF HandshakeDone, HandshakeFail, HandshakeBlocked, SpliceYield,
           SpliceResume, Drain, DrainResume, Goto, Sleep, Resumed, app, srv,
           UpIdle
  <1>7. CASE \/ tcp_splice_b_read \/ tcp_splice_b_write \/ tcp_err_handler
             \/ \E n \in 1 .. MaxSize : tcp_sent_handler(n)
    BY <1>7, ZenonT(60)
       DEF tcp_splice_b_read, tcp_splice_b_write, tcp_err_handler,
           tcp_sent_handler, Goto, Wakeup, app, srv, UpIdle
  <1>8. CASE \/ terminate \/ SrvAnswer \/ TimerExpire \/ Poll
             \/ SrvSend \/ SrvEnd("eof") \/ SrvEnd("error") \/ SrvTake
    BY <1>8, ZenonT(60)
       DEF terminate, SrvAnswer, TimerExpire, Poll, SrvSend, SrvEnd, SrvTake,
           Wakeup, ctl, app, srv, UpIdle
  <1> QED BY <1>1, <1>2, <1>3, <1>4, <1>5, <1>6, <1>7, <1>8, ZenonT(60)
          DEF Next, SessionStep, Environment, Done

\* No byte of the application is lost or doubled.
LEMMA UpInvStep ==
    ASSUME TypeOK, WindowAccounting, UpInv, [Next]_vars PROVE UpInv'
  <1>1. /\ queue \in Nat /\ srvGot \in Nat /\ appLeft \in Nat
        /\ Wnd \in Nat /\ MaxApp \in Nat
    BY BoundsAssumption DEF TypeOK, TypeNumbers
  <1>2. CASE UpForward
    BY <1>1, <1>2 DEF UpForward, UpInv
  <1>3. CASE UpShut
    BY <1>1, <1>3 DEF UpShut, UpInv
  <1>4. CASE UpReceive
    BY <1>1, <1>4 DEF UpReceive, UpInv
  <1>5. CASE UpFin
    BY <1>1, <1>5 DEF UpFin, UpInv
  <1>6. CASE UpDestroy
    BY <1>1, <1>6 DEF UpDestroy, UpInv
  <1>7. CASE UpIdle
    BY <1>1, <1>7 DEF UpIdle, UpInv
  <1> QED BY UpSteps, <1>2, <1>3, <1>4, <1>5, <1>6, <1>7, Zenon

\* Every step of the session is a step of the upward stream, or none.
LEMMA UpRefines ==
    ASSUME TypeOK, WindowAccounting, ShutWrAfterLastByte, UpInv, [Next]_vars
    PROVE  [Up!Next]_upStream
  <1>1. /\ queue \in Nat /\ srvGot \in Nat /\ appLeft \in Nat
        /\ Wnd \in Nat /\ MaxApp \in Nat
    BY BoundsAssumption DEF TypeOK, TypeNumbers
  <1> USE DEF upStream
  <1>2. CASE UpForward
    <2>1. PICK s \in 1 .. queue :
            /\ queue' = queue - s /\ srvGot' = srvGot + s
            /\ pc # "done" /\ pc' # "done"
            /\ UNCHANGED <<pcbEof, shutWr, appLeft>>
      BY <1>2 DEF UpForward
    <2>2. /\ s \in 1 .. Wnd /\ ~shutWr
          /\ srvGot + s <= MaxApp - appLeft
      BY <1>1, <2>1 DEF UpInv, ShutWrAfterLastByte
    <2>3. Up!Deliver
      BY <2>1, <2>2 DEF Up!Deliver
    <2> QED BY <2>3 DEF Up!Next
  <1>3. CASE UpShut
    <2>1. srvGot = MaxApp - appLeft
      BY <1>1, <1>3 DEF UpShut, UpInv
    <2> DEFINE u(b) == [sent |-> MaxApp - appLeft, got |-> srvGot,
                        end |-> "eof", eof |-> b]
    <2>2. upStream = u(shutWr)
      BY <1>3, Zenon DEF UpShut
    <2>3. upStream' = u(TRUE)
      BY <1>3, Zenon DEF UpShut
    <2>4. ASSUME NEW b, NEW c PROVE [u(b) EXCEPT !.eof = c] = u(c)
      OBVIOUS
    <2>5. u(shutWr).end = "eof" /\ u(shutWr).got = u(shutWr).sent
      BY <2>1
    <2> HIDE DEF u, upStream
    <2>6. Up!DeliverEnd
      BY <2>2, <2>3, <2>4, <2>5, Zenon DEF Up!DeliverEnd
    <2> QED BY <2>6 DEF Up!Next
  <1>4. CASE UpReceive
    <2>1. PICK n \in 1 .. Wnd :
            /\ ~pcbEof /\ queue + n <= Wnd
            /\ appLeft' = appLeft - n /\ pc' = pc
            /\ UNCHANGED <<pcbEof, shutWr, srvGot>>
      BY <1>4 DEF UpReceive
    <2>2. CASE pc = "done"
      BY <2>1, <2>2
    <2>3. CASE pc # "done"
      <3>1. MaxApp - appLeft' = (MaxApp - appLeft) + n
        BY <1>1, <2>1
      <3>2. Up!Send
        BY <2>1, <2>3, <3>1 DEF Up!Send
      <3> QED BY <3>2 DEF Up!Next
    <2> QED BY <2>2, <2>3
  <1>5. CASE UpFin
    <2>1. CASE pc = "done"
      BY <1>5, <2>1 DEF UpFin
    <2>2. CASE pc # "done"
      <3>1. Up!End
        BY <1>5, <2>2 DEF UpFin, Up!End
      <3> QED BY <3>1 DEF Up!Next
    <2> QED BY <2>1, <2>2
  <1>6. CASE UpDestroy
    <2>1. Up!Break
      BY <1>6 DEF UpDestroy, Up!Break, Up!Broken
    <2> QED BY <2>1 DEF Up!Next
  <1>7. CASE UpIdle
    BY <1>7 DEF UpIdle
  <1> QED BY UpSteps, <1>2, <1>3, <1>4, <1>5, <1>6, <1>7, Zenon

\* tcp_recv_handler, tcp_splice_f and the half-close: the server receives the
\* application's stream as HevStream says.
THEOREM SessionCarriesUp == Spec => CarriesUp
  <1>1. Init => Up!Init
    <2> SUFFICES ASSUME Init PROVE Up!Init
      OBVIOUS
    <2>1. MaxApp - appLeft = 0
      BY BoundsAssumption DEF Init
    <2>2. upStream = [sent |-> MaxApp - appLeft, got |-> 0, end |-> "open",
                      eof |-> FALSE]
      BY Zenon DEF Init, upStream
    <2> QED BY <2>1, <2>2 DEF Up!Init
  <1>2. Init => UpInv
    BY BoundsAssumption DEF Init, UpInv
  <1>3. Spec => []UpInv
    BY <1>2, UpInvStep, SessionTypeOK, SessionWindow, PTL DEF Spec
  <1> QED BY <1>1, <1>3, UpRefines, SessionTypeOK, SessionWindow,
             SessionShutWr, PTL DEF Spec, CarriesUp, Up!Spec
----------------------------------------------------------------------------
(* From the server to the application.                                     *)

\* What a step does to the downward direction while lwIP keeps it whole.
DownSend ==
    /\ srvEnd = "open" /\ srvSent' = srvSent + 1
    /\ UNCHANGED <<srvEnd, srvRead>>
    /\ lwip'.nxt = lwip.nxt /\ lwip'.fin = lwip.fin

DownEnd ==
    /\ srvEnd # "error" /\ srvEnd' \in {"eof", "error"} /\ srvEnd' # srvEnd
    /\ UNCHANGED <<srvSent, srvRead>>
    /\ lwip'.nxt = lwip.nxt /\ lwip'.fin = lwip.fin

DownHand ==
    /\ pc = "w" /\ Reading(ring) # <<>> /\ pc' = "y"
    /\ UNCHANGED <<srvSent, srvEnd, srvRead>>
    /\ lwip'.fin = lwip.fin

DownFin ==
    /\ pc = "w" /\ resB = -1 /\ Reading(ring) = <<>>
    /\ UNCHANGED <<srvSent, srvEnd, srvRead>>
    /\ lwip'.nxt = lwip.nxt /\ lwip'.fin = TRUE

DownRead ==
    /\ srvRead' \in Nat /\ srvRead <= srvRead' /\ srvRead' <= srvSent
    /\ UNCHANGED <<srvSent, srvEnd>>
    /\ lwip'.nxt = lwip.nxt /\ lwip'.fin = lwip.fin

DownSteps ==
    DownSend \/ DownEnd \/ DownHand \/ DownFin \/ DownRead

\* readv takes no more than the server has sent.
LEMMA DownReads ==
    ASSUME IInv, DownInv, tcp_splice_b_read PROVE DownRead
  <1>1. srvRead \in Nat /\ srvSent \in Nat /\ srvRead <= srvSent
    BY DEF IInv, TypeOK, TypeNumbers, DownInv
  <1>2. UNCHANGED <<srvSent, srvEnd, lwip>>
    BY DEF tcp_splice_b_read, app, srv
  <1>3. CASE srvRead' = srvRead
    BY <1>1, <1>2, <1>3 DEF DownRead
  <1>4. CASE \E s \in 1 .. IovLen(Writing(ring)) :
                s <= srvSent - srvRead /\ Stored(Writing(ring), s)
    <2>1. PICK s \in 1 .. IovLen(Writing(ring)) :
                s <= srvSent - srvRead /\ Stored(Writing(ring), s)
      BY <1>4
    <2>2. srvRead' = srvRead + s
      BY <2>1 DEF Stored
    <2>3. IovLen(Writing(ring)) \in Nat
      BY WritingFree, MaxSizeAssumption DEF IInv, RingOK, RingBuffer
    <2> QED BY <1>1, <1>2, <2>1, <2>2, <2>3 DEF DownRead
  <1> QED BY <1>3, <1>4, Zenon DEF tcp_splice_b_read, NothingRead

\* tcp_write and tcp_shutdown.
LEMMA DownWrites ==
    ASSUME IInv, DownInv, tcp_splice_b_write, pcb
    PROVE  DownHand \/ DownFin \/ DownRead
  <1>1. /\ lwip \in [una : Nat, nxt : Nat, fin : BOOLEAN, wnd : Nat]
        /\ resB \in -1 .. 1 /\ srvRead \in Nat /\ srvSent \in Nat
        /\ srvRead <= srvSent
    BY DEF IInv, TypeOK, TypePcb, TypeNumbers, DownInv
  <1>2. pc = "w" /\ pc' = "y" /\ UNCHANGED <<srvSent, srvEnd, srvRead>>
    BY DEF tcp_splice_b_write, Goto, srv
  <1>3. CASE Reading(ring) # <<>> /\ Handed(Reading(ring))
    <2>1. PICK t : lwip' = [lwip EXCEPT !.nxt = @ + t]
      BY <1>3, Zenon DEF Handed
    <2>2. lwip'.fin = lwip.fin
      BY <1>1, <2>1
    <2> QED BY <1>2, <1>3, <2>2 DEF DownHand
  <1>4. CASE Reading(ring) = <<>> /\ NothingHanded(resB, resB < 0)
    <2>1. lwip'.nxt = lwip.nxt
      BY <1>1, <1>4 DEF NothingHanded
    <2>2. lwip'.fin = (lwip.fin \/ resB < 0)
      BY <1>1, <1>4 DEF NothingHanded
    <2>3. CASE resB < 0
      <3>1. resB = -1
        BY <1>1, <2>3
      <3>2. lwip'.fin = TRUE
        BY <2>2, <2>3, Zenon
      <3> QED BY <1>2, <1>4, <2>1, <3>1, <3>2 DEF DownFin
    <2>4. CASE ~(resB < 0)
      <3>1. lwip'.fin = lwip.fin
        BY <1>1, <2>2, <2>4
      <3> QED BY <1>1, <1>2, <2>1, <3>1 DEF DownRead
    <2> QED BY <2>3, <2>4
  <1> QED BY <1>3, <1>4, Zenon DEF tcp_splice_b_write

\* A step that leaves the connection to lwIP is one of these.
LEMMA DownCases ==
    ASSUME IInv, DownInv, [Next]_vars, pcb, pcb'
    PROVE  DownSteps
  <1>1. /\ lwip \in [una : Nat, nxt : Nat, fin : BOOLEAN, wnd : Nat]
        /\ srvRead \in Nat /\ srvSent \in Nat /\ srvRead <= srvSent
    BY DEF IInv, TypeOK, TypePcb, TypeNumbers, DownInv
  <1>2. ASSUME UNCHANGED <<srvSent, srvEnd, srvRead>>,
               lwip'.nxt = lwip.nxt, lwip'.fin = lwip.fin
        PROVE  DownRead
    BY <1>1, <1>2 DEF DownRead
  <1>3. CASE tcp_splice_f
    <2>1. UNCHANGED <<srvSent, srvEnd, srvRead>>
      BY <1>3 DEF tcp_splice_f, buf
    <2>2. \/ lwip' = lwip \/ \E s : lwip' = [lwip EXCEPT !.wnd = @ + s]
      BY <1>3, Zenon DEF tcp_splice_f, Forwarded, NothingForwarded
    <2> QED BY <1>1, <1>2, <2>1, <2>2 DEF DownSteps
  <1>4. ASSUME NEW n \in 1 .. Wnd, tcp_recv_handler(n)
        PROVE  DownRead
    BY <1>1, <1>2, <1>4 DEF tcp_recv_handler, buf, srv
  <1>5. ASSUME NEW n \in 1 .. MaxSize, tcp_sent_handler(n)
        PROVE  DownRead
    BY <1>1, <1>2, <1>5 DEF tcp_sent_handler, srv
  <1>6. CASE tcp_recv_fin
    BY <1>2, <1>6, Zenon DEF tcp_recv_fin, buf, srv, DownSteps
  <1>7. CASE tcp_err_handler \/ destruct
    BY <1>7, Zenon DEF tcp_err_handler, destruct
  <1>8. CASE UNCHANGED vars
    BY <1>2, <1>8, Zenon DEF vars, app, buf, srv, DownSteps
  <1>9. CASE \/ HandshakeDone \/ HandshakeFail \/ HandshakeBlocked
             \/ SpliceYield \/ SpliceResume \/ Drain \/ DrainResume
             \/ terminate \/ SrvAnswer \/ TimerExpire \/ Poll \/ SrvTake
    BY <1>2, <1>9, ZenonT(60)
       DEF HandshakeDone, HandshakeFail, HandshakeBlocked, SpliceYield,
           SpliceResume, Drain, DrainResume, terminate, SrvAnswer,
           TimerExpire, Poll, SrvTake, app, buf, srv, DownSteps
  <1>10. CASE SrvSend
    BY <1>10, Zenon DEF SrvSend, app, buf, DownSend, DownSteps
  <1>11. CASE SrvEnd("eof") \/ SrvEnd("error")
    BY <1>11 DEF SrvEnd, app, buf, DownEnd, DownSteps
  <1>12. CASE tcp_splice_b_read \/ tcp_splice_b_write
    BY <1>12, DownReads, DownWrites DEF DownSteps
  <1> QED BY <1>3, <1>4, <1>5, <1>6, <1>7, <1>8, <1>9, <1>10, <1>11, <1>12,
             ZenonT(60) DEF Next, SessionStep, Environment, Done, DownSteps

\* tcp_splice_b never reads past what the server has sent.
LEMMA DownInvStep == ASSUME IInv, DownInv, [Next]_vars PROVE DownInv'
  <1>1. srvRead \in Nat /\ srvSent \in Nat
    BY DEF IInv, TypeOK, TypeNumbers
  <1>2. CASE tcp_splice_b_read
    BY <1>2, DownReads DEF DownRead, DownInv
  <1>3. CASE SrvSend
    BY <1>1, <1>3 DEF SrvSend, buf, DownInv
  <1>4. CASE UNCHANGED <<srvRead, srvSent>>
    BY <1>4 DEF DownInv
  <1>5. tcp_splice_b_read \/ SrvSend \/ UNCHANGED <<srvRead, srvSent>>
    BY ZenonT(60)
       DEF Next, SessionStep, Environment, vars, Done, HandshakeDone,
           HandshakeFail, HandshakeBlocked, SpliceYield, SpliceResume, Drain,
           DrainResume, tcp_splice_f, tcp_splice_b_write, destruct,
           tcp_recv_handler, tcp_recv_fin, tcp_sent_handler, tcp_err_handler,
           terminate, SrvEnd, SrvTake, SrvAnswer, Poll, TimerExpire, buf, srv
  <1> QED BY <1>2, <1>3, <1>4, <1>5

\* A connection that lwIP lost, or a stream with a hole, stays so.
LEMMA DownLost ==
    ASSUME [Next]_vars
    PROVE  (~pcb => ~pcb') /\ (writeFailed => writeFailed')
  <1>1. CASE tcp_splice_b_write
    <2>1. pcb' = pcb
      BY <1>1 DEF tcp_splice_b_write
    <2>2. writeFailed => writeFailed'
      BY <1>1, Zenon DEF tcp_splice_b_write, Handed, NothingHanded
    <2> QED BY <2>1, <2>2
  <1>2. CASE tcp_err_handler \/ destruct
    <2>1. pcb' = FALSE /\ writeFailed' = writeFailed
      BY <1>2, Zenon DEF tcp_err_handler, destruct
    <2> QED BY <2>1
  <1>3. CASE UNCHANGED <<pcb, writeFailed>>
    BY <1>3
  <1>4. \/ tcp_splice_b_write \/ tcp_err_handler \/ destruct
        \/ UNCHANGED <<pcb, writeFailed>>
    BY ZenonT(60)
       DEF Next, SessionStep, Environment, vars, Done, HandshakeDone,
           HandshakeFail, HandshakeBlocked, SpliceYield, SpliceResume, Drain,
           DrainResume, tcp_splice_f, tcp_splice_b_read, tcp_recv_handler,
           tcp_recv_fin, tcp_sent_handler, terminate, SrvSend, SrvEnd,
           SrvTake, SrvAnswer, Poll, TimerExpire, app, buf
  <1> QED BY <1>1, <1>2, <1>3, <1>4, Zenon

\* Every step of the session is a step of the downward stream, or none.
LEMMA DownRefines ==
    ASSUME IInv, IInv', FinInv, DownInv, [Next]_vars
    PROVE  [Down!Next]_downStream
  <1> DEFINE d(n, g, e, b) == [sent |-> n, got |-> g, end |-> e, eof |-> b]
  <1>1. CASE ~pcb' \/ writeFailed'
    <2>1. Down!Break
      BY <1>1, Zenon DEF Down!Break, Down!Broken, downStream
    <2> QED BY <2>1 DEF Down!Next
  <1>2. CASE pcb' /\ ~writeFailed'
    <2>1. pcb /\ ~writeFailed
      BY <1>2, DownLost, Zenon
    <2>2. downStream = d(srvSent, lwip.nxt, srvEnd, lwip.fin)
      BY <2>1, Zenon DEF downStream
    <2>3. downStream' = d(srvSent', lwip'.nxt, srvEnd', lwip'.fin)
      BY <1>2, Zenon DEF downStream
    <2>4. /\ srvSent \in Nat /\ srvRead \in Nat /\ lwip.nxt \in Nat
          /\ lwip'.nxt \in Nat /\ ring.rda_size \in Nat
          /\ lwip.nxt + ring.rda_size = srvRead /\ srvRead <= srvSent
          /\ ring.rda_size <= MaxSize /\ MaxSize \in Nat
      <3>1. TypeNumbers /\ TypePcb /\ RingOK(ring) /\ InFlightCount
        BY DEF IInv, TypeOK
      <3>2. ring.rda_size \in Nat /\ ring.rda_size <= MaxSize /\ MaxSize \in Nat
        BY <3>1, MaxSizeAssumption DEF RingOK, RingBuffer
      <3>3. srvSent \in Nat /\ srvRead \in Nat /\ lwip.nxt \in Nat
        BY <3>1 DEF TypeNumbers, TypePcb
      <3>4. lwip'.nxt \in Nat
        BY DEF IInv, TypeOK, TypePcb
      <3>5. lwip.nxt + ring.rda_size = srvRead
        BY <2>1, <3>1 DEF InFlightCount
      <3> QED BY <3>2, <3>3, <3>4, <3>5 DEF DownInv
    <2>5. /\ downStream.sent = srvSent /\ downStream.got = lwip.nxt
          /\ downStream.end = srvEnd /\ downStream.eof = lwip.fin
      BY <2>2
    <2> DEFINE nxt == lwip.nxt
               fin == lwip.fin
    <2>6. downStream = d(srvSent, nxt, srvEnd, fin)
      BY <2>2
    <2> HIDE DEF nxt, fin
    <2>7. ASSUME NEW x
           PROVE  /\ [downStream EXCEPT !.sent = x] = d(x, nxt, srvEnd, fin)
                  /\ [downStream EXCEPT !.got = x] = d(srvSent, x, srvEnd, fin)
                  /\ [downStream EXCEPT !.end = x] = d(srvSent, nxt, x, fin)
                  /\ [downStream EXCEPT !.eof = x] = d(srvSent, nxt, srvEnd, x)
      BY <2>6
    <2> USE DEF nxt, fin
    <2> HIDE DEF d
    <2>8. CASE DownSend
      <3>1. 1 \in 1 .. MaxSize
        BY MaxSizeAssumption
      <3>2. downStream' = d(srvSent + 1, lwip.nxt, srvEnd, lwip.fin)
        BY <2>3, <2>8 DEF DownSend
      <3>3. downStream' = [downStream EXCEPT !.sent = downStream.sent + 1]
        BY <2>5, <2>7, <3>2, ZenonT(60)
      <3>4. downStream.end = "open"
        BY <2>5, <2>8 DEF DownSend
      <3>5. Down!Send
        BY <3>1, <3>3, <3>4, Zenon DEF Down!Send
      <3> QED BY <3>5 DEF Down!Next
    <2>9. CASE DownEnd
      <3>1. PICK how \in {"eof", "error"} : srvEnd' = how
        BY <2>9 DEF DownEnd
      <3>2. srvEnd \in {"open", "eof"}
        BY <2>9 DEF DownEnd, IInv, TypeOK, TypeNumbers
      <3>3. downStream.end \notin {how, "error", "broken"}
        BY <2>2, <2>5, <2>9, <3>1, <3>2 DEF DownEnd
      <3>4. downStream' = [downStream EXCEPT !.end = how]
        <4>1. downStream' = d(srvSent, lwip.nxt, how, lwip.fin)
          BY <2>3, <2>9, <3>1 DEF DownEnd
        <4> QED BY <2>7, <4>1, Zenon
      <3>5. Down!End
        BY <3>3, <3>4 DEF Down!End
      <3> QED BY <3>5 DEF Down!Next
    <2>10. CASE DownHand
      <3>1. /\ lwip'.nxt + ring'.rda_size = srvRead' /\ ring'.rda_size = 0
            /\ srvRead' = srvRead
        BY <1>2, <2>10 DEF IInv, InFlightCount, Unread, DownHand
      <3>2. ring.rda_size # 0
        BY <2>10 DEF DownHand, Reading
      <3>3. ~lwip.fin
        BY <2>10 DEF DownHand, FinInv
      <3>4. /\ ring.rda_size \in 1 .. MaxSize
            /\ lwip'.nxt = lwip.nxt + ring.rda_size
            /\ lwip.nxt + ring.rda_size <= srvSent
        BY <2>4, <3>1, <3>2
      <3>5. downStream' = d(srvSent, lwip.nxt + ring.rda_size, srvEnd, lwip.fin)
        BY <2>3, <2>10, <3>4 DEF DownHand
      <3>6. downStream' =
                [downStream EXCEPT !.got = downStream.got + ring.rda_size]
        BY <2>5, <2>7, <3>5, ZenonT(60)
      <3>7. ~downStream.eof
        BY <2>5, <3>3, Zenon
      <3>8. downStream.got + ring.rda_size <= downStream.sent
        BY <2>5, <3>4
      <3>9. Down!Deliver
        BY <3>4, <3>6, <3>7, <3>8, Zenon DEF Down!Deliver
      <3> QED BY <3>9 DEF Down!Next
    <2>11. CASE DownFin
      <3>1. ring.rda_size = 0
        BY <2>11 DEF DownFin, Reading, Segments
      <3>2. lwip.nxt = srvRead
        BY <2>4, <3>1
      <3>3. /\ srvEnd \in {"eof", "error"}
            /\ srvEnd = "eof" => lwip.nxt = srvSent
        BY <2>11, <3>2 DEF DownFin, FinInv, IInv, TypeOK, TypeNumbers
      <3>4. downStream' = d(srvSent, lwip.nxt, srvEnd, TRUE)
        BY <2>3, <2>11, Zenon DEF DownFin
      <3>5. downStream' = [downStream EXCEPT !.eof = TRUE]
        BY <2>7, <3>4, Zenon
      <3>6. \/ downStream.end = "eof" /\ downStream.got = downStream.sent
            \/ downStream.end = "error"
        BY <2>5, <3>3
      <3>7. Down!DeliverEnd
        BY <3>5, <3>6, Zenon DEF Down!DeliverEnd
      <3> QED BY <3>7 DEF Down!Next
    <2>12. CASE DownRead
      BY <2>2, <2>3, <2>12, Zenon DEF DownRead
    <2> QED BY <2>1, <1>2, DownCases, <2>8, <2>9, <2>10, <2>11, <2>12
            DEF DownSteps
  <1> QED BY <1>1, <1>2, Zenon

\* tcp_splice_b, the ring buffer and tcp_shutdown: the application receives
\* the server's stream as HevStream says.
THEOREM SessionCarriesDown == Spec => CarriesDown
  <1>1. Init => Down!Init
    <2> SUFFICES ASSUME Init PROVE Down!Init
      OBVIOUS
    <2>1. downStream = [sent |-> srvSent, got |-> lwip.nxt, end |-> srvEnd,
                        eof |-> lwip.fin]
      BY Zenon DEF Init, downStream
    <2>2. srvSent = 0 /\ lwip.nxt = 0 /\ srvEnd = "open"
      BY DEF Init
    <2>3. lwip.fin = FALSE
      BY Zenon DEF Init
    <2> QED BY <2>1, <2>2, <2>3, Zenon DEF Down!Init
  <1>2. Init => DownInv
    BY DEF Init, DownInv
  <1>3. Spec => []DownInv
    BY <1>2, DownInvStep, SessionIInv, PTL DEF Spec
  <1>4. Spec => []FinInv
    BY InitClose, FinStep, SessionIInv, PTL DEF Spec
  <1> QED BY <1>1, <1>3, <1>4, DownRefines, SessionIInv, PTL
          DEF Spec, CarriesDown, Down!Spec

----------------------------------------------------------------------------
(* Sleeps and the abort.                                                   *)

\* What tcp_splice_f and tcp_splice_b could do.
WantF == \/ queue > 0 /\ (sndSpace > 0 \/ srvEnd = "error")
         \/ queue = 0 /\ pcbEof
WantB == /\ ring.use_size < MaxSize
         /\ srvRead < srvSent \/ srvEnd # "open"

Asleep == pc = "splice" /\ task = "WAITING"
OnCpu == pc \notin {"handshake", "splice", "drain", "done"}

\* A direction that found nothing to do has an edge on its way if there is
\* something by now.
ForwardHeeds == resF = 0 /\ WantF => edge
BackHeeds == resB = 0 /\ WantB => edge

WakeInv ==
    /\ OnCpu => task = "RUNNING"
    /\ pc \in {"b", "w", "y"} \/ Asleep => ForwardHeeds
    /\ pc \in {"w", "y"} \/ Asleep => BackHeeds
    /\ Asleep => resF <= 0 /\ resB <= 0

\* The invariant is about the two directions one by one.
LEMMA WakeSuffices == ASSUME TypeOK, WakeInv PROVE NoLostWakeup
<1>1. resF \in -1 .. 1 /\ resB \in -1 .. 1
  BY DEF TypeOK, TypeNumbers
<1> SUFFICES ASSUME Asleep, (resF >= 0 /\ WantF) \/ (resB >= 0 /\ WantB) PROVE edge
  BY Zenon DEF NoLostWakeup, Asleep, WantF, WantB
<1>2. /\ resF <= 0 /\ resB <= 0 /\ ForwardHeeds /\ BackHeeds
  BY DEF WakeInv
<1>3. CASE resF >= 0 /\ WantF
  <2>1. resF = 0
    BY <1>1, <1>2, <1>3
  <2> QED BY <1>2, <1>3, <2>1 DEF ForwardHeeds
<1>4. CASE resB >= 0 /\ WantB
  <2>1. resB = 0
    BY <1>1, <1>2, <1>4
  <2> QED BY <1>2, <1>4, <2>1 DEF BackHeeds
<1> QED BY <1>3, <1>4

\* A step that leaves the task awake and outside the three places.
LEMMA AwakeKeeps ==
    ASSUME task' = "RUNNING" \/ pc' = "done", pc' \notin {"b", "w", "y"},
           pc' # "splice" \/ task' = "RUNNING"
    PROVE  WakeInv'
  BY DEF WakeInv, Asleep, OnCpu

\* Events of the server, at any time.
LEMMA ServerWake ==
    ASSUME TypeOK, WakeInv, SrvSend \/ SrvEnd("eof") \/ SrvEnd("error") \/ SrvTake
    PROVE  WakeInv'
<1>1. UNCHANGED <<pc, task, resF, resB, ring, queue, pcbEof, srvRead>>
  BY DEF SrvSend, SrvEnd, SrvTake, ctl, res, buf, app
<1>2. (ForwardHeeds => ForwardHeeds') /\ (BackHeeds => BackHeeds')
  <2>1. CASE edge'
    BY <2>1 DEF ForwardHeeds, BackHeeds
  <2>2. CASE ~edge'
    <3>1. /\ SrvTake /\ sndSpace' = sndSpace + 1 /\ ~edge /\ sndSpace # 0
          /\ UNCHANGED <<srvSent, srvEnd>>
      BY <2>2, Zenon DEF SrvSend, SrvEnd, SrvTake
    <3>2. sndSpace \in Nat /\ sndSpace > 0
      BY <3>1 DEF TypeOK, TypeNumbers
    <3>3. (WantF' => WantF) /\ (WantB' => WantB)
      BY <1>1, <3>1, <3>2 DEF WantF, WantB
    <3> QED BY <1>1, <3>1, <3>3 DEF ForwardHeeds, BackHeeds
  <2> QED BY <2>1, <2>2
<1>3. (Asleep' <=> Asleep) /\ (OnCpu' <=> OnCpu)
  BY <1>1 DEF Asleep, OnCpu
<1> QED BY <1>1, <1>2, <1>3 DEF WakeInv

\* lwIP's callbacks, the poll and the timer wake the task up.
LEMMA EventWake ==
    ASSUME WakeInv,
           \/ \E n \in 1 .. Wnd : tcp_recv_handler(n)
           \/ tcp_recv_fin \/ \E n \in 1 .. MaxSize : tcp_sent_handler(n)
           \/ tcp_err_handler \/ terminate \/ SrvAnswer \/ Poll \/ TimerExpire
    PROVE  WakeInv'
<1>1. OffCpu /\ task' = "RUNNING" /\ pc' = pc
  <2>1. CASE \E n \in 1 .. Wnd : tcp_recv_handler(n)
    BY <2>1, Zenon DEF tcp_recv_handler, Wakeup
  <2>2. CASE \E n \in 1 .. MaxSize : tcp_sent_handler(n)
    BY <2>2, Zenon DEF tcp_sent_handler, Wakeup
  <2>3. CASE SrvAnswer
    BY <2>3 DEF SrvAnswer, Wakeup, OffCpu
  <2>4. CASE tcp_recv_fin \/ tcp_err_handler \/ terminate \/ Poll \/ TimerExpire
    BY <2>4, Zenon DEF tcp_recv_fin, tcp_err_handler, terminate, Poll, TimerExpire,
                       Wakeup
  <2> QED BY <2>1, <2>2, <2>3, <2>4
<1>2. pc' \notin {"b", "w", "y"}
  BY <1>1 DEF OffCpu
<1> QED BY <1>1, <1>2, AwakeKeeps

\* tcp_splice_f finds nothing only if there is nothing.
LEMMA ForwardWake ==
    ASSUME TypeOK, WakeInv, tcp_splice_f PROVE WakeInv'
<1>1. /\ pc = "f" /\ pc' = "b" /\ task' = task
      /\ UNCHANGED <<pcbEof, srvEnd, edge>>
  BY DEF tcp_splice_f, Goto
<1>2. task' = "RUNNING"
  BY <1>1 DEF WakeInv, OnCpu
<1>3. queue \in Nat /\ sndSpace \in Nat
  BY DEF TypeOK, TypeNumbers
<1>4. ASSUME resF' = 0 PROVE ~WantF'
  <2>1. \/ queue > 0 /\ srvEnd # "error" /\ sndSpace = 0 /\ NothingForwarded(0, FALSE)
        \/ queue = 0 /\ ~pcbEof /\ NothingForwarded(0, FALSE)
    BY <1>4 DEF tcp_splice_f, NothingForwarded, Forwarded
  <2>2. queue' = queue /\ sndSpace' = sndSpace
    BY <2>1 DEF NothingForwarded
  <2>3. CASE queue > 0 /\ srvEnd # "error" /\ sndSpace = 0
    BY <1>1, <1>3, <2>2, <2>3 DEF WantF
  <2>4. CASE queue = 0 /\ ~pcbEof
    <3>1. queue' = 0 /\ ~pcbEof' /\ ~(0 > 0)
      BY <1>1, <2>2, <2>4
    <3> QED BY <3>1, Zenon DEF WantF
  <2> QED BY <2>1, <2>3, <2>4
<1>5. ForwardHeeds'
  BY <1>4 DEF ForwardHeeds
<1> QED BY <1>1, <1>2, <1>5 DEF WakeInv, Asleep

\* So does the read of tcp_splice_b, which also stops at a full ring.
LEMMA ReadWake ==
    ASSUME IInv, WakeInv, tcp_splice_b_read PROVE WakeInv'
<1>1. /\ pc = "b" /\ pc' \in {"w", "y"} /\ task' = task
      /\ UNCHANGED <<resF, queue, pcbEof, srvSent, srvEnd, sndSpace, edge>>
  BY DEF tcp_splice_b_read, Goto, app, srv
<1>2. task' = "RUNNING" /\ ForwardHeeds
  BY <1>1 DEF WakeInv, OnCpu
<1>3. ForwardHeeds'
  BY <1>1, <1>2 DEF ForwardHeeds, WantF
<1>4. /\ srvSent \in Nat /\ srvRead \in Nat /\ RingOK(ring) /\ resB \in -1 .. 1
  BY DEF IInv, TypeOK, TypeNumbers
<1>5. ASSUME resB' = 0 PROVE ~WantB'
  <2>1. /\ NothingRead(0)
        /\ Writing(ring) = <<>> \/ (srvEnd = "open" /\ srvRead = srvSent)
    <3>1. \/ resB < 0 /\ NothingRead(resB)
          \/ Writing(ring) = <<>> /\ NothingRead(0)
          \/ NothingRead(-1)
          \/ srvEnd = "open" /\ srvRead = srvSent /\ NothingRead(0)
          \/ resB' = 1
      BY Zenon DEF tcp_splice_b_read, Stored
    <3>2. resB' # 1 /\ ~NothingRead(-1)
      BY <1>5 DEF NothingRead
    <3>3. ~(resB < 0 /\ NothingRead(resB))
      BY <1>4, <1>5 DEF NothingRead
    <3> QED BY <3>1, <3>2, <3>3, Zenon
  <2>2. ring' = ring /\ srvRead' = srvRead
    BY <2>1 DEF NothingRead
  <2>3. CASE Writing(ring) = <<>>
    <3>1. IovLen(Writing(ring)) = MaxSize - ring.use_size
      BY <1>4, WritingFree
    <3>2. IovLen(<<>>) = 0
      BY DEF IovLen
    <3>3. MaxSize \in Nat /\ ring.use_size \in Nat
      BY <1>4, MaxSizeAssumption DEF RingOK, RingBuffer
    <3>4. ring.use_size = MaxSize
      BY <2>3, <3>1, <3>2, <3>3
    <3> QED BY <2>2, <3>3, <3>4 DEF WantB
  <2>4. CASE srvEnd = "open" /\ srvRead = srvSent
    BY <1>1, <1>4, <2>2, <2>4 DEF WantB
  <2> QED BY <2>1, <2>3, <2>4
<1>6. BackHeeds'
  BY <1>5 DEF BackHeeds
<1> QED BY <1>1, <1>2, <1>3, <1>6 DEF WakeInv, Asleep

\* The write hands over what the ring has, or leaves it as it is.
LEMMA WriteWake ==
    ASSUME IInv, WakeInv, tcp_splice_b_write PROVE WakeInv'
<1>1. /\ pc = "w" /\ pc' = "y" /\ task' = task
      /\ UNCHANGED <<resF, queue, pcbEof, srvRead, srvSent, srvEnd, sndSpace, edge>>
  BY DEF tcp_splice_b_write, Goto, srv
<1>2. task' = "RUNNING" /\ ForwardHeeds /\ BackHeeds
  BY <1>1 DEF WakeInv, OnCpu
<1>3. ForwardHeeds'
  BY <1>1, <1>2 DEF ForwardHeeds, WantF
<1>4. ASSUME resB' = 0 PROVE resB = 0 /\ ring' = ring
  <2>1. CASE \E iov : Handed(iov)
    BY <1>4, <2>1 DEF Handed
  <2>2. CASE NothingHanded(resB, resB < 0)
    BY <1>4, <2>2 DEF NothingHanded
  <2>3. CASE NothingHanded(-1, FALSE)
    BY <1>4, <2>3 DEF NothingHanded
  <2> QED BY <2>1, <2>2, <2>3, Zenon DEF tcp_splice_b_write
<1>5. BackHeeds'
  BY <1>1, <1>2, <1>4 DEF BackHeeds, WantB
<1> QED BY <1>1, <1>2, <1>3, <1>5 DEF WakeInv, Asleep

\* The splice goes to sleep with nothing found in either direction.
LEMMA YieldWake ==
    ASSUME TypeOK, WakeInv, SpliceYield PROVE WakeInv'
<1>1. pc = "y" /\ UNCHANGED <<res, buf, app, srv>>
  BY DEF SpliceYield
<1>2. task = "RUNNING" /\ ForwardHeeds /\ BackHeeds
  BY <1>1 DEF WakeInv, OnCpu
<1>3. UNCHANGED <<resF, resB, queue, pcbEof, ring, srvRead, srvSent, srvEnd, sndSpace, edge>>
  BY <1>1 DEF res, buf, app, srv
<1>4. ForwardHeeds' /\ BackHeeds'
  BY <1>2, <1>3 DEF ForwardHeeds, BackHeeds, WantF, WantB
<1>5. \/ Goto("splice") \/ Goto("leave")
      \/ ~(resF > 0 \/ resB > 0) /\ Sleep("splice")
  BY Zenon DEF SpliceYield
<1>6. CASE Goto("splice") \/ Goto("leave")
  <2>1. task' = "RUNNING" /\ pc' \in {"splice", "leave"}
    BY <1>2, <1>6 DEF Goto
  <2> QED BY <2>1, AwakeKeeps
<1>7. CASE ~(resF > 0 \/ resB > 0) /\ Sleep("splice")
  <2>1. pc' = "splice" /\ task' = "WAITING"
    BY <1>7 DEF Sleep
  <2>2. resF' <= 0 /\ resB' <= 0
    BY <1>3, <1>7 DEF TypeOK, TypeNumbers
  <2> QED BY <1>4, <2>1, <2>2 DEF WakeInv, OnCpu
<1> QED BY <1>5, <1>6, <1>7

\* The steps before and behind the splice.
LEMMA ControlWake ==
    ASSUME WakeInv,
           \/ HandshakeDone \/ HandshakeFail \/ HandshakeBlocked
           \/ SpliceResume \/ Drain \/ DrainResume \/ destruct
    PROVE  WakeInv'
<1>1. CASE HandshakeBlocked \/ (Drain /\ Sleep("drain"))
  <2>1. pc' \in {"handshake", "drain"}
    BY <1>1 DEF HandshakeBlocked, Sleep
  <2> QED BY <2>1 DEF WakeInv, OnCpu, Asleep
<1>2. CASE destruct
  BY <1>2, AwakeKeeps DEF destruct
<1>3. CASE HandshakeDone \/ HandshakeFail \/ SpliceResume \/ DrainResume
  <2>1. task' = "RUNNING" /\ pc' \in {"f", "leave", "destruct"}
    BY <1>3 DEF HandshakeDone, HandshakeFail, SpliceResume, DrainResume, Goto, Resumed
  <2> QED BY <2>1, AwakeKeeps
<1>4. CASE Drain /\ Goto("destruct")
  <2>1. task' = "RUNNING" /\ pc' = "destruct"
    BY <1>4 DEF Drain, Goto, WakeInv, OnCpu
  <2> QED BY <2>1, AwakeKeeps
<1>5. Drain => Sleep("drain") \/ Goto("destruct")
  BY DEF Drain
<1> QED BY <1>1, <1>2, <1>3, <1>4, <1>5

\* The splice never sleeps over something hev_socks5_session_tcp_splice could
\* do: an event that wakes it up is on its way, for every size of the ring,
\* the window and the socket's buffer.
THEOREM SessionNeverOversleeps == Spec => []NoLostWakeup
<1>1. Init => WakeInv
  BY DEF Init, WakeInv, OnCpu, Asleep
<1>2. ASSUME IInv, WakeInv, [Next]_vars PROVE WakeInv'
  <2>1. TypeOK
    BY <1>2 DEF IInv
  <2>2. CASE Done \/ UNCHANGED vars
    <3>1. UNCHANGED <<pc, task, resF, resB, queue, pcbEof, ring, srvRead, srvSent,
                      srvEnd, sndSpace, edge>>
      BY <2>2 DEF Done, vars, ctl, res, buf, app, srv
    <3> QED BY <1>2, <3>1 DEF WakeInv, OnCpu, Asleep, ForwardHeeds, BackHeeds,
               WantF, WantB
  <2> QED BY <1>2, <2>1, <2>2, ServerWake, EventWake, ForwardWake, ReadWake, WriteWake,
             YieldWake, ControlWake, Zenon DEF Next, SessionStep, Environment
<1>3. IInv /\ WakeInv => NoLostWakeup
  BY WakeSuffices DEF IInv
<1> QED BY <1>1, <1>2, <1>3, SessionIInv, PTL DEF Spec

\* The drain loop of hev_socks5_session_tcp_splice: a session that ends by
\* itself behind the server's EOF aborts its pcb with nothing of the server's
\* stream unacknowledged.
THEOREM AbortKeepsStream == Spec => AbortLosesNothing
<1>1. Spec => []FinInv
  BY InitClose, FinStep, SessionIInv, PTL DEF Spec
<1>2. ASSUME IInv, FinInv, [Next]_vars
      PROVE  [/\ pc = "leave" /\ pc' = "destruct" /\ pcb /\ timeout # "zero"
              /\ ~writeFailed /\ srvEnd = "eof" /\ lwip.fin
              => lwip.una = srvSent]_vars
  <2> SUFFICES ASSUME pc = "leave", pc' = "destruct", pcb, timeout # "zero",
                      ~writeFailed, srvEnd = "eof", lwip.fin
               PROVE  lwip.una = srvSent
    OBVIOUS
  <2>1. Drain
    <3>1. pc' # pc /\ pc \notin {"handshake", "f", "b", "w", "y", "splice", "drain",
                                 "destruct", "done"}
      OBVIOUS
    <3>2. ~UNCHANGED pc
      BY <3>1
    <3>3. SessionStep
      BY <1>2, <3>2, Zenon DEF Next, Environment, Done, vars, ctl, Poll, TimerExpire,
         Wakeup, tcp_recv_handler, tcp_recv_fin, tcp_sent_handler, tcp_err_handler,
         terminate, SrvSend, SrvEnd, SrvTake, SrvAnswer
    <3> QED BY <3>3 DEF SessionStep, HandshakeDone, HandshakeFail, HandshakeBlocked,
            tcp_splice_f, tcp_splice_b_read, tcp_splice_b_write, SpliceYield,
            SpliceResume, DrainResume, destruct, Resumed
  <2>2. ring.use_size = 0
    BY <2>1 DEF Drain, Sleep
  <2>3. RingOK(ring) /\ lwip.una \in Nat /\ lwip.nxt \in Nat
    BY <1>2 DEF IInv, TypeOK, TypePcb
  <2>4. ring.rda_size = 0
    BY <2>2, <2>3 DEF RingOK, RingBuffer
  <2>5. lwip.nxt - lwip.una = 0
    BY <1>2, <2>2, <2>4 DEF IInv, InFlightCount
  <2>6. lwip.nxt = srvSent
    BY <1>2 DEF FinInv
  <2> QED BY <2>3, <2>5, <2>6
<1> QED BY <1>1, <1>2, SessionIInv, PTL DEF Spec, AbortLosesNothing
============================================================================

--------------------------- MODULE HevRingBuffer ---------------------------
(***************************************************************************)
(* The ring buffer of src/jni/src/misc/hev-ring-buffer.c.                  *)
(*                                                                         *)
(* A byte passes through three stages: written by the producer             *)
(* (write_finish), handed to the consumer (read_finish), released          *)
(* (read_release).  rda_size counts the bytes written and not yet handed   *)
(* out, use_size the bytes written and not yet released; the use_size -    *)
(* rda_size bytes in between are "in flight": the consumer still points    *)
(* into the buffer.                                                        *)
(*                                                                         *)
(* A buffer is a record of the four counters of the C structure.  An iovec *)
(* list is a sequence of records [base, len] whose base is an index of     *)
(* data[].                                                                 *)
(***************************************************************************)
EXTENDS Integers, Sequences

CONSTANT
    MaxSize    \* max_size: the bytes of data[]

ASSUME MaxSizeAssumption == MaxSize \in Nat \ {0}

Slots == 0 .. MaxSize - 1

RingBuffer == [rp : Nat, wp : Nat, rda_size : Nat, use_size : Nat]

\* hev_ring_buffer_alloca
EmptyRing == [rp |-> 0, wp |-> 0, rda_size |-> 0, use_size |-> 0]

Iovec(base, len) == [base |-> base, len |-> len]

\* The one or two segments that cover size bytes from index p on.
Segments(p, size) ==
    LET upper_size == MaxSize - p
    IN  IF size <= upper_size
        THEN <<Iovec(p, size)>>
        ELSE <<Iovec(p, upper_size), Iovec(0, size - upper_size)>>

Reading(rb) ==
    IF rb.rda_size = 0 THEN <<>> ELSE Segments(rb.rp, rb.rda_size)

\* Mutant: the bytes in flight count as free.
Writing_OverInFlight(rb) ==
    IF rb.rda_size = MaxSize THEN <<>>
                             ELSE Segments(rb.wp, MaxSize - rb.rda_size)

Writing(rb) ==
    IF rb.use_size = MaxSize THEN <<>>
                             ELSE Segments(rb.wp, MaxSize - rb.use_size)

\* Mutant: what is handed out is released at once.
ReadFinish_Releases(rb, size) ==
    [rb EXCEPT !.rp = (@ + size) % MaxSize, !.rda_size = @ - size,
               !.use_size = @ - size]

ReadFinish(rb, size) ==
    [rb EXCEPT !.rp = (@ + size) % MaxSize, !.rda_size = @ - size]

ReadRelease(rb, size) ==
    IF rb.use_size = size
    THEN [rb EXCEPT !.use_size = 0, !.rp = 0, !.wp = 0]
    ELSE [rb EXCEPT !.use_size = @ - size]

WriteFinish(rb, size) ==
    [rb EXCEPT !.wp = (@ + size) % MaxSize,
               !.use_size = @ + size,
               !.rda_size = @ + size]

----------------------------------------------------------------------------
(* How a scatter/gather call (readv, or tcp_write segment by segment) walks *)
(* an iovec list: byte i, counted from 0, is in segment SegOf at Slot.     *)

IovLen(iov) ==
    IF iov = <<>> THEN 0
    ELSE IF Len(iov) = 1 THEN iov[1].len ELSE iov[1].len + iov[2].len

SegOf(iov, i) == IF i < iov[1].len THEN 1 ELSE 2

Slot(iov, i) == IF i < iov[1].len THEN iov[1].base + i
                                  ELSE iov[2].base + (i - iov[1].len)
============================================================================

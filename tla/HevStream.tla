----------------------------- MODULE HevStream -----------------------------
(***************************************************************************)
(* What a session promises for one direction of a connection, whatever     *)
(* carries it: a stream of bytes that arrives in order and only as far as  *)
(* it was sent, whose end is announced behind its last byte.  A stream may *)
(* break, and then nothing is promised any more; a sender that fails may   *)
(* be announced as an end at any place.                                    *)
(***************************************************************************)
EXTENDS Integers

CONSTANT Chunk   \* the largest number of bytes moved by one step

VARIABLE stream

Broken == [sent |-> 0, got |-> 0, end |-> "broken", eof |-> FALSE]

Init == stream = [sent |-> 0, got |-> 0, end |-> "open", eof |-> FALSE]

Send == \E n \in 1 .. Chunk :
    /\ stream.end = "open"
    /\ stream' = [stream EXCEPT !.sent = @ + n]

End == \E how \in {"eof", "error"} :
    /\ stream.end \notin {how, "error", "broken"}
    /\ stream' = [stream EXCEPT !.end = how]

Deliver == \E n \in 1 .. Chunk :
    /\ ~stream.eof /\ stream.got + n <= stream.sent
    /\ stream' = [stream EXCEPT !.got = @ + n]

DeliverEnd ==
    /\ \/ stream.end = "eof" /\ stream.got = stream.sent
       \/ stream.end = "error"
    /\ stream' = [stream EXCEPT !.eof = TRUE]

Break == stream' = Broken

Next == Send \/ End \/ Deliver \/ DeliverEnd \/ Break

Spec == Init /\ [][Next]_stream
============================================================================

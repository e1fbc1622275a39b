--------------------------- MODULE HevDNSMessage ---------------------------
(***************************************************************************)
(* hev_mapped_dns_handle again, with the layout of the message: where its  *)
(* questions start (ipo[]), and what the answers written behind them point *)
(* to.  The cache is HevMappedDNS, each of whose steps is one of these.    *)
(*                                                                         *)
(* Lengths are in bytes in the code: HdrLen is 12, TailLen (type and       *)
(* class) 4, AnsLen 16, PtrMod 256 and SLen UDP_BUF_SIZE.  Spans are the   *)
(* lengths a name can have, its last zero included.                        *)
(***************************************************************************)
EXTENDS HevMappedDNS

CONSTANTS HdrLen, Spans, TailLen, AnsLen, PtrMod, SLen

ASSUME LayoutAssumption ==
    /\ HdrLen \in Nat /\ TailLen \in Nat /\ AnsLen \in Nat
    /\ Spans \subseteq Nat /\ PtrMod \in Nat \ {0} /\ SLen \in Nat

VARIABLES
    qlen,   \* the length of the request
    off,    \* the place reached in it
    ans,    \* ipo[] and ips[]: the place of each question and its node
    asked   \* history: where the questions that can be answered start

message == <<qlen, off, ans, asked>>
mvars == <<vars, message>>

MInit == Init /\ qlen = 0 /\ off = 0 /\ ans = <<>> /\ asked = {}

message_handle(qd, n) ==
    /\ handle(qd)
    /\ n <= SLen
    /\ qlen' = n /\ off' = HdrLen /\ ans' = <<>> /\ asked' = {}

\* The next question ends before the request does.
Parsed(span) ==
    /\ off + span + TailLen <= qlen
    /\ off' = off + span + TailLen
    /\ UNCHANGED qlen

\* Mutant: the place is noted behind the name.
message_question_Late(node, span) ==
    /\ question(node) /\ Parsed(span)
    /\ ans' = Append(ans, [ipo |-> off + span, node |-> node])
    /\ asked' = asked \cup {[off |-> off, name |-> node.name]}

message_question(node, span) ==
    /\ question(node) /\ Parsed(span)
    /\ ans' = Append(ans, [ipo |-> off, node |-> node])
    /\ asked' = asked \cup {[off |-> off, name |-> node.name]}

message_skipped(span) ==
    /\ question_skipped /\ Parsed(span)
    /\ UNCHANGED <<ans, asked>>

message_ends ==
    /\ handle_ends
    /\ qlen' = 0 /\ off' = 0 /\ ans' = <<>> /\ asked' = {}

message_lookup(ip) == lookup(ip) /\ UNCHANGED message

MNext ==
    \/ \E qd \in 0 .. MaxQuestions, n \in HdrLen .. SLen : message_handle(qd, n)
    \/ \E node \in Nodes, span \in Spans : message_question(node, span)
    \/ \E span \in Spans : message_skipped(span)
    \/ message_ends
    \/ \E ip \in Addresses : message_lookup(ip)

MSpec == MInit /\ [][MNext]_mvars

----------------------------------------------------------------------------
(* The reply, once every question has been handled.                        *)

ReplyLen == off + AnsLen * Len(ans)

Replies == left = 0 /\ ReplyLen <= SLen

\* The second byte of the pointer is all that is kept of the offset.
Pointer(i) == ans[i].ipo % PtrMod

\* Every answer of a reply points to the question it answers, with the
\* address that stands for the name there when the reply is sent, whichever
\* questions were skipped; for questions that start in the first 256 bytes
\* and a message with no more names than the cache holds.
AnswersPoint ==
    Replies =>
        \A i \in 1 .. Len(ans) :
            /\ ans[i].ipo < PtrMod
            /\ Cardinality({a.name : a \in answers}) <= Max
            => \E q \in asked :
                /\ q.off = Pointer(i)
                /\ records[ans[i].node.idx].name = q.name
============================================================================

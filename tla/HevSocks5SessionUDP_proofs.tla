--------------------- MODULE HevSocks5SessionUDP_proofs ---------------------
(***************************************************************************)
(* Proofs about HevSocks5SessionUDP, for every pool, number of buffers,    *)
(* size of the socket's buffers and frame: UpInOrder, DownInOrder,         *)
(* NoLostWakeup and DamageNeedsLoss, and that it is an instance of the     *)
(* handshake it starts with, so that what holds of that one holds of it.   *)
(***************************************************************************)
EXTENDS HevSocks5SessionUDP, HevSocks5Handshake_proofs

\* Where the session is when neither a batch nor a read is under way.
Between == {"hs", "hswait", "f", "fs", "fwait", "y", "splice", "destruct",
            "lock", "free", "done"}
Sending == {"fs", "fwait"}
InHead == {"bh", "hwait"}
InBody == {"bb", "bwait"}

\* A batch is at the head of the list, and what the server has of it is
\* counted by pos.
UpInv ==
    /\ frames \in Seq(Int) /\ idIn \in Int
    /\ num \in Nat /\ pos \in Nat /\ sent \in Nat /\ sent < UpUnits
    /\ sndSpace \in Nat
    /\ pc \in Sending => pos <= num * UpUnits
    /\ pc \notin Sending \cup {"crashed"} => pos = 0
    /\ UpInOrder

\* A read under way is inside a frame, behind the whole ones it has got.
DownInv ==
    /\ avail \in Nat /\ next \in Int /\ part \in Nat /\ got \in Seq(Int)
    /\ resB \in {-1, 0, 1}
    /\ pc \in Between => part = 0 /\ got = <<>>
    /\ pc \in {"b", "d"} => part = 0
    /\ pc = "b" /\ got # <<>> => Stream
    /\ pc \in {"d"} \cup InHead \cup InBody \/ got # <<>> => resB >= 0
    /\ pc \in InHead => Stream /\ part < Head5
    /\ pc \in InBody => Stream /\ part < DownUnits
    /\ DownInOrder

----------------------------------------------------------------------------
\* The sizes of a datagram in units.
LEMMA Units ==
    /\ UpUnits \in Nat \ {0} /\ DownUnits \in Nat \ {0}
    /\ Stream => UpUnits = Frame /\ DownUnits = Head5 + Body
    /\ ~Stream => UpUnits = 1 /\ DownUnits = 1
  BY SizesAssumption DEF UpUnits, DownUnits

\* The configuration is fixed, and with it all that depends on it.
LEMMA SameUnits ==
    ASSUME conf' = conf
    PROVE  /\ UpUnits' = UpUnits /\ DownUnits' = DownUnits
           /\ Stream' <=> Stream
  BY DEF UpUnits, DownUnits, Stream

\* The client does not change the configuration.
LEMMA ClientConf ==
    ASSUME ClientIO \/ client_read_timeout \/ client_close PROVE conf' = conf
<1>1. CASE write_auth_methods \/ write_auth_creds \/ write_request
  BY <1>1 DEF write_auth_methods, write_auth_creds, write_request
<1>2. CASE read_auth_method \/ read_auth_creds \/ read_response
  BY <1>2 DEF read_auth_method, read_auth_creds, read_response, ClientReads
<1>3. CASE client_read_eof \/ client_read_timeout \/ client_close
  BY <1>3 DEF client_read_eof, client_read_timeout, client_close
<1> QED BY <1>1, <1>2, <1>3 DEF ClientIO

\* Nor does the server.
LEMMA ServerConf ==
    ASSUME ServerIO \/ ServerReadFailure \/ server_close PROVE conf' = conf
<1>1. CASE \/ server_read_auth_method \/ server_read_auth_user
           \/ server_read_request
  BY <1>1 DEF server_read_auth_method, server_read_auth_user,
     server_read_request, ServerReads
<1>2. CASE \/ server_write_auth_method \/ server_write_auth_user
           \/ server_write_response \/ server_serve \/ server_close
  BY <1>2 DEF server_write_auth_method, server_write_auth_user,
     server_write_response, server_serve, server_close
<1>3. CASE ServerReadFailure
  BY <1>3 DEF ServerReadFailure, server_read_auth_method_fails,
     server_read_auth_user_fails, server_read_request_fails, ServerReadFails
<1> QED BY <1>1, <1>2, <1>3 DEF ServerIO

\* What \div and % compute.
LEMMA Division ==
    ASSUME NEW n \in Nat, NEW d \in Nat \ {0}
    PROVE  /\ n \div d \in Nat /\ n % d \in Nat /\ n % d < d
           /\ n = (n \div d) * d + (n % d)
<1>1. n \div d \in Nat /\ n % d \in Nat /\ n % d < d
  OBVIOUS
<1>2. n = d * (n \div d) + (n % d)
  OBVIOUS
<1>3. d * (n \div d) = (n \div d) * d
  BY <1>1
<1> QED BY <1>1, <1>2, <1>3

\* A quotient with a rest.
LEMMA Quotient ==
    ASSUME NEW q \in Nat, NEW d \in Nat \ {0}, NEW r \in Nat, r < d
    PROVE  (q * d + r) \div d = q /\ (q * d + r) % d = r
<1>1. q * d \in Nat
  OBVIOUS
<1>2. (q * d + r) \div d = q
  BY <1>1
<1>3. (q * d + r) % d = r
  BY <1>1
<1> QED BY <1>2, <1>3

----------------------------------------------------------------------------
(* From the server to the application.                                     *)

\* Steps that have nothing to do with this direction ...
DownMove ==
    \/ pc' = pc \/ pc' = "crashed"
    \/ pc \in Between /\ pc' \in Between \cup {"b"}
    \/ pc = "b" /\ resB < 0 /\ pc' = "y"

DownAside ==
    /\ conf' = conf /\ avail' \in Nat /\ DownMove
    /\ UNCHANGED <<next, part, got, wild, resB>>

\* A step that does not read nor deliver.
LEMMA AsideKeepsDown == ASSUME DownInv, DownAside PROVE DownInv'
<1>1. /\ DownUnits' = DownUnits /\ (Stream' <=> Stream)
      /\ UNCHANGED <<next, part, got, wild, resB>> /\ avail' \in Nat
  BY SameUnits DEF DownAside
<1>2. DownInOrder'
  BY <1>1 DEF DownInv, DownInOrder
<1>3. CASE pc' = pc
  BY <1>1, <1>2, <1>3 DEF DownInv
<1>4. CASE pc' = "crashed"
  BY <1>1, <1>2, <1>4 DEF DownInv, Between, InHead, InBody
<1>5. CASE pc \in Between /\ pc' \in Between \cup {"b"}
  BY <1>1, <1>2, <1>5 DEF DownInv, Between, InHead, InBody
<1>6. CASE pc = "b" /\ resB < 0 /\ pc' = "y"
  <2>1. got = <<>> /\ part = 0
    BY <1>6 DEF DownInv
  <2> QED BY <1>1, <1>2, <1>6, <2>1 DEF DownInv, Between, InHead, InBody
<1> QED BY <1>3, <1>4, <1>5, <1>6 DEF DownAside, DownMove

\* ... and those that give up what was read: the direction has failed, or its
\* place in the stream is lost.
DownFails ==
    /\ conf' = conf /\ avail' \in Nat /\ next' \in Int
    /\ part' = 0 /\ got' = <<>> /\ pc' \in {"y", "crashed"}
    /\ resB' \in {-1, 0, 1} /\ (wild' \/ resB' = -1)

\* A read that fails ends the stream.
LEMMA FailsKeepsDown == ASSUME DownFails PROVE DownInv'
<1>1. DownInOrder'
  BY DEF DownFails, DownInOrder
<1> QED BY <1>1 DEF DownFails, DownInv, Between, InHead, InBody

\* A step within recvmmsg.
DownReads(n, p) ==
    /\ conf' = conf /\ avail' \in Nat /\ next' = next + n /\ part' = part + n
    /\ pc' = p /\ UNCHANGED <<resB, wild, got>>

\* A read that stays within a frame.
LEMMA ReadsKeepsDown ==
    ASSUME DownInv, Stream, resB >= 0, NEW n \in Nat, NEW p,
           pc \in {"b"} \cup InHead \cup InBody,
           DownReads(n, p),
           \/ p \in InHead /\ part + n < Head5
           \/ p \in InBody /\ part + n < DownUnits
    PROVE  DownInv'
<1>1. /\ DownUnits' = DownUnits /\ (Stream' <=> Stream)
      /\ DownUnits \in Nat \ {0}
  BY SameUnits, Units DEF DownReads
<1>2. DownInOrder'
  <2> SUFFICES ASSUME ~wild
               PROVE  /\ \A i \in 1 .. Len(got') : got'[i] = i - 1
                      /\ next' = Len(got') * DownUnits + part'
    BY <1>1 DEF DownInOrder, DownReads
  <2>1. /\ \A i \in 1 .. Len(got) : got[i] = i - 1
        /\ next = Len(got) * DownUnits + part
    BY DEF DownInv, DownInOrder
  <2>2. Len(got) * DownUnits \in Nat /\ part \in Nat
    BY <1>1 DEF DownInv
  <2>3. got' = got /\ next' = next + n /\ part' = part + n
    BY DEF DownReads
  <2> QED BY <2>1, <2>2, <2>3
<1>3. pc' \in InHead \cup InBody /\ part' \in Nat /\ next' \in Int
  BY DEF DownReads, DownInv
<1> QED BY <1>1, <1>2, <1>3 DEF DownReads, DownInv, Between, InHead, InBody

\* The steps of the splice and of the environment that leave it alone.
LEMMA HsDown ==
    ASSUME DownInv, hs_io \/ hs_wait \/ hs_timeout \/ hs_resume
    PROVE  DownAside
<1>1. CASE hs_io
  <2>1. conf' = conf
    BY <1>1, ClientConf DEF hs_io
  <2>2. pc = "hs" /\ AfterHandshake /\ UNCHANGED <<res, dnv>>
    BY <1>1 DEF hs_io
  <2> QED BY <2>1, <2>2
          DEF DownAside, DownMove, AfterHandshake, Goto, Between, res, dnv, DownInv
<1>2. CASE hs_timeout
  <2>1. conf' = conf
    BY <1>2, ClientConf DEF hs_timeout
  <2>2. pc \in {"hs", "hswait"} /\ AfterHandshake /\ UNCHANGED <<res, dnv>>
    BY <1>2 DEF hs_timeout, Resumed
  <2> QED BY <2>1, <2>2
          DEF DownAside, DownMove, AfterHandshake, Goto, Between, res, dnv, DownInv
<1>3. CASE hs_wait \/ hs_resume
  BY <1>3 DEF hs_wait, hs_resume, Resumed, Sleep, DownAside, DownMove, Goto,
     Between, hvars, res, dnv, DownInv
<1> QED BY <1>1, <1>2, <1>3

\* The sends do not touch the way down.
LEMMA SendDown ==
    ASSUME DownInv, \/ fwd_f \/ sendmmsg \/ sendmmsg_error \/ sendmmsg_wait
                    \/ sendmmsg_resume \/ fwd_b_skip
    PROVE  DownAside
<1>1. CASE fwd_f
  BY <1>1 DEF fwd_f, DownAside, DownMove, Goto, Between, hvars, dnv, DownInv
<1>2. CASE sendmmsg
  BY <1>2 DEF sendmmsg, DownAside, DownMove, Goto, Between, hvars, dnv, DownInv
<1>3. CASE sendmmsg_error
  BY <1>3 DEF sendmmsg_error, DownAside, DownMove, Goto, Between, hvars, dnv,
     DownInv
<1>4. CASE sendmmsg_wait
  BY <1>4 DEF sendmmsg_wait, DownAside, DownMove, Sleep, GiveUp, Between, hvars,
     dnv, DownInv
<1>5. CASE sendmmsg_resume
  BY <1>5 DEF sendmmsg_resume, Resumed, DownAside, DownMove, Goto, Between,
     hvars, dnv, DownInv
<1>6. CASE fwd_b_skip
  BY <1>6 DEF fwd_b_skip, Aside, DownAside, DownMove, Goto, hvars, dnv, DownInv
<1> QED BY <1>1, <1>2, <1>3, <1>4, <1>5, <1>6

\* Nor do the yields, the callbacks and the server.
LEMMA RestDown ==
    ASSUME DownInv, \/ splice_yield \/ splice_resume \/ udp_recv_handler
                    \/ terminate \/ mutex_unlock \/ Server \/ SrvSend
                    \/ SrvTake \/ Poll \/ TimerExpire \/ UNCHANGED vars
    PROVE  DownAside
<1>1. CASE splice_yield
  BY <1>1 DEF splice_yield, DownAside, DownMove, Goto, Sleep, GiveUp, Between,
     hvars, res, dnv, DownInv
<1>2. CASE splice_resume
  BY <1>2 DEF splice_resume, Resumed, DownAside, DownMove, Goto, Between, hvars,
     res, dnv, DownInv
<1>3. CASE udp_recv_handler
  BY <1>3 DEF udp_recv_handler, Wakeup, DownAside, DownMove, hvars, res, dnv,
     DownInv
<1>4. CASE terminate
  BY <1>4 DEF terminate, Wakeup, DownAside, DownMove, hvars, res, dnv, DownInv
<1>5. CASE mutex_unlock
  BY <1>5 DEF mutex_unlock, DownAside, DownMove, Between, hvars, res, dnv,
     DownInv
<1>6. CASE Server
  <2>1. conf' = conf
    BY <1>6, ServerConf DEF Server
  <2> QED BY <1>6, <2>1 DEF Server, DownAside, DownMove, ctl, res, dnv, DownInv
<1>7. CASE SrvSend
  BY <1>7 DEF SrvSend, DownAside, DownMove, ctl, hvars, res, DownInv
<1>8. CASE SrvTake
  BY <1>8 DEF SrvTake, DownAside, DownMove, ctl, hvars, res, dnv, DownInv
<1>9. CASE Poll
  BY <1>9 DEF Poll, Wakeup, DownAside, DownMove, hvars, res, dnv, DownInv
<1>10. CASE TimerExpire
  BY <1>10 DEF TimerExpire, DownAside, DownMove, hvars, res, dnv, DownInv
<1>11. CASE UNCHANGED vars
  BY <1>11 DEF vars, DownAside, DownMove, ctl, hvars, res, dnv, DownInv
<1> QED BY <1>1, <1>2, <1>3, <1>4, <1>5, <1>6, <1>7, <1>8, <1>9, <1>10, <1>11

\* The two ways a frame is cut.
LEMMA HeadCut ==
    ASSUME DownInv, pc \in InHead, NEW r \in {0, -1, -2}, ShortHead(r),
           conf' = conf, avail' = avail
    PROVE  DownInv'
<1>1. CASE /\ got # <<>> /\ Goto("d")
           /\ Lost /\ part' = 0 /\ UNCHANGED <<resB, got>>
  <2>1. /\ pc' = "d" /\ wild' = TRUE /\ next' = 0 /\ part' = 0
        /\ UNCHANGED <<resB, got>>
    BY <1>1 DEF Goto, Lost
  <2>2. DownInOrder'
    BY <2>1 DEF DownInOrder
  <2> QED BY <2>1, <2>2 DEF DownInv, Between, InHead, InBody
<1>2. CASE Undefined
  <2>1. DownFails
    BY <1>2 DEF Undefined, Lost, NothingRead, Goto, DownFails, DownInv
  <2> QED BY <2>1, FailsKeepsDown
<1>3. CASE NothingRead(-1) /\ Goto("y") /\ Kept
  <2>1. DownFails
    BY <1>3 DEF NothingRead, Goto, Kept, DownFails, DownInv
  <2> QED BY <2>1, FailsKeepsDown
<1>4. CASE NothingRead(0) /\ Goto("y") /\ Lost
  <2>1. DownFails
    BY <1>4 DEF NothingRead, Goto, Lost, DownFails, DownInv
  <2> QED BY <2>1, FailsKeepsDown
<1> QED BY <1>1, <1>2, <1>3, <1>4 DEF ShortHead

\* A body that is cut off.
LEMMA BodyCut ==
    ASSUME DownInv, ShortBody, conf' = conf, avail' = avail
    PROVE  DownInv'
<1>1. CASE Undefined
  <2>1. DownFails
    BY <1>1 DEF Undefined, Lost, NothingRead, Goto, DownFails, DownInv
  <2> QED BY <2>1, FailsKeepsDown
<1>2. CASE NothingRead(-1) /\ Goto("y") /\ Kept
  <2>1. DownFails
    BY <1>2 DEF NothingRead, Goto, Kept, DownFails, DownInv
  <2> QED BY <2>1, FailsKeepsDown
<1> QED BY <1>1, <1>2 DEF ShortBody

\* The steps of recvmmsg.
LEMMA HeadDown ==
    ASSUME DownInv, recv_head \/ recv_rest PROVE DownInv'
<1>0. /\ Head5 \in Nat \ {0} /\ Body \in Nat \ {0} /\ avail \in Nat
      /\ part \in Nat /\ (Stream => DownUnits = Head5 + Body)
  BY SizesAssumption, Units DEF DownInv
<1>1. CASE recv_head
  <2> DEFINE n == Least(avail, Head5)
             p == IF n = Head5 THEN "bb" ELSE "bh"
  <2>1. /\ pc = "b" /\ Stream /\ resB >= 0 /\ avail > 0 /\ avail' = avail - n
        /\ next' = next + n /\ part' = n /\ pc' = p
        /\ UNCHANGED <<conf, resB, got, wild>>
    BY <1>1 DEF recv_head, Take, Goto, Aside, hvars
  <2>2. part = 0
    BY <2>1 DEF DownInv
  <2>3. n \in Nat /\ n <= avail /\ n <= Head5
    BY <1>0 DEF Least
  <2>4. DownReads(n, p)
    BY <1>0, <2>1, <2>2, <2>3 DEF DownReads
  <2>5. \/ p \in InHead /\ part + n < Head5
        \/ p \in InBody /\ part + n < DownUnits
    BY <1>0, <2>1, <2>2, <2>3 DEF InHead, InBody
  <2> HIDE DEF n, p
  <2> QED BY <2>1, <2>3, <2>4, <2>5, ReadsKeepsDown
<1>2. CASE recv_rest
  <2> DEFINE n == Least(avail, Head5 - part)
             p == IF part + n = Head5 THEN "bb" ELSE "bh"
  <2>1. /\ pc = "bh" /\ avail > 0 /\ avail' = avail - n
        /\ next' = next + n /\ part' = part + n /\ pc' = p
        /\ UNCHANGED <<conf, resB, got, wild>>
    BY <1>2 DEF recv_rest, Take, Goto, Aside, hvars
  <2>2. Stream /\ resB >= 0 /\ part < Head5 /\ pc \in InHead
    BY <2>1 DEF DownInv, InHead
  <2>3. n \in Nat /\ n <= avail /\ part + n <= Head5
    BY <1>0, <2>2 DEF Least
  <2>4. DownReads(n, p)
    BY <1>0, <2>1, <2>3 DEF DownReads
  <2>5. \/ p \in InHead /\ part + n < Head5
        \/ p \in InBody /\ part + n < DownUnits
    BY <1>0, <2>2, <2>3 DEF InHead, InBody
  <2> HIDE DEF n, p
  <2> QED BY <2>2, <2>3, <2>4, <2>5, ReadsKeepsDown
<1> QED BY <1>1, <1>2

\* A read that waits, or is back from it, unless it is cut.
LEMMA WaitsKeepsDown ==
    ASSUME DownInv, conf' = conf, UNCHANGED <<avail, next, part, got, wild, resB>>,
           \/ pc \in InHead /\ pc' \in InHead
           \/ pc \in InBody /\ pc' \in InBody
    PROVE  DownInv'
<1>1. DownUnits' = DownUnits /\ (Stream' <=> Stream)
  BY SameUnits
<1>2. DownInOrder'
  BY <1>1 DEF DownInv, DownInOrder
<1> QED BY <1>1, <1>2 DEF DownInv, Between, InHead, InBody

\* The waits inside a frame.
LEMMA WaitDown ==
    ASSUME DownInv, \/ recv_rest_wait \/ recv_rest_resume
                    \/ recv_body_wait \/ recv_body_resume
    PROVE  DownInv'
<1>1. CASE recv_rest_wait
  <2>1. pc \in InHead /\ UNCHANGED <<conf, avail>>
    BY <1>1 DEF recv_rest_wait, InHead, Aside, hvars
  <2>2. CASE Sleep("hwait") /\ Kept /\ UNCHANGED <<resB, part, got>>
    BY <2>1, <2>2, WaitsKeepsDown DEF Sleep, Kept, InHead
  <2> QED BY <1>1, <2>1, <2>2, HeadCut DEF recv_rest_wait
<1>2. CASE recv_rest_resume
  <2>1. pc \in InHead /\ UNCHANGED <<conf, avail>>
    BY <1>2 DEF recv_rest_resume, Resumed, InHead, Aside, hvars
  <2>2. CASE Goto("bh") /\ Kept /\ UNCHANGED <<resB, part, got>>
    BY <2>1, <2>2, WaitsKeepsDown DEF Goto, Kept, InHead
  <2> QED BY <1>2, <2>1, <2>2, HeadCut DEF recv_rest_resume
<1>3. CASE recv_body_wait
  <2>1. pc \in InBody /\ UNCHANGED <<conf, avail>>
    BY <1>3 DEF recv_body_wait, InBody, Aside, hvars
  <2>2. CASE Sleep("bwait") /\ Kept /\ UNCHANGED <<resB, part, got>>
    BY <2>1, <2>2, WaitsKeepsDown DEF Sleep, Kept, InBody
  <2> QED BY <1>3, <2>1, <2>2, BodyCut DEF recv_body_wait
<1>4. CASE recv_body_resume
  <2>1. pc \in InBody /\ UNCHANGED <<conf, avail>>
    BY <1>4 DEF recv_body_resume, Resumed, InBody, Aside, hvars
  <2>2. CASE Goto("bb") /\ Kept /\ UNCHANGED <<resB, part, got>>
    BY <2>1, <2>2, WaitsKeepsDown DEF Goto, Kept, InBody
  <2> QED BY <1>4, <2>1, <2>2, BodyCut DEF recv_body_resume
<1> QED BY <1>1, <1>2, <1>3, <1>4

\* A frame is complete, or there is more to come of it.
LEMMA BodyDown == ASSUME DownInv, recv_body PROVE DownInv'
<1> DEFINE n == Least(avail, DownUnits - part)
           L == Len(got)
<1>0. /\ avail \in Nat /\ part \in Nat /\ DownUnits \in Nat \ {0}
      /\ next \in Int /\ got \in Seq(Int) /\ L \in Nat
  BY Units DEF DownInv
<1>1. /\ pc = "bb" /\ avail' = avail - n /\ next' = next + n
      /\ UNCHANGED <<conf, resB, wild>>
  BY DEF recv_body, Take, Aside, hvars
<1>2. Stream /\ resB >= 0 /\ part < DownUnits /\ pc \in InBody
  BY <1>1 DEF DownInv, InBody
<1>3. n \in Nat /\ n <= avail /\ part + n <= DownUnits
  BY <1>0, <1>2 DEF Least
<1>4. CASE part + n # DownUnits
  <2>1. DownReads(n, "bb")
    BY <1>0, <1>1, <1>3, <1>4 DEF recv_body, DownReads, Goto
  <2>2. "bb" \in InBody /\ part + n < DownUnits
    BY <1>0, <1>3, <1>4 DEF InBody
  <2> HIDE DEF n
  <2> QED BY <1>2, <1>3, <2>1, <2>2, ReadsKeepsDown
<1>5. CASE part + n = DownUnits
  <2>1. /\ got' = Append(got, next \div DownUnits) /\ part' = 0
        /\ pc' \in {"b", "d"}
    BY <1>5 DEF recv_body, Goto
  <2> HIDE DEF n
  <2>2. DownUnits' = DownUnits /\ (Stream' <=> Stream)
    BY <1>1, SameUnits
  <2>3. next \div DownUnits \in Int
    BY <1>0
  <2>4. /\ got' \in Seq(Int) /\ Len(got') = L + 1
        /\ got'[L + 1] = next \div DownUnits
        /\ \A i \in 1 .. L : got'[i] = got[i]
    BY <1>0, <2>1, <2>3
  <2>5. ASSUME ~wild
        PROVE  /\ \A i \in 1 .. L + 1 : got'[i] = i - 1
               /\ next' = (L + 1) * DownUnits
    <3>1. /\ \A i \in 1 .. L : got[i] = i - 1
          /\ next = L * DownUnits + part
      BY <1>2, <2>5 DEF DownInv, DownInOrder
    <3>2. next \div DownUnits = L
      BY <1>0, <1>2, <3>1, Quotient
    <3>3. (L + 1) * DownUnits = L * DownUnits + DownUnits
      BY <1>0
    <3>4. L * DownUnits \in Nat
      BY <1>0
    <3>5. next' = (L + 1) * DownUnits
      BY <1>0, <1>1, <1>3, <1>5, <3>1, <3>3, <3>4
    <3>6. \A i \in 1 .. L + 1 : i \in 1 .. L \/ i = L + 1
      BY <1>0
    <3> HIDE DEF L
    <3>7. \A i \in 1 .. L + 1 : got'[i] = i - 1
      <4> SUFFICES ASSUME NEW i \in 1 .. L + 1 PROVE got'[i] = i - 1
        OBVIOUS
      <4>1. CASE i \in 1 .. L
        BY <2>4, <3>1, <4>1
      <4>2. CASE i = L + 1
        <5>1. got'[i] = L /\ L = i - 1
          BY <1>0, <2>4, <3>2, <4>2
        <5> QED BY <5>1
      <4> QED BY <3>6, <4>1, <4>2
    <3> QED BY <3>5, <3>7
  <2>6. DownInOrder'
    <3>1. (L + 1) * DownUnits + 0 = (L + 1) * DownUnits
      BY <1>0
    <3> QED BY <1>1, <2>1, <2>2, <2>4, <2>5, <3>1 DEF DownInOrder
  <2>7. avail' \in Nat /\ next' \in Int
    BY <1>0, <1>1, <1>3
  <2> HIDE DEF L
  <2> QED BY <1>1, <1>2, <2>1, <2>2, <2>4, <2>6, <2>7
          DEF DownInv, Between, InHead, InBody
<1> QED BY <1>4, <1>5

\* The reads without a frame, and the delivery.
LEMMA OtherDown ==
    ASSUME DownInv, recv_head_none \/ recv_wild \/ recvmmsg_udp \/ deliver
    PROVE  DownInv'
<1>0. /\ avail \in Nat /\ part \in Nat /\ DownUnits \in Nat \ {0}
      /\ next \in Int /\ got \in Seq(Int) /\ resB \in {-1, 0, 1}
  BY Units DEF DownInv
<1>1. CASE recv_head_none
  <2>1. /\ pc = "b" /\ resB >= 0 /\ part = 0
        /\ UNCHANGED <<conf, avail, next, wild>>
    BY <1>1 DEF recv_head_none, Kept, Aside, hvars, DownInv
  <2>2. DownUnits' = DownUnits /\ (Stream' <=> Stream)
    BY <2>1, SameUnits
  <2>3. CASE got # <<>>
    <3>1. pc' = "d" /\ UNCHANGED <<resB, part, got>>
      BY <1>1, <2>3 DEF recv_head_none, Goto
    <3>2. DownInOrder'
      BY <2>1, <2>2, <3>1 DEF DownInv, DownInOrder
    <3> QED BY <2>1, <2>2, <3>1, <3>2 DEF DownInv, Between, InHead, InBody
  <2>4. CASE got = <<>>
    <3>1. /\ pc' = "y" /\ part' = 0 /\ got' = <<>> /\ resB' \in {-1, 0}
      BY <1>1, <2>4 DEF recv_head_none, NothingRead, Goto
    <3>2. DownInOrder'
      BY <2>1, <2>2, <2>4, <3>1 DEF DownInv, DownInOrder
    <3> QED BY <2>1, <2>2, <3>1, <3>2 DEF DownInv, Between, InHead, InBody
  <2> QED BY <2>3, <2>4
<1>2. CASE recv_wild
  <2>1. DownFails
    BY <1>0, <1>2 DEF recv_wild, NothingRead, Goto, Kept, Aside, hvars,
       DownFails, DownInv
  <2> QED BY <2>1, FailsKeepsDown
<1>3. CASE recvmmsg_udp
  <2>1. /\ pc = "b" /\ ~Stream /\ resB >= 0 /\ UNCHANGED <<conf, wild>>
    BY <1>3 DEF recvmmsg_udp, Aside, hvars
  <2>2. got = <<>> /\ part = 0 /\ DownUnits = 1
    BY <2>1, Units DEF DownInv
  <2>3. CASE NothingRead(-1) /\ Goto("y") /\ UNCHANGED <<avail, next>>
    <3>1. DownFails
      BY <1>0, <2>1, <2>3 DEF NothingRead, Goto, DownFails, DownInv
    <3> QED BY <3>1, FailsKeepsDown
  <2>4. CASE \E n \in 1 .. Least(avail, Num) :
               /\ Take(n) /\ Goto("d")
               /\ got' = [i \in 1 .. n |-> next + i - 1]
               /\ UNCHANGED <<resB, part>>
    <3>1. PICK n \in 1 .. Least(avail, Num) :
               /\ Take(n) /\ pc' = "d"
               /\ got' = [i \in 1 .. n |-> next + i - 1]
               /\ UNCHANGED <<resB, part>>
      BY <2>4 DEF Goto
    <3>2. n \in Nat /\ n <= avail
      BY <1>0, SizesAssumption DEF Least
    <3>3. got' \in Seq(Int) /\ Len(got') = n
      BY <1>0, <3>1, <3>2
    <3>4. DownUnits' = 1 /\ (Stream' <=> Stream)
      BY <2>1, <2>2, SameUnits
    <3>5. ~wild => next = 0
      BY <2>1, <2>2 DEF DownInv, DownInOrder
    <3>6. avail' \in Nat /\ next' = next + n /\ next' \in Int
      BY <1>0, <3>1, <3>2 DEF Take
    <3>7. DownInOrder'
      BY <2>1, <2>2, <3>1, <3>2, <3>3, <3>4, <3>5, <3>6 DEF DownInOrder
    <3> QED BY <2>1, <2>2, <3>1, <3>3, <3>4, <3>6, <3>7
            DEF DownInv, Between, InHead, InBody
  <2> QED BY <1>3, <2>3, <2>4 DEF recvmmsg_udp
<1>4. CASE deliver
  <2>1. PICK k \in 0 .. Len(got) :
          Delivered(k) /\ resB' = IF k = Len(got) THEN 1 ELSE -1
    BY <1>4 DEF deliver
  <2>2. /\ pc = "d" /\ pc' = "y" /\ UNCHANGED <<conf, avail, part, wild>>
        /\ got' = <<>> /\ resB' \in {-1, 1}
    BY <1>4, <2>1 DEF deliver, Delivered, Goto, Aside, hvars
  <2>3. part = 0 /\ resB >= 0
    BY <2>2 DEF DownInv
  <2>4. DownUnits' = DownUnits /\ k \in Nat /\ k * DownUnits \in Nat
    BY <1>0, <2>2, SameUnits
  <2>5. next' = IF wild THEN 0 ELSE next - k * DownUnits
    BY <2>1 DEF Delivered
  <2>6. next' \in Int
    BY <1>0, <2>4, <2>5
  <2>7. ASSUME ~wild, k = Len(got) PROVE next' = 0
    <3>1. next = k * DownUnits + 0
      BY <2>3, <2>7 DEF DownInv, DownInOrder
    <3> QED BY <2>4, <2>5, <2>7, <3>1
  <2>8. DownInOrder'
    BY <1>0, <2>1, <2>2, <2>3, <2>4, <2>7 DEF DownInOrder
  <2> QED BY <1>0, <2>2, <2>3, <2>6, <2>8 DEF DownInv, Between, InHead, InBody
<1> QED BY <1>1, <1>2, <1>3, <1>4

\* The session is destructed with nothing read.
LEMMA DestructDown ==
    ASSUME DownInv, destruct \/ destruct_resume PROVE DownInv'
<1>1. CASE Destructed /\ pc \in {"destruct", "free"}
  <2>1. conf' = conf
    BY <1>1, ClientConf DEF Destructed
  <2>2. /\ pc' = "done" /\ resB' = 1 /\ avail' = 0 /\ next' = 0 /\ wild' = FALSE
        /\ UNCHANGED <<part, got>>
    BY <1>1 DEF Destructed
  <2>3. part = 0 /\ got = <<>>
    BY <1>1 DEF DownInv, Between
  <2>4. DownUnits' = DownUnits /\ DownUnits \in Nat
    BY <2>1, SameUnits, Units
  <2>5. DownInOrder'
    <3>1. next' = 0 /\ part' = 0 /\ got' = <<>> /\ Len(<<>>) = 0
      BY <2>2, <2>3
    <3>2. 0 * DownUnits + 0 = 0
      BY <2>4
    <3> QED BY <2>4, <3>1, <3>2 DEF DownInOrder
  <2>6. part' = 0 /\ got' = <<>> /\ <<>> \in Seq(Int)
    BY <2>2, <2>3
  <2> QED BY <2>2, <2>5, <2>6 DEF DownInv, Between, InHead, InBody
<1>2. CASE /\ pc = "destruct" /\ pc' = "lock"
           /\ UNCHANGED <<hvars, armed, expired, timeout, res, upv, dnv, edge>>
  <2>1. DownAside
    BY <1>2 DEF DownAside, DownMove, Between, hvars, res, dnv, DownInv
  <2> QED BY <2>1, AsideKeepsDown
<1>3. CASE UNCHANGED <<hvars, pc, armed, expired, timeout, res, upv, dnv, edge,
                       freed>>
  <2>1. DownAside
    BY <1>3 DEF DownAside, DownMove, hvars, res, dnv, DownInv
  <2> QED BY <2>1, AsideKeepsDown
<1> QED BY <1>1, <1>2, <1>3 DEF destruct, destruct_resume, Resumed

\* The invariant of the way down.
LEMMA DownHolds == Spec => []DownInv
<1>1. Init => DownInv
  <2> SUFFICES ASSUME Init PROVE DownInv
    OBVIOUS
  <2>1. /\ pc = "hs" /\ resB = 1 /\ avail = 0 /\ next = 0 /\ part = 0
        /\ got = <<>> /\ wild = FALSE
    BY DEF Init
  <2>2. DownInOrder
    BY <2>1, Units DEF DownInOrder
  <2>3. <<>> \in Seq(Int)
    OBVIOUS
  <2> QED BY <2>1, <2>2, <2>3 DEF DownInv, Between, InHead, InBody
<1>2. ASSUME DownInv, [Next]_vars PROVE DownInv'
  <2>1. CASE DownAside
    BY <1>2, <2>1, AsideKeepsDown
  <2> QED BY <1>2, <2>1, HsDown, SendDown, RestDown, HeadDown, WaitDown,
             BodyDown, OtherDown, DestructDown DEF Next, SessionStep, Done
<1> QED BY <1>1, <1>2, PTL DEF Spec

\* The datagrams of the server reach the application once and in order, for
\* any number of buffers and wherever the bytes of a frame are cut by recv.
THEOREM DownKeepsOrder == Spec => []DownInOrder
<1>1. DownInv => DownInOrder
  BY DEF DownInv
<1> QED BY <1>1, DownHolds, PTL

----------------------------------------------------------------------------
(* From the application to the server.                                     *)

\* Steps that have nothing to do with this direction.
UpMove ==
    \/ pc' = pc
    \/ pc \in Sending /\ pc' \in Sending
    \/ pc \notin Sending \cup {"crashed"} /\ pc' \notin Sending

UpAside ==
    /\ conf' = conf /\ sndSpace' \in Nat /\ UpMove
    /\ UNCHANGED <<frames, idIn, num, pos, sent, torn>>

\* A step that does not send nor queue.
LEMMA AsideKeepsUp == ASSUME UpInv, UpAside PROVE UpInv'
<1>1. /\ UpUnits' = UpUnits /\ sndSpace' \in Nat
      /\ UNCHANGED <<frames, idIn, num, pos, sent, torn>>
  BY SameUnits DEF UpAside
<1>2. pc' \in Sending => pc \in Sending
  BY DEF UpAside, UpMove
<1>3. pc' \notin Sending \cup {"crashed"} => pc \notin Sending \cup {"crashed"}
  BY DEF UpAside, UpMove, Sending
<1>4. UpInOrder'
  BY <1>1, <1>2 DEF UpInv, UpInOrder, Sending
<1> QED BY <1>1, <1>2, <1>3, <1>4 DEF UpInv

\* What Sent does to the list, as long as frames are whole and afterwards.
SentWhole(s, n) ==
    LET d == (sent + s) \div UpUnits
        rest == SubSeq(frames, n + 1, Len(frames))
    IN  /\ frames' = [i \in DOMAIN rest |-> rest[i] - d]
        /\ idIn' = idIn - d /\ sent' = (sent + s) % UpUnits

SentLost(n) ==
    LET rest == SubSeq(frames, n + 1, Len(frames))
    IN  torn' /\ frames' = [i \in DOMAIN rest |-> 0] /\ idIn' = 0 /\ sent' = 0

\* Of the units of a batch, s more have been sent and n datagrams left the list.
Counted(s, n) == pos' \in Nat /\ n * UpUnits + pos' = pos + s

\* The part of UpInv that is about the list.
UpList ==
    /\ frames \in Seq(Int) /\ idIn \in Int /\ sent \in Nat /\ sent < UpUnits
    /\ ~torn => LET first == idIn - Len(frames)
                IN  /\ \A i \in 1 .. Len(frames) : frames[i] = first + i - 1
                    /\ first * UpUnits + pos = sent

\* The frames that are left.
LEMMA RestOf ==
    ASSUME NEW f \in Seq(Int), NEW n \in 0 .. Len(f)
    PROVE  LET rest == SubSeq(f, n + 1, Len(f))
           IN  /\ DOMAIN rest = 1 .. Len(f) - n
               /\ \A i \in 1 .. Len(f) - n : rest[i] = f[n + i] /\ f[n + i] \in Int
  OBVIOUS

\* Frames that are sent behind a torn one are lost.
LEMMA LostKeepsList ==
    ASSUME UpInv, NEW n \in 0 .. Len(frames), SentLost(n), conf' = conf
    PROVE  UpList' /\ Len(frames') = Len(frames) - n
<1> DEFINE rest == SubSeq(frames, n + 1, Len(frames))
<1>1. frames \in Seq(Int) /\ Len(frames) - n \in Nat
  BY DEF UpInv
<1>2. DOMAIN rest = 1 .. Len(frames) - n
  BY <1>1, RestOf
<1>3. /\ torn' /\ frames' = [i \in DOMAIN rest |-> 0] /\ idIn' = 0 /\ sent' = 0
  BY DEF SentLost
<1> HIDE DEF rest
<1>4. frames' \in Seq(Int) /\ Len(frames') = Len(frames) - n
  BY <1>1, <1>2, <1>3
<1>5. UpUnits' = UpUnits /\ UpUnits \in Nat \ {0}
  BY SameUnits, Units
<1> QED BY <1>3, <1>4, <1>5 DEF UpList

\* Frames that are sent whole arrive in their order.
LEMMA WholeKeepsList ==
    ASSUME UpInv, ~torn, NEW s \in Nat, NEW n \in 0 .. Len(frames),
           SentWhole(s, n), conf' = conf, Counted(s, n)
    PROVE  UpList' /\ Len(frames') = Len(frames) - n
<1> DEFINE rest == SubSeq(frames, n + 1, Len(frames))
           U == UpUnits
           d == (sent + s) \div U
           first == idIn - Len(frames)
<1>0. U' = U /\ U \in Nat \ {0} /\ n \in Nat
  BY SameUnits, Units
<1>1. /\ frames \in Seq(Int) /\ Len(frames) - n \in Nat /\ sent \in Nat
      /\ idIn \in Int /\ pos \in Nat /\ first \in Int
      /\ \A i \in 1 .. Len(frames) : frames[i] = first + i - 1
      /\ first * U + pos = sent
  BY DEF UpInv, UpInOrder
<1>2. /\ DOMAIN rest = 1 .. Len(frames) - n
      /\ \A i \in 1 .. Len(frames) - n :
            rest[i] = frames[n + i] /\ frames[n + i] \in Int
  BY <1>1, RestOf
<1>3. /\ frames' = [i \in DOMAIN rest |-> rest[i] - d]
      /\ idIn' = idIn - d /\ sent' = (sent + s) % U
  BY DEF SentWhole
<1>4. /\ d \in Nat /\ sent' \in Nat /\ sent' < U
      /\ sent + s = d * U + sent'
  <2>1. sent + s \in Nat
    BY <1>1
  <2> HIDE DEF U
  <2> QED BY <1>0, <1>3, <2>1, Division
<1> HIDE DEF rest, U, d
<1>5. /\ frames' \in Seq(Int) /\ Len(frames') = Len(frames) - n
      /\ \A i \in 1 .. Len(frames) - n : frames'[i] = frames[n + i] - d
  <2> DEFINE m == Len(frames) - n
  <2>1. m \in Nat /\ frames' = [i \in 1 .. m |-> rest[i] - d]
    BY <1>1, <1>2, <1>3
  <2>2. \A i \in 1 .. m : rest[i] = frames[n + i] /\ rest[i] - d \in Int
    BY <1>2, <1>4
  <2> HIDE DEF m
  <2>3. frames' \in Seq(Int) /\ Len(frames') = m
    BY <2>1, <2>2
  <2> QED BY <2>1, <2>2, <2>3 DEF m
<1>6. idIn' - Len(frames') = first + n - d
  <2>1. Len(frames) \in Int /\ idIn \in Int /\ d \in Int /\ n \in Int
    BY <1>0, <1>1, <1>4
  <2>2. idIn' = idIn - d /\ Len(frames') = Len(frames) - n
    BY <1>3, <1>5
  <2> QED BY <2>1, <2>2
<1>7. (first + n - d) * U + pos' = sent'
  <2>1. (first + n - d) * U = first * U + n * U - d * U
    BY <1>0, <1>1, <1>4
  <2>2. first * U \in Int /\ n * U \in Int /\ d * U \in Int
    BY <1>0, <1>1, <1>4
  <2>3. n * U + pos' = pos + s /\ pos' \in Int
    BY DEF U, Counted
  <2>4. first * U + pos = sent /\ sent + s = d * U + sent'
    BY <1>1, <1>4
  <2>5. sent \in Int /\ sent' \in Int /\ pos \in Int /\ pos' \in Int
    BY <1>1, <1>4, <2>3
  <2> DEFINE a == first * U
             b == n * U
             c == d * U
             t == (first + n - d) * U
             q == pos'
             y == sent'
  <2>6. /\ a \in Int /\ b \in Int /\ c \in Int /\ t = a + b - c
        /\ sent \in Int /\ y \in Int /\ pos \in Int /\ q \in Int
    BY <2>1, <2>2, <2>5
  <2>7. a + pos = sent /\ sent + s = c + y /\ b + q = pos + s
    BY <2>3, <2>4
  <2> HIDE DEF a, b, c, t, q, y
  <2>8. t + q = y
    BY <2>6, <2>7
  <2> QED BY <2>8 DEF t, q, y
<1>8. ASSUME NEW i \in 1 .. Len(frames') PROVE frames'[i] = (first + n - d) + i - 1
  <2>1. n + i \in 1 .. Len(frames) /\ i \in 1 .. Len(frames) - n /\ i \in Int
    BY <1>0, <1>1, <1>5
  <2>2. frames'[i] = frames[n + i] - d /\ frames[n + i] = first + (n + i) - 1
    BY <1>1, <1>5, <2>1
  <2> QED BY <1>0, <1>1, <1>4, <2>1, <2>2
<1>9. idIn' \in Int
  BY <1>1, <1>3, <1>4
<1> HIDE DEF first
<1> QED BY <1>0, <1>4, <1>5, <1>6, <1>7, <1>8, <1>9 DEF UpList, U

\* What sendmmsg does to the list: s more units, and n datagrams leave it.
LEMMA SentKeepsList ==
    ASSUME UpInv, NEW s \in Nat, NEW n \in 0 .. Len(frames), NEW u \in BOOLEAN,
           Sent(s, n, u), conf' = conf, u \/ Counted(s, n)
    PROVE  UpList' /\ Len(frames') = Len(frames) - n
<1>1. CASE torn \/ u
  <2>1. SentLost(n)
    BY <1>1 DEF Sent, SentLost
  <2> QED BY <2>1, LostKeepsList
<1>2. CASE ~(torn \/ u)
  <2>1. SentWhole(s, n)
    BY <1>2 DEF Sent, SentWhole
  <2> QED BY <1>2, <2>1, WholeKeepsList
<1> QED BY <1>1, <1>2
\* sendmmsg returns, with the batch sent, cut or not begun.
LEMMA ReturnsKeepsUp ==
    ASSUME UpInv, pc \in Sending, NEW s \in Nat, SendReturns(s), conf' = conf,
           pos + s <= num * UpUnits, pc' = "b", sndSpace' \in Nat
    PROVE  UpInv'
<1> DEFINE p == pos + s
           n == IF p = 0 THEN 0 ELSE IF Stream THEN num ELSE p
           u == Stream /\ p \in 1 .. num * Frame - 1
<1>0. /\ UpUnits \in Nat \ {0} /\ UpUnits' = UpUnits /\ Frame \in Nat
      /\ (Stream => UpUnits = Frame) /\ (~Stream => UpUnits = 1)
  BY Units, SameUnits, SizesAssumption
<1>1. /\ pos \in Nat /\ num \in 1 .. Len(frames) /\ frames \in Seq(Int)
      /\ Len(frames) <= Pool + 1 /\ Pool \in Nat
  BY SizesAssumption DEF UpInv, UpInOrder, Sending
<1>2. Sent(s, n, u) /\ num' = 0 /\ pos' = 0
  BY DEF SendReturns
<1>3. p \in Nat /\ p <= num * UpUnits /\ num \in Nat /\ p = pos + s
  BY <1>1
<1>4. n \in 0 .. Len(frames)
  <2>1. ~Stream => p <= num
    BY <1>0, <1>3
  <2> HIDE DEF p
  <2> QED BY <1>1, <1>3, <2>1
<1>5. u \/ Counted(s, n)
  <2>1. CASE p = 0
    <3>1. n = 0 /\ 0 * UpUnits + 0 = 0
      BY <1>0, <2>1
    <3> QED BY <1>2, <1>3, <2>1, <3>1 DEF Counted
  <2>2. CASE p # 0 /\ ~Stream
    <3>1. n = p /\ p * 1 + 0 = p /\ UpUnits = 1
      BY <1>0, <1>3, <2>2
    <3> QED BY <1>2, <1>3, <3>1 DEF Counted
  <2>3. CASE p # 0 /\ Stream /\ p = num * UpUnits
    <3>1. n = num /\ num * UpUnits + 0 = p
      BY <1>3, <2>3
    <3> QED BY <1>2, <1>3, <3>1 DEF Counted
  <2>4. CASE p # 0 /\ Stream /\ p # num * UpUnits
    <3>1. num * UpUnits \in Nat /\ UpUnits = Frame
      BY <1>0, <1>3, <2>4
    <3> HIDE DEF p
    <3> QED BY <1>3, <2>4, <3>1
  <2> QED BY <2>1, <2>2, <2>3, <2>4
<1> HIDE DEF p, n
<1>6. u \in BOOLEAN
  OBVIOUS
<1> HIDE DEF u
<1>7. UpList' /\ Len(frames') = Len(frames) - n
  BY <1>2, <1>4, <1>5, <1>6, SentKeepsList
<1>8. Len(frames') <= Pool + 1
  BY <1>1, <1>4, <1>7
<1>9. "b" \notin {"fs", "fwait"}
  OBVIOUS
<1>10. UpInOrder'
  BY <1>7, <1>8, <1>9 DEF UpInOrder, UpList
<1> QED BY <1>0, <1>2, <1>7, <1>9, <1>10 DEF UpInv, UpList, Sending

\* A send of the frames queued, or of part of them.
LEMMA SendUp ==
    ASSUME UpInv, sendmmsg
    PROVE  UpInv'
<1>1. PICK s \in 1 .. sndSpace :
        /\ pos + s <= num * UpUnits /\ sndSpace' = sndSpace - s
        /\ IF pos + s = num * UpUnits
           THEN SendReturns(s) /\ Goto("b")
           ELSE /\ Sent(s, 0, FALSE) /\ pos' = pos + s /\ Goto("fs")
                /\ UNCHANGED <<resF, num>>
  BY DEF sendmmsg
<1>2. /\ pc = "fs" /\ conf' = conf /\ pos \in Nat /\ sndSpace \in Nat
      /\ frames \in Seq(Int) /\ num \in 1 .. Len(frames) /\ num \in Nat
      /\ Len(frames) <= Pool + 1
  BY DEF sendmmsg, hvars, UpInv, UpInOrder, Sending
<1>3. s \in Nat /\ sndSpace' \in Nat
  BY <1>1, <1>2
<1>4. CASE pos + s = num * UpUnits
  BY <1>1, <1>2, <1>3, <1>4, ReturnsKeepsUp DEF Goto, Sending
<1>5. CASE pos + s # num * UpUnits
  <2>1. Sent(s, 0, FALSE) /\ pos' = pos + s /\ pc' = "fs" /\ num' = num
    BY <1>1, <1>5 DEF Goto
  <2>2. UpUnits \in Nat \ {0} /\ UpUnits' = UpUnits
    BY <1>2, Units, SameUnits
  <2>3. Counted(s, 0)
    <3>1. pos + s \in Nat /\ 0 * UpUnits + (pos + s) = pos + s
      BY <1>2, <1>3, <2>2
    <3> QED BY <2>1, <3>1 DEF Counted
  <2>4. 0 \in 0 .. Len(frames)
    BY <1>2
  <2>5. UpList' /\ Len(frames') = Len(frames) - 0
    BY <1>2, <1>3, <2>1, <2>3, <2>4, SentKeepsList
  <2>6. Len(frames') = Len(frames)
    BY <1>2, <2>5
  <2>7. UpInOrder'
    BY <1>2, <2>1, <2>5, <2>6 DEF UpInOrder, UpList
  <2>8. pos' <= num' * UpUnits' /\ pos' \in Nat
    BY <1>1, <1>2, <1>3, <2>1, <2>2
  <2> QED BY <1>2, <1>3, <2>1, <2>5, <2>7, <2>8 DEF UpInv, UpList, Sending
<1> QED BY <1>4, <1>5

\* The other ends of a wait or of a send.
LEMMA StopUp ==
    ASSUME UpInv, sendmmsg_error \/ sendmmsg_wait \/ sendmmsg_resume
    PROVE  UpInv'
<1>1. /\ conf' = conf /\ pc \in Sending /\ sndSpace' \in Nat /\ pos + 0 = pos
      /\ pos <= num * UpUnits
  BY DEF sendmmsg_error, sendmmsg_wait, sendmmsg_resume, Resumed, hvars, UpInv,
     Sending
<1>2. CASE SendReturns(0) /\ pc' = "b"
  BY <1>1, <1>2, ReturnsKeepsUp
<1>3. CASE UNCHANGED batch /\ pc' \in Sending
  <2>1. UpAside
    BY <1>1, <1>3 DEF batch, UpAside, UpMove
  <2> QED BY <2>1, AsideKeepsUp
<1>4. CASE sendmmsg_error
  BY <1>2, <1>4 DEF sendmmsg_error, Goto
<1>5. CASE sendmmsg_wait
  BY <1>2, <1>3, <1>5 DEF sendmmsg_wait, Sleep, GiveUp, Sending
<1>6. CASE sendmmsg_resume
  BY <1>2, <1>3, <1>6 DEF sendmmsg_resume, Goto, Sending
<1> QED BY <1>4, <1>5, <1>6

\* A batch is begun.
LEMMA BatchUp == ASSUME UpInv, fwd_f PROVE UpInv'
<1>1. /\ pc = "f" /\ pos = 0 /\ frames \in Seq(Int)
      /\ UNCHANGED <<conf, frames, idIn, sndSpace, sent, torn>>
  BY DEF fwd_f, hvars, UpInv, Sending
<1>2. CASE pc' = "b" /\ UNCHANGED <<num, pos>>
  <2>1. UpAside
    BY <1>1, <1>2 DEF UpAside, UpMove, Sending, UpInv
  <2> QED BY <2>1, AsideKeepsUp
<1>3. CASE /\ frames # <<>> /\ num' = Least(Len(frames), Num) /\ pos' = 0
           /\ pc' = "fs"
  <2>1. num' \in 1 .. Len(frames) /\ num' \in Nat
    BY <1>1, <1>3, SizesAssumption DEF Least
  <2>2. UpUnits \in Nat \ {0} /\ UpUnits' = UpUnits
    BY <1>1, Units, SameUnits
  <2>3. 0 <= num' * UpUnits
    <3>1. \A a, b \in Nat : 0 <= a * b
      OBVIOUS
    <3> QED BY <2>1, <2>2, <3>1
  <2>4. UpInOrder'
    BY <1>1, <1>3, <2>1, <2>2 DEF UpInv, UpInOrder
  <2> QED BY <1>1, <1>3, <2>1, <2>2, <2>3, <2>4 DEF UpInv, Sending
<1> QED BY <1>2, <1>3 DEF fwd_f, Goto

\* A datagram is added behind the others.
LEMMA ArriveUp == ASSUME UpInv, udp_recv_handler PROVE UpInv'
<1> DEFINE L == Len(frames)
<1>1. /\ frames \in Seq(Int) /\ idIn \in Int /\ L \in Nat /\ L <= Pool
      /\ frames' = Append(frames, idIn) /\ idIn' = IF torn THEN 0 ELSE idIn + 1
      /\ UNCHANGED <<conf, num, pos, sndSpace, sent, torn>>
      /\ pc' \in {pc, "crashed"} /\ Pool \in Nat
  <2>1. frames \in Seq(Int) /\ idIn \in Int /\ L \in Nat /\ Pool \in Nat
    BY SizesAssumption DEF UpInv
  <2>2. /\ L <= Pool /\ frames' = Append(frames, idIn)
        /\ idIn' = IF torn THEN 0 ELSE idIn + 1
    BY Zenon DEF udp_recv_handler
  <2>3. UNCHANGED <<conf, num, pos, sndSpace, sent, torn>>
    BY DEF udp_recv_handler, hvars
  <2>4. pc' \in {pc, "crashed"}
    BY DEF udp_recv_handler, Wakeup
  <2> QED BY <2>1, <2>2, <2>3, <2>4, Zenon
<1>2. UpUnits \in Nat \ {0} /\ UpUnits' = UpUnits
  BY <1>1, Units, SameUnits
<1>3. /\ frames' \in Seq(Int) /\ Len(frames') = L + 1 /\ frames'[L + 1] = idIn
      /\ \A i \in 1 .. L : frames'[i] = frames[i]
  BY <1>1
<1>4. Len(frames') <= Pool + 1 /\ idIn' \in Int
  BY <1>1, <1>3
<1>5. pc' \in Sending => num' \in 1 .. Len(frames') /\ pc \in Sending
  BY <1>1, <1>3 DEF UpInv, UpInOrder, Sending
<1>6. ASSUME ~torn'
      PROVE  /\ \A i \in 1 .. Len(frames') :
                    frames'[i] = (idIn' - Len(frames')) + i - 1
             /\ (idIn' - Len(frames')) * UpUnits + pos' = sent'
  <2>1. idIn' - Len(frames') = idIn - L /\ idIn - L \in Int
    BY <1>1, <1>3, <1>6
  <2>2. /\ \A i \in 1 .. L : frames[i] = (idIn - L) + i - 1
        /\ (idIn - L) * UpUnits + pos = sent
    BY <1>1, <1>6 DEF UpInv, UpInOrder
  <2>3. ASSUME NEW i \in 1 .. L + 1 PROVE frames'[i] = (idIn - L) + i - 1
    <3>1. CASE i \in 1 .. L
      BY <1>3, <2>2, <3>1
    <3>2. CASE i = L + 1
      BY <1>1, <1>3, <3>2
    <3> QED BY <1>1, <3>1, <3>2
  <2> QED BY <1>1, <1>3, <2>1, <2>2, <2>3
<1>7. UpInOrder'
  BY <1>2, <1>4, <1>5, <1>6 DEF UpInOrder, Sending
<1> QED BY <1>1, <1>2, <1>3, <1>4, <1>5, <1>7 DEF UpInv, Sending

\* The session is destructed with nothing of a batch under way.
LEMMA DestructUp ==
    ASSUME UpInv, destruct \/ destruct_resume PROVE UpInv'
<1>1. CASE Destructed /\ pc \in {"destruct", "free"}
  <2>1. conf' = conf
    BY <1>1, ClientConf DEF Destructed
  <2>2. /\ pc' = "done" /\ frames' = <<>> /\ idIn' = 0 /\ sent' = 0
        /\ sndSpace' = SndCap /\ UNCHANGED <<num, pos>>
    BY <1>1 DEF Destructed
  <2>3. pos = 0 /\ num \in Nat
    BY <1>1 DEF UpInv, Sending
  <2>4. UpUnits' = UpUnits /\ UpUnits \in Nat \ {0}
    BY <2>1, SameUnits, Units
  <2>5. frames' \in Seq(Int) /\ Len(frames') = 0 /\ idIn' - Len(frames') = 0
    <3>1. <<>> \in Seq(Int) /\ Len(<<>>) = 0 /\ 0 - 0 = 0
      OBVIOUS
    <3> QED BY <2>2, <3>1
  <2>6. 0 * UpUnits + 0 = 0
    BY <2>4
  <2>7. UpInOrder'
    BY <2>2, <2>3, <2>4, <2>5, <2>6, SizesAssumption DEF UpInOrder
  <2>8. idIn' \in Int /\ sent' \in Nat /\ sent' < UpUnits' /\ sndSpace' \in Nat
    BY <2>2, <2>4, SizesAssumption
  <2>9. pc' \notin Sending /\ pos' = 0 /\ num' \in Nat
    BY <2>2, <2>3 DEF Sending
  <2> QED BY <2>5, <2>7, <2>8, <2>9 DEF UpInv
<1>2. CASE /\ pc = "destruct" /\ pc' = "lock"
           /\ UNCHANGED <<hvars, armed, expired, timeout, res, upv, dnv, edge>>
  <2>1. UpAside
    BY <1>2 DEF UpAside, UpMove, Sending, hvars, upv, UpInv
  <2> QED BY <2>1, AsideKeepsUp
<1>3. CASE UNCHANGED <<hvars, pc, armed, expired, timeout, res, upv, dnv, edge,
                       freed>>
  <2>1. UpAside
    BY <1>3 DEF UpAside, UpMove, hvars, upv, UpInv
  <2> QED BY <2>1, AsideKeepsUp
<1> QED BY <1>1, <1>2, <1>3 DEF destruct, destruct_resume, Resumed

\* The steps that leave this direction alone.
LEMMA HsUp ==
    ASSUME UpInv, hs_io \/ hs_wait \/ hs_timeout \/ hs_resume
    PROVE  UpAside
<1>1. CASE hs_io
  <2>1. conf' = conf
    BY <1>1, ClientConf DEF hs_io
  <2>2. pc = "hs" /\ AfterHandshake /\ UNCHANGED upv
    BY <1>1 DEF hs_io
  <2> QED BY <2>1, <2>2
          DEF UpAside, UpMove, AfterHandshake, Goto, Sending, upv, UpInv
<1>2. CASE hs_timeout
  <2>1. conf' = conf
    BY <1>2, ClientConf DEF hs_timeout
  <2>2. pc \in {"hs", "hswait"} /\ AfterHandshake /\ UNCHANGED upv
    BY <1>2 DEF hs_timeout, Resumed
  <2> QED BY <2>1, <2>2
          DEF UpAside, UpMove, AfterHandshake, Goto, Sending, upv, UpInv
<1>3. CASE hs_wait \/ hs_resume
  BY <1>3 DEF hs_wait, hs_resume, Resumed, Sleep, Goto, UpAside, UpMove,
     Sending, hvars, upv, UpInv
<1> QED BY <1>1, <1>2, <1>3

\* The reads do not touch the way up.
LEMMA ReadUp ==
    ASSUME UpInv, \/ fwd_b_skip \/ recv_head \/ recv_head_none \/ recv_rest
                  \/ recv_rest_wait \/ recv_rest_resume \/ recv_body
                  \/ recv_body_wait \/ recv_body_resume \/ recv_wild
                  \/ recvmmsg_udp \/ deliver
    PROVE  UpAside
<1>1. Aside
  BY DEF fwd_b_skip, recv_head, recv_head_none, recv_rest, recv_rest_wait,
     recv_rest_resume, recv_body, recv_body_wait, recv_body_resume, recv_wild,
     recvmmsg_udp, deliver
<1>2. pc \in {"b", "bh", "hwait", "bb", "bwait", "d"}
  BY DEF fwd_b_skip, recv_head, recv_head_none, recv_rest, recv_rest_wait,
     recv_rest_resume, recv_body, recv_body_wait, recv_body_resume, recv_wild,
     recvmmsg_udp, deliver, Resumed
<1>3. pc' \notin Sending
  <2>1. CASE fwd_b_skip \/ recv_head \/ recv_head_none \/ recv_rest
    BY <2>1 DEF fwd_b_skip, recv_head, recv_head_none, recv_rest, Goto, Sending
  <2>2. ASSUME NEW r, ShortHead(r) PROVE pc' \in {"d", "y", "crashed"}
    BY <2>2 DEF ShortHead, Undefined, Goto
  <2>3. CASE recv_rest_wait \/ recv_rest_resume
    BY <2>2, <2>3 DEF recv_rest_wait, recv_rest_resume, Goto, Sleep, Sending
  <2>4. ASSUME ShortBody PROVE pc' \in {"y", "crashed"}
    BY <2>4 DEF ShortBody, Undefined, Goto
  <2>5. CASE recv_body_wait \/ recv_body_resume
    BY <2>4, <2>5 DEF recv_body_wait, recv_body_resume, Goto, Sleep, Sending
  <2>6. CASE recv_body \/ recv_wild \/ recvmmsg_udp \/ deliver
    BY <2>6 DEF recv_body, recv_wild, recvmmsg_udp, deliver, Goto, Sending
  <2> QED BY <2>1, <2>3, <2>5, <2>6
<1>4. pc \notin Sending \cup {"crashed"}
  BY <1>2 DEF Sending
<1> QED BY <1>1, <1>3, <1>4 DEF Aside, UpAside, UpMove, hvars, upv, UpInv

\* Nor do the yields, the callbacks and the server.
LEMMA RestUp ==
    ASSUME UpInv, \/ splice_yield \/ splice_resume \/ terminate \/ mutex_unlock
                  \/ Server \/ SrvSend \/ SrvTake \/ Poll \/ TimerExpire
                  \/ UNCHANGED vars
    PROVE  UpAside
<1>1. CASE splice_yield
  BY <1>1 DEF splice_yield, UpAside, UpMove, Goto, Sleep, GiveUp, Sending, hvars,
     upv, UpInv
<1>2. CASE splice_resume
  BY <1>2 DEF splice_resume, Resumed, UpAside, UpMove, Goto, Sending, hvars,
     upv, UpInv
<1>3. CASE terminate
  BY <1>3 DEF terminate, Wakeup, UpAside, UpMove, hvars, upv, UpInv
<1>4. CASE mutex_unlock
  BY <1>4 DEF mutex_unlock, UpAside, UpMove, Sending, hvars, upv, UpInv
<1>5. CASE Server
  <2>1. conf' = conf
    BY <1>5, ServerConf DEF Server
  <2> QED BY <1>5, <2>1 DEF Server, UpAside, UpMove, ctl, upv, UpInv
<1>6. CASE SrvSend
  BY <1>6 DEF SrvSend, UpAside, UpMove, ctl, hvars, upv, UpInv
<1>7. CASE SrvTake
  <2>1. /\ UNCHANGED <<conf, pc, frames, idIn, num, pos, sent, torn>>
        /\ sndSpace' = sndSpace + 1
    BY <1>7 DEF SrvTake, ctl, hvars
  <2> QED BY <2>1 DEF UpAside, UpMove, UpInv
<1>8. CASE Poll
  BY <1>8 DEF Poll, Wakeup, UpAside, UpMove, hvars, upv, UpInv
<1>9. CASE TimerExpire
  BY <1>9 DEF TimerExpire, UpAside, UpMove, hvars, upv, UpInv
<1>10. CASE UNCHANGED vars
  BY <1>10 DEF vars, UpAside, UpMove, ctl, hvars, upv, UpInv
<1> QED BY <1>1, <1>2, <1>3, <1>4, <1>5, <1>6, <1>7, <1>8, <1>9, <1>10

\* The invariant of the way up.
LEMMA UpHolds == Spec => []UpInv
<1>1. Init => UpInv
  <2> SUFFICES ASSUME Init PROVE UpInv
    OBVIOUS
  <2>1. /\ pc = "hs" /\ frames = <<>> /\ idIn = 0 /\ num = 0 /\ pos = 0
        /\ sndSpace = SndCap /\ sent = 0
    BY DEF Init
  <2>2. UpUnits \in Nat \ {0} /\ 0 * UpUnits + 0 = 0 /\ 0 <= 0 * UpUnits
    BY Units
  <2>3. frames \in Seq(Int) /\ Len(frames) = 0 /\ idIn - Len(frames) = 0
    <3>1. <<>> \in Seq(Int) /\ Len(<<>>) = 0 /\ 0 - 0 = 0
      OBVIOUS
    <3> QED BY <2>1, <3>1
  <2>4. UpInOrder
    BY <2>1, <2>2, <2>3, SizesAssumption DEF UpInOrder
  <2> QED BY <2>1, <2>2, <2>3, <2>4, SizesAssumption DEF UpInv, Sending
<1>2. ASSUME UpInv, [Next]_vars PROVE UpInv'
  <2>1. CASE UpAside
    BY <1>2, <2>1, AsideKeepsUp
  <2> QED BY <1>2, <2>1, HsUp, SendUp, StopUp, BatchUp, ArriveUp, ReadUp,
             RestUp, DestructUp DEF Next, SessionStep, Done
<1> QED BY <1>1, <1>2, PTL DEF Spec

\* The datagrams of the application reach the server once, in order and whole
\* until a frame is left unfinished, for any pool, number of buffers, frame
\* and room in the socket: fwd_f frees exactly the frames that were sent.
THEOREM UpKeepsOrder == Spec => []UpInOrder
<1>1. UpInv => UpInOrder
  BY DEF UpInv
<1> QED BY <1>1, UpHolds, PTL

----------------------------------------------------------------------------
(* The handshake.                                                          *)

\* The session does to its connection what hev-socks5-client.c and
\* hev-socks5-server.c do, and nothing else: every behaviour of the composed
\* session, with its sleeps, timeouts, termination and destructor, is one of
\* the handshake alone.
THEOREM SessionKeepsHandshake == Spec => HSpec
<1>1. Init => HInit
  BY DEF Init
<1>2. ASSUME [Next]_vars PROVE [HNext]_hvars
  <2>1. CASE UNCHANGED hvars
    BY <2>1
  <2>2. CASE hs_io \/ hs_timeout
    BY <2>2 DEF hs_io, hs_timeout, HNext
  <2>3. CASE destruct
    BY <2>1, <2>3 DEF destruct, Destructed, HNext
  <2>4. CASE destruct_resume
    BY <2>1, <2>4 DEF destruct_resume, Destructed, HNext
  <2>5. CASE Server
    BY <2>5 DEF Server, HNext
  <2>6. CASE hs_wait \/ hs_resume \/ fwd_f \/ sendmmsg \/ sendmmsg_error
             \/ sendmmsg_wait \/ sendmmsg_resume
    BY <2>1, <2>6 DEF hs_wait, hs_resume, fwd_f, sendmmsg, sendmmsg_error,
                      sendmmsg_wait, sendmmsg_resume
  <2>7. CASE fwd_b_skip \/ recv_head \/ recv_head_none \/ recv_rest
             \/ recv_rest_wait \/ recv_rest_resume \/ recv_body
             \/ recv_body_wait \/ recv_body_resume \/ recv_wild
             \/ recvmmsg_udp \/ deliver
    <3>1. Aside
      BY <2>7, Zenon DEF fwd_b_skip, recv_head, recv_head_none, recv_rest,
         recv_rest_wait, recv_rest_resume, recv_body, recv_body_wait,
         recv_body_resume, recv_wild, recvmmsg_udp, deliver
    <3> QED BY <2>1, <3>1 DEF Aside
  <2>8. CASE splice_yield \/ splice_resume
    BY <2>1, <2>8 DEF splice_yield, splice_resume
  <2>9. CASE udp_recv_handler \/ terminate \/ mutex_unlock \/ SrvSend \/ SrvTake
             \/ Poll \/ TimerExpire \/ Done \/ UNCHANGED vars
    BY <2>1, <2>9 DEF udp_recv_handler, terminate, mutex_unlock, SrvSend,
       SrvTake, Poll, TimerExpire, Done, vars
  <2> QED BY <1>2, <2>2, <2>3, <2>4, <2>5, <2>6, <2>7, <2>8, <2>9, Zenon
          DEF Next, SessionStep
<1> QED BY <1>1, <1>2, PTL DEF Spec, HSpec

\* What holds of the handshake alone holds of the session's: the ends take the
\* stream apart at the same places, agree when the client is done, and never
\* wait for each other.
THEOREM SessionShakesHands ==
    Spec => [](Aligned /\ Agreement /\ NoMutualWait)
  BY SessionKeepsHandshake, HandshakeAligned, HandshakeAgrees,
     HandshakeNeverWaits, PTL

----------------------------------------------------------------------------
(* Sleeping and waking up.                                                 *)

Readable == avail > 0 \/ (Stream /\ downEnd)
Queued == resF = 0 => frames = <<>>
OnCpu == pc \notin {"hswait", "fwait", "hwait", "bwait", "splice", "lock", "free",
                    "done", "crashed"}

\* What a session that sleeps without a pending edge has seen to.
Asleep ==
    /\ pc = "hswait" => down = <<>> /\ ~downEnd
    /\ pc = "fwait" => sndSpace = 0 /\ ~ControlLost
    /\ pc \in {"hwait", "bwait"} => ~Readable
    /\ pc = "splice" =>
        /\ ~ControlLost
        /\ resB >= 0 /\ ~wild => ~Readable /\ (resF >= 0 => frames = <<>>)

\* A task that does not wait holds the CPU.  When fwd_f has found nothing to
\* send, nothing has been queued at the end of fwd_b unless fwd_b has slept.
WakeInv ==
    /\ edge \in BOOLEAN /\ resF \in {-1, 0, 1}
    /\ OnCpu => task = "RUNNING"
    /\ pc = "b" /\ got = <<>> => Queued
    /\ pc = "y" /\ resB = 0 /\ ~wild => (Readable => edge) /\ Queued
    /\ task = "WAITING" /\ ~edge => Asleep

\* The invariant is about the two directions one by one.
LEMMA WakeInvSuffices ==
    ASSUME WakeInv, UpInv, DownInv PROVE NoLostWakeup
<1> SUFFICES ASSUME task = "WAITING", ~edge
             PROVE  NoLostWakeup
  BY DEF NoLostWakeup
<1>1. Asleep /\ avail \in Nat /\ sndSpace \in Nat
  BY DEF WakeInv, UpInv, DownInv
<1>2. CASE pc = "hswait"
  BY <1>1, <1>2 DEF Asleep, NoLostWakeup
<1>3. CASE pc = "fwait"
  BY <1>1, <1>3 DEF Asleep, NoLostWakeup
<1>4. CASE pc \in {"hwait", "bwait"}
  BY <1>1, <1>4 DEF Asleep, NoLostWakeup, Readable
<1>5. CASE pc = "splice"
  BY <1>1, <1>5 DEF Asleep, NoLostWakeup, Readable
<1>6. CASE pc \notin {"hswait", "fwait", "hwait", "bwait", "splice"}
  BY <1>6 DEF NoLostWakeup
<1> QED BY <1>2, <1>3, <1>4, <1>5, <1>6

\* A step after which the task runs.
LEMMA RunsKeepsWake ==
    ASSUME edge' \in BOOLEAN, resF' \in {-1, 0, 1}, task' = "RUNNING",
           pc' = "b" /\ got' = <<>> => Queued',
           pc' = "y" => wild' \/ resB' # 0 \/ (~Readable' /\ Queued')
    PROVE  WakeInv'
  BY DEF WakeInv

\* A step that puts the task to sleep.
LEMMA SleepsKeepsWake ==
    ASSUME edge' \in BOOLEAN, resF' \in {-1, 0, 1},
           pc' \in {"hswait", "fwait", "hwait", "bwait", "splice", "lock", "free",
                    "done", "crashed"},
           ~edge' => Asleep'
    PROVE  WakeInv'
  BY DEF WakeInv, OnCpu

\* The handshake sleeps by itself.
LEMMA HsWake ==
    ASSUME WakeInv, hs_io \/ hs_wait \/ hs_timeout \/ hs_resume
    PROVE  WakeInv'
<1>1. edge' \in BOOLEAN /\ resF' \in {-1, 0, 1}
  BY DEF hs_io, hs_wait, hs_timeout, hs_resume, res, WakeInv
<1>2. CASE hs_wait
  <2>1. /\ pc' = "hswait" /\ down' = down /\ downEnd' = downEnd
        /\ down = <<>> /\ ~downEnd
    BY <1>2 DEF hs_wait, Sleep, ClientBlocked, hvars
  <2>2. Asleep'
    BY <2>1 DEF Asleep
  <2> QED BY <1>1, <2>1, <2>2, SleepsKeepsWake
<1>3. CASE hs_io \/ hs_timeout \/ hs_resume
  <2>1. pc' \in {"hs", "f", "destruct"} /\ task' = task
    BY <1>3 DEF hs_io, hs_timeout, hs_resume, AfterHandshake, Goto
  <2>2. task = "RUNNING"
    BY <1>3 DEF hs_io, hs_timeout, hs_resume, Resumed, WakeInv, OnCpu
  <2> QED BY <1>1, <2>1, <2>2, RunsKeepsWake
<1> QED BY <1>2, <1>3

\* A send that finds no room has an edge to come.
LEMMA SendWake ==
    ASSUME WakeInv, UpInv',
           fwd_f \/ sendmmsg \/ sendmmsg_error \/ sendmmsg_wait \/ sendmmsg_resume
    PROVE  WakeInv'
<1>1. edge' = edge /\ edge' \in BOOLEAN /\ resF \in {-1, 0, 1}
  BY DEF fwd_f, sendmmsg, sendmmsg_error, sendmmsg_wait, sendmmsg_resume, WakeInv
<1>2. \A s : SendReturns(s) => resF' \in {-1, 1}
  BY DEF SendReturns
<1>3. CASE fwd_f
  <2>1. pc = "f" /\ task' = task /\ frames' = frames
    BY <1>3 DEF fwd_f, Goto
  <2>2. \/ pc' = "fs" /\ resF' = resF
        \/ pc' = "b" /\ resF' = IF resF < 0 THEN resF ELSE 0
    BY <1>3 DEF fwd_f, Goto
  <2>3. pc' = "b" => Queued'
    <3>1. pc' = "b" => frames = <<>> \/ (resF < 0 /\ resF' = resF)
      BY <1>3, <2>1, <2>2 DEF fwd_f, Goto
    <3> QED BY <1>1, <2>1, <3>1 DEF Queued
  <2>4. task = "RUNNING" /\ resF' \in {-1, 0, 1}
    BY <1>1, <2>1, <2>2 DEF WakeInv, OnCpu
  <2> QED BY <1>1, <2>1, <2>2, <2>3, <2>4, RunsKeepsWake
<1>4. ASSUME task' = "RUNNING", pc' \in {"b", "fs"}, resF' \in {-1, 1} \/ (pc' = "fs" /\ resF' = resF)
      PROVE  WakeInv'
  <2>1. pc' = "b" => Queued'
    BY <1>4 DEF Queued
  <2> QED BY <1>1, <1>4, <2>1, RunsKeepsWake
<1>5. CASE sendmmsg
  <2>1. pc = "fs" /\ task' = task
    BY <1>5 DEF sendmmsg, Goto
  <2>2. pc' \in {"b", "fs"} /\ (resF' \in {-1, 1} \/ (pc' = "fs" /\ resF' = resF))
    BY <1>2, <1>5 DEF sendmmsg, Goto
  <2>3. task = "RUNNING"
    BY <2>1 DEF WakeInv, OnCpu
  <2> QED BY <1>4, <2>1, <2>2, <2>3
<1>6. CASE sendmmsg_error
  <2>1. pc = "fs" /\ task' = task /\ pc' = "b" /\ resF' \in {-1, 1}
    BY <1>2, <1>6 DEF sendmmsg_error, Goto
  <2>2. task = "RUNNING"
    BY <2>1 DEF WakeInv, OnCpu
  <2> QED BY <1>4, <2>1, <2>2
<1>7. CASE sendmmsg_wait
  <2>1. pc = "fs" /\ sndSpace = 0 /\ sndSpace' = sndSpace /\ conf' = conf /\ downEnd' = downEnd
    BY <1>7 DEF sendmmsg_wait, hvars
  <2>2. CASE MayWait
    <3>1. pc' = "fwait" /\ resF' = resF
      BY <1>7, <2>2 DEF sendmmsg_wait, Sleep, batch
    <3>2. Asleep'
      BY <2>1, <2>2, <3>1 DEF Asleep, MayWait, ControlLost
    <3> QED BY <1>1, <3>1, <3>2, SleepsKeepsWake
  <2>3. CASE ~MayWait
    <3>1. pc' = "b" /\ task' = task /\ resF' \in {-1, 1}
      BY <1>2, <1>7, <2>3 DEF sendmmsg_wait, GiveUp
    <3>2. task = "RUNNING"
      BY <2>1 DEF WakeInv, OnCpu
    <3> QED BY <1>4, <3>1, <3>2
  <2> QED BY <2>2, <2>3
<1>8. CASE sendmmsg_resume
  <2>1. task' = "RUNNING" /\ pc' \in {"b", "fs"}
    BY <1>8 DEF sendmmsg_resume, Resumed, Goto
  <2>2. resF' \in {-1, 1} \/ (pc' = "fs" /\ resF' = resF)
    BY <1>2, <1>8 DEF sendmmsg_resume, Goto, batch
  <2> QED BY <1>4, <2>1, <2>2
<1> QED BY <1>3, <1>5, <1>6, <1>7, <1>8

\* The steps of fwd_b: where each leads, and that fwd_b has not slept when it
\* returns 0 at a known place in the stream.
ReadEnds ==
    \/ pc' = "crashed" \/ pc' \in {"d", "bh", "bb"}
    \/ pc' = "b" /\ got' # <<>>
    \/ pc' = "y" /\ (wild' \/ resB' # 0)

\* A read that ends leaves the way up alone.
LEMMA ReadKeepsWake ==
    ASSUME WakeInv, Aside, task = "RUNNING", task' = task, ReadEnds PROVE WakeInv'
<1>1. edge' \in BOOLEAN /\ resF' \in {-1, 0, 1} /\ task' = "RUNNING"
  BY DEF WakeInv, Aside
<1> QED BY <1>1, RunsKeepsWake DEF ReadEnds

\* The reads that fail end their direction.
LEMMA FailEnds ==
    ASSUME DownInv
    PROVE  /\ \A w : Goto(w) => task' = task /\ pc' = w
           /\ Undefined => ReadEnds /\ task' = task
           /\ ShortBody => ReadEnds /\ task' = task
           /\ \A r : ShortHead(r) => ReadEnds /\ task' = task
<1>1. \A w : Goto(w) => task' = task /\ pc' = w
  BY DEF Goto
<1>2. Undefined => ReadEnds /\ task' = task
  BY <1>1 DEF Undefined, Lost, NothingRead, ReadEnds
<1>3. ShortBody => ReadEnds /\ task' = task
  <2>1. NothingRead(-1) => resB' # 0
    BY DEF NothingRead
  <2> QED BY <1>1, <1>2, <2>1 DEF ShortBody, ReadEnds
<1>4. ASSUME NEW r, ShortHead(r) PROVE ReadEnds /\ task' = task
  <2>1. NothingRead(-1) => resB' # 0
    BY DEF NothingRead
  <2>2. \/ Goto("d")
        \/ Undefined
        \/ NothingRead(-1) /\ Goto("y")
        \/ Goto("y") /\ Lost
    BY <1>4 DEF ShortHead
  <2>3. Lost => wild'
    BY DEF Lost
  <2> QED BY <1>1, <1>2, <2>1, <2>2, <2>3 DEF ReadEnds
<1> QED BY <1>1, <1>2, <1>3, <1>4

\* The read of a head.
LEMMA HeadWake ==
    ASSUME WakeInv, DownInv, fwd_b_skip \/ recv_head \/ recv_head_none \/ recv_rest
    PROVE  WakeInv'
<1>1. Aside /\ pc \in {"b", "bh"} /\ resB \in {-1, 0, 1}
  BY DEF fwd_b_skip, recv_head, recv_head_none, recv_rest, DownInv
<1>2. task = "RUNNING"
  BY <1>1 DEF WakeInv, OnCpu
<1>3. CASE fwd_b_skip
  <2>1. task' = task /\ pc' = "y" /\ resB' # 0
    BY <1>1, <1>3 DEF fwd_b_skip, Goto
  <2> QED BY <1>1, <1>2, <2>1, ReadKeepsWake DEF ReadEnds
<1>4. CASE recv_head
  <2>1. task' = task /\ pc' \in {"bb", "bh"}
    BY <1>4 DEF recv_head, Goto
  <2> QED BY <1>1, <1>2, <2>1, ReadKeepsWake DEF ReadEnds
<1>5. CASE recv_rest
  <2>1. task' = task /\ pc' \in {"bb", "bh"}
    BY <1>5 DEF recv_rest, Goto
  <2> QED BY <1>1, <1>2, <2>1, ReadKeepsWake DEF ReadEnds
<1>6. CASE recv_head_none
  <2>1. pc = "b" /\ task' = task /\ avail = 0 /\ avail' = avail
    BY <1>6 DEF recv_head_none, Goto
  <2>2. CASE got # <<>>
    <3>1. pc' = "d"
      BY <1>6, <2>2 DEF recv_head_none, Goto
    <3> QED BY <1>1, <1>2, <2>1, <3>1, ReadKeepsWake DEF ReadEnds
  <2>3. CASE got = <<>>
    <3>1. pc' = "y" /\ resB' = IF Stream /\ downEnd THEN -1 ELSE 0
      BY <1>6, <2>3 DEF recv_head_none, Goto, NothingRead
    <3>2. CASE Stream /\ downEnd
      <4>1. resB' # 0
        BY <3>1, <3>2
      <4> QED BY <1>1, <1>2, <2>1, <3>1, <4>1, ReadKeepsWake DEF ReadEnds
    <3>3. CASE ~(Stream /\ downEnd)
      <4>1. conf' = conf /\ downEnd' = downEnd /\ resF' = resF /\ frames' = frames /\ edge' = edge
        BY <1>1 DEF Aside, hvars, upv
      <4>2. ~Readable'
        BY <2>1, <3>3, <4>1, SameUnits DEF Readable
      <4>3. Queued'
        BY <2>1, <2>3, <4>1 DEF WakeInv, Queued
      <4>4. edge' \in BOOLEAN /\ resF' \in {-1, 0, 1} /\ task' = "RUNNING"
        BY <1>2, <2>1, <4>1 DEF WakeInv
      <4> QED BY <3>1, <4>2, <4>3, <4>4, RunsKeepsWake
    <3> QED BY <3>2, <3>3
  <2> QED BY <2>2, <2>3
<1> QED BY <1>3, <1>4, <1>5, <1>6

\* The waits inside a frame.
LEMMA WaitWake ==
    ASSUME WakeInv, DownInv,
           recv_rest_wait \/ recv_rest_resume \/ recv_body_wait \/ recv_body_resume
    PROVE  WakeInv'
<1>1. Aside /\ avail' = avail
  BY DEF recv_rest_wait, recv_rest_resume, recv_body_wait, recv_body_resume
<1>2. task = "RUNNING"
  BY DEF recv_rest_wait, recv_rest_resume, recv_body_wait, recv_body_resume,
         Resumed, WakeInv, OnCpu
<1>3. ASSUME pc' \in {"hwait", "bwait"}, avail = 0, ~downEnd PROVE WakeInv'
  <2>1. downEnd' = downEnd /\ edge' \in BOOLEAN /\ resF' \in {-1, 0, 1}
    BY <1>1 DEF Aside, hvars, WakeInv
  <2>2. Asleep'
    BY <1>1, <1>3, <2>1 DEF Asleep, Readable
  <2> QED BY <1>3, <2>1, <2>2, SleepsKeepsWake
<1>4. CASE recv_rest_wait
  <2>1. \/ avail = 0 /\ ~downEnd /\ pc' = "hwait"
        \/ \E r : ShortHead(r)
    BY <1>4 DEF recv_rest_wait, Sleep
  <2>2. CASE avail = 0 /\ ~downEnd /\ pc' = "hwait"
    BY <1>3, <2>2
  <2> QED BY <1>1, <1>2, <2>1, <2>2, FailEnds, ReadKeepsWake
<1>5. CASE recv_body_wait
  <2>1. \/ avail = 0 /\ ~downEnd /\ pc' = "bwait"
        \/ ShortBody
    BY <1>5 DEF recv_body_wait, Sleep
  <2>2. CASE avail = 0 /\ ~downEnd /\ pc' = "bwait"
    BY <1>3, <2>2
  <2> QED BY <1>1, <1>2, <2>1, <2>2, FailEnds, ReadKeepsWake
<1>6. CASE recv_rest_resume
  <2>1. ShortHead(-2) \/ Goto("bh")
    BY <1>6 DEF recv_rest_resume
  <2>2. ReadEnds /\ task' = task
    BY <2>1, FailEnds DEF ReadEnds
  <2> QED BY <1>1, <1>2, <2>2, ReadKeepsWake
<1>7. CASE recv_body_resume
  <2>1. ShortBody \/ Goto("bb")
    BY <1>7 DEF recv_body_resume
  <2>2. ReadEnds /\ task' = task
    BY <2>1, FailEnds DEF ReadEnds
  <2> QED BY <1>1, <1>2, <2>2, ReadKeepsWake
<1> QED BY <1>4, <1>5, <1>6, <1>7

\* The read of a body, and the delivery.
LEMMA BodyWake ==
    ASSUME WakeInv, DownInv, recv_body \/ recv_wild \/ recvmmsg_udp \/ deliver
    PROVE  WakeInv'
<1>1. Aside /\ pc \in {"b", "bb", "d"} /\ got \in Seq(Int)
  BY DEF recv_body, recv_wild, recvmmsg_udp, deliver, DownInv
<1>2. task = "RUNNING"
  BY <1>1 DEF WakeInv, OnCpu
<1>3. task' = task
  BY DEF recv_body, recv_wild, recvmmsg_udp, deliver, Goto
<1>4. CASE recv_body
  <2>1. Append(got, next \div DownUnits) # <<>>
    <3>1. next \div DownUnits \in Int
      BY Units DEF DownInv
    <3> QED BY <1>1, <3>1
  <2>2. \/ pc' \in {"d", "bb"}
        \/ pc' = "b" /\ got' = Append(got, next \div DownUnits)
    BY <1>4 DEF recv_body, Goto
  <2>3. ReadEnds
    BY <2>1, <2>2 DEF ReadEnds
  <2> QED BY <1>1, <1>2, <1>3, <2>3, ReadKeepsWake
<1>5. CASE recv_wild
  <2>1. ReadEnds
    BY <1>5 DEF recv_wild, Goto, Kept, ReadEnds
  <2> QED BY <1>1, <1>2, <1>3, <2>1, ReadKeepsWake
<1>6. CASE recvmmsg_udp
  <2>1. pc' = "d" \/ (pc' = "y" /\ resB' = -1)
    BY <1>6 DEF recvmmsg_udp, Goto, NothingRead
  <2>2. ReadEnds
    BY <2>1 DEF ReadEnds
  <2> QED BY <1>1, <1>2, <1>3, <2>2, ReadKeepsWake
<1>7. CASE deliver
  <2>1. pc' = "y" /\ resB' # 0
    BY <1>7 DEF deliver, Goto
  <2>2. ReadEnds
    BY <2>1 DEF ReadEnds
  <2> QED BY <1>1, <1>2, <1>3, <2>2, ReadKeepsWake
<1> QED BY <1>4, <1>5, <1>6, <1>7

\* The splice goes to sleep with nothing to do in either direction.
LEMMA SpliceWake ==
    ASSUME WakeInv, DownInv, splice_yield \/ splice_resume \/ destruct \/ destruct_resume
    PROVE  WakeInv'
<1>1. edge' \in BOOLEAN /\ resF' \in {-1, 0, 1}
  BY DEF splice_yield, splice_resume, destruct, destruct_resume, Destructed, WakeInv, res
<1>2. CASE splice_yield
  <2>1. /\ pc = "y" /\ UNCHANGED <<hvars, res, upv, dnv, edge>>
        /\ resF \in {-1, 0, 1} /\ resB \in {-1, 0, 1}
    BY <1>2 DEF splice_yield, WakeInv, DownInv
  <2>2. task = "RUNNING"
    BY <2>1 DEF WakeInv, OnCpu
  <2>3. \/ pc' \in {"splice", "destruct"} /\ task' = task
        \/ /\ pc' = "splice" /\ resF <= 0 /\ resB <= 0 /\ MayWait
    <3>1. \/ Goto("splice") \/ GiveUp("destruct") \/ Goto("destruct")
          \/ ~(resF > 0 \/ resB > 0) /\ MayWait /\ Sleep("splice")
      BY <1>2, Zenon DEF splice_yield
    <3>2. CASE Goto("splice") \/ Goto("destruct")
      BY <3>2 DEF Goto
    <3>3. CASE GiveUp("destruct")
      BY <3>3 DEF GiveUp
    <3>4. CASE ~(resF > 0 \/ resB > 0) /\ MayWait /\ Sleep("splice")
      BY <2>1, <3>4 DEF Sleep
    <3> QED BY <3>1, <3>2, <3>3, <3>4
  <2>4. CASE pc' \in {"splice", "destruct"} /\ task' = task
    BY <1>1, <2>2, <2>4, RunsKeepsWake
  <2>5. CASE pc' = "splice" /\ resF <= 0 /\ resB <= 0 /\ MayWait
    <3>1. UNCHANGED <<conf, downEnd, resF, resB, frames, avail, wild, edge>>
      BY <2>1 DEF hvars, res, upv, dnv
    <3>2. ~ControlLost'
      BY <2>5, <3>1 DEF MayWait, ControlLost
    <3>3. Readable' = Readable
      BY <3>1, SameUnits DEF Readable
    <3>4. ASSUME ~edge, resB >= 0, ~wild
          PROVE  ~Readable /\ (resF >= 0 => frames = <<>>)
      BY <2>1, <2>5, <3>4 DEF WakeInv, Queued
    <3>5. ~edge' => Asleep'
      BY <2>5, <3>1, <3>2, <3>3, <3>4 DEF Asleep
    <3> QED BY <1>1, <2>5, <3>5, SleepsKeepsWake
  <2> QED BY <2>3, <2>4, <2>5
<1>3. CASE splice_resume
  <2>1. task' = "RUNNING" /\ pc' \in {"destruct", "f"}
    BY <1>3 DEF splice_resume, Resumed, Goto
  <2> QED BY <1>1, <2>1, RunsKeepsWake
<1>4. CASE destruct \/ destruct_resume
  <2>1. pc' \in {"done", "lock"}
    BY <1>4 DEF destruct, destruct_resume, Destructed, Resumed
  <2>2. Asleep'
    BY <2>1 DEF Asleep
  <2> QED BY <1>1, <2>1, <2>2, SleepsKeepsWake
<1> QED BY <1>2, <1>3, <1>4

\* The callbacks, the poll and the timer wake the task.
LEMMA EventWake ==
    ASSUME WakeInv,
           udp_recv_handler \/ terminate \/ mutex_unlock \/ Poll \/ TimerExpire
    PROVE  WakeInv'
<1>1. edge' \in BOOLEAN /\ resF' \in {-1, 0, 1}
  BY DEF udp_recv_handler, terminate, mutex_unlock, Poll, TimerExpire, WakeInv, res
<1>2. \/ task' = "RUNNING" /\ pc' \notin {"b", "y"}
      \/ pc' = "crashed"
  BY DEF udp_recv_handler, terminate, mutex_unlock, Poll, TimerExpire, Wakeup, OffCpu
<1>3. CASE pc' = "crashed"
  <2>1. Asleep'
    BY <1>3 DEF Asleep
  <2> QED BY <1>1, <1>3, <2>1, SleepsKeepsWake
<1> QED BY <1>1, <1>2, <1>3, RunsKeepsWake

\* The server and the kernel: what they change is an edge.
LEMMA EdgeWake ==
    ASSUME WakeInv, UpInv, Server \/ SrvSend \/ SrvTake
    PROVE  WakeInv'
<1>1. UNCHANGED <<pc, task, resF, resB, frames, got, wild>> /\ conf' = conf
      /\ resF \in {-1, 0, 1} /\ edge \in BOOLEAN /\ sndSpace \in Nat
  BY ServerConf DEF Server, SrvSend, SrvTake, ctl, res, upv, dnv, hvars, WakeInv, UpInv
<1>2. edge' \in BOOLEAN /\ (edge => edge')
  BY <1>1 DEF Server, SrvSend, SrvTake
<1>3. /\ ~edge' => UNCHANGED <<down, downEnd, avail>>
      /\ ~edge' => sndSpace' = sndSpace \/ sndSpace # 0
  BY DEF Server, SrvSend, SrvTake, hvars, upv, dnv
<1>4. ~edge' => Readable' = Readable /\ ControlLost' = ControlLost
  BY <1>1, <1>3, SameUnits DEF Readable, ControlLost
<1>5. Queued' = Queued /\ OnCpu' = OnCpu
  BY <1>1 DEF Queued, OnCpu
<1>6. task' = "WAITING" /\ ~edge' => Asleep'
  BY <1>1, <1>2, <1>3, <1>4 DEF WakeInv, Asleep
<1>7. pc' = "y" /\ resB' = 0 /\ ~wild' => (Readable' => edge') /\ Queued'
  BY <1>1, <1>2, <1>4, <1>5 DEF WakeInv
<1> QED BY <1>1, <1>2, <1>5, <1>6, <1>7 DEF WakeInv

\* The session never sleeps over work, whatever the order in which datagrams,
\* edges of epoll, timeouts and the server's close come: the splice of
\* hev-socks5-session-udp.c looks at everything again before it yields, except
\* behind a wait inside a frame that failed.
THEOREM SessionNeverOversleeps == Spec => []NoLostWakeup
<1>1. Init => WakeInv
  <2> SUFFICES ASSUME Init PROVE WakeInv
    OBVIOUS
  <2>1. pc = "hs" /\ task = "RUNNING" /\ edge = FALSE /\ resF = 1
    BY DEF Init
  <2> QED BY <2>1 DEF WakeInv
<1>2. ASSUME WakeInv, UpInv, DownInv, UpInv', [Next]_vars PROVE WakeInv'
  <2>1. CASE UNCHANGED vars
    <3>1. /\ UNCHANGED <<edge, resF, pc, task, got, resB, wild, down, downEnd>>
          /\ UNCHANGED <<sndSpace, avail, frames, conf>>
      BY <2>1 DEF vars, hvars, ctl, res, upv, dnv
    <3>2. /\ Readable' = Readable /\ Queued' = Queued /\ OnCpu' = OnCpu
          /\ ControlLost' = ControlLost
      BY <3>1, SameUnits DEF Readable, Queued, OnCpu, ControlLost
    <3>3. Asleep' = Asleep
      BY <3>1, <3>2 DEF Asleep
    <3> QED BY <1>2, <3>1, <3>2, <3>3 DEF WakeInv
  <2> QED BY <1>2, <2>1, HsWake, SendWake, HeadWake, WaitWake, BodyWake,
             SpliceWake, EventWake, EdgeWake DEF Next, SessionStep, Done
<1>3. WakeInv /\ UpInv /\ DownInv => NoLostWakeup
  BY WakeInvSuffices
<1> QED BY <1>1, <1>2, <1>3, UpHolds, DownHolds, PTL DEF Spec

----------------------------------------------------------------------------
(* Damage.                                                                 *)

\* The frames the destructor has freed are there while it waits.
DamageInv ==
    /\ torn \in BOOLEAN /\ wild \in BOOLEAN /\ freed \in Nat
    /\ freed > 0 => pc \in {"lock", "free", "crashed"}

Damages == torn' # torn \/ wild' # wild \/ (pc' = "crashed" /\ pc # "crashed")
Excused ==
    \/ pc = "destruct" \/ pc = "free"
    \/ pc = "lock" /\ freed > 0
    \/ Stream /\ (expired \/ timeout = "zero" \/ downEnd)

\* Steps that damage nothing.
Harmless ==
    /\ UNCHANGED <<torn, wild, freed>> /\ pc' # "crashed"
    /\ pc \notin {"lock", "free", "crashed"}

\* A step that damages nothing.
LEMMA HarmlessDamage ==
    ASSUME DamageInv, Harmless PROVE DamageInv' /\ ~Damages
  BY DEF DamageInv, Harmless, Damages

\* The handshake damages nothing.
LEMMA HsDamage ==
    ASSUME hs_io \/ hs_wait \/ hs_timeout \/ hs_resume, UNCHANGED freed
    PROVE  Harmless
<1>1. UNCHANGED <<torn, wild>>
  BY DEF hs_io, hs_wait, hs_timeout, hs_resume, upv, dnv
<1>2. pc' # "crashed" /\ pc \in {"hs", "hswait"}
  BY DEF hs_io, hs_wait, hs_timeout, hs_resume, AfterHandshake, Goto, Sleep,
         Resumed
<1> QED BY <1>1, <1>2 DEF Harmless

\* A send tears a frame only with a cause.
LEMMA SendDamage ==
    ASSUME DamageInv, UpInv, UNCHANGED freed,
           fwd_f \/ sendmmsg \/ sendmmsg_error \/ sendmmsg_wait \/ sendmmsg_resume
    PROVE  DamageInv' /\ (Damages => Excused)
<1>1. pc \in {"f", "fs", "fwait"} /\ pc' # "crashed" /\ wild' = wild
  BY DEF fwd_f, sendmmsg, sendmmsg_error, sendmmsg_wait, sendmmsg_resume, Goto,
         GiveUp, Sleep, Resumed, dnv
<1>2. ASSUME torn' \in BOOLEAN, torn' # torn => Excused
      PROVE  DamageInv' /\ (Damages => Excused)
  BY <1>1, <1>2 DEF DamageInv, Damages
<1>3. /\ \A s, n : Sent(s, n, FALSE) => torn' = torn
      /\ \A s : SendReturns(s) => torn' \in BOOLEAN /\ (torn' # torn => Stream)
  BY DEF DamageInv, SendReturns, Sent
<1>4. CASE fwd_f
  <2>1. torn' = torn
    BY <1>4 DEF fwd_f
  <2> QED BY <1>2, <2>1 DEF DamageInv
<1>5. CASE sendmmsg
  <2>1. PICK s \in 1 .. sndSpace :
            IF pos + s = num * UpUnits THEN SendReturns(s) ELSE Sent(s, 0, FALSE)
    BY <1>5 DEF sendmmsg
  <2>2. Stream => UpUnits = Frame
    BY Units
  <2>3. torn' = torn
    <3>1. CASE pos + s = num * UpUnits
      <4>1. ~(Stream /\ pos + s \in 1 .. num * Frame - 1)
        <5> SUFFICES ASSUME Stream PROVE pos + s \notin 1 .. num * Frame - 1
          OBVIOUS
        <5>1. pos + s = num * Frame /\ num * Frame \in Int
          BY <2>2, <3>1, SizesAssumption DEF UpInv
        <5> QED BY <5>1
      <4> QED BY <2>1, <3>1, <4>1 DEF SendReturns, Sent, DamageInv
    <3>2. CASE pos + s # num * UpUnits
      BY <1>3, <2>1, <3>2
    <3> QED BY <3>1, <3>2
  <2> QED BY <1>2, <2>3 DEF DamageInv
<1>6. CASE sendmmsg_error
  <2>1. SendReturns(0) /\ (downEnd \/ ~Stream)
    BY <1>6 DEF sendmmsg_error
  <2> QED BY <1>2, <1>3, <2>1 DEF Excused
<1>7. CASE sendmmsg_wait
  <2>1. CASE MayWait
    <3>1. torn' = torn
      BY <1>7, <2>1 DEF sendmmsg_wait, batch
    <3> QED BY <1>2, <3>1 DEF DamageInv
  <2>2. CASE ~MayWait
    <3>1. SendReturns(0)
      BY <1>7, <2>2 DEF sendmmsg_wait
    <3>2. Stream => timeout = "zero"
      BY <2>2 DEF MayWait, ControlLost, Stream
    <3> QED BY <1>2, <1>3, <3>1, <3>2 DEF Excused
  <2> QED BY <2>1, <2>2
<1>8. CASE sendmmsg_resume
  <2>1. CASE expired
    <3>1. SendReturns(0)
      BY <1>8, <2>1 DEF sendmmsg_resume
    <3> QED BY <1>2, <1>3, <2>1, <3>1 DEF Excused
  <2>2. CASE ~expired
    <3>1. torn' = torn
      BY <1>8, <2>2 DEF sendmmsg_resume, batch
    <3> QED BY <1>2, <3>1 DEF DamageInv
  <2> QED BY <2>1, <2>2
<1> QED BY <1>4, <1>5, <1>6, <1>7, <1>8

\* The reads damage nothing.
LEMMA ReadDamage ==
    ASSUME DamageInv, UNCHANGED freed,
           fwd_b_skip \/ recv_head \/ recv_head_none \/ recv_rest \/ recv_body
           \/ recv_wild \/ recvmmsg_udp \/ deliver
    PROVE  Harmless
<1>1. torn' = torn
  <2>1. Aside
    BY DEF fwd_b_skip, recv_head, recv_head_none, recv_rest, recv_body,
           recv_wild, recvmmsg_udp, deliver
  <2> QED BY <2>1 DEF Aside, upv
<1>2. CASE fwd_b_skip \/ recv_head \/ recv_head_none \/ recv_rest
  BY <1>1, <1>2 DEF fwd_b_skip, recv_head, recv_head_none, recv_rest, Goto, Kept,
                    dnv, Harmless
<1>3. CASE recv_body \/ recv_wild
  BY <1>1, <1>3 DEF recv_body, recv_wild, Goto, Kept, Harmless
<1>4. CASE recvmmsg_udp \/ deliver
  BY <1>1, <1>4 DEF recvmmsg_udp, deliver, Goto, Harmless
<1> QED BY <1>2, <1>3, <1>4

\* A wait inside a frame is given up only with a cause.
LEMMA WaitDamage ==
    ASSUME DamageInv, DownInv, UNCHANGED freed,
           recv_rest_wait \/ recv_rest_resume \/ recv_body_wait \/ recv_body_resume
    PROVE  DamageInv' /\ (Damages => Excused)
<1>1. Stream /\ pc \in {"bh", "hwait", "bb", "bwait"}
  BY DEF recv_rest_wait, recv_rest_resume, recv_body_wait, recv_body_resume,
         Resumed, DownInv, InHead, InBody
<1>2. torn' = torn
  BY DEF recv_rest_wait, recv_rest_resume, recv_body_wait, recv_body_resume,
         Aside, upv
<1>3. /\ \A w : Goto(w) => pc' = w
      /\ Kept => wild' = wild
      /\ Undefined => wild' \in BOOLEAN
      /\ ShortBody => wild' \in BOOLEAN
      /\ \A r : ShortHead(r) => wild' \in BOOLEAN
  BY DEF Goto, Kept, Undefined, Lost, ShortBody, ShortHead, DamageInv
<1>4. \/ wild' = wild /\ pc' \in {"hwait", "bwait", "bh", "bb"}
      \/ wild' \in BOOLEAN /\ (expired \/ downEnd \/ ~MayWait)
  BY <1>3 DEF recv_rest_wait, recv_rest_resume, recv_body_wait, recv_body_resume,
              Sleep
<1>5. ~MayWait => timeout = "zero"
  BY <1>1 DEF MayWait, ControlLost, Stream
<1>6. freed > 0 => FALSE
  BY <1>1 DEF DamageInv
<1>7. wild' \in BOOLEAN /\ (Damages => Excused)
  BY <1>1, <1>2, <1>4, <1>5 DEF DamageInv, Damages, Excused
<1> QED BY <1>2, <1>6, <1>7 DEF DamageInv

\* The end of the session, the callbacks and the server.
LEMMA RestDamage ==
    ASSUME DamageInv, UpInv,
           \/ (splice_yield \/ splice_resume) /\ UNCHANGED freed
           \/ destruct \/ destruct_resume \/ udp_recv_handler \/ terminate
           \/ mutex_unlock \/ Server \/ SrvSend \/ SrvTake \/ Poll \/ TimerExpire
           \/ UNCHANGED vars
    PROVE  DamageInv' /\ (Damages => Excused)
<1>1. CASE (splice_yield \/ splice_resume) /\ UNCHANGED freed
  <2>1. Harmless
    BY <1>1 DEF splice_yield, splice_resume, Goto, Sleep, GiveUp, Resumed, upv,
                dnv, Harmless
  <2> QED BY <2>1, HarmlessDamage
<1>2. CASE destruct \/ destruct_resume
  <2>1. CASE Destructed /\ pc \in {"destruct", "free"}
    <3>1. torn' = FALSE /\ wild' = FALSE /\ freed' = 0
      BY <2>1 DEF Destructed
    <3>2. torn' \in BOOLEAN /\ wild' \in BOOLEAN
      BY <3>1, Zenon
    <3>3. DamageInv'
      BY <3>1, <3>2 DEF DamageInv
    <3> QED BY <2>1, <3>3 DEF Excused
  <2>2. CASE pc' = "lock" /\ freed' \in Nat /\ UNCHANGED <<torn, wild>>
    BY <2>2 DEF DamageInv, Damages
  <2>3. Len(frames) \in Nat
    BY DEF UpInv
  <2> QED BY <1>2, <2>1, <2>2, <2>3
          DEF destruct, destruct_resume, Resumed, upv, dnv, DamageInv
<1>3. CASE udp_recv_handler
  <2>1. UNCHANGED <<torn, wild, freed>> /\ OffCpu
    BY <1>3 DEF udp_recv_handler, dnv
  <2>2. pc' = pc \/ (pc' = "crashed" /\ freed > 0)
    BY <1>3 DEF udp_recv_handler, Wakeup, TailFreed
  <2>3. freed > 0 => pc = "lock" \/ pc = "free" \/ pc = "crashed"
    BY DEF DamageInv
  <2> QED BY <2>1, <2>2, <2>3 DEF DamageInv, Damages, Excused
<1>4. CASE terminate \/ mutex_unlock \/ Server \/ SrvSend \/ SrvTake \/ Poll
           \/ TimerExpire \/ UNCHANGED vars
  <2>1. UNCHANGED <<torn, wild, freed>>
    BY <1>4 DEF terminate, mutex_unlock, Server, SrvSend, SrvTake, Poll,
                TimerExpire, upv, dnv, vars
  <2>2. pc' = pc \/ (pc = "lock" /\ pc' = "free")
    BY <1>4 DEF terminate, mutex_unlock, Server, SrvSend, SrvTake, Poll,
                TimerExpire, Wakeup, ctl, vars
  <2> QED BY <2>1, <2>2 DEF DamageInv, Damages
<1> QED BY <1>1, <1>2, <1>3, <1>4

\* A frame is left unfinished, or taken apart at the wrong place, and the
\* session runs into undefined behaviour, only for the reasons that
\* DamageNeedsLoss names, whatever the sizes: no short send or receive of the
\* socket alone makes sendmmsg_tcp or recvmmsg_tcp lose its place.
THEOREM DamageNeedsCause == Spec => DamageNeedsLoss
<1>1. Init => DamageInv
  <2> SUFFICES ASSUME Init PROVE DamageInv
    OBVIOUS
  <2>1. torn = FALSE /\ wild = FALSE /\ freed = 0
    BY DEF Init
  <2>2. torn \in BOOLEAN /\ wild \in BOOLEAN
    BY <2>1, Zenon
  <2> QED BY <2>1, <2>2 DEF DamageInv
<1>2. ASSUME DamageInv, UpInv, DownInv, [Next]_vars
      PROVE  DamageInv' /\ (Damages => Excused)
  <2>1. CASE Harmless
    BY <1>2, <2>1, HarmlessDamage
  <2> QED BY <1>2, <2>1, HsDamage, SendDamage, ReadDamage, WaitDamage, RestDamage
          DEF Next, SessionStep, Done
<1>3. ASSUME Damages => Excused
      PROVE  [(torn' # torn \/ wild' # wild \/ (pc' = "crashed" /\ pc # "crashed"))
                => \/ pc = "destruct" \/ pc = "free"
                   \/ pc = "lock" /\ freed > 0
                   \/ Stream /\ (expired \/ timeout = "zero" \/ downEnd)]_vars
  BY <1>3 DEF Damages, Excused
<1> QED BY <1>1, <1>2, <1>3, UpHolds, DownHolds, PTL DEF Spec, DamageNeedsLoss
============================================================================

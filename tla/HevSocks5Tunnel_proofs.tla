----------------------- MODULE HevSocks5Tunnel_proofs -----------------------
(***************************************************************************)
(* Proofs about HevSocks5Tunnel for every number of sessions, every limit  *)
(* and every bound: its type invariant, ListConsistent, NoAbort unless the *)
(* limit is 1, TimerAwake, JoinProgress and TerminateKept.                 *)
(*                                                                         *)
(* NoAbort is not inductive: that the tasks woken are not stopped follows  *)
(* from where their sessions are.  IInv ties the state of a session's task *)
(* to its phase, its place on the list and its callbacks.                  *)
(***************************************************************************)
EXTENDS HevSocks5Tunnel, HevList_proofs, TLAPS

\* A session's task is stopped exactly while the session does not exist, and
\* then nothing is left that would wake it.
SessionOK(x) == /\ x.task = "STOPPED" <=> x.phase = "free"
                /\ x.pcb \/ x.armed => x.phase # "free"

Listed(x) == x.phase \notin {"free", "destruct"}

SessInv ==
    /\ ses \in [Sessions -> Session]
    /\ session_set \in Seq(Sessions) /\ session_count \in Nat
    /\ ListConsistent
    /\ \A s \in Sessions : SessionOK(ses[s])

CtlType ==
    /\ run \in BOOLEAN /\ aborted \in BOOLEAN /\ mutex \in BOOLEAN
    /\ event \in [pc : {"read", "joinio", "jointimer", "done"},
                  task : TaskStates]
    /\ io \in [pc : {"read", "mutex", "done"}, task : TaskStates]
    /\ timer \in [pc : {"loop", "mutex", "done"}, task : TaskStates,
                  armed : BOOLEAN]
    /\ pending \in [byte : BOOLEAN, edge : BOOLEAN]
    /\ left \in [conns : Nat, traffic : Nat, fails : Nat, quits : Nat]

\* The timer task ends only after a stop.
TimerLives == timer.task = "STOPPED" => ~run

CtlInv == CtlType /\ TimerLives /\ (MaxSessionCount # 1 => NoAbort)

IInv == SessInv /\ CtlInv

----------------------------------------------------------------------------
\* A session is listed exactly while hev_socks5_session_run has not returned.
LEMMA ListedMember ==
    ASSUME SessInv, NEW s \in Sessions
    PROVE  s \in Members(session_set) <=> Listed(ses[s])
  BY DEF SessInv, ListConsistent, Listed

\* Only sessions are on the list.
LEMMA MemberSession ==
    ASSUME SessInv PROVE Members(session_set) \subseteq Sessions
  BY DEF SessInv, ListConsistent

\* The members of the list are the listed sessions.
LEMMA ListIs ==
    ASSUME SessInv
    PROVE  /\ session_count = Len(session_set) /\ Linked(session_set)
           /\ Members(session_set) = {s \in Sessions : Listed(ses[s])}
  BY DEF SessInv, ListConsistent, Listed

\* Nothing happens to the sessions.
LEMMA SessFrame ==
    ASSUME SessInv, UNCHANGED <<ses, session_set, session_count>>
    PROVE  SessInv'
  BY DEF SessInv, ListConsistent

\* One session changes and stays on the list or off it, where it may become
\* the last one.
LEMMA OneSession ==
    ASSUME SessInv, NEW s \in Sessions, NEW y \in Session,
           ses' = [ses EXCEPT ![s] = y], SessionOK(y),
           Listed(y) <=> Listed(ses[s]), session_count' = session_count,
           \/ session_set' = session_set
           \/ Listed(ses[s]) /\ session_set' = Touch(session_set, s)
    PROVE  SessInv'
<1>1. /\ session_set \in Seq(Sessions) /\ ses \in [Sessions -> Session]
      /\ session_count \in Nat /\ \A t \in Sessions : SessionOK(ses[t])
  BY DEF SessInv
<1>2. /\ session_count = Len(session_set) /\ Linked(session_set)
      /\ Members(session_set) = {t \in Sessions : Listed(ses[t])}
  BY ListIs
<1>3. /\ session_set' \in Seq(Sessions) /\ Len(session_set') = Len(session_set)
      /\ Linked(session_set') /\ Members(session_set') = Members(session_set)
  <2>1. CASE session_set' = session_set
    BY <1>1, <1>2, <2>1 DEF Linked, Members
  <2>2. CASE Listed(ses[s]) /\ session_set' = Touch(session_set, s)
    <3>1. s \in Members(session_set)
      BY <1>2, <2>2
    <3> DEFINE new == Touch(session_set, s)
    <3>2. /\ new \in Seq(Sessions) /\ Len(new) = Len(session_set)
          /\ Linked(new) /\ Members(new) = Members(session_set)
      BY <1>1, <1>2, <3>1, TouchOK
    <3> HIDE DEF new
    <3>3. session_set' = new
      BY <2>2 DEF new
    <3> QED BY <3>2, <3>3
  <2> QED BY <2>1, <2>2
<1>4. /\ ses' \in [Sessions -> Session]
      /\ \A t \in Sessions : SessionOK(ses'[t])
      /\ \A t \in Sessions : Listed(ses'[t]) <=> Listed(ses[t])
  BY <1>1
<1>5. {t \in Sessions : Listed(ses'[t])} = {t \in Sessions : Listed(ses[t])}
  BY <1>4
<1>6. ListConsistent'
  BY <1>2, <1>3, <1>5 DEF ListConsistent, Listed
<1> QED BY <1>1, <1>3, <1>4, <1>6 DEF SessInv

----------------------------------------------------------------------------
(* What the sessions' tasks do.                                            *)

\* The timeout of a session is one of the configured ones, or 0.
LEMMA TimeoutType ==
    ASSUME NEW x \in Session, NEW q
    PROVE  TimeoutAt(x, q) \in {"none", "conn", "rw", "udp", "zero"}
  BY DEF TimeoutAt, Session

\* A session that yields or waits, in the handshake, the splice, the drain or
\* for the mutex, keeps its place or becomes the last of the list.
LEMMA WaitStep ==
    ASSUME SessInv, NEW s \in Sessions,
           \/ \E q \in DOMAIN Rank : session_waits(s, q)
           \/ session_yields(s) \/ session_locked(s)
    PROVE  SessInv'
<1> DEFINE x == ses[s]
<1>1. x \in Session /\ SessionOK(x) /\ ses \in [Sessions -> Session]
  BY DEF SessInv
<1>2. \/ session_set' = session_set
      \/ Listed(x) /\ session_set' = Touch(session_set, s)
  BY Zenon
     DEF session_waits, session_yields, session_locked, update_session, Listed
<1>3. session_count' = session_count
  BY Zenon DEF session_waits, session_yields, session_locked
<1>4. CASE \E q \in DOMAIN Rank : session_waits(s, q)
  <2>1. PICK q \in DOMAIN Rank : session_waits(s, q)
    BY <1>4
  <2> DEFINE y == [x EXCEPT !.phase = q, !.task = "WAITING",
                            !.expired = FALSE, !.timeout = TimeoutAt(x, q),
                            !.armed = q \notin {"resolve", "bnd"}]
  <2>2. ses' = [ses EXCEPT ![s] = y]
    BY <2>1, Zenon DEF session_waits
  <2>3. TimeoutAt(x, q) \in {"none", "conn", "rw", "udp", "zero"}
    BY <1>1, TimeoutType
  <2>4. q \in Phases /\ q \notin {"free", "destruct"}
    BY DEF Phases, Rank
  <2>5. x.phase \notin {"free", "destruct"}
    BY <2>1, Zenon DEF session_waits, MayLookUp, MaySleep, Rank
  <2>6. y \in Session
    BY <1>1, <2>3, <2>4, ZenonT(60) DEF Session, TaskStates
  <2>7. SessionOK(y) /\ Listed(y) /\ Listed(x)
    BY <1>1, <2>4, <2>5 DEF Session, SessionOK, Listed
  <2> HIDE DEF y
  <2> QED BY <1>2, <1>3, <2>2, <2>6, <2>7, OneSession, Zenon
<1>5. CASE session_yields(s)
  <2> DEFINE y == [x EXCEPT !.phase = "splice", !.armed = FALSE,
                            !.timeout = TimeoutAt(x, "splice")]
  <2>2. ses' = [ses EXCEPT ![s] = y]
    BY <1>5 DEF session_yields
  <2>3. TimeoutAt(x, "splice") \in {"none", "conn", "rw", "udp", "zero"}
    BY <1>1, TimeoutType
  <2>5. x.phase \notin {"free", "destruct"}
    BY <1>5 DEF session_yields, Splices, Rank
  <2>6. y \in Session
    BY <1>1, <2>3, ZenonT(60) DEF Session, Phases, Rank
  <2>7. SessionOK(y) /\ Listed(y) /\ Listed(x)
    BY <1>1, <2>5 DEF Session, SessionOK, Listed
  <2> HIDE DEF y
  <2> QED BY <1>2, <1>3, <2>2, <2>6, <2>7, OneSession, Zenon
<1>6. CASE session_locked(s)
  <2> DEFINE y == [x EXCEPT !.task = "WAITING", !.armed = FALSE,
                            !.expired = FALSE, !.phase = "mutex",
                            !.timeout = TimeoutAt(x, "splice")]
  <2>2. ses' = [ses EXCEPT ![s] = y]
    BY <1>6 DEF session_locked
  <2>3. TimeoutAt(x, "splice") \in {"none", "conn", "rw", "udp", "zero"}
    BY <1>1, TimeoutType
  <2>5. x.phase \notin {"free", "destruct"}
    BY <1>6 DEF session_locked, Splices, Rank
  <2>6. y \in Session
    BY <1>1, <2>3, ZenonT(60) DEF Session, Phases, TaskStates
  <2>7. SessionOK(y) /\ Listed(y) /\ Listed(x)
    BY <1>1, <2>5 DEF Session, SessionOK, Listed
  <2> HIDE DEF y
  <2> QED BY <1>2, <1>3, <2>2, <2>6, <2>7, OneSession, Zenon
<1> QED BY <1>4, <1>5, <1>6

\* A task that finds the mutex held, and everything that wakes a session: its
\* answers, its clock, its descriptor and its callbacks.
LEMMA WakeStep ==
    ASSUME SessInv, NEW s \in Sessions, UNCHANGED list,
           \/ session_still_locked(s) \/ dns_answer(s) \/ session_polled(s)
           \/ session_clock(s) \/ packet(s)
           \/ ses[s].pcb /\ PcbLost(s)
    PROVE  SessInv'
<1> DEFINE x == ses[s]
<1>1. x \in Session /\ SessionOK(x) /\ ses \in [Sessions -> Session]
  BY DEF SessInv
<1>2. x.phase # "free"
  BY <1>1 DEF session_still_locked, dns_answer, session_polled, session_clock,
              packet, SessionOK
<1>3. session_set' = session_set /\ session_count' = session_count
  BY DEF list
<1>4. CASE session_still_locked(s)
  <2> DEFINE y == [x EXCEPT !.task = "WAITING"]
  <2>1. ses' = [ses EXCEPT ![s] = y]
    BY <1>1, <1>4 DEF session_still_locked, Session
  <2>2. y \in Session /\ SessionOK(y) /\ (Listed(y) <=> Listed(x))
    BY <1>1, <1>2 DEF Session, TaskStates, SessionOK, Listed
  <2> HIDE DEF y
  <2> QED BY <1>3, <2>1, <2>2, OneSession, Zenon
<1>5. CASE dns_answer(s)
  <2> DEFINE p == IF x.phase = "resolve" THEN "resolved" ELSE "bnd_resolved"
             y == [x EXCEPT !.phase = p, !.task = "RUNNING"]
  <2>1. ses' = [ses EXCEPT ![s] = y]
    <3>1. ses' = [ses EXCEPT ![s] = Woken([x EXCEPT !.phase = p])]
      BY <1>5 DEF dns_answer
    <3>2. Woken([x EXCEPT !.phase = p]) = y
      BY <1>1 DEF Woken, Session
    <3> QED BY <3>1, <3>2, Zenon
  <2>2. p \in Phases /\ p \notin {"free", "destruct"}
    BY DEF Phases, Rank
  <2>3. x.phase \notin {"free", "destruct"}
    BY <1>5 DEF dns_answer
  <2>4. y \in Session
    BY <1>1, <2>2, ZenonT(60) DEF Session, TaskStates
  <2>5. SessionOK(y) /\ Listed(y) /\ Listed(x)
    BY <1>1, <2>2, <2>3 DEF Session, SessionOK, Listed
  <2> HIDE DEF y
  <2> QED BY <1>3, <2>1, <2>4, <2>5, OneSession, Zenon
<1>6. CASE session_polled(s) \/ packet(s)
  <2> DEFINE y == [x EXCEPT !.task = "RUNNING"]
  <2>1. ses' = [ses EXCEPT ![s] = y]
    BY <1>6 DEF session_polled, packet, Woken
  <2>2. y \in Session /\ SessionOK(y) /\ (Listed(y) <=> Listed(x))
    BY <1>1, <1>2 DEF Session, TaskStates, SessionOK, Listed
  <2> HIDE DEF y
  <2> QED BY <1>3, <2>1, <2>2, OneSession, Zenon
<1>7. CASE session_clock(s)
  <2> DEFINE y == [x EXCEPT !.expired = TRUE, !.task = "RUNNING"]
  <2>1. ses' = [ses EXCEPT ![s] = y]
    BY <1>1, <1>7 DEF session_clock, Woken, Session
  <2>2. y \in Session /\ SessionOK(y) /\ (Listed(y) <=> Listed(x))
    BY <1>1, <1>2, ZenonT(60) DEF Session, TaskStates, SessionOK, Listed
  <2> HIDE DEF y
  <2> QED BY <1>3, <2>1, <2>2, OneSession, Zenon
<1>8. CASE ses[s].pcb /\ PcbLost(s)
  <2> DEFINE y == [x EXCEPT !.pcb = FALSE, !.timeout = "zero",
                            !.task = "RUNNING"]
  <2>1. ses' = [ses EXCEPT ![s] = y]
    BY <1>1, <1>8 DEF PcbLost, Terminated, Woken, Session
  <2>2. y \in Session /\ SessionOK(y) /\ (Listed(y) <=> Listed(x))
    BY <1>1, <1>2, ZenonT(60) DEF Session, TaskStates, SessionOK, Listed
  <2> HIDE DEF y
  <2> QED BY <1>3, <2>1, <2>2, OneSession, Zenon
<1> QED BY <1>4, <1>5, <1>6, <1>7, <1>8

\* A session ends: it leaves the list, and is gone unless its destructor has
\* to wait for the mutex.
LEMMA ExitStep ==
    ASSUME SessInv, NEW s \in Sessions, session_exits(s) PROVE SessInv'
<1> DEFINE x == ses[s]
           y == IF mutex
                THEN [x EXCEPT !.phase = "destruct", !.task = "WAITING",
                               !.armed = FALSE, !.expired = FALSE]
                ELSE Free
           new == hev_list_del(session_set, s)
<1>1. /\ x \in Session /\ SessionOK(x) /\ ses \in [Sessions -> Session]
      /\ session_set \in Seq(Sessions) /\ session_count \in Nat
      /\ \A t \in Sessions : SessionOK(ses[t])
  BY DEF SessInv
<1>2. /\ session_count = Len(session_set) /\ Linked(session_set)
      /\ Members(session_set) = {t \in Sessions : Listed(ses[t])}
  BY ListIs
<1>3. Listed(x)
  BY DEF session_exits, Listed, Rank
<1>4. s \in Members(session_set)
  BY <1>2, <1>3
<1>5. /\ new \in Seq(Sessions) /\ Len(new) = Len(session_set) - 1
      /\ Linked(new) /\ Members(new) = Members(session_set) \ {s}
  BY <1>1, <1>2, <1>4, Del
<1>6. y \in Session
  BY <1>1, ZenonT(60) DEF Session, Free, Phases, TaskStates
<1>7. SessionOK(y) /\ ~Listed(y)
  BY <1>1 DEF Session, Free, SessionOK, Listed
<1>8. /\ ses' = [ses EXCEPT ![s] = y] /\ session_set' = new
      /\ session_count' = session_count - 1
  BY DEF session_exits
<1> HIDE DEF y, new
<1>9. /\ ses' \in [Sessions -> Session]
      /\ \A t \in Sessions : SessionOK(ses'[t])
      /\ \A t \in Sessions : Listed(ses'[t]) <=> Listed(ses[t]) /\ t # s
  BY <1>1, <1>6, <1>7, <1>8
<1>10. {t \in Sessions : Listed(ses'[t])} = Members(session_set) \ {s}
  BY <1>2, <1>9
<1>11. session_count' = Len(session_set') /\ session_count' \in Nat
  BY <1>1, <1>2, <1>5, <1>8
<1>12. ListConsistent'
  BY <1>5, <1>8, <1>10, <1>11 DEF ListConsistent, Listed
<1> QED BY <1>5, <1>8, <1>9, <1>11, <1>12 DEF SessInv

----------------------------------------------------------------------------
(* What the tunnel does to the sessions.                                   *)

\* hev_socks5_session_terminate of a session that exists.
LEMMA TerminatedOK ==
    ASSUME NEW x \in Session, SessionOK(x), x.phase # "free"
    PROVE  /\ Terminated(x) \in Session /\ SessionOK(Terminated(x))
           /\ Listed(Terminated(x)) <=> Listed(x)
<1> DEFINE y == [x EXCEPT !.timeout = "zero", !.task = "RUNNING"]
<1>1. Terminated(x) = y
  BY DEF Terminated, Woken, Session
<1>2. y \in Session /\ SessionOK(y) /\ (Listed(y) <=> Listed(x))
  BY Zenon DEF Session, TaskStates, SessionOK, Listed
<1> HIDE DEF y
<1> QED BY <1>1, <1>2

\* A new session becomes the last of the list and the oldest is terminated.
LEMMA AcceptStep ==
    ASSUME SessInv, NEW s \in Sessions, NEW kind \in {"tcp", "udp"},
           accept_handler(s, kind)
    PROVE  SessInv'
<1> DEFINE x == [Free EXCEPT !.kind = kind, !.phase = "new",
                             !.task = "RUNNING", !.pcb = TRUE]
           new == hev_list_add_tail(session_set, s)
           evict == MaxSessionCount # 0 /\ session_count' >= MaxSessionCount
           oldest == hev_list_first(new)
<1>1. /\ ses \in [Sessions -> Session] /\ ses[s].phase = "free"
      /\ session_set \in Seq(Sessions) /\ session_count \in Nat
      /\ \A t \in Sessions : SessionOK(ses[t])
  BY DEF SessInv, accept_handler
<1>2. /\ session_count = Len(session_set) /\ Linked(session_set)
      /\ Members(session_set) = {t \in Sessions : Listed(ses[t])}
  BY ListIs
<1>3. s \notin Members(session_set)
  BY <1>1, <1>2 DEF Listed
<1>4. new \in Seq(Sessions) /\ Len(new) = Len(session_set) + 1
  BY <1>1, AddTail
<1>5. Members(new) = Members(session_set) \cup {s}
  BY <1>1, AddTailMembers
<1>6. Linked(new)
  BY <1>1, <1>2, <1>3, AddTailLinked
<1>7. x \in Session /\ SessionOK(x) /\ Listed(x)
  BY ZenonT(60) DEF Session, Free, Phases, Rank, TaskStates, SessionOK, Listed
<1>8. /\ session_set' = new /\ session_count' = session_count + 1
      /\ ses' = [t \in Sessions |->
                    IF t = s THEN x
                    ELSE IF evict /\ t = oldest THEN Terminated(ses[t])
                    ELSE ses[t]]
  BY DEF accept_handler, insert_session, Evict
<1>9. oldest \in Members(new)
  <2> HIDE DEF new
  <2>1. Len(session_set) \in Nat
    BY <1>1
  <2>2. 1 \in 1 .. Len(new)
    BY <1>4, <2>1
  <2> QED BY <2>2 DEF Members, hev_list_first
<1> HIDE DEF x, new, evict, oldest
<1>10. ASSUME NEW t \in Sessions
       PROVE  /\ ses'[t] \in Session /\ SessionOK(ses'[t])
              /\ Listed(ses'[t]) <=> Listed(ses[t]) \/ t = s
  <2>1. CASE t = s
    BY <1>7, <1>8, <2>1
  <2>2. CASE t # s /\ t = oldest
    <3>1. Listed(ses[t])
      BY <1>2, <1>5, <1>9, <2>2
    <3>2. ses[t] \in Session /\ SessionOK(ses[t]) /\ ses[t].phase # "free"
      BY <1>1, <3>1 DEF Listed
    <3>3. /\ Terminated(ses[t]) \in Session /\ SessionOK(Terminated(ses[t]))
          /\ Listed(Terminated(ses[t])) <=> Listed(ses[t])
      BY <3>2, TerminatedOK
    <3> QED BY <1>8, <2>2, <3>2, <3>3
  <2>3. CASE t # s /\ t # oldest
    BY <1>1, <1>8, <2>3
  <2> QED BY <2>1, <2>2, <2>3
<1>11. ses' \in [Sessions -> Session]
  BY <1>8, <1>10
<1>12. {t \in Sessions : Listed(ses'[t])} = Members(session_set) \cup {s}
  BY <1>2, <1>10
<1>13. session_count' = Len(session_set') /\ session_count' \in Nat
  BY <1>1, <1>2, <1>4, <1>8
<1>14. ListConsistent'
  BY <1>5, <1>6, <1>8, <1>12, <1>13 DEF ListConsistent, Listed
<1> QED BY <1>4, <1>8, <1>10, <1>11, <1>13, <1>14 DEF SessInv

\* event_task_entry terminates the sessions of the list.
LEMMA StopStep ==
    ASSUME SessInv, event_stops PROVE SessInv'
<1>1. /\ ses \in [Sessions -> Session]
      /\ session_set \in Seq(Sessions) /\ session_count \in Nat
      /\ \A t \in Sessions : SessionOK(ses[t])
  BY DEF SessInv
<1>2. /\ session_count = Len(session_set) /\ Linked(session_set)
      /\ Members(session_set) = {t \in Sessions : Listed(ses[t])}
  BY ListIs
<1>3. /\ session_set' = session_set /\ session_count' = session_count
      /\ ses' = [t \in Sessions |-> IF t \in Members(session_set)
                                    THEN Terminated(ses[t]) ELSE ses[t]]
  BY DEF event_stops, list
<1>4. ASSUME NEW t \in Sessions
      PROVE  /\ ses'[t] \in Session /\ SessionOK(ses'[t])
             /\ Listed(ses'[t]) <=> Listed(ses[t])
  <2>1. CASE t \in Members(session_set)
    <3>1. ses[t] \in Session /\ SessionOK(ses[t]) /\ ses[t].phase # "free"
      BY <1>1, <1>2, <2>1 DEF Listed
    <3>2. /\ Terminated(ses[t]) \in Session /\ SessionOK(Terminated(ses[t]))
          /\ Listed(Terminated(ses[t])) <=> Listed(ses[t])
      BY <3>1, TerminatedOK
    <3> QED BY <1>3, <2>1, <3>2
  <2>2. CASE t \notin Members(session_set)
    BY <1>1, <1>3, <2>2
  <2> QED BY <2>1, <2>2
<1>5. ses' \in [Sessions -> Session]
  BY <1>3, <1>4
<1>6. {t \in Sessions : Listed(ses'[t])} = Members(session_set)
  BY <1>2, <1>4
<1>7. ListConsistent'
  BY <1>2, <1>3, <1>6 DEF ListConsistent, Listed
<1> QED BY <1>1, <1>3, <1>4, <1>5, <1>7 DEF SessInv

----------------------------------------------------------------------------
(* No stopped task is woken.                                               *)

\* The task of a session that exists is not stopped.
LEMMA Exists ==
    ASSUME SessInv, NEW s \in Sessions, ses[s].phase # "free" \/ ses[s].pcb
    PROVE  ~Aborts(ses[s])
  BY DEF SessInv, SessionOK, Aborts

\* Unless the limit is 1 the session evicted is not the one just inserted.
LEMMA AcceptNoAbort ==
    ASSUME SessInv, CtlInv, MaxSessionCount # 1, NEW s \in Sessions, NEW kind,
           accept_handler(s, kind)
    PROVE  NoAbort'
<1> DEFINE new == hev_list_add_tail(session_set, s)
           evict == MaxSessionCount # 0 /\ session_count' >= MaxSessionCount
           oldest == hev_list_first(new)
<1>1. session_set \in Seq(Sessions) /\ session_count = Len(session_set)
  BY DEF SessInv, ListConsistent
<1>2. aborted' = ((evict /\ Aborts(ses[oldest])) \/ Aborts(timer))
  BY DEF accept_handler, insert_session, Evict
<1>3. ~Aborts(timer)
  BY DEF accept_handler, IoRuns, Aborts, CtlInv, TimerLives
<1>4. ASSUME evict PROVE ~Aborts(ses[oldest])
  <2>1. session_count' = session_count + 1
    BY DEF accept_handler, insert_session
  <2>2. Len(session_set) \in Nat /\ Len(session_set) >= 1
    BY <1>1, <1>4, <2>1, TunnelAssumption
  <2>3. 1 \in 1 .. Len(session_set)
    BY <2>2
  <2>4. new[1] = session_set[1]
    BY <1>1, <2>3, AddTail
  <2>5. oldest \in Members(session_set)
    BY <2>3, <2>4 DEF Members, hev_list_first
  <2> HIDE DEF oldest
  <2>6. oldest \in Sessions /\ ses[oldest].phase # "free"
    BY <2>5, ListIs DEF Listed
  <2> QED BY <2>6, Exists
<1> QED BY <1>2, <1>3, <1>4, Zenon DEF NoAbort

\* The sessions of the list exist when event_task_entry terminates them.
LEMMA StopNoAbort ==
    ASSUME SessInv, event_stops PROVE NoAbort'
<1>1. ASSUME NEW s \in Members(session_set) PROVE ~Aborts(ses[s])
  <2>1. s \in Sessions /\ ses[s].phase # "free"
    BY ListIs DEF Listed
  <2> QED BY <2>1, Exists
<1>2. aborted' = \E s \in Members(session_set) : Aborts(ses[s])
  BY DEF event_stops
<1> QED BY <1>1, <1>2 DEF NoAbort

----------------------------------------------------------------------------
(* The tunnel's own tasks.                                                 *)

\* The I/O task.
LEMMA IoCtl ==
    ASSUME IInv,
           \/ session_lost \/ task_lost \/ io_polled \/ io_blocks \/ io_exits
           \/ io_still_locked
    PROVE  CtlInv'
<1> USE DEF IInv, CtlInv, tasks, list
<1>1. /\ event' \in [pc : {"read", "joinio", "jointimer", "done"},
                     task : TaskStates]
      /\ io' \in [pc : {"read", "mutex", "done"}, task : TaskStates]
  BY DEF CtlType, TaskStates, session_lost, task_lost, io_polled, io_blocks,
         io_exits, io_still_locked, Joined, Woken, IoRuns
<1>2. UNCHANGED <<timer, run, aborted, pending>>
  BY DEF session_lost, task_lost, io_polled, io_blocks, io_exits,
         io_still_locked
<1>3. mutex' \in BOOLEAN
  BY Zenon DEF CtlType, session_lost, task_lost, io_polled, io_blocks, io_exits,
         io_still_locked
<1>4. \/ left' = left
      \/ /\ left.conns > 0 /\ left.fails > 0
         /\ left' = [left EXCEPT !.conns = @ - 1, !.fails = @ - 1]
  BY DEF session_lost, task_lost, io_polled, io_blocks, io_exits,
         io_still_locked
<1>5. left' \in [conns : Nat, traffic : Nat, fails : Nat, quits : Nat]
  <2>1. left \in [conns : Nat, traffic : Nat, fails : Nat, quits : Nat]
    BY DEF CtlType
  <2>2. CASE left' = left
    BY <2>1, <2>2
  <2>3. CASE /\ left.conns > 0 /\ left.fails > 0
             /\ left' = [left EXCEPT !.conns = @ - 1, !.fails = @ - 1]
    <3>1. left.conns - 1 \in Nat /\ left.fails - 1 \in Nat
      BY <2>1, <2>3
    <3> QED BY <2>1, <2>3, <3>1, Zenon
  <2> QED BY <1>4, <2>2, <2>3
<1> QED BY <1>1, <1>2, <1>3, <1>5 DEF CtlType, TimerLives, NoAbort

\* The sessions' tasks leave the tunnel's alone.
LEMMA SessionCtl ==
    ASSUME IInv, NEW s \in Sessions,
           \/ \E q \in DOMAIN Rank : session_waits(s, q)
           \/ session_yields(s) \/ session_locked(s)
           \/ session_still_locked(s) \/ session_exits(s) \/ dns_answer(s)
           \/ session_clock(s) \/ session_polled(s)
    PROVE  CtlInv'
<1> USE DEF IInv, CtlInv, tasks, list
<1>1. UNCHANGED <<run, aborted, mutex, event, io, timer, pending>>
  BY Zenon
     DEF session_waits, session_yields, session_locked, session_still_locked,
         session_exits, dns_answer, session_clock, session_polled
<1>2. left' = left \/ UsesTraffic
  BY Zenon
     DEF session_waits, session_yields, session_locked, session_still_locked,
         session_exits, dns_answer, session_clock, session_polled
<1>3. left' \in [conns : Nat, traffic : Nat, fails : Nat, quits : Nat]
  BY <1>2 DEF CtlType, UsesTraffic
<1> QED BY <1>1, <1>3 DEF CtlType, TimerLives, NoAbort

\* The callbacks and the accept handlers.
LEMMA CallbackCtl ==
    ASSUME IInv, NEW s \in Sessions, NEW kind,
           \/ accept_handler(s, kind) \/ packet(s) \/ reset(s)
           \/ timer_gives_up(s)
    PROVE  CtlInv'
<1> USE DEF IInv, CtlInv, tasks, list
<1>1. aborted' \in BOOLEAN
  BY Zenon
     DEF accept_handler, insert_session, Evict, packet, reset, timer_gives_up,
         PcbLost, Aborts
<1>2. left' \in [conns : Nat, traffic : Nat, fails : Nat, quits : Nat]
  BY DEF CtlType, accept_handler, packet, reset, timer_gives_up, UsesTraffic
<1>3. UNCHANGED <<run, mutex, event, io, pending>>
  BY DEF accept_handler, packet, reset, timer_gives_up
<1>4. /\ timer' \in [pc : {"loop", "mutex", "done"}, task : TaskStates,
                     armed : BOOLEAN]
      /\ timer' = timer \/ timer'.task # "STOPPED"
  BY DEF CtlType, TaskStates, accept_handler, packet, reset, timer_gives_up,
         TimerWaits, Woken
<1>5. MaxSessionCount # 1 => NoAbort'
  <2>1. CASE accept_handler(s, kind)
    BY <2>1, AcceptNoAbort
  <2>2. CASE packet(s) \/ reset(s) \/ timer_gives_up(s)
    <3>1. ses[s].pcb /\ aborted' = Aborts(ses[s])
      BY <2>2 DEF packet, reset, timer_gives_up, PcbLost
    <3> QED BY <3>1, Exists DEF NoAbort
  <2> QED BY <2>1, <2>2
<1> QED BY <1>1, <1>2, <1>3, <1>4, <1>5 DEF CtlType, TimerLives

\* The timer and event tasks and hev_socks5_tunnel_stop.
LEMMA EventCtl ==
    ASSUME IInv,
           \/ timer_ticks \/ timer_locked \/ timer_exits \/ timer_clock
           \/ event_blocks \/ event_stops \/ event_joins \/ event_polled
           \/ Quit
    PROVE  CtlInv'
<1> USE DEF IInv, CtlInv, tasks, list
<1>1. CASE timer_ticks \/ timer_locked \/ timer_exits \/ timer_clock
  <2>1. UNCHANGED <<run, aborted, mutex, io, pending, left>>
    BY <1>1 DEF timer_ticks, timer_locked, timer_exits, timer_clock
  <2>2. timer' \in [pc : {"loop", "mutex", "done"}, task : TaskStates,
                    armed : BOOLEAN]
    <3>1. CASE timer_ticks
      <4>1. (session_set # <<>>) \in BOOLEAN
        OBVIOUS
      <4> QED BY <3>1, <4>1, Zenon DEF TaskStates, timer_ticks, TimerWaits
    <3>2. CASE timer_locked
      BY <3>2 DEF TaskStates, timer_locked
    <3>3. CASE timer_exits
      BY <3>3 DEF TaskStates, timer_exits
    <3>4. CASE timer_clock
      BY <3>4 DEF CtlType, TaskStates, timer_clock, Woken
    <3> QED BY <1>1, <3>1, <3>2, <3>3, <3>4
  <2>3. event' \in [pc : {"read", "joinio", "jointimer", "done"},
                    task : TaskStates]
    BY <1>1 DEF CtlType, TaskStates, timer_ticks, timer_locked, timer_exits,
                timer_clock, Joined, Woken
  <2>4. TimerLives'
    BY <1>1 DEF CtlType, TimerLives, timer_ticks, timer_locked, timer_exits,
                timer_clock, TimerRuns, TimerWaits, Woken
  <2> QED BY <2>1, <2>2, <2>3, <2>4 DEF CtlType, NoAbort
<1>2. CASE event_blocks \/ event_polled \/ Quit
  <2>1. UNCHANGED <<run, aborted, mutex, io, timer>>
    BY <1>2 DEF event_blocks, event_polled, Quit
  <2>2. event' \in [pc : {"read", "joinio", "jointimer", "done"},
                    task : TaskStates]
    BY <1>2 DEF CtlType, TaskStates, event_blocks, event_polled, Quit, Woken
  <2>3. pending' \in [byte : BOOLEAN, edge : BOOLEAN]
    <3>1. \/ pending' = pending
          \/ pending' = [pending EXCEPT !.edge = FALSE]
          \/ pending' = [byte |-> TRUE, edge |-> TRUE]
      BY <1>2 DEF event_blocks, event_polled, Quit
    <3>2. pending \in [byte : BOOLEAN, edge : BOOLEAN]
      BY DEF CtlType
    <3>3. CASE pending' = [pending EXCEPT !.edge = FALSE]
      BY <3>2, <3>3, Zenon
    <3>4. CASE pending' = [byte |-> TRUE, edge |-> TRUE]
      BY <3>4
    <3> QED BY <3>1, <3>2, <3>3, <3>4
  <2>4. left' \in [conns : Nat, traffic : Nat, fails : Nat, quits : Nat]
    BY <1>2 DEF CtlType, event_blocks, event_polled, Quit
  <2> QED BY <2>1, <2>2, <2>3, <2>4 DEF CtlType, TimerLives, NoAbort
<1>3. CASE event_joins
  BY <1>3 DEF CtlType, TaskStates, TimerLives, NoAbort, event_joins, JoinIo,
              JoinTimer, Woken
<1>4. CASE event_stops
  <2>1. NoAbort' /\ aborted' \in BOOLEAN
    BY <1>4, StopNoAbort, Zenon DEF event_stops
  <2>2. run' = FALSE /\ UNCHANGED <<mutex, left>>
    BY <1>4 DEF event_stops
  <2>3. pending' \in [byte : BOOLEAN, edge : BOOLEAN]
    BY <1>4, Zenon DEF event_stops, CtlType
  <2>4. /\ event' \in [pc : {"read", "joinio", "jointimer", "done"},
                       task : TaskStates]
        /\ io' \in [pc : {"read", "mutex", "done"}, task : TaskStates]
        /\ timer' \in [pc : {"loop", "mutex", "done"}, task : TaskStates,
                       armed : BOOLEAN]
    BY <1>4 DEF event_stops, JoinIo, JoinTimer, Woken, CtlType, TaskStates
  <2> QED BY <2>1, <2>2, <2>3, <2>4, Zenon DEF CtlType, TimerLives
<1> QED BY <1>1, <1>2, <1>3, <1>4

----------------------------------------------------------------------------
\* The tunnel as hev_socks5_tunnel_run starts it.
LEMMA InitIInv == Init => IInv
<1> SUFFICES ASSUME Init PROVE IInv
  OBVIOUS
<1>1. ses \in [Sessions -> Session]
  BY DEF Init, Free, Session, Phases, TaskStates
<1>2. \A s \in Sessions : SessionOK(ses[s]) /\ ~Listed(ses[s])
  BY DEF Init, Free, SessionOK, Listed
<1>3. session_set = <<>> /\ session_count = 0
  BY DEF Init
<1>4. Linked(session_set) /\ Members(session_set) = {}
  BY <1>3 DEF Linked, Members
<1>5. ListConsistent
  BY <1>2, <1>3, <1>4 DEF ListConsistent, Listed
<1>6. SessInv
  BY <1>1, <1>2, <1>3, <1>5 DEF SessInv
<1>7. CtlInv
  BY TunnelAssumption, Zenon
     DEF Init, CtlInv, CtlType, TaskStates, TimerLives, NoAbort
<1> QED BY <1>6, <1>7 DEF IInv

\* One step per group of actions.
LEMMA NextIInv == IInv /\ [Next]_vars => IInv'
<1> SUFFICES ASSUME IInv, [Next]_vars PROVE IInv'
  OBVIOUS
<1> USE DEF IInv
<1>1. CASE UNCHANGED vars
  <2>1. UNCHANGED <<ses, session_set, session_count>>
    BY <1>1 DEF vars, list
  <2>2. SessInv'
    BY <2>1, SessFrame
  <2>3. CtlInv'
    BY <1>1 DEF vars, tasks, CtlInv, CtlType, TimerLives, NoAbort
  <2> QED BY <2>2, <2>3
<1>2. ASSUME NEW s \in Sessions, SessionStep(s) \/ dns_answer(s)
                                 \/ session_clock(s) \/ session_polled(s)
      PROVE  IInv'
  <2>1. CtlInv'
    BY <1>2, SessionCtl DEF SessionStep
  <2>2. CASE \/ \E q \in DOMAIN Rank : session_waits(s, q)
             \/ session_yields(s) \/ session_locked(s)
    BY <2>1, <2>2, WaitStep
  <2>3. CASE session_exits(s)
    BY <2>1, <2>3, ExitStep
  <2>4. CASE \/ session_still_locked(s) \/ dns_answer(s)
             \/ session_clock(s) \/ session_polled(s)
    <3>1. UNCHANGED list
      BY <2>4 DEF session_still_locked, dns_answer, session_clock,
                  session_polled
    <3> QED BY <2>1, <2>4, <3>1, WakeStep
  <2> QED BY <1>2, <2>2, <2>3, <2>4 DEF SessionStep
<1>3. ASSUME NEW s \in Sessions, packet(s) \/ reset(s) \/ timer_gives_up(s)
      PROVE  IInv'
  <2>1. CtlInv'
    BY <1>3, CallbackCtl
  <2>2. UNCHANGED list /\ (packet(s) \/ (ses[s].pcb /\ PcbLost(s)))
    BY <1>3 DEF packet, reset, timer_gives_up
  <2> QED BY <2>1, <2>2, WakeStep
<1>4. ASSUME NEW s \in Sessions, tcp_accept_handler(s) \/ udp_recv_handler(s)
      PROVE  IInv'
  <2>1. PICK kind \in {"tcp", "udp"} : accept_handler(s, kind)
    BY <1>4 DEF tcp_accept_handler, udp_recv_handler
  <2>2. CtlInv'
    BY <2>1, CallbackCtl
  <2>3. SessInv'
    BY <2>1, AcceptStep
  <2> QED BY <2>2, <2>3
<1>5. CASE event_stops
  BY <1>5, StopStep, EventCtl
<1>6. CASE \/ TimerStep \/ timer_clock \/ event_blocks \/ event_joins
           \/ event_polled \/ Quit
  <2>1. UNCHANGED <<ses, session_set, session_count>>
    BY <1>6 DEF TimerStep, timer_ticks, timer_locked, timer_exits, timer_clock,
                event_blocks, event_joins, event_polled, Quit, list
  <2>2. CtlInv'
    BY <1>6, EventCtl DEF TimerStep
  <2> QED BY <2>1, <2>2, SessFrame
<1>7. CASE session_lost \/ task_lost \/ io_polled \/ IoStep
  <2>1. UNCHANGED <<ses, session_set, session_count>>
    BY <1>7 DEF session_lost, task_lost, io_polled, IoStep, io_blocks,
                io_exits, io_still_locked, list
  <2>2. CtlInv'
    BY <1>7, IoCtl DEF IoStep
  <2> QED BY <2>1, <2>2, SessFrame
<1> QED
  BY <1>1, <1>2, <1>3, <1>4, <1>5, <1>6, <1>7
     DEF Next, Halted, Network, EventStep

\* The inductive invariant of the tunnel.
THEOREM TunnelIInv == Spec => []IInv
  BY InitIInv, NextIInv, PTL DEF Spec

\* hev-socks5-tunnel.c: the tunnel's variables have their types, whatever the
\* limit and the number of sessions.
THEOREM TunnelTypeOK == Spec => []TypeOK
<1>1. IInv => TypeOK
  BY DEF IInv, SessInv, CtlInv, CtlType, TypeOK
<1> QED BY <1>1, TunnelIInv, PTL

\* hev_socks5_tunnel_insert_session, update_session and delete_session keep
\* every running session on the list once, and count them.
THEOREM TunnelList == Spec => []ListConsistent
<1>1. IInv => ListConsistent
  BY DEF IInv, SessInv
<1> QED BY <1>1, TunnelIInv, PTL

\* Unless max-session-count is 1, hev_task_wakeup never meets a stopped task,
\* for which it would abort the process.
THEOREM TunnelNoAbort == MaxSessionCount # 1 => (Spec => []NoAbort)
<1> SUFFICES ASSUME MaxSessionCount # 1 PROVE Spec => []NoAbort
  OBVIOUS
<1>1. IInv => NoAbort
  BY DEF IInv, CtlInv
<1> QED BY <1>1, TunnelIInv, PTL

----------------------------------------------------------------------------
(* The timer task and the joins.                                           *)

\* The steps that are not the timer task's nor about the timer task.
TimerApart ==
    \/ \E s \in Sessions : \/ SessionStep(s) \/ dns_answer(s) \/ session_clock(s)
                           \/ packet(s) \/ reset(s) \/ session_polled(s)
    \/ session_lost \/ task_lost \/ io_polled \/ IoStep
    \/ event_blocks \/ event_polled \/ Quit

\* A session that is on the list makes it non-empty.
LEMMA ListedSome ==
    ASSUME SessInv, NEW s \in Sessions, Listed(ses[s]) PROVE session_set # <<>>
<1>1. s \in Members(session_set)
  BY ListedMember
<1>2. Members(<<>>) = {}
  BY DEF Members
<1> QED BY <1>1, <1>2

\* Only an accept puts a session on an empty list.
LEMMA SetStaysEmpty ==
    ASSUME SessInv, TimerApart
    PROVE  session_set' # <<>> => session_set # <<>>
<1>1. ASSUME NEW s \in Sessions, SessionStep(s), session_set' # session_set
      PROVE  Listed(ses[s])
  <2>1. CASE session_exits(s)
    BY <2>1 DEF session_exits, Listed, Rank
  <2>2. CASE \/ \E q \in DOMAIN Rank : session_waits(s, q)
             \/ session_yields(s) \/ session_locked(s)
    BY <1>1, <2>2, Zenon
       DEF session_waits, session_yields, session_locked, update_session, Listed
  <2>3. ~session_still_locked(s)
    BY <1>1 DEF session_still_locked, list
  <2> QED BY <1>1, <2>1, <2>2, <2>3 DEF SessionStep
<1>2. ASSUME NEW s \in Sessions,
             \/ dns_answer(s) \/ session_clock(s) \/ packet(s) \/ reset(s)
             \/ session_polled(s)
      PROVE  session_set' = session_set
  BY <1>2 DEF dns_answer, session_clock, packet, reset, session_polled, list
<1>3. CASE \/ session_lost \/ task_lost \/ io_polled \/ IoStep
           \/ event_blocks \/ event_polled \/ Quit
  <2>1. session_set' = session_set
    BY <1>3 DEF session_lost, task_lost, io_polled, IoStep, io_blocks, io_exits,
                io_still_locked, event_blocks, event_polled, Quit, list
  <2> QED BY <2>1
<1>4. ASSUME NEW s \in Sessions, SessionStep(s)
      PROVE  session_set' # <<>> => session_set # <<>>
  BY <1>1, <1>4, ListedSome
<1> QED BY <1>2, <1>3, <1>4, Zenon DEF TimerApart

\* They leave the timer task and run alone.
LEMMA ApartFrame ==
    ASSUME TimerApart PROVE UNCHANGED <<timer, run>>
<1>1. ASSUME NEW s \in Sessions, SessionStep(s) PROVE UNCHANGED <<timer, run>>
  BY <1>1, Zenon DEF SessionStep, session_waits, session_yields, session_locked,
     session_still_locked, session_exits, tasks
<1>2. ASSUME NEW s \in Sessions,
             \/ dns_answer(s) \/ session_clock(s) \/ packet(s) \/ reset(s)
             \/ session_polled(s)
      PROVE  UNCHANGED <<timer, run>>
  BY <1>2, Zenon DEF dns_answer, session_clock, packet, reset, session_polled, tasks
<1>3. CASE \/ session_lost \/ task_lost \/ io_polled \/ IoStep
           \/ event_blocks \/ event_polled \/ Quit
  BY <1>3, Zenon DEF session_lost, task_lost, io_polled, IoStep, io_blocks, io_exits,
     io_still_locked, event_blocks, event_polled, Quit, tasks
<1> QED BY <1>1, <1>2, <1>3, Zenon DEF TimerApart

\* What is left of the next-state relation.
LEMMA StepKinds ==
    ASSUME [Next]_vars
    PROVE  \/ TimerApart \/ UNCHANGED vars
           \/ \E s \in Sessions, kind \in {"tcp", "udp"} : accept_handler(s, kind)
           \/ \E s \in Sessions : timer_gives_up(s)
           \/ TimerStep \/ timer_clock \/ event_stops \/ event_joins
<1>1. ASSUME NEW s \in Sessions, tcp_accept_handler(s) \/ udp_recv_handler(s)
      PROVE  \E kind \in {"tcp", "udp"} : accept_handler(s, kind)
  BY <1>1, Zenon DEF tcp_accept_handler, udp_recv_handler
<1> QED BY <1>1, Zenon DEF Next, Halted, Network, EventStep, TimerApart

\* lwip_timer_task_entry and accept_handler: the timer task, which waits
\* without a timeout while there is no session, is never left so with one.
THEOREM TunnelTimerAwake == Spec => []TimerAwake
<1>1. Init => TimerAwake
  BY DEF Init, TimerAwake
<1>2. ASSUME IInv, TimerAwake, [Next]_vars PROVE TimerAwake'
  <2>1. timer \in [pc : {"loop", "mutex", "done"}, task : TaskStates,
                   armed : BOOLEAN]
    BY <1>2 DEF IInv, CtlInv, CtlType
  <2>2. CASE TimerApart
    <3>1. session_set' # <<>> => session_set # <<>>
      BY <1>2, <2>2, SetStaysEmpty DEF IInv
    <3>2. UNCHANGED <<timer, run>>
      BY <2>2, ApartFrame
    <3> QED BY <1>2, <3>1, <3>2 DEF TimerAwake
  <2>3. CASE \E s \in Sessions, kind \in {"tcp", "udp"} : accept_handler(s, kind)
    <3>1. timer' = Woken(timer)
      BY <2>3 DEF accept_handler
    <3> QED BY <2>1, <3>1 DEF TimerAwake, Woken
  <2>4. CASE timer_ticks \/ \E s \in Sessions : timer_gives_up(s)
    <3>1. TimerWaits /\ session_set' = session_set
      BY <2>4 DEF timer_ticks, timer_gives_up, list
    <3> QED BY <3>1 DEF TimerAwake, TimerWaits
  <2>5. CASE timer_locked
    BY <2>5 DEF TimerAwake, timer_locked
  <2>6. CASE timer_exits
    BY <2>6 DEF TimerAwake, timer_exits
  <2>7. CASE timer_clock
    BY <2>1, <2>7 DEF TimerAwake, timer_clock, Woken
  <2>8. CASE event_stops
    BY <2>8 DEF TimerAwake, event_stops
  <2>9. CASE event_joins
    <3>1. /\ timer' = timer \/ timer' = Woken(timer)
          /\ UNCHANGED <<run, session_set>>
      BY <2>9 DEF event_joins, JoinIo, JoinTimer, list
    <3> QED BY <1>2, <2>1, <3>1 DEF TimerAwake, Woken
  <2>10. CASE UNCHANGED vars
    BY <1>2, <2>10 DEF vars, tasks, list, TimerAwake
  <2> QED BY <1>2, <2>2, <2>3, <2>4, <2>5, <2>6, <2>7, <2>8, <2>9, <2>10, StepKinds
          DEF TimerStep
<1> QED BY <1>1, <1>2, TunnelIInv, PTL DEF Spec

\* The event task is past its read only after a stop, and the task it joins
\* is on its way.
JoinInv == (event.pc # "read" => ~run) /\ JoinProgress

\* The steps that touch none of the three tasks.
LEMMA OtherJoin ==
    ASSUME JoinInv, UNCHANGED <<run, event, io, timer>> PROVE JoinInv'
  BY DEF JoinInv, JoinProgress

\* event_task_entry joins the I/O task and the timer task: while it waits for
\* one of them, that task runs or waits for the mutex.
THEOREM TunnelJoinProgress == Spec => []JoinProgress
<1>1. Init => JoinInv
  BY DEF Init, JoinInv, JoinProgress
<1>2. ASSUME IInv, JoinInv, [Next]_vars PROVE JoinInv'
  <2>1. /\ event \in [pc : {"read", "joinio", "jointimer", "done"},
                      task : TaskStates]
        /\ io \in [pc : {"read", "mutex", "done"}, task : TaskStates]
        /\ timer \in [pc : {"loop", "mutex", "done"}, task : TaskStates,
                      armed : BOOLEAN]
    BY <1>2 DEF IInv, CtlInv, CtlType
  <2>2. ASSUME NEW s \in Sessions,
               \/ SessionStep(s) \/ dns_answer(s) \/ session_clock(s)
               \/ packet(s) \/ reset(s) \/ session_polled(s)
        PROVE  JoinInv'
    <3>1. UNCHANGED <<run, event, io, timer>>
      BY <2>2, Zenon DEF SessionStep, session_waits, session_yields, session_locked,
         session_still_locked, session_exits, dns_answer, session_clock, packet,
         reset, session_polled, tasks
    <3> QED BY <1>2, <3>1, OtherJoin
  <2>3. CASE session_lost \/ Quit \/ UNCHANGED vars
    <3>1. UNCHANGED <<run, event, io, timer>>
      BY <2>3 DEF session_lost, Quit, vars, tasks
    <3> QED BY <1>2, <3>1, OtherJoin
  <2>4. CASE task_lost
    BY <1>2, <2>1, <2>4 DEF JoinInv, JoinProgress, task_lost
  <2>5. CASE io_polled
    BY <1>2, <2>1, <2>5 DEF JoinInv, JoinProgress, io_polled, Woken
  <2>6. CASE io_blocks
    BY <1>2, <2>1, <2>6 DEF JoinInv, JoinProgress, io_blocks, IoRuns
  <2>7. CASE io_still_locked
    BY <1>2, <2>1, <2>7 DEF JoinInv, JoinProgress, io_still_locked
  <2>8. CASE io_exits
    BY <1>2, <2>1, <2>8 DEF JoinInv, JoinProgress, io_exits, Joined, Woken
  <2>9. ASSUME NEW s \in Sessions, NEW kind, accept_handler(s, kind)
        PROVE  JoinInv'
    BY <1>2, <2>1, <2>9 DEF JoinInv, JoinProgress, accept_handler, Woken
  <2>10. CASE timer_ticks \/ \E s \in Sessions : timer_gives_up(s)
    <3>1. run /\ UNCHANGED <<run, event, io>>
      BY <2>10 DEF timer_ticks, timer_gives_up
    <3> QED BY <1>2, <2>1, <3>1 DEF JoinInv, JoinProgress
  <2>11. CASE timer_locked
    BY <1>2, <2>1, <2>11 DEF JoinInv, JoinProgress, timer_locked
  <2>12. CASE timer_exits
    BY <1>2, <2>1, <2>12 DEF JoinInv, JoinProgress, timer_exits, Joined, Woken
  <2>13. CASE timer_clock
    BY <1>2, <2>1, <2>13 DEF JoinInv, JoinProgress, timer_clock, Woken
  <2>14. CASE event_blocks
    BY <1>2, <2>1, <2>14 DEF JoinInv, JoinProgress, event_blocks
  <2>15. CASE event_polled
    BY <1>2, <2>1, <2>15 DEF JoinInv, JoinProgress, event_polled, Woken
  <2>16. ASSUME JoinTimer, io' = io \/ io' = Woken(io), run' = FALSE PROVE JoinInv'
    BY <2>1, <2>16 DEF JoinInv, JoinProgress, JoinTimer, Woken
  <2>17. ASSUME JoinIo, run' = FALSE PROVE JoinInv'
    <3>1. CASE io.task = "STOPPED"
      BY <2>16, <2>17, <3>1 DEF JoinIo
    <3>2. CASE io.task # "STOPPED"
      BY <2>1, <2>17, <3>2 DEF JoinInv, JoinProgress, JoinIo, Woken
    <3> QED BY <3>1, <3>2
  <2>18. CASE event_stops
    BY <2>17, <2>18 DEF event_stops
  <2>19. CASE event_joins
    <3>1. run' = FALSE
      <4>1. run \in BOOLEAN /\ ~run /\ run' = run
        BY <1>2, <2>19 DEF event_joins, JoinInv, IInv, CtlInv, CtlType
      <4> QED BY <4>1
    <3> QED BY <2>16, <2>17, <2>19, <3>1 DEF event_joins
  <2> QED BY <1>2, <2>2, <2>3, <2>4, <2>5, <2>6, <2>7, <2>8, <2>9, <2>10, <2>11, <2>12,
             <2>13, <2>14, <2>15, <2>18, <2>19, StepKinds, Zenon
          DEF TimerApart, TimerStep, IoStep
<1>3. JoinInv => JoinProgress
  BY DEF JoinInv
<1> QED BY <1>1, <1>2, <1>3, TunnelIInv, PTL DEF Spec

----------------------------------------------------------------------------
(* A terminate is kept.                                                    *)

\* Past the last place where its timeout is set.
Settled(x) == \/ x.phase \in {"splice", "drain"}
              \/ x.kind = "tcp" /\ x.phase = "handshake"

\* There connect and handshake do not set it again.
LEMMA SettledTimeout ==
    ASSUME NEW x \in Session, Settled(x), NEW q \in DOMAIN Rank
    PROVE  TimeoutAt(x, q) = x.timeout
<1>1. /\ Rank["splice"] = 5 /\ Rank["drain"] = 6 /\ Rank["handshake"] = 3
      /\ Rank["resolve"] = 1
  BY DEF Rank
<1>2. CASE x.phase \in {"splice", "drain"}
  BY <1>1, <1>2 DEF TimeoutAt
<1>3. CASE x.kind = "tcp" /\ x.phase = "handshake"
  BY <1>1, <1>3 DEF TimeoutAt
<1> QED BY <1>2, <1>3 DEF Settled

\* One session changes.
LEMMA OneKeeps ==
    ASSUME ses \in [Sessions -> Session], NEW s \in Sessions, NEW y,
           ses' = [ses EXCEPT ![s] = y],
           ses[s].timeout = "zero" /\ Settled(ses[s])
             => y.timeout = "zero" \/ y.phase = "free",
           NEW t \in Sessions, ses[t].timeout = "zero", Settled(ses[t])
    PROVE  ses'[t].timeout = "zero" \/ ses'[t].phase = "free"
  BY DEF Settled

\* The steps of one session.
LEMMA SessionKeeps ==
    ASSUME SessInv, NEW s \in Sessions,
           \/ SessionStep(s) \/ dns_answer(s) \/ session_clock(s)
           \/ session_polled(s) \/ packet(s) \/ reset(s) \/ timer_gives_up(s),
           NEW t \in Sessions, ses[t].timeout = "zero", Settled(ses[t])
    PROVE  ses'[t].timeout = "zero" \/ ses'[t].phase = "free"
<1> DEFINE x == ses[s]
<1>1. ses \in [Sessions -> Session] /\ x \in Session
  BY DEF SessInv
<1>2. CASE \E q \in DOMAIN Rank : session_waits(s, q)
  <2>1. PICK q \in DOMAIN Rank : session_waits(s, q)
    BY <1>2
  <2> DEFINE y == [x EXCEPT !.phase = q, !.task = "WAITING",
                            !.expired = FALSE, !.timeout = TimeoutAt(x, q),
                            !.armed = q \notin {"resolve", "bnd"}]
  <2>2. ses' = [ses EXCEPT ![s] = y]
    BY <2>1, Zenon DEF session_waits
  <2>3. y.timeout = TimeoutAt(x, q)
    BY <1>1 DEF Session
  <2> HIDE DEF y
  <2>4. Settled(x) => y.timeout = x.timeout
    BY <1>1, <2>3, SettledTimeout
  <2> QED BY <1>1, <2>2, <2>4, OneKeeps
<1>3. CASE session_yields(s) \/ session_locked(s)
  <2>1. "splice" \in DOMAIN Rank
    BY DEF Rank
  <2>2. Settled(x) => TimeoutAt(x, "splice") = x.timeout
    BY <1>1, <2>1, SettledTimeout
  <2>3. CASE session_yields(s)
    <3> DEFINE y == [x EXCEPT !.phase = "splice", !.armed = FALSE,
                              !.timeout = TimeoutAt(x, "splice")]
    <3>1. ses' = [ses EXCEPT ![s] = y]
      BY <2>3 DEF session_yields
    <3>2. y.timeout = TimeoutAt(x, "splice")
      BY <1>1 DEF Session
    <3> HIDE DEF y
    <3> QED BY <1>1, <2>2, <3>1, <3>2, OneKeeps
  <2>4. CASE session_locked(s)
    <3> DEFINE y == [x EXCEPT !.task = "WAITING", !.armed = FALSE,
                              !.expired = FALSE, !.phase = "mutex",
                              !.timeout = TimeoutAt(x, "splice")]
    <3>1. ses' = [ses EXCEPT ![s] = y]
      BY <2>4 DEF session_locked
    <3>2. y.timeout = TimeoutAt(x, "splice")
      BY <1>1 DEF Session
    <3> HIDE DEF y
    <3> QED BY <1>1, <2>2, <3>1, <3>2, OneKeeps
  <2> QED BY <1>3, <2>3, <2>4
<1>4. CASE session_exits(s)
  <2> DEFINE y == IF mutex
                  THEN [x EXCEPT !.phase = "destruct", !.task = "WAITING",
                                 !.armed = FALSE, !.expired = FALSE]
                  ELSE Free
  <2>1. ses' = [ses EXCEPT ![s] = y]
    BY <1>4 DEF session_exits
  <2>2. y.timeout = x.timeout \/ y.phase = "free"
    BY <1>1 DEF Session, Free
  <2> HIDE DEF y
  <2> QED BY <1>1, <2>1, <2>2, OneKeeps
<1>5. CASE session_still_locked(s)
  <2> DEFINE y == [x EXCEPT !.task = "WAITING"]
  <2>1. ses' = [ses EXCEPT ![s] = y]
    BY <1>1, <1>5 DEF session_still_locked, Session
  <2>2. y.timeout = x.timeout
    BY <1>1 DEF Session
  <2> HIDE DEF y
  <2> QED BY <1>1, <2>1, <2>2, OneKeeps
<1>6. CASE dns_answer(s)
  <2>1. PICK y : ses' = [ses EXCEPT ![s] = y]
    BY <1>6, Zenon DEF dns_answer
  <2>2. ~Settled(x)
    BY <1>6 DEF dns_answer, Settled
  <2> QED BY <1>1, <2>1, <2>2, OneKeeps
<1>7. CASE session_clock(s)
  <2> DEFINE y == Woken([x EXCEPT !.expired = TRUE])
  <2>1. ses' = [ses EXCEPT ![s] = y]
    BY <1>7 DEF session_clock
  <2>2. y.timeout = x.timeout
    BY <1>1 DEF Session, Woken
  <2> HIDE DEF y
  <2> QED BY <1>1, <2>1, <2>2, OneKeeps
<1>8. CASE session_polled(s) \/ packet(s)
  <2> DEFINE y == Woken(x)
  <2>1. ses' = [ses EXCEPT ![s] = y]
    BY <1>8 DEF session_polled, packet
  <2>2. y.timeout = x.timeout
    BY <1>1 DEF Session, Woken
  <2> HIDE DEF y
  <2> QED BY <1>1, <2>1, <2>2, OneKeeps
<1>9. CASE reset(s) \/ timer_gives_up(s)
  <2> DEFINE y == Terminated([x EXCEPT !.pcb = FALSE])
  <2>1. ses' = [ses EXCEPT ![s] = y]
    BY <1>9 DEF reset, timer_gives_up, PcbLost
  <2>2. y.timeout = "zero"
    BY <1>1 DEF Session, Terminated, Woken
  <2> HIDE DEF y
  <2> QED BY <1>1, <2>1, <2>2, OneKeeps
<1> QED BY <1>2, <1>3, <1>4, <1>5, <1>6, <1>7, <1>8, <1>9 DEF SessionStep

\* An eviction and a stop terminate sessions; a new one takes a free place.
LEMMA TunnelKeeps ==
    ASSUME SessInv,
           event_stops \/ \E s \in Sessions, kind \in {"tcp", "udp"} :
                            accept_handler(s, kind),
           NEW t \in Sessions, ses[t].timeout = "zero", Settled(ses[t])
    PROVE  ses'[t].timeout = "zero"
<1>1. ses[t] \in Session /\ ses[t].phase # "free"
  BY DEF SessInv, Settled
<1>2. Terminated(ses[t]).timeout = "zero"
  BY <1>1 DEF Session, Terminated, Woken
<1>3. ses'[t] = ses[t] \/ ses'[t] = Terminated(ses[t])
  <2>1. CASE event_stops
    BY <2>1 DEF event_stops
  <2>2. CASE \E s \in Sessions, kind \in {"tcp", "udp"} : accept_handler(s, kind)
    <3>1. PICK s \in Sessions, kind \in {"tcp", "udp"} : accept_handler(s, kind)
      BY <2>2
    <3>2. t # s
      BY <1>1, <3>1 DEF accept_handler
    <3> QED BY <3>1, <3>2 DEF accept_handler, insert_session, Evict
  <2> QED BY <2>1, <2>2
<1> QED BY <1>2, <1>3

\* hev_socks5_session_terminate of a session in its splice, or of a TCP
\* session in its handshake, is not undone: its timeout stays 0 until it is
\* gone, whatever the session, the stop, the evictions and lwIP do.
THEOREM TunnelTerminateKept == Spec => TerminateKept
<1>1. ASSUME IInv, [Next]_vars
      PROVE  [\A s \in Sessions :
                /\ ses[s].timeout = "zero"
                /\ \/ ses[s].phase \in {"splice", "drain"}
                   \/ ses[s].kind = "tcp" /\ ses[s].phase = "handshake"
                => ses'[s].timeout = "zero" \/ ses'[s].phase = "free"]_vars
  <2> SUFFICES ASSUME NEW t \in Sessions, ses[t].timeout = "zero", Settled(ses[t])
               PROVE  ses'[t].timeout = "zero" \/ ses'[t].phase = "free"
    BY Zenon DEF Settled
  <2>1. CASE UNCHANGED ses
    BY <2>1
  <2>2. ASSUME NEW s \in Sessions,
               \/ SessionStep(s) \/ dns_answer(s) \/ session_clock(s)
               \/ session_polled(s) \/ packet(s) \/ reset(s) \/ timer_gives_up(s)
        PROVE  ses'[t].timeout = "zero" \/ ses'[t].phase = "free"
    BY <1>1, <2>2, SessionKeeps DEF IInv
  <2>3. CASE event_stops \/ \E s \in Sessions, kind \in {"tcp", "udp"} :
                              accept_handler(s, kind)
    BY <1>1, <2>3, TunnelKeeps DEF IInv
  <2>4. CASE \/ session_lost \/ task_lost \/ io_polled \/ IoStep
             \/ event_blocks \/ event_polled \/ Quit
    <3>1. UNCHANGED ses
      BY <2>4 DEF session_lost, task_lost, io_polled, IoStep, io_blocks, io_exits,
         io_still_locked, event_blocks, event_polled, Quit
    <3> QED BY <2>1, <3>1
  <2>5. CASE TimerStep \/ timer_clock \/ event_joins \/ UNCHANGED vars
    <3>1. UNCHANGED ses
      BY <2>5 DEF TimerStep, timer_ticks, timer_locked, timer_exits, timer_clock,
         event_joins, vars
    <3> QED BY <2>1, <3>1
  <2> QED BY <1>1, <2>2, <2>3, <2>4, <2>5, StepKinds, Zenon DEF TimerApart
<1> QED BY <1>1, TunnelIInv, PTL DEF Spec, TerminateKept
============================================================================

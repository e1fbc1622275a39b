-------------------------- MODULE HevSocks5Tunnel --------------------------
(***************************************************************************)
(* The tunnel of hev-socks5-tunnel.c: the event, lwIP I/O and lwIP timer   *)
(* tasks, the list of sessions and the sessions' tasks, from               *)
(* hev_socks5_tunnel_run to the return of hev_task_system_run.             *)
(*                                                                         *)
(* All tasks are coroutines of one thread.  An action is what a task does  *)
(* between two yields; the I/O task is one packet per action.  Only Quit   *)
(* (hev_socks5_tunnel_stop), the clock, the DNS thread and the network act *)
(* from outside.  A session is seen as far as its tunnel sees it: the      *)
(* phase in which it yields, its timeout and its task; what it forwards is *)
(* in HevSocks5SessionTCP.                                                 *)
(*                                                                         *)
(* mutex is TRUE while the lwIP mutex is held across a yield.  The tasks   *)
(* take and release it within one action, except where a task that holds   *)
(* it locks it again (task_lost).                                          *)
(*                                                                         *)
(* Bounds: Conns connections, Traffic events of the network (one packet or *)
(* one readiness event each), Fails allocation failures, Quits calls of    *)
(* hev_socks5_tunnel_stop.                                                 *)
(***************************************************************************)
EXTENDS HevList, FiniteSets

CONSTANTS
    Sessions,          \* the addresses of session objects, reused
    MaxSessionCount,   \* misc.max-session-count, 0: unlimited
    Kinds,             \* what the applications open: "tcp", "udp" or both
    Names,             \* the server is given, or answers with, a host name
    Conns, Traffic, Fails, Quits

ASSUME TunnelAssumption ==
    /\ IsFiniteSet(Sessions) /\ MaxSessionCount \in Nat
    /\ Kinds \subseteq {"tcp", "udp"} /\ Names \in BOOLEAN
    /\ Conns \in Nat /\ Traffic \in Nat /\ Fails \in Nat /\ Quits \in Nat

VARIABLES
    run, aborted, mutex,
    event,     \* task_event: [pc, task]
    io,        \* task_lwip_io: [pc, task]
    timer,     \* task_lwip_timer: [pc, task, armed]
    session_set, session_count,
    ses,       \* the sessions and their tasks
    pending,   \* event_fds: [byte, edge]
    left       \* what is left of the bounds

tasks == <<event, io, timer>>
list == <<session_set, session_count>>
vars == <<run, aborted, mutex, tasks, list, ses, pending, left>>

(* The places where a session's task yields, in the order it gets there.   *)
(* "resolve" and "bnd" wait for the DNS thread, for the server's name and  *)
(* for a name in the server's answer to a UDP request.  "mutex" and        *)
(* "destruct" wait for the lwIP mutex, in the splice and the destructor.   *)
Rank == [new |-> 0, resolve |-> 1, resolved |-> 1, connect |-> 2,
         handshake |-> 3, bnd |-> 4, bnd_resolved |-> 4, splice |-> 5,
         drain |-> 6]

Phases == DOMAIN Rank \cup {"mutex", "destruct", "free"}

Free == [kind |-> "tcp", phase |-> "free", task |-> "STOPPED",
         timeout |-> "none", armed |-> FALSE, expired |-> FALSE, pcb |-> FALSE]

Init ==
    /\ run = TRUE /\ aborted = FALSE /\ mutex = FALSE
    /\ event = [pc |-> "read", task |-> "RUNNING"]
    /\ io = [pc |-> "read", task |-> "RUNNING"]
    /\ timer = [pc |-> "loop", task |-> "RUNNING", armed |-> FALSE]
    /\ session_set = <<>> /\ session_count = 0
    /\ ses = [s \in Sessions |-> Free]
    /\ pending = [byte |-> FALSE, edge |-> FALSE]
    /\ left = [conns |-> Conns, traffic |-> Traffic, fails |-> Fails,
               quits |-> Quits]

\* hev_task_wakeup, which aborts the process when the task is stopped.
Woken(t) == [t EXCEPT !.task = "RUNNING"]

Aborts(t) == t.task = "STOPPED"

\* Mutant: no hev_task_wakeup.
Terminated_NoWakeup(x) == [x EXCEPT !.timeout = "zero"]

\* hev_socks5_session_terminate
Terminated(x) == Woken([x EXCEPT !.timeout = "zero"])

----------------------------------------------------------------------------
(* The I/O task: a packet of the TUN device.                               *)

IoRuns == io.pc = "read" /\ io.task = "RUNNING" /\ run

UsesTraffic == left.traffic > 0 /\ left' = [left EXCEPT !.traffic = @ - 1]

\* The end of hev_socks5_tunnel_insert_session and hev_task_run.  The new
\* session's task, still stopped in ses, is started after the eviction.
Evict(set, count, limit, s, x) ==
    LET evict == MaxSessionCount # 0 /\ count >= limit
        oldest == hev_list_first(set)
    IN  /\ aborted' = ((evict /\ Aborts(ses[oldest])) \/ Aborts(timer))
        /\ ses' = [t \in Sessions |->
                    IF t = s THEN x
                    ELSE IF evict /\ t = oldest THEN Terminated(ses[t])
                    ELSE ses[t]]

insert_session(s, x) ==
    /\ session_set' = hev_list_add_tail(session_set, s)
    /\ session_count' = session_count + 1
    /\ Evict(session_set', session_count', MaxSessionCount, s, x)

\* What tcp_accept_handler and udp_recv_handler share: a session and its task.
\* Mutant: the timer task is not woken.
accept_handler_NoWakeup(s, kind) ==
    /\ IoRuns /\ left.conns > 0 /\ ses[s].phase = "free"
    /\ insert_session(s, [Free EXCEPT !.kind = kind, !.phase = "new",
                                      !.task = "RUNNING", !.pcb = TRUE])
    /\ left' = [left EXCEPT !.conns = @ - 1]
    /\ UNCHANGED <<run, mutex, event, io, timer, pending>>

accept_handler(s, kind) ==
    /\ IoRuns /\ left.conns > 0 /\ ses[s].phase = "free"
    /\ insert_session(s, [Free EXCEPT !.kind = kind, !.phase = "new",
                                      !.task = "RUNNING", !.pcb = TRUE])
    /\ timer' = Woken(timer)
    /\ left' = [left EXCEPT !.conns = @ - 1]
    /\ UNCHANGED <<run, mutex, event, io, pending>>

tcp_accept_handler(s) == "tcp" \in Kinds /\ accept_handler(s, "tcp")

udp_recv_handler(s) == "udp" \in Kinds /\ accept_handler(s, "udp")

\* No memory for the session: the connection is refused.
session_lost ==
    /\ IoRuns /\ left.conns > 0 /\ left.fails > 0
    /\ left' = [left EXCEPT !.conns = @ - 1, !.fails = @ - 1]
    /\ UNCHANGED <<run, aborted, mutex, tasks, list, ses, pending>>

\* No memory for its task: the handler, called with the mutex held, destroys
\* the session, whose destructor locks the mutex.
task_lost ==
    /\ IoRuns /\ left.conns > 0 /\ left.fails > 0
    /\ left' = [left EXCEPT !.conns = @ - 1, !.fails = @ - 1]
    /\ mutex' = TRUE /\ io' = [pc |-> "mutex", task |-> "WAITING"]
    /\ UNCHANGED <<run, aborted, event, timer, list, ses, pending>>

\* A packet for a session: its recv or sent callback wakes it.
packet(s) ==
    /\ IoRuns /\ ses[s].pcb /\ ses[s].task # "RUNNING" /\ UsesTraffic
    /\ ses' = [ses EXCEPT ![s] = Woken(@)]
    /\ aborted' = Aborts(ses[s])
    /\ UNCHANGED <<run, mutex, tasks, list, pending>>

\* lwIP frees the pcb and calls tcp_err_handler.
PcbLost(s) ==
    /\ ses' = [ses EXCEPT ![s] = Terminated([@ EXCEPT !.pcb = FALSE])]
    /\ aborted' = Aborts(ses[s])

reset(s) ==
    /\ IoRuns /\ ses[s].pcb /\ ses[s].kind = "tcp" /\ UsesTraffic
    /\ PcbLost(s)
    /\ UNCHANGED <<run, mutex, tasks, list, pending>>

io_blocks ==
    /\ IoRuns
    /\ io' = [io EXCEPT !.task = "WAITING"]
    /\ UNCHANGED <<run, aborted, mutex, event, timer, list, ses, pending, left>>

io_polled ==
    /\ io = [pc |-> "read", task |-> "WAITING"]
    /\ left.conns > 0 \/ left.traffic > 0
    /\ io' = Woken(io)
    /\ UNCHANGED <<run, aborted, mutex, event, timer, list, ses, pending, left>>

\* Mutant: the joiner is not woken.
Joined_NoWakeup(pc) == UNCHANGED event

\* hev_task_executer: a task that ends wakes its joiner.
Joined(pc) == event' = IF event.pc = pc THEN Woken(event) ELSE event

io_exits ==
    /\ io.pc = "read" /\ io.task = "RUNNING" /\ ~run
    /\ io' = [pc |-> "done", task |-> "STOPPED"]
    /\ Joined("joinio")
    /\ UNCHANGED <<run, aborted, mutex, timer, list, ses, pending, left>>

\* A task woken inside hev_task_mutex_lock finds the mutex still held.
io_still_locked ==
    /\ io = [pc |-> "mutex", task |-> "RUNNING"] /\ mutex
    /\ io' = [io EXCEPT !.task = "WAITING"]
    /\ UNCHANGED <<run, aborted, mutex, event, timer, list, ses, pending, left>>

----------------------------------------------------------------------------
(* The timer task.                                                         *)

TimerRuns == timer.pc = "loop" /\ timer.task = "RUNNING"

\* tcp_tmr, which may give up a connection, and the wait for the next tick.
TimerWaits ==
    timer' = [pc |-> "loop", task |-> "WAITING", armed |-> session_set # <<>>]

timer_ticks ==
    /\ TimerRuns /\ run /\ ~mutex /\ TimerWaits
    /\ UNCHANGED <<run, aborted, mutex, event, io, list, ses, pending, left>>

timer_gives_up(s) ==
    /\ TimerRuns /\ run /\ ~mutex /\ TimerWaits
    /\ ses[s].pcb /\ ses[s].kind = "tcp" /\ UsesTraffic
    /\ PcbLost(s)
    /\ UNCHANGED <<run, mutex, event, io, list, pending>>

timer_locked ==
    /\ timer.task = "RUNNING" /\ mutex
    /\ timer.pc = "mutex" \/ (timer.pc = "loop" /\ run)
    /\ timer' = [pc |-> "mutex", task |-> "WAITING", armed |-> FALSE]
    /\ UNCHANGED <<run, aborted, mutex, event, io, list, ses, pending, left>>

timer_exits ==
    /\ TimerRuns /\ ~run
    /\ timer' = [pc |-> "done", task |-> "STOPPED", armed |-> FALSE]
    /\ Joined("jointimer")
    /\ UNCHANGED <<run, aborted, mutex, io, list, ses, pending, left>>

timer_clock ==
    /\ timer.armed /\ timer.task = "WAITING"
    /\ timer' = Woken(timer)
    /\ UNCHANGED <<run, aborted, mutex, event, io, list, ses, pending, left>>

----------------------------------------------------------------------------
(* The event task and hev_socks5_tunnel_stop.                              *)

Quit ==
    /\ event.pc # "done" /\ left.quits > 0
    /\ left' = [left EXCEPT !.quits = @ - 1]
    /\ pending' = [byte |-> TRUE, edge |-> TRUE]
    /\ UNCHANGED <<run, aborted, mutex, tasks, list, ses>>

event_polled ==
    /\ pending.edge /\ event.pc # "done"
    /\ pending' = [pending EXCEPT !.edge = FALSE]
    /\ event' = Woken(event)
    /\ UNCHANGED <<run, aborted, mutex, io, timer, list, ses, left>>

event_blocks ==
    /\ event = [pc |-> "read", task |-> "RUNNING"] /\ ~pending.byte
    /\ event' = [event EXCEPT !.task = "WAITING"]
    /\ UNCHANGED <<run, aborted, mutex, io, timer, list, ses, pending, left>>

\* hev_task_join wakes the task it waits for, each time around its loop.
JoinTimer ==
    IF timer.task = "STOPPED"
    THEN event' = [pc |-> "done", task |-> "STOPPED"] /\ UNCHANGED timer
    ELSE event' = [pc |-> "jointimer", task |-> "WAITING"]
         /\ timer' = Woken(timer)

\* Mutant: the task joined is left asleep.
JoinIo_NoWakeup ==
    IF io.task = "STOPPED"
    THEN JoinTimer /\ UNCHANGED io
    ELSE /\ event' = [pc |-> "joinio", task |-> "WAITING"]
         /\ UNCHANGED <<io, timer>>

JoinIo ==
    IF io.task = "STOPPED"
    THEN JoinTimer /\ UNCHANGED io
    ELSE /\ event' = [pc |-> "joinio", task |-> "WAITING"]
         /\ io' = Woken(io) /\ UNCHANGED timer

\* The event has been read: every session of the list is terminated.
event_stops ==
    /\ event = [pc |-> "read", task |-> "RUNNING"] /\ pending.byte
    /\ run' = FALSE
    /\ ses' = [s \in Sessions |-> IF s \in Members(session_set)
                                  THEN Terminated(ses[s]) ELSE ses[s]]
    /\ aborted' = \E s \in Members(session_set) : Aborts(ses[s])
    /\ pending' = [pending EXCEPT !.byte = FALSE]
    /\ JoinIo
    /\ UNCHANGED <<mutex, list, left>>

event_joins ==
    /\ event.task = "RUNNING"
    /\ \/ event.pc = "joinio" /\ JoinIo
       \/ event.pc = "jointimer" /\ JoinTimer /\ UNCHANGED io
    /\ UNCHANGED <<run, aborted, mutex, list, ses, pending, left>>

----------------------------------------------------------------------------
(* The sessions' tasks.                                                    *)

\* Mutant: the timeout is set again at each yield.
TimeoutAt_EachYield(x, q) ==
    LET reaches(p) == Rank[x.phase] <= Rank[p] /\ Rank[q] >= Rank[p]
    IN  IF x.kind = "udp" /\ reaches("splice") THEN "udp"
        ELSE IF reaches("handshake") THEN "rw"
        ELSE IF reaches("resolve") THEN "conn"
        ELSE x.timeout

\* HevSocks5.timeout when a session resumed at x.phase gets as far as q:
\* connect, handshake and the end of a UDP handshake set it.
TimeoutAt(x, q) ==
    LET passes(p) == Rank[x.phase] < Rank[p] /\ Rank[q] >= Rank[p]
    IN  IF x.kind = "udp" /\ passes("splice") THEN "udp"
        ELSE IF passes("handshake") THEN "rw"
        ELSE IF passes("resolve") THEN "conn"
        ELSE x.timeout

\* The DNS thread is waited for without a timeout.
MayLookUp(x, q) ==
    \/ Names /\ q = "resolve" /\ x.phase \in {"new", "resolve"}
    \/ /\ Names /\ q = "bnd" /\ x.kind = "udp"
       /\ x.phase \in DOMAIN Rank \ {"resolve"}
       /\ Rank[x.phase] <= Rank["bnd"] /\ x.phase # "bnd_resolved"
       /\ ~x.expired

\* Everything else sleeps in hev_socks5_task_io_yielder, which fails at once
\* when the timeout is 0.  The splice whose sleep expires drains.
MaySleep(x, q) ==
    /\ q \in {"connect", "handshake", "splice", "drain"}
    /\ x.phase \in DOMAIN Rank \ {"resolve", "bnd"}
    /\ Rank[x.phase] <= Rank[q] /\ TimeoutAt(x, q) # "zero"
    /\ x.expired => x.phase = "splice" /\ q = "drain"
    /\ q = "drain" => x.kind = "tcp"
    /\ q \in {"splice", "drain"} /\ x.kind = "tcp" =>
        x.pcb /\ (mutex => Rank[x.phase] >= Rank["splice"])

\* Mutant: the node is added without being deleted.
update_session_NoDelete(s) ==
    IF MaxSessionCount # 0 /\ ses[s].phase \in {"splice", "drain"}
    THEN hev_list_add_tail(session_set, s) ELSE session_set

\* hev_socks5_tunnel_update_session, after each yield of the splice.
update_session(s) ==
    IF MaxSessionCount # 0 /\ ses[s].phase \in {"splice", "drain"}
    THEN Touch(session_set, s) ELSE session_set

session_waits(s, q) ==
    /\ ses[s].task = "RUNNING"
    /\ MayLookUp(ses[s], q) \/ MaySleep(ses[s], q)
    /\ ses' = [ses EXCEPT ![s] =
                [@ EXCEPT !.phase = q, !.task = "WAITING", !.expired = FALSE,
                          !.timeout = TimeoutAt(ses[s], q),
                          !.armed = q \notin {"resolve", "bnd"}]]
    /\ session_set' = update_session(s)
    /\ UNCHANGED <<run, aborted, mutex, tasks, session_count, pending, left>>

\* The session is in the loop of its splice, or gets there.
Splices(x) ==
    /\ x.phase \in DOMAIN Rank \ {"resolve", "bnd", "drain"} /\ ~x.expired
    /\ x.kind = "tcp" => x.pcb

\* HEV_TASK_YIELD in the splice does not look at the timeout.
session_yields(s) ==
    /\ ses[s].task = "RUNNING" /\ UsesTraffic /\ Splices(ses[s])
    /\ ses[s].kind = "tcp" => ~mutex
    /\ ses' = [ses EXCEPT ![s] =
                [@ EXCEPT !.phase = "splice", !.armed = FALSE,
                          !.timeout = TimeoutAt(ses[s], "splice")]]
    /\ session_set' = update_session(s)
    /\ UNCHANGED <<run, aborted, mutex, tasks, session_count, pending>>

\* The splice locks the mutex to write to lwIP.
session_locked(s) ==
    /\ ses[s].task = "RUNNING" /\ mutex /\ Splices(ses[s])
    /\ ses' = [ses EXCEPT ![s] =
                [@ EXCEPT !.task = "WAITING", !.armed = FALSE,
                          !.expired = FALSE, !.phase = "mutex",
                          !.timeout = TimeoutAt(ses[s], "splice")]]
    /\ session_set' = update_session(s)
    /\ UNCHANGED <<run, aborted, mutex, tasks, session_count, pending, left>>

session_still_locked(s) ==
    /\ ses[s].task = "RUNNING" /\ mutex
    /\ ses[s].phase \in {"mutex", "destruct"}
    /\ ses' = [ses EXCEPT ![s].task = "WAITING"]
    /\ UNCHANGED <<run, aborted, mutex, tasks, list, pending, left>>

\* Mutant: the destructor leaves the callbacks of the pcb.
session_exits_KeepsCallbacks(s) ==
    /\ ses[s].task = "RUNNING"
    /\ ses[s].phase \in DOMAIN Rank \ {"resolve", "bnd"}
    /\ session_set' = hev_list_del(session_set, s)
    /\ session_count' = session_count - 1
    /\ ses' = [ses EXCEPT ![s] = [Free EXCEPT !.pcb = ses[s].pcb]]
    /\ UNCHANGED <<run, aborted, mutex, tasks, pending, left>>

\* hev_socks5_session_task_entry: hev_socks5_session_run has returned.
session_exits(s) ==
    /\ ses[s].task = "RUNNING"
    /\ ses[s].phase \in DOMAIN Rank \ {"resolve", "bnd"}
    /\ session_set' = hev_list_del(session_set, s)
    /\ session_count' = session_count - 1
    /\ ses' = [ses EXCEPT ![s] =
                IF mutex
                THEN [@ EXCEPT !.phase = "destruct", !.task = "WAITING",
                               !.armed = FALSE, !.expired = FALSE]
                ELSE Free]
    /\ UNCHANGED <<run, aborted, mutex, tasks, pending, left>>

dns_answer(s) ==
    /\ ses[s].phase \in {"resolve", "bnd"}
    /\ LET p == IF ses[s].phase = "resolve" THEN "resolved"
                                            ELSE "bnd_resolved"
       IN  ses' = [ses EXCEPT ![s] = Woken([@ EXCEPT !.phase = p])]
    /\ UNCHANGED <<run, aborted, mutex, tasks, list, pending, left>>

session_polled(s) ==
    /\ ses[s].task = "WAITING" /\ UsesTraffic
    /\ ses[s].phase \in {"connect", "handshake", "splice", "drain"}
    /\ ses' = [ses EXCEPT ![s] = Woken(@)]
    /\ UNCHANGED <<run, aborted, mutex, tasks, list, pending>>

session_clock(s) ==
    /\ ses[s].armed /\ ~ses[s].expired
    /\ ses' = [ses EXCEPT ![s] = Woken([@ EXCEPT !.expired = TRUE])]
    /\ UNCHANGED <<run, aborted, mutex, tasks, list, pending, left>>

----------------------------------------------------------------------------
SessionStep(s) ==
    \/ \E q \in DOMAIN Rank : session_waits(s, q)
    \/ session_yields(s) \/ session_locked(s) \/ session_still_locked(s)
    \/ session_exits(s)

IoStep == io_blocks \/ io_exits \/ io_still_locked

TimerStep == timer_ticks \/ timer_locked \/ timer_exits

EventStep == event_blocks \/ event_stops \/ event_joins

Network ==
    \/ \E s \in Sessions : \/ tcp_accept_handler(s) \/ udp_recv_handler(s)
                           \/ packet(s) \/ reset(s) \/ timer_gives_up(s)
                           \/ session_polled(s)
    \/ session_lost \/ task_lost \/ io_polled

\* hev_task_system_run returns when no task is left.
Returned ==
    /\ event.pc = "done" /\ io.pc = "done" /\ timer.pc = "done"
    /\ \A s \in Sessions : ses[s].phase = "free"

Halted == (aborted \/ Returned) /\ UNCHANGED vars

Next ==
    \/ /\ ~aborted
       /\ \/ Network \/ IoStep \/ TimerStep \/ timer_clock
          \/ EventStep \/ event_polled \/ Quit
          \/ \E s \in Sessions :
                SessionStep(s) \/ dns_answer(s) \/ session_clock(s)
    \/ Halted

Spec == Init /\ [][Next]_vars

(* Every runnable task is scheduled and every readiness event delivered;   *)
(* getaddrinfo returns.                                                    *)
FairSpec ==
    /\ Spec /\ WF_vars(IoStep) /\ WF_vars(TimerStep) /\ WF_vars(EventStep)
    /\ WF_vars(event_polled)
    /\ \A s \in Sessions : WF_vars(SessionStep(s)) /\ WF_vars(dns_answer(s))

(* The clock advances.                                                     *)
ClockRuns == /\ WF_vars(timer_clock)
             /\ \A s \in Sessions : WF_vars(session_clock(s))

----------------------------------------------------------------------------
TaskStates == {"STOPPED", "RUNNING", "WAITING"}

Session == [kind : {"tcp", "udp"}, phase : Phases, task : TaskStates,
            timeout : {"none", "conn", "rw", "udp", "zero"},
            armed : BOOLEAN, expired : BOOLEAN, pcb : BOOLEAN]

\* The values of the tunnel's variables.
TypeOK ==
    /\ run \in BOOLEAN /\ aborted \in BOOLEAN /\ mutex \in BOOLEAN
    /\ event \in [pc : {"read", "joinio", "jointimer", "done"},
                  task : TaskStates]
    /\ io \in [pc : {"read", "mutex", "done"}, task : TaskStates]
    /\ timer \in [pc : {"loop", "mutex", "done"}, task : TaskStates,
                  armed : BOOLEAN]
    /\ session_set \in Seq(Sessions) /\ session_count \in Nat
    /\ ses \in [Sessions -> Session]
    /\ pending \in [byte : BOOLEAN, edge : BOOLEAN]
    /\ left \in [conns : Nat, traffic : Nat, fails : Nat, quits : Nat]

\* session_set and session_count agree with the sessions whose task is in
\* hev_socks5_session_run: each is listed once, also while the list is
\* reordered by update_session.
ListConsistent ==
    /\ session_count = Len(session_set) /\ Linked(session_set)
    /\ Members(session_set) =
        {s \in Sessions : ses[s].phase \notin {"free", "destruct"}}

\* hev_task_wakeup is never called for a stopped task, which would abort the
\* process: not by insert_session, by event_task_entry for a session that has
\* ended, nor by a callback of a connection whose session is gone.
NoAbort == ~aborted

\* lwIP's timers run while there are sessions: the timer task decides from
\* session_set whether to sleep or to wait, and accept_handler wakes it.
TimerAwake ==
    run /\ session_set # <<>> =>
        timer.task = "RUNNING" \/ timer.armed \/ timer.pc = "mutex"

\* hev_task_join is not slept through: while the event task waits, the task
\* it joins is on its way to the end.
JoinProgress ==
    event.task = "WAITING" =>
        /\ event.pc = "joinio" => io.task = "RUNNING" \/ io.pc = "mutex"
        /\ event.pc = "jointimer" => \/ timer.task = "RUNNING"
                                     \/ timer.pc = "mutex"

\* The timeouts that connect and handshake set cannot undo a terminate of an
\* established session, nor of a TCP session in its handshake.
TerminateKept ==
    [][\A s \in Sessions :
        /\ ses[s].timeout = "zero"
        /\ \/ ses[s].phase \in {"splice", "drain"}
           \/ ses[s].kind = "tcp" /\ ses[s].phase = "handshake"
        => ses'[s].timeout = "zero" \/ ses'[s].phase = "free"]_vars

\* hev_socks5_tunnel_quit makes hev_socks5_tunnel_main return, however the
\* sessions' connects, handshakes and timeouts interleave with it.
QuitReturns == ClockRuns => (pending.byte ~> Returned)

\* When all that is left are terminated sessions past the phases that lose a
\* terminate, the tunnel ends without waiting for a timeout.
StopPrompt ==
    (/\ ~run
     /\ \A s \in Sessions :
            \/ ses[s].phase = "free"
            \/ /\ ses[s].timeout = "zero"
               /\ \/ ses[s].phase \in {"splice", "drain"}
                  \/ ses[s].kind = "tcp" /\ ses[s].phase = "handshake")
        ~> Returned
============================================================================

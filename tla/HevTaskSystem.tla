--------------------------- MODULE HevTaskSystem ---------------------------
(***************************************************************************)
(* The cooperative scheduler every other module takes for granted, from    *)
(* hev-task-system: the run queue ordered by sched_key, the poll between   *)
(* two tasks, the sorted tree of timers, the mutex, join and exit.  The    *)
(* tasks are arbitrary programs over these calls.                          *)
(*                                                                         *)
(* A sched_key only matters relative to the others in the queue, so the    *)
(* keys are shifted to have the smallest at 0 whenever a task is picked.   *)
(* A task may run up to MaxRun units between two yields.  An event of the  *)
(* poll may wake any waiting task, also one that waits for something else. *)
(* The clock is a timespec with MsUnits units to a millisecond and MsSec   *)
(* milliseconds to a second; it runs from Start to Horizon.                *)
(***************************************************************************)
EXTENDS Integers, Sequences, FiniteSets, Functions

CONSTANTS Tasks,      \* numbers, in the order of the addresses of the stacks
          First,      \* the tasks that run when the scheduler is started
          Priority,   \* next_priority of each task
          MaxRun, Sleeps, MsUnits, MsSec, Start, Horizon

ASSUME TasksAreNumbers == Tasks \subseteq Nat \ {0} /\ IsFiniteSet(Tasks)
ASSUME PrioritiesArePositive == Priority \in [Tasks -> Nat \ {0}]
ASSUME ClockAssumption ==
    /\ MsUnits \in Nat \ {0} /\ MsSec \in Nat \ {0}
    /\ Sleeps \subseteq Nat /\ Start \in Nat
ASSUME FirstAreTasks == First \subseteq Tasks

VARIABLES
    cur,       \* the task on the CPU; None in kernel context
    queue,     \* running_tasks, in the order of the tree
    key,       \* sched_key
    pc,        \* what each task does
    now,       \* the monotonic clock
    timers,    \* the sorted tree: tasks asleep, first to expire first
    node,      \* [expire, due, leftmost] of the timer of a task
    locker, waiters,   \* the mutex
    joiner, target,   \* of each task, and the task it joins
    aborted    \* a stopped task was woken up

vars == <<cur, queue, key, pc, now, timers, node, locker, waiters, joiner, target,
          aborted>>
clock == <<now, timers, node>>
mutex == <<locker, waiters>>
joins == <<joiner, target>>

None == 0

NsSec == MsSec * MsUnits
Instant(ts) == ts.sec * NsSec + ts.nsec

PCs == {"new", "ready", "crit", "io", "sleep", "lock", "join", "stopped"}
Times == [sec : 0 .. Horizon, nsec : 0 .. NsSec]
NoNode == [expire |-> [sec |-> 0, nsec |-> 0], due |-> 0, leftmost |-> FALSE]

TypeOK ==
    /\ cur \in Tasks \cup {None}
    /\ queue \in Seq(Tasks) /\ IsInjective(queue)
    /\ key \in [Tasks -> Nat]
    /\ pc \in [Tasks -> PCs]
    /\ now \in Times
    /\ timers \in Seq(Tasks) /\ IsInjective(timers)
    /\ node \in [Tasks -> [expire : Times, due : 0 .. Horizon, leftmost : BOOLEAN]]
    /\ locker \in BOOLEAN /\ waiters \in Seq(Tasks) /\ IsInjective(waiters)
    /\ joiner \in [Tasks -> Tasks \cup {None}]
    /\ target \in [Tasks -> Tasks \cup {None}]
    /\ aborted \in BOOLEAN

----------------------------------------------------------------------------
\* A node becomes the i-th of a tree or list, or is taken out of it.
InsertAt(s, i, e) ==
    [j \in 1 .. Len(s) + 1 |-> IF j < i THEN s[j] ELSE IF j = i THEN e ELSE s[j - 1]]
Erase(s, e) ==
    LET i == CHOOSE i \in 1 .. Len(s) : s[i] = e
    IN [j \in 1 .. Len(s) - 1 |-> IF j < i THEN s[j] ELSE s[j + 1]]

\* The run queue.  hev_task_system_insert_task goes to the right of equals.
InsertTask(s, t, k) ==
    LET i == Cardinality({j \in 1 .. Len(s.q) : s.k[s.q[j]] <= k})
    IN [q |-> InsertAt(s.q, i + 1, t), k |-> [s.k EXCEPT ![t] = k]]

MinKey(s) == IF s.q = <<>> THEN 0 ELSE s.k[s.q[1]]

\* hev_task_system_wakeup_task_with_context for a task that is not stopped.
Wake(s, t) ==
    IF t \in Range(s.q) THEN s ELSE InsertTask(s, t, s.k[t] + MinKey(s))

Sched == [q |-> queue, k |-> key]
SetSched(s) == \E x \in {s} : queue' = x.q /\ key' = x.k

\* Mutant: the use of the CPU is not counted.
Reinserted_Free(s, run) ==
    InsertTask([s EXCEPT !.q = Erase(@, cur)], cur, s.k[cur])

\* The current task leaves the CPU: HEV_TASK_SCHED_SWITCH and _WAITIO.
Reinserted(s, run) ==
    InsertTask([s EXCEPT !.q = Erase(@, cur)], cur, s.k[cur] + run * Priority[cur])
Removed(s) == [q |-> Erase(s.q, cur), k |-> [s.k EXCEPT ![cur] = Priority[cur]]]

\* The timers.  hev_task_timer_cmp, _get_expire, _get_time and _node_cmp.
Cmp(a, b) ==
    IF a.sec # b.sec THEN a.sec - b.sec ELSE a.nsec - b.nsec

GetExpire(ts, ms) ==
    LET s == ts.sec + ms \div MsSec
        n == ts.nsec + (ms % MsSec) * MsUnits
    IN IF n > NsSec THEN [sec |-> s + 1, nsec |-> n - NsSec]
                    ELSE [sec |-> s, nsec |-> n]

\* Mutant: the rest of a millisecond is dropped.
GetTime_Down(curr, expire) ==
    LET b == expire.nsec < curr.nsec
        s == expire.sec - curr.sec - (IF b THEN 1 ELSE 0)
        n == expire.nsec - curr.nsec + (IF b THEN NsSec ELSE 0)
    IN IF s < 0 THEN 0 ELSE s * MsSec + n \div MsUnits

GetTime(curr, expire) ==
    LET b == expire.nsec < curr.nsec
        s == expire.sec - curr.sec - (IF b THEN 1 ELSE 0)
        n == expire.nsec - curr.nsec + (IF b THEN NsSec ELSE 0)
    IN IF s < 0 THEN 0 ELSE s * MsSec + (n + MsUnits - 1) \div MsUnits

Before(t, u, nd) ==
    LET c == Cmp(nd[t].expire, nd[u].expire) IN c < 0 \/ (c = 0 /\ t < u)
InsertTimer(nd, t) ==
    LET i == Cardinality({j \in 1 .. Len(timers) : Before(timers[j], t, nd)})
    IN InsertAt(timers, i + 1, t)

\* hev_task_timer_wakeup: the first timer of the tree only.
TimerWake(s, tm) ==
    IF tm # <<>> /\ Cmp(now, node[tm[1]].expire) >= 0 THEN Wake(s, tm[1]) ELSE s

----------------------------------------------------------------------------
\* hev_task_run of the first tasks, in any order, adds no key of a current
\* task: the tree has them by priority, and equals in the order of the calls.
Init ==
    /\ cur = None
    /\ queue \in Bijection(1 .. Cardinality(First), First)
    /\ \A i, j \in DOMAIN queue :
           i < j => Priority[queue[i]] <= Priority[queue[j]]
    /\ key = [t \in Tasks |-> IF t \in First THEN Priority[t] ELSE 0]
    /\ pc = [t \in Tasks |-> IF t \in First THEN "ready" ELSE "new"]
    /\ now = [sec |-> Start \div NsSec, nsec |-> Start % NsSec]
    /\ timers = <<>> /\ node = [t \in Tasks |-> NoNode]
    /\ locker = FALSE /\ waiters = <<>>
    /\ joiner = [t \in Tasks |-> None] /\ target = [t \in Tasks |-> None]
    /\ aborted = FALSE

----------------------------------------------------------------------------
\* Kernel context.  hev_task_system_io_poll hands out the events one by one,
\* in any number and order, before the timer and the pick.
Waiting == {t \in Tasks : pc[t] \notin {"new", "stopped"}} \ Range(queue)

io_poll(t) ==
    /\ cur = None /\ t \in Waiting
    /\ SetSched(Wake(Sched, t))
    /\ UNCHANGED <<cur, pc, clock, mutex, joins, aborted>>

\* The picked task has the smallest key; the keys are shifted to have it at 0.
Pick(s) ==
    /\ s.q # <<>>
    /\ cur' = s.q[1]
    /\ queue' = s.q
    /\ key' = [t \in Tasks |-> IF t \in Range(s.q) THEN s.k[t] - MinKey(s)
                                                   ELSE s.k[t]]

\* Mutant: a poll only when nothing can run.
pick_current_task_Busy ==
    /\ cur = None
    /\ Pick(IF queue = <<>> THEN TimerWake(Sched, timers) ELSE Sched)
    /\ UNCHANGED <<pc, clock, mutex, joins, aborted>>

\* Every pick polls unless all tasks can run, and waits in the poll as long
\* as none can.
pick_current_task ==
    /\ cur = None
    /\ \E s \in {TimerWake(Sched, timers)} : Pick(s)
    /\ UNCHANGED <<pc, clock, mutex, joins, aborted>>

tick ==
    /\ Instant(now) < Horizon
    /\ now' = IF now.nsec + 1 = NsSec THEN [sec |-> now.sec + 1, nsec |-> 0]
                                      ELSE [now EXCEPT !.nsec = @ + 1]
    /\ UNCHANGED <<cur, queue, key, pc, timers, node, mutex, joins, aborted>>

----------------------------------------------------------------------------
\* Task context.
On(t, where) == cur = t /\ pc[t] = where
Go(t, where) == pc' = [pc EXCEPT ![t] = where]

\* hev_task_yield (HEV_TASK_YIELD), with or without the mutex.
yield(t) ==
    /\ cur = t /\ pc[t] \in {"ready", "crit"}
    /\ \E run \in 1 .. MaxRun : SetSched(Reinserted(Sched, run))
    /\ cur' = None
    /\ UNCHANGED <<pc, clock, mutex, joins, aborted>>

\* hev_task_yield (HEV_TASK_WAITIO), and the return from it.
waitio(t) ==
    /\ On(t, "ready")
    /\ Go(t, "io") /\ SetSched(Removed(Sched)) /\ cur' = None
    /\ UNCHANGED <<clock, mutex, joins, aborted>>

waitio_return(t) ==
    /\ On(t, "io")
    /\ Go(t, "ready")
    /\ UNCHANGED <<cur, queue, key, clock, mutex, joins, aborted>>

\* hev_task_wakeup of a task that has been started.
wakeup(t) == \E u \in Waiting :
    /\ On(t, "ready")
    /\ SetSched(Wake(Sched, u))
    /\ UNCHANGED <<cur, pc, clock, mutex, joins, aborted>>

\* hev_task_run.
run(t) == \E u \in Tasks :
    /\ On(t, "ready") /\ pc[u] = "new"
    /\ Go(u, "ready")
    /\ SetSched(InsertTask(Sched, u, Priority[u] + MinKey(Sched)))
    /\ UNCHANGED <<cur, clock, mutex, joins, aborted>>

\* hev_task_timer_wait up to its yield ...
sleep(t) == \E ms \in Sleeps :
    LET due == Instant(now) + ms * MsUnits
        nd  == [node EXCEPT ![t] = [expire |-> GetExpire(now, ms), due |-> due,
                                    leftmost |-> FALSE]]
        tm  == InsertTimer(nd, t)
    IN /\ On(t, "ready") /\ due <= Horizon
       /\ Go(t, "sleep") /\ SetSched(Removed(Sched)) /\ cur' = None
       /\ timers' = tm
       /\ node' = [nd EXCEPT ![t].leftmost = (tm[1] = t)]
       /\ UNCHANGED <<now, mutex, joins, aborted>>

\* ... and behind it: the timer is taken out, and the task of the next one
\* is woken up if this was the first.
sleep_return(t) ==
    /\ On(t, "sleep")
    /\ Go(t, "ready")
    /\ LET rest == Erase(timers, t)
       IN /\ timers' = rest
          /\ SetSched(IF node[t].leftmost \/ timers[1] = t
                      THEN TimerWake(Sched, rest) ELSE Sched)
    /\ node' = [node EXCEPT ![t] = NoNode]
    /\ UNCHANGED <<cur, now, mutex, joins, aborted>>

\* hev_task_mutex_lock.
lock(t) ==
    /\ On(t, "ready")
    /\ IF locker
       THEN /\ waiters' = <<t>> \o waiters /\ locker' = locker
            /\ Go(t, "lock") /\ SetSched(Removed(Sched)) /\ cur' = None
       ELSE /\ locker' = TRUE /\ Go(t, "crit")
            /\ UNCHANGED <<cur, queue, key, waiters>>
    /\ UNCHANGED <<clock, joins, aborted>>

\* Mutant: a task that was woken up takes the lock.
lock_return_Unchecked(t) ==
    /\ On(t, "lock")
    /\ locker' = TRUE /\ waiters' = Erase(waiters, t)
    /\ Go(t, "crit") /\ UNCHANGED <<cur, queue, key>>
    /\ UNCHANGED <<clock, joins, aborted>>

\* The loop of hev_task_mutex_lock.
lock_return(t) ==
    /\ On(t, "lock")
    /\ IF locker \/ waiters[1] # t
       THEN SetSched(Removed(Sched)) /\ cur' = None /\ UNCHANGED <<pc, mutex>>
       ELSE /\ locker' = TRUE /\ waiters' = Tail(waiters)
            /\ Go(t, "crit") /\ UNCHANGED <<cur, queue, key>>
    /\ UNCHANGED <<clock, joins, aborted>>

\* Mutant: the longest waiting task is woken up.
unlock_Last(t) ==
    /\ On(t, "crit")
    /\ locker' = FALSE /\ waiters' = waiters
    /\ Go(t, "ready")
    /\ SetSched(IF waiters = <<>> THEN Sched ELSE Wake(Sched, waiters[Len(waiters)]))
    /\ UNCHANGED <<cur, clock, joins, aborted>>

unlock(t) ==
    /\ On(t, "crit")
    /\ locker' = FALSE /\ waiters' = waiters
    /\ Go(t, "ready")
    /\ SetSched(IF waiters = <<>> THEN Sched ELSE Wake(Sched, waiters[1]))
    /\ UNCHANGED <<cur, clock, joins, aborted>>

\* hev_task_join of a task that has been started: the call, and one turn of
\* its loop.
join(t) == \E u \in Tasks \ {t} :
    /\ On(t, "ready") /\ pc[u] # "new" /\ joiner[u] = None
    /\ joiner' = [joiner EXCEPT ![u] = t] /\ target' = [target EXCEPT ![t] = u]
    /\ Go(t, "join")
    /\ UNCHANGED <<cur, queue, key, clock, mutex, aborted>>

join_loop(t) ==
    /\ On(t, "join")
    /\ IF pc[target[t]] = "stopped"
       THEN /\ Go(t, "ready") /\ target' = [target EXCEPT ![t] = None]
            /\ UNCHANGED <<cur, queue, key>>
       ELSE /\ SetSched(Removed(Wake(Sched, target[t]))) /\ cur' = None
            /\ UNCHANGED <<pc, target>>
    /\ UNCHANGED <<clock, mutex, joiner, aborted>>

\* Mutant: the joiner is not told.
exit_Silent(t) ==
    /\ On(t, "ready")
    /\ Go(t, "stopped")
    /\ SetSched(Removed(Sched)) /\ cur' = None
    /\ UNCHANGED <<clock, mutex, joins, aborted>>

\* hev_task_executer behind the entry of the task, and
\* hev_task_system_kill_current_task.  To wake up a stopped task aborts.
exit(t) ==
    LET j == joiner[t]
    IN /\ On(t, "ready")
       /\ Go(t, "stopped")
       /\ aborted' = (aborted \/ (j # None /\ pc[j] = "stopped"))
       /\ SetSched(Removed(IF j = None \/ pc[j] = "stopped" THEN Sched
                           ELSE Wake(Sched, j)))
       /\ cur' = None
       /\ UNCHANGED <<clock, mutex, joins>>

\* All tasks exited, Bye!
done == (\A t \in Tasks : pc[t] \in {"new", "stopped"}) /\ UNCHANGED vars

\* The steps of a task that do not need its will: it gives up the CPU, or
\* goes on behind a wait.
returns(t) == waitio_return(t) \/ sleep_return(t) \/ lock_return(t) \/ join_loop(t)

Next ==
    \/ pick_current_task \/ tick \/ done
    \/ \E t \in Tasks :
           \/ io_poll(t) \/ yield(t) \/ waitio(t) \/ wakeup(t) \/ run(t) \/ sleep(t)
           \/ lock(t) \/ unlock(t) \/ join(t) \/ exit(t) \/ returns(t)

Spec == Init /\ [][Next]_vars

\* The scheduler runs, and a task on the CPU gives it up in the end, as
\* cooperative tasks must.
FairSpec ==
    /\ Spec
    /\ WF_vars(pick_current_task \/ \E t \in Tasks : yield(t) \/ returns(t))

----------------------------------------------------------------------------
\* Two tasks never hold the mutex, although a waiting one may be woken up by
\* anything and a third may take the lock before one that was woken up.
MutualExclusion ==
    /\ Cardinality({t \in Tasks : pc[t] = "crit"}) <= 1
    /\ locker = (\E t \in Tasks : pc[t] = "crit")

\* A free mutex is never forgotten: the waiter that may take it, the last to
\* come, is in the run queue, and the others stay in the list behind it.
HandedOver ==
    /\ ~locker /\ waiters # <<>> => waiters[1] \in Range(queue)
    /\ Range(waiters) = {t \in Tasks : pc[t] = "lock"}

\* Whoever joins a task that has exited is in the run queue and will see it,
\* and the task it waits for knows who to tell; it does not leave before, so
\* no task is woken up once it is stopped, which would abort.
JoinTold ==
    /\ \A t \in Tasks : pc[t] = "join" =>
        /\ joiner[target[t]] = t
        /\ pc[target[t]] = "stopped" => t \in Range(queue)
    /\ ~aborted

\* The comparison, the remaining time and the timeout of the poll agree with
\* the instant the sleep of t was asked to end, also where get_expire leaves a
\* nanosecond count of a full second.
ClockAgrees(t) ==
    /\ (Cmp(now, node[t].expire) >= 0) = (Instant(now) >= node[t].due)
    /\ (GetTime(now, node[t].expire) = 0) = (Instant(now) >= node[t].due)
    /\ Instant(now) + GetTime(now, node[t].expire) * MsUnits >= node[t].due

\* The timer tree holds the tasks asleep, sorted by the instant their sleep was
\* asked to end, and the clock agrees with it for each of them.
TimersExact ==
    /\ Range(timers) = {t \in Tasks : pc[t] = "sleep"}
    /\ \A i, j \in 1 .. Len(timers) :
           i < j => node[timers[i]].due <= node[timers[j]].due
    /\ \A t \in Tasks : pc[t] = "sleep" => ClockAgrees(t)

\* Every task that can run does: the keys grow with use, and one that was
\* woken up starts at the smallest key in the queue, not before it.
StarvationFree == \A t \in Tasks : (t \in Range(queue)) ~> (cur = t)

\* Again and again no sleeper is overdue, although a poll wakes up one timer
\* only and other tasks may never wait.
SleepEnds ==
    []<>(\A t \in Tasks : pc[t] = "sleep" => Instant(now) < node[t].due)
============================================================================

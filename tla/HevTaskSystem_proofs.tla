----------------------- MODULE HevTaskSystem_proofs ------------------------
(***************************************************************************)
(* Proofs about HevTaskSystem for any tasks, priorities, sleeps and clock: *)
(* the mutex excludes and is handed over, a join is told, and the timers   *)
(* are exact.                                                              *)
(*                                                                         *)
(* Excl and ClockInv stand alone.  HandedOver and JoinTold are about tasks *)
(* that wait and must be on the run queue, so their invariant SysInv has   *)
(* the queue (QueueInv), who sleeps (SleepInv), who waits for the mutex    *)
(* (LockInv) and who joins whom (JoinInv).  TimersExact adds the order of  *)
(* the timers (TreeInv).                                                   *)
(***************************************************************************)
EXTENDS HevTaskSystem, FiniteSetTheorems, TLAPS

\* The mutex is locked exactly while the one task that took it has it.
Holds(t) == pc[t] = "crit"

Excl ==
    /\ pc \in [Tasks -> PCs]
    /\ locker \in BOOLEAN
    /\ \A t, u \in Tasks : Holds(t) /\ Holds(u) => t = u
    /\ locker => \E t \in Tasks : Holds(t)
    /\ ~locker => \A t \in Tasks : ~Holds(t)

----------------------------------------------------------------------------
\* A step of a task that neither takes nor gives up the mutex.
LEMMA GoElsewhere ==
    ASSUME Excl, NEW t \in Tasks, NEW p \in PCs, ~Holds(t), p # "crit",
           Go(t, p), locker' = locker
    PROVE  Excl'
<1>1. \A u \in Tasks : Holds(u)' <=> Holds(u)
  BY DEF Excl, Go, Holds
<1>2. pc' \in [Tasks -> PCs]
  BY DEF Excl, Go
<1> QED BY <1>1, <1>2 DEF Excl

\* Nothing happens to the mutex.
LEMMA StayPut ==
    ASSUME Excl, pc' = pc, locker' = locker PROVE Excl'
  BY DEF Excl, Holds

\* A free mutex is taken.
LEMMA TakeIt ==
    ASSUME Excl, NEW t \in Tasks, ~locker, locker' = TRUE, Go(t, "crit")
    PROVE  Excl'
<1>1. \A u \in Tasks : Holds(u)' <=> u = t
  BY DEF Excl, Go, Holds
<1>2. pc' \in [Tasks -> PCs]
  BY DEF Excl, Go, PCs
<1> QED BY <1>1, <1>2 DEF Excl

\* It is given up by the task that has it.
LEMMA GiveItUp ==
    ASSUME Excl, NEW t \in Tasks, Holds(t), locker' = FALSE, Go(t, "ready")
    PROVE  Excl'
<1>1. \A u \in Tasks : ~Holds(u)'
  BY DEF Excl, Go, Holds
<1>2. pc' \in [Tasks -> PCs]
  BY DEF Excl, Go, PCs
<1> QED BY <1>1, <1>2, Zenon DEF Excl

\* The kernel steps and those of a task, one by one.
LEMMA ExclKernel ==
    ASSUME Excl,
           \/ pick_current_task \/ tick \/ done \/ UNCHANGED vars
           \/ \E t \in Tasks : io_poll(t) \/ yield(t) \/ wakeup(t)
    PROVE  Excl'
<1>1. pc' = pc /\ locker' = locker
  <2>1. CASE pick_current_task \/ tick
    BY <2>1 DEF pick_current_task, tick, mutex
  <2>2. CASE done \/ UNCHANGED vars
    BY <2>2 DEF done, vars
  <2>3. CASE \E t \in Tasks : io_poll(t) \/ yield(t) \/ wakeup(t)
    BY <2>3 DEF io_poll, yield, wakeup, mutex
  <2> QED BY <2>1, <2>2, <2>3
<1> QED BY <1>1, StayPut

\* The steps of a task keep the exclusion.
LEMMA ExclTask ==
    ASSUME Excl, NEW t \in Tasks,
           \/ waitio(t) \/ run(t) \/ sleep(t) \/ lock(t) \/ unlock(t)
           \/ join(t) \/ exit(t) \/ returns(t)
    PROVE  Excl'
<1>1. CASE waitio(t)
  <2>1. ~Holds(t) /\ Go(t, "io") /\ locker' = locker
    BY <1>1 DEF waitio, On, mutex, Holds
  <2> QED BY <2>1, GoElsewhere DEF PCs
<1>2. CASE run(t)
  <2>1. PICK u \in Tasks : ~Holds(u) /\ Go(u, "ready") /\ locker' = locker
    BY <1>2 DEF run, On, mutex, Holds
  <2> QED BY <2>1, GoElsewhere DEF PCs
<1>3. CASE sleep(t)
  <2>1. ~Holds(t) /\ Go(t, "sleep") /\ locker' = locker
    BY <1>3 DEF sleep, On, mutex, Holds
  <2> QED BY <2>1, GoElsewhere DEF PCs
<1>4. CASE lock(t)
  <2>1. CASE locker
    <3>1. ~Holds(t) /\ Go(t, "lock") /\ locker' = locker
      BY <1>4, <2>1 DEF lock, On, Holds
    <3> QED BY <3>1, GoElsewhere DEF PCs
  <2>2. CASE ~locker
    <3>1. locker' = TRUE /\ Go(t, "crit")
      BY <1>4, <2>2 DEF lock
    <3> QED BY <2>2, <3>1, TakeIt
  <2> QED BY <2>1, <2>2
<1>5. CASE unlock(t)
  <2>1. Holds(t) /\ Go(t, "ready") /\ locker' = FALSE
    BY <1>5 DEF unlock, On, Holds
  <2> QED BY <2>1, GiveItUp, Zenon
<1>6. CASE join(t)
  <2>1. ~Holds(t) /\ Go(t, "join") /\ locker' = locker
    BY <1>6 DEF join, On, mutex, Holds
  <2> QED BY <2>1, GoElsewhere DEF PCs
<1>7. CASE exit(t)
  <2>1. ~Holds(t) /\ Go(t, "stopped") /\ locker' = locker
    BY <1>7 DEF exit, On, mutex, Holds
  <2> QED BY <2>1, GoElsewhere DEF PCs
<1>8. CASE waitio_return(t) \/ sleep_return(t)
  <2>1. ~Holds(t) /\ Go(t, "ready") /\ locker' = locker
    BY <1>8 DEF waitio_return, sleep_return, On, mutex, Holds
  <2> QED BY <2>1, GoElsewhere DEF PCs
<1>9. CASE lock_return(t)
  <2>1. CASE locker \/ waiters[1] # t
    BY <1>9, <2>1, StayPut DEF lock_return, mutex
  <2>2. CASE ~(locker \/ waiters[1] # t)
    <3>1. ~locker /\ locker' = TRUE /\ Go(t, "crit")
      BY <1>9, <2>2 DEF lock_return
    <3> QED BY <3>1, TakeIt
  <2> QED BY <2>1, <2>2
<1>10. CASE join_loop(t)
  <2>1. ~Holds(t) /\ locker' = locker /\ (Go(t, "ready") \/ pc' = pc)
    BY <1>10 DEF join_loop, On, mutex, Holds
  <2> QED BY <2>1, GoElsewhere, StayPut DEF PCs
<1> QED BY <1>1, <1>2, <1>3, <1>4, <1>5, <1>6, <1>7, <1>8, <1>9, <1>10
        DEF returns

\* hev_task_mutex_lock and _unlock exclude: two tasks never have the mutex,
\* whoever wakes up a task that waits for it and whoever takes it first.
THEOREM MutexExcludes == Spec => []MutualExclusion
<1>1. Init => Excl
  BY FirstAreTasks, Zenon DEF Init, Excl, Holds, PCs
<1>2. Excl /\ [Next]_vars => Excl'
  BY ExclKernel, ExclTask DEF Next
<1>3. Excl => MutualExclusion
  <2> SUFFICES ASSUME Excl PROVE MutualExclusion
    OBVIOUS
  <2> DEFINE H == {t \in Tasks : pc[t] = "crit"}
  <2>1. H = {} \/ \E t \in Tasks : H = {t}
    BY DEF Excl, Holds
  <2>2. Cardinality(H) <= 1
    <3> HIDE DEF H
    <3>1. CASE H = {}
      BY <3>1, FS_EmptySet
    <3>2. CASE \E t \in Tasks : H = {t}
      BY <3>2, FS_Singleton
    <3> QED BY <2>1, <3>1, <3>2
  <2>3. locker = (\E t \in Tasks : pc[t] = "crit")
    BY Zenon DEF Excl, Holds
  <2> QED BY <2>2, <2>3 DEF MutualExclusion
<1> QED BY <1>1, <1>2, <1>3, PTL DEF Spec
----------------------------------------------------------------------------
\* A second has NsSec units.
LEMMA SecondType == NsSec \in Nat \ {0}
<1>1. MsSec * MsUnits \in Nat /\ MsSec * MsUnits # 0
  BY ClockAssumption
<1> QED BY <1>1 DEF NsSec

\* A timespec whose nanoseconds may be a full second, as get_expire leaves it,
\* and one of the clock.
Loose == [sec : Nat, nsec : 0 .. NsSec]
Strict == [sec : Nat, nsec : 0 .. NsSec - 1]

\* Multiples of n: one more is n more.
LEMMA Multiples ==
    ASSUME NEW n \in Nat, NEW a \in Int, NEW b \in Int, a < b
    PROVE  a * n + n <= b * n
<1>1. PICK d \in Nat : b = a + 1 + d
  <2>1. b - a - 1 \in Nat /\ b = a + 1 + (b - a - 1)
    OBVIOUS
  <2> QED BY <2>1
<1>2. b * n = a * n + n + d * n
  BY <1>1
<1>3. d * n >= 0
  OBVIOUS
<1>4. a * n \in Int /\ b * n \in Int /\ d * n \in Int
  OBVIOUS
<1> QED BY <1>2, <1>3, <1>4

\* What \div and % compute, and a division that rounds up.
LEMMA Division ==
    ASSUME NEW n \in Nat, NEW d \in Nat \ {0}
    PROVE  /\ n \div d \in Nat /\ n % d \in Nat /\ n % d < d
           /\ n = (n \div d) * d + (n % d)
<1>1. n \div d \in Nat
  OBVIOUS
<1>2. n % d \in Nat /\ n % d < d
  OBVIOUS
<1>3. n = d * (n \div d) + (n % d)
  OBVIOUS
<1>4. d * (n \div d) = (n \div d) * d
  BY <1>1
<1> QED BY <1>1, <1>2, <1>3, <1>4

\* A division that rounds up covers its dividend.
LEMMA RoundUp ==
    ASSUME NEW n \in Nat, NEW d \in Nat \ {0}
    PROVE  LET c == (n + d - 1) \div d
           IN c \in Nat /\ c * d >= n /\ (c = 0 <=> n = 0)
<1> DEFINE m == n + d - 1
           c == m \div d
           r == m % d
<1>1. m \in Nat
  OBVIOUS
<1>2. c \in Nat /\ r \in Nat /\ r < d /\ m = c * d + r
  BY <1>1, Division
<1> HIDE DEF c, r
<1>3. c * d \in Nat
  BY <1>2
<1>4. c * d >= n
  BY <1>2, <1>3
<1>5. CASE n = 0
  <2>1. c * d < d
    BY <1>2, <1>3, <1>5
  <2>2. c > 0 => 0 * d + d <= c * d
    BY <1>2, Multiples
  <2> QED BY <1>2, <1>3, <1>4, <1>5, <2>1, <2>2 DEF c
<1>6. CASE n > 0
  <2>1. c # 0
    BY <1>2, <1>3, <1>4, <1>6
  <2> QED BY <1>2, <1>4, <1>6, <2>1 DEF c
<1> QED BY <1>5, <1>6

\* hev_task_timer_cmp orders by the instants.
LEMMA CmpExact ==
    ASSUME NEW a \in Strict, NEW b \in Loose
    PROVE  (Cmp(a, b) >= 0) = (Instant(a) >= Instant(b))
<1> DEFINE N == NsSec
<1>0. N \in Nat \ {0} /\ a.sec * N \in Nat /\ b.sec * N \in Nat
  BY SecondType DEF Strict, Loose
<1>1. /\ a.sec \in Nat /\ a.nsec \in Nat /\ a.nsec < N
      /\ b.sec \in Nat /\ b.nsec \in Nat /\ b.nsec <= N
  BY <1>0 DEF Strict, Loose
<1>2. Instant(a) = a.sec * N + a.nsec /\ Instant(b) = b.sec * N + b.nsec
  BY DEF Instant
<1> HIDE DEF N
<1>3. CASE a.sec = b.sec
  BY <1>0, <1>1, <1>2, <1>3 DEF Cmp
<1>4. CASE a.sec < b.sec
  <2>1. a.sec * N + N <= b.sec * N
    BY <1>0, <1>1, <1>4, Multiples
  <2> QED BY <1>0, <1>1, <1>2, <1>4, <2>1 DEF Cmp
<1>5. CASE a.sec > b.sec
  <2>1. b.sec * N + N <= a.sec * N
    BY <1>0, <1>1, <1>5, Multiples
  <2> QED BY <1>0, <1>1, <1>2, <1>5, <2>1 DEF Cmp
<1> QED BY <1>1, <1>3, <1>4, <1>5

\* hev_task_timer_get_time is 0 once the instant has come, and never too short.
LEMMA TimeExact ==
    ASSUME NEW a \in Strict, NEW b \in Loose
    PROVE  /\ (GetTime(a, b) = 0) = (Instant(a) >= Instant(b))
           /\ Instant(a) + GetTime(a, b) * MsUnits >= Instant(b)
<1> DEFINE N == NsSec
           U == MsUnits
           s == b.sec - a.sec - (IF b.nsec < a.nsec THEN 1 ELSE 0)
           n == b.nsec - a.nsec + (IF b.nsec < a.nsec THEN N ELSE 0)
           c == (n + U - 1) \div U
<1>0. /\ N \in Nat \ {0} /\ a.sec * N \in Nat /\ b.sec * N \in Nat
      /\ U \in Nat \ {0} /\ MsSec \in Nat \ {0} /\ N = MsSec * U
  BY SecondType, ClockAssumption DEF Strict, Loose, NsSec
<1>1. /\ a.sec \in Nat /\ a.nsec \in Nat /\ a.nsec < N
      /\ b.sec \in Nat /\ b.nsec \in Nat /\ b.nsec <= N
  BY <1>0 DEF Strict, Loose
<1>2. Instant(a) = a.sec * N + a.nsec /\ Instant(b) = b.sec * N + b.nsec
  BY DEF Instant
<1>3. GetTime(a, b) = IF s < 0 THEN 0 ELSE s * MsSec + c
  BY DEF GetTime
<1> HIDE DEF N, U
<1>4. s \in Int /\ n \in Nat /\ n <= N
  BY <1>0, <1>1
<1>5. Instant(b) = Instant(a) + s * N + n
  <2>1. CASE b.nsec < a.nsec
    <3>1. s = b.sec - a.sec - 1 /\ n = b.nsec - a.nsec + N
      BY <2>1
    <3>2. (b.sec - a.sec - 1) * N = b.sec * N - a.sec * N - N
      BY <1>0, <1>1
    <3> HIDE DEF s, n
    <3> QED BY <1>0, <1>1, <1>2, <3>1, <3>2
  <2>2. CASE ~(b.nsec < a.nsec)
    <3>1. s = b.sec - a.sec /\ n = b.nsec - a.nsec
      BY <1>1, <2>2
    <3>2. (b.sec - a.sec) * N = b.sec * N - a.sec * N
      BY <1>0, <1>1
    <3> HIDE DEF s, n
    <3> QED BY <1>0, <1>1, <1>2, <3>1, <3>2
  <2> QED BY <2>1, <2>2
<1> HIDE DEF s, n
<1>6. /\ c \in Nat /\ c * U >= n /\ (c = 0 <=> n = 0)
  BY <1>0, <1>4, RoundUp
<1> HIDE DEF c
<1>7. Instant(a) \in Nat /\ Instant(b) \in Nat /\ s * N \in Int
  BY <1>0, <1>1, <1>2, <1>4
<1>8. CASE s < 0
  <2>1. s * N + N <= 0 * N /\ 0 * N = 0
    BY <1>0, <1>4, <1>8, Multiples
  <2>2. Instant(a) >= Instant(b)
    BY <1>0, <1>4, <1>5, <1>7, <2>1
  <2>3. GetTime(a, b) = 0 /\ 0 * MsUnits = 0
    BY <1>3, <1>8, ClockAssumption
  <2> QED BY <1>7, <2>2, <2>3
<1>9. CASE s >= 0
  <2>1. GetTime(a, b) = s * MsSec + c /\ s * MsSec \in Nat /\ s * N \in Nat
    BY <1>0, <1>3, <1>4, <1>9
  <2>2. (s * MsSec + c) * U = s * N + c * U
    BY <1>0, <1>4, <1>6, <1>9
  <2>3. s * MsSec = 0 <=> s = 0
    BY <1>0, <1>4, <1>9
  <2>4. s * N = 0 <=> s = 0
    BY <1>0, <1>4, <1>9
  <2>5. c * U \in Nat
    BY <1>0, <1>6
  <2>6. GetTime(a, b) * U >= s * N + n
    BY <1>4, <1>6, <2>1, <2>2, <2>5
  <2>7. GetTime(a, b) = 0 <=> s * N + n = 0
    BY <1>4, <1>6, <2>1, <2>3, <2>4
  <2>8. GetTime(a, b) * U \in Nat
    BY <1>0, <1>6, <2>1
  <2> QED BY <1>4, <1>5, <1>7, <2>1, <2>6, <2>7, <2>8 DEF U
<1> QED BY <1>4, <1>8, <1>9

\* hev_task_timer_get_expire is ms milliseconds later.
LEMMA ExpireExact ==
    ASSUME NEW a \in Strict, NEW ms \in Nat
    PROVE  /\ GetExpire(a, ms) \in Loose
           /\ Instant(GetExpire(a, ms)) = Instant(a) + ms * MsUnits
<1> DEFINE N == NsSec
           U == MsUnits
           q == ms \div MsSec
           r == ms % MsSec
           n == a.nsec + r * U
<1>0. /\ N \in Nat \ {0} /\ U \in Nat \ {0} /\ MsSec \in Nat \ {0}
      /\ N = MsSec * U /\ a.sec \in Nat /\ a.nsec \in Nat /\ a.nsec < N
  BY SecondType, ClockAssumption DEF Strict, NsSec
<1>1. GetExpire(a, ms) = IF n > N
                         THEN [sec |-> a.sec + q + 1, nsec |-> n - N]
                         ELSE [sec |-> a.sec + q, nsec |-> n]
  BY DEF GetExpire
<1>2. q \in Nat /\ r \in Nat /\ r < MsSec /\ ms = q * MsSec + r
  BY <1>0, Division
<1> HIDE DEF N, U, q, r
<1>3. r * U \in Nat /\ r * U + U <= N
  BY <1>0, <1>2, Multiples
<1>4. n \in Nat /\ n < N + N
  BY <1>0, <1>3
<1>5. ms * U = q * N + r * U
  BY <1>0, <1>2
<1>6. /\ (a.sec + q) * N = a.sec * N + q * N
      /\ (a.sec + q + 1) * N = a.sec * N + q * N + N
  BY <1>0, <1>2
<1>7. a.sec * N \in Nat /\ q * N \in Nat
  BY <1>0, <1>2
<1>8. Instant(a) = a.sec * N + a.nsec
  BY DEF Instant, N
<1>9. CASE n > N
  <2>1. GetExpire(a, ms).sec = a.sec + q + 1 /\ GetExpire(a, ms).nsec = n - N
    BY <1>1, <1>9
  <2>2. Instant(GetExpire(a, ms)) = a.sec * N + q * N + N + (n - N)
    BY <1>6, <2>1 DEF Instant, N
  <2>3. GetExpire(a, ms) \in Loose
    BY <1>0, <1>1, <1>2, <1>4, <1>9 DEF Loose, N
  <2> QED BY <1>0, <1>3, <1>4, <1>5, <1>7, <1>8, <2>2, <2>3 DEF U
<1>10. CASE ~(n > N)
  <2>1. GetExpire(a, ms).sec = a.sec + q /\ GetExpire(a, ms).nsec = n
    BY <1>1, <1>10
  <2>2. Instant(GetExpire(a, ms)) = a.sec * N + q * N + n
    BY <1>6, <2>1 DEF Instant, N
  <2>3. GetExpire(a, ms) \in Loose
    BY <1>0, <1>1, <1>2, <1>4, <1>10 DEF Loose, N
  <2> QED BY <1>0, <1>3, <1>4, <1>5, <1>7, <1>8, <2>2, <2>3 DEF U
<1> QED BY <1>9, <1>10

----------------------------------------------------------------------------
\* The timer of a task asleep has the instant its sleep was asked to end.
Asleep(t) == pc[t] = "sleep"
NodeOK(t) == node[t].expire \in Loose /\ node[t].due = Instant(node[t].expire)

ClockInv ==
    /\ pc \in [Tasks -> PCs]
    /\ now \in Strict
    /\ DOMAIN node = Tasks
    /\ \A t \in Tasks : Asleep(t) => NodeOK(t)

\* Nobody falls asleep.
LEMMA NoSleep ==
    ASSUME ClockInv, NEW t \in Tasks, NEW p \in PCs, p # "sleep",
           Go(t, p) \/ pc' = pc, UNCHANGED <<now, node>>
    PROVE  ClockInv'
<1>1. pc' \in [Tasks -> PCs]
  BY DEF ClockInv, Go
<1>2. \A u \in Tasks : Asleep(u)' => Asleep(u)
  BY DEF ClockInv, Go, Asleep
<1>3. \A u \in Tasks : NodeOK(u)' <=> NodeOK(u)
  BY DEF NodeOK, Instant
<1> QED BY <1>1, <1>2, <1>3 DEF ClockInv

\* The clock ticks.
LEMMA TickKeeps == ASSUME ClockInv, tick PROVE ClockInv'
<1>1. now \in Strict /\ NsSec \in Nat \ {0}
  BY SecondType DEF ClockInv
<1>2. now' \in Strict
  <2>1. CASE now.nsec + 1 = NsSec
    <3>1. now' = [sec |-> now.sec + 1, nsec |-> 0]
      BY <2>1 DEF tick
    <3> QED BY <1>1, <3>1 DEF Strict
  <2>2. CASE now.nsec + 1 # NsSec
    <3>1. now' = [now EXCEPT !.nsec = now.nsec + 1]
      BY <2>2 DEF tick
    <3> QED BY <1>1, <2>2, <3>1 DEF Strict
  <2> QED BY <2>1, <2>2
<1>3. UNCHANGED <<pc, node>>
  BY DEF tick
<1>4. \A u \in Tasks : (Asleep(u)' <=> Asleep(u)) /\ (NodeOK(u)' <=> NodeOK(u))
  BY <1>3 DEF NodeOK, Instant, Asleep
<1> QED BY <1>2, <1>3, <1>4 DEF ClockInv

\* A task goes to sleep, or is back from it.
LEMMA SleepKeeps == ASSUME ClockInv, NEW t \in Tasks, sleep(t) PROVE ClockInv'
<1>1. PICK ms \in Sleeps :
        /\ Go(t, "sleep") /\ now' = now /\ DOMAIN node' = DOMAIN node
        /\ \A u \in Tasks : u # t => node'[u] = node[u]
        /\ node'[t].expire = GetExpire(now, ms)
        /\ node'[t].due = Instant(now) + ms * MsUnits
  BY DEF sleep, ClockInv
<1>2. ms \in Nat /\ now \in Strict
  BY ClockAssumption DEF ClockInv
<1>3. NodeOK(t)'
  BY <1>1, <1>2, ExpireExact DEF NodeOK, Instant
<1>4. \A u \in Tasks : u # t => (Asleep(u)' <=> Asleep(u))
                               /\ (NodeOK(u)' <=> NodeOK(u))
  BY <1>1 DEF ClockInv, Go, Asleep, NodeOK, Instant
<1>5. pc' \in [Tasks -> PCs]
  BY <1>1 DEF ClockInv, Go, PCs
<1>6. \A u \in Tasks : Asleep(u)' => NodeOK(u)'
  <2> SUFFICES ASSUME NEW u \in Tasks, Asleep(u)' PROVE NodeOK(u)'
    OBVIOUS
  <2>1. CASE u = t
    BY <1>3, <2>1 DEF NodeOK
  <2>2. CASE u # t
    BY <1>4, <2>2 DEF ClockInv
  <2> QED BY <2>1, <2>2
<1>7. now' \in Strict /\ DOMAIN node' = Tasks
  BY <1>1, <1>2 DEF ClockInv
<1> QED BY <1>5, <1>6, <1>7 DEF ClockInv

\* A sleep that ends clears its timer.
LEMMA SleepReturnKeeps ==
    ASSUME ClockInv, NEW t \in Tasks, sleep_return(t) PROVE ClockInv'
<1>1. /\ Go(t, "ready") /\ now' = now
      /\ node' = [node EXCEPT ![t] = NoNode]
  BY DEF sleep_return
<1>2. \A u \in Tasks : Asleep(u)' => Asleep(u) /\ u # t
  BY <1>1 DEF ClockInv, Go, Asleep
<1>3. \A u \in Tasks : u # t => (NodeOK(u)' <=> NodeOK(u))
  BY <1>1 DEF ClockInv, NodeOK, Instant
<1>4. pc' \in [Tasks -> PCs]
  BY <1>1 DEF ClockInv, Go, PCs
<1> QED BY <1>1, <1>2, <1>3, <1>4, Zenon DEF ClockInv

\* All other steps.
LEMMA ClockElse ==
    ASSUME ClockInv, NEW t \in Tasks,
           \/ io_poll(t) \/ yield(t) \/ waitio(t) \/ wakeup(t) \/ run(t)
           \/ lock(t) \/ unlock(t) \/ join(t) \/ exit(t)
           \/ waitio_return(t) \/ lock_return(t) \/ join_loop(t)
    PROVE  ClockInv'
<1>1. CASE io_poll(t) \/ yield(t) \/ wakeup(t)
  <2>1. pc' = pc /\ UNCHANGED <<now, node>>
    BY <1>1 DEF io_poll, yield, wakeup, clock
  <2> QED BY <2>1, NoSleep DEF PCs
<1>2. CASE waitio(t) \/ waitio_return(t)
  <2>1. (Go(t, "io") \/ Go(t, "ready")) /\ UNCHANGED <<now, node>>
    BY <1>2 DEF waitio, waitio_return, clock
  <2> QED BY <2>1, NoSleep DEF PCs
<1>3. CASE run(t)
  <2>1. PICK u \in Tasks : Go(u, "ready") /\ UNCHANGED <<now, node>>
    BY <1>3 DEF run, clock
  <2> QED BY <2>1, NoSleep DEF PCs
<1>4. CASE lock(t)
  <2>1. (Go(t, "lock") \/ Go(t, "crit")) /\ UNCHANGED <<now, node>>
    BY <1>4 DEF lock, clock
  <2> QED BY <2>1, NoSleep DEF PCs
<1>5. CASE lock_return(t)
  <2>1. (Go(t, "crit") \/ pc' = pc) /\ UNCHANGED <<now, node>>
    BY <1>5 DEF lock_return, clock
  <2> QED BY <2>1, NoSleep DEF PCs
<1>6. CASE unlock(t) \/ join(t)
  <2>1. (Go(t, "ready") \/ Go(t, "join")) /\ UNCHANGED <<now, node>>
    BY <1>6 DEF unlock, join, clock
  <2> QED BY <2>1, NoSleep DEF PCs
<1>7. CASE exit(t)
  <2>1. Go(t, "stopped") /\ UNCHANGED <<now, node>>
    BY <1>7, Zenon DEF exit, clock
  <2> QED BY <2>1, NoSleep DEF PCs
<1>8. CASE join_loop(t)
  <2>1. (Go(t, "ready") \/ pc' = pc) /\ UNCHANGED <<now, node>>
    BY <1>8 DEF join_loop, clock
  <2> QED BY <2>1, NoSleep DEF PCs
<1> QED BY <1>1, <1>2, <1>3, <1>4, <1>5, <1>6, <1>7, <1>8

\* The clock and the timers of the sleeping tasks agree with their instants.
LEMMA ClockHolds == Spec => []ClockInv
<1>1. Init => ClockInv
  <2> SUFFICES ASSUME Init PROVE ClockInv
    OBVIOUS
  <2>1. now = [sec |-> Start \div NsSec, nsec |-> Start % NsSec]
    BY DEF Init
  <2>2. now \in Strict
    BY <2>1, SecondType, Division, ClockAssumption DEF Strict
  <2>3. pc \in [Tasks -> PCs] /\ \A t \in Tasks : ~Asleep(t)
    BY DEF Init, Asleep, PCs
  <2>4. DOMAIN node = Tasks
    BY DEF Init
  <2> QED BY <2>2, <2>3, <2>4 DEF ClockInv
<1>2. ASSUME ClockInv, [Next]_vars PROVE ClockInv'
  <2>1. CASE pick_current_task \/ done \/ UNCHANGED vars
    <3>1. UNCHANGED <<pc, now, node>>
      BY <2>1 DEF pick_current_task, done, vars, clock
    <3> QED BY <1>2, <3>1 DEF ClockInv, Asleep, NodeOK, Instant
  <2> QED BY <1>2, <2>1, TickKeeps, SleepKeeps, SleepReturnKeeps, ClockElse
          DEF Next, returns
<1> QED BY <1>1, <1>2, PTL DEF Spec

\* That is what TimersExact asks of the timer of a sleeping task.
LEMMA ClockSuffices ==
    ASSUME ClockInv, NEW t \in Tasks, pc[t] = "sleep" PROVE ClockAgrees(t)
<1>1. /\ now \in Strict /\ node[t].expire \in Loose
      /\ node[t].due = Instant(node[t].expire)
  BY DEF ClockInv, NodeOK, Asleep
<1> QED BY <1>1, CmpExact, TimeExact DEF ClockAgrees

----------------------------------------------------------------------------
(* Sequences without repetition.                                           *)

\* r is s with e at place i.
Inserted(s, i, e, r) ==
    /\ Len(r) = Len(s) + 1 /\ r[i] = e
    /\ \A j \in 1 .. i - 1 : r[j] = s[j]
    /\ \A j \in i .. Len(s) : r[j + 1] = s[j]

\* Insertion at a place.
LEMMA InsertProps ==
    ASSUME NEW S, NEW s \in Seq(S), NEW i \in 1 .. Len(s) + 1, NEW e \in S
    PROVE  LET r == InsertAt(s, i, e)
           IN r \in Seq(S) /\ Inserted(s, i, e, r)
<1> DEFINE r == InsertAt(s, i, e)
           n == Len(s)
<1>1. n \in Nat /\ i \in 1 .. n + 1 /\ \A j \in 1 .. n : s[j] \in S
  OBVIOUS
<1>2. r = [j \in 1 .. n + 1 |-> IF j < i THEN s[j] ELSE IF j = i THEN e ELSE s[j - 1]]
  BY DEF InsertAt
<1> HIDE DEF r, n
<1>3. ASSUME NEW j \in 1 .. n + 1 PROVE r[j] \in S
  <2>1. CASE j < i
    BY <1>1, <1>2, <2>1
  <2>2. CASE j = i
    BY <1>1, <1>2, <2>2
  <2>3. CASE j > i
    <3>1. j - 1 \in 1 .. n /\ ~(j < i) /\ j # i
      BY <1>1, <2>3
    <3> QED BY <1>1, <1>2, <3>1
  <2> QED BY <1>1, <2>1, <2>2, <2>3
<1>4. r \in [1 .. n + 1 -> S]
  BY <1>2, <1>3
<1>5. r \in Seq(S) /\ Len(r) = n + 1
  BY <1>1, <1>4
<1>6. ASSUME NEW j \in i .. n PROVE r[j + 1] = s[j]
  <2>1. j + 1 \in 1 .. n + 1 /\ ~(j + 1 < i) /\ j + 1 # i /\ (j + 1) - 1 = j
    BY <1>1
  <2> QED BY <1>2, <2>1
<1>7. r[i] = e /\ \A j \in 1 .. i - 1 : r[j] = s[j]
  BY <1>1, <1>2
<1>8. Inserted(s, i, e, r)
  BY <1>5, <1>6, <1>7 DEF Inserted, n
<1> QED BY <1>5, <1>8 DEF r

\* An insertion adds its element.
LEMMA InsertRange ==
    ASSUME NEW S, NEW s \in Seq(S), NEW i \in 1 .. Len(s) + 1, NEW e \in S
    PROVE  Range(InsertAt(s, i, e)) = Range(s) \cup {e}
<1> DEFINE r == InsertAt(s, i, e)
<1>1. /\ r \in Seq(S) /\ Len(r) = Len(s) + 1 /\ r[i] = e
      /\ \A j \in 1 .. i - 1 : r[j] = s[j]
      /\ \A j \in i .. Len(s) : r[j + 1] = s[j]
  <2>1. r \in Seq(S) /\ Inserted(s, i, e, r)
    BY InsertProps
  <2> HIDE DEF r
  <2> QED BY <2>1, Zenon DEF Inserted
<1> HIDE DEF r
<1>2. DOMAIN r = 1 .. Len(s) + 1 /\ DOMAIN s = 1 .. Len(s) /\ Len(s) \in Nat
  BY <1>1
<1>3. ASSUME NEW j \in 1 .. Len(s) + 1 PROVE r[j] \in Range(s) \cup {e}
  <2>1. CASE j < i
    BY <1>1, <1>2, <2>1 DEF Range
  <2>2. CASE j = i
    BY <1>1, <2>2
  <2>3. CASE j > i
    <3>1. j - 1 \in i .. Len(s) /\ (j - 1) + 1 = j /\ j - 1 \in 1 .. Len(s)
      BY <1>2, <2>3
    <3>2. r[j] = s[j - 1]
      BY <1>1, <3>1
    <3> QED BY <1>2, <3>1, <3>2 DEF Range
  <2> QED BY <2>1, <2>2, <2>3
<1>4. ASSUME NEW j \in 1 .. Len(s) PROVE s[j] \in Range(r)
  <2>1. CASE j < i
    BY <1>1, <1>2, <2>1 DEF Range
  <2>2. CASE j >= i
    <3>1. j \in i .. Len(s) /\ j + 1 \in 1 .. Len(s) + 1
      BY <1>2, <2>2
    <3> QED BY <1>1, <1>2, <3>1 DEF Range
  <2> QED BY <2>1, <2>2
<1>5. e \in Range(r)
  BY <1>1, <1>2 DEF Range
<1>6. Range(r) \subseteq Range(s) \cup {e}
  BY <1>2, <1>3 DEF Range
<1>7. Range(s) \subseteq Range(r)
  BY <1>2, <1>4 DEF Range
<1> QED BY <1>5, <1>6, <1>7 DEF r

\* An insertion of a new element keeps the elements distinct.
LEMMA InsertInjective ==
    ASSUME NEW S, NEW s \in Seq(S), NEW i \in 1 .. Len(s) + 1, NEW e \in S,
           IsInjective(s), e \notin Range(s)
    PROVE  IsInjective(InsertAt(s, i, e))
<1> DEFINE r == InsertAt(s, i, e)
           old(j) == IF j < i THEN j ELSE j - 1
<1>1. /\ r \in Seq(S) /\ Len(r) = Len(s) + 1 /\ r[i] = e
      /\ \A j \in 1 .. i - 1 : r[j] = s[j]
      /\ \A j \in i .. Len(s) : r[j + 1] = s[j]
  <2>1. r \in Seq(S) /\ Inserted(s, i, e, r)
    BY InsertProps
  <2> HIDE DEF r
  <2> QED BY <2>1, Zenon DEF Inserted
<1> HIDE DEF r
<1>2. DOMAIN r = 1 .. Len(s) + 1 /\ DOMAIN s = 1 .. Len(s) /\ Len(s) \in Nat
  BY <1>1
<1>3. ASSUME NEW j \in 1 .. Len(s) + 1, j # i
      PROVE  old(j) \in 1 .. Len(s) /\ r[j] = s[old(j)] /\ r[j] \in Range(s)
  <2>1. CASE j < i
    BY <1>1, <1>2, <2>1 DEF Range
  <2>2. CASE j > i
    <3>1. j - 1 \in i .. Len(s) /\ (j - 1) + 1 = j /\ old(j) = j - 1
      BY <1>2, <2>2
    <3>2. r[j] = s[j - 1] /\ j - 1 \in 1 .. Len(s)
      BY <1>1, <1>2, <3>1
    <3> QED BY <1>2, <3>1, <3>2 DEF Range
  <2> QED BY <1>3, <2>1, <2>2
<1>4. ASSUME NEW j \in 1 .. Len(s) + 1, NEW k \in 1 .. Len(s) + 1,
             j # i, k # i, old(j) = old(k)
      PROVE  j = k
  BY <1>2, <1>4
<1>5. ASSUME NEW j \in 1 .. Len(s) + 1, NEW k \in 1 .. Len(s) + 1, r[j] = r[k]
      PROVE  j = k
  <2>1. CASE j = i \/ k = i
    BY <1>1, <1>3, <1>5, <2>1
  <2>2. CASE j # i /\ k # i
    <3>1. s[old(j)] = s[old(k)] /\ old(j) \in 1 .. Len(s) /\ old(k) \in 1 .. Len(s)
      BY <1>3, <1>5, <2>2
    <3> HIDE DEF old
    <3>2. old(j) = old(k)
      BY <1>2, <3>1 DEF IsInjective
    <3> QED BY <1>4, <2>2, <3>2
  <2> QED BY <2>1, <2>2
<1>6. IsInjective(r)
  BY <1>2, <1>5 DEF IsInjective
<1> QED BY <1>6 DEF r

\* Removal of the element at a place, which is the only one of its value.
LEMMA RemoveProps ==
    ASSUME NEW S, NEW s \in Seq(S), IsInjective(s), NEW e \in Range(s)
    PROVE  LET r == Erase(s, e)
           IN /\ r \in Seq(S) /\ Len(r) = Len(s) - 1 /\ Len(s) > 0
              /\ \E i \in 1 .. Len(s) :
                    /\ s[i] = e
                    /\ \A j \in 1 .. i - 1 : r[j] = s[j]
                    /\ \A j \in i .. Len(s) - 1 : r[j] = s[j + 1]
<1>1. DOMAIN s = 1 .. Len(s) /\ Len(s) \in Nat
  OBVIOUS
<1>2. PICK i \in 1 .. Len(s) : s[i] = e
  BY <1>1 DEF Range
<1>3. (CHOOSE k \in 1 .. Len(s) : s[k] = e) = i
  <2>1. \A k \in 1 .. Len(s) : s[k] = e <=> k = i
    BY <1>1, <1>2 DEF IsInjective
  <2> QED BY <1>2, <2>1
<1> DEFINE r == Erase(s, e)
           n == Len(s)
<1>4. r = [j \in 1 .. n - 1 |-> IF j < i THEN s[j] ELSE s[j + 1]]
  BY <1>3 DEF Erase
<1>5. n \in Nat /\ i \in 1 .. n /\ \A j \in 1 .. n : s[j] \in S
  BY <1>1
<1> HIDE DEF r, n
<1>6. n - 1 \in Nat /\ n > 0
  BY <1>5
<1>7. ASSUME NEW j \in 1 .. n - 1 PROVE r[j] \in S
  <2>1. j \in 1 .. n /\ j + 1 \in 1 .. n
    BY <1>5
  <2> QED BY <1>4, <1>5, <2>1
<1>8. r \in [1 .. n - 1 -> S]
  BY <1>4, <1>7
<1>9. r \in Seq(S) /\ Len(r) = n - 1
  BY <1>6, <1>8
<1>10. ASSUME NEW j \in 1 .. i - 1 PROVE r[j] = s[j]
  <2>1. j \in 1 .. n - 1 /\ j < i
    BY <1>5
  <2> QED BY <1>4, <2>1
<1>11. ASSUME NEW j \in i .. n - 1 PROVE r[j] = s[j + 1]
  <2>1. j \in 1 .. n - 1 /\ ~(j < i)
    BY <1>5
  <2> QED BY <1>4, <2>1
<1> QED BY <1>2, <1>6, <1>9, <1>10, <1>11 DEF r, n

\* r is s without e, in the same order.
Kept(s, r, e) ==
    \E p \in [1 .. Len(r) -> 1 .. Len(s)] :
        /\ \A j \in 1 .. Len(r) : r[j] = s[p[j]] /\ s[p[j]] # e
        /\ \A j, k \in 1 .. Len(r) : j < k => p[j] < p[k]
        /\ \A k \in 1 .. Len(s) : s[k] # e => \E j \in 1 .. Len(r) : p[j] = k

\* What is left behind a removal is in the same order.
LEMMA RemovePlaces ==
    ASSUME NEW S, NEW s \in Seq(S), IsInjective(s), NEW e \in Range(s)
    PROVE  LET r == Erase(s, e)
           IN /\ r \in Seq(S) /\ Len(r) = Len(s) - 1 /\ Len(s) \in Nat \ {0}
              /\ Kept(s, r, e)
<1> DEFINE r == Erase(s, e)
           n == Len(s)
<1>1. /\ r \in Seq(S) /\ Len(r) = n - 1 /\ n > 0
      /\ \E i \in 1 .. n :
            /\ s[i] = e
            /\ \A j \in 1 .. i - 1 : r[j] = s[j]
            /\ \A j \in i .. n - 1 : r[j] = s[j + 1]
  BY RemoveProps
<1>2. PICK i \in 1 .. n : /\ s[i] = e
                          /\ \A j \in 1 .. i - 1 : r[j] = s[j]
                          /\ \A j \in i .. n - 1 : r[j] = s[j + 1]
  BY <1>1
<1>3. n \in Nat \ {0} /\ DOMAIN s = 1 .. n
  BY <1>1
<1> DEFINE p == [j \in 1 .. n - 1 |-> IF j < i THEN j ELSE j + 1]
<1> HIDE DEF r, n
<1>4. p \in [1 .. n - 1 -> 1 .. n]
  BY <1>3
<1>5. ASSUME NEW j \in 1 .. n - 1 PROVE r[j] = s[p[j]] /\ p[j] # i /\ p[j] \in 1 .. n
  <2>1. CASE j < i
    <3>1. j \in 1 .. i - 1 /\ p[j] = j
      BY <1>3, <2>1
    <3> QED BY <1>2, <1>3, <2>1, <3>1
  <2>2. CASE j >= i
    <3>1. j \in i .. n - 1 /\ p[j] = j + 1
      BY <1>3, <2>2
    <3> QED BY <1>2, <1>3, <2>2, <3>1
  <2> QED BY <1>2, <2>1, <2>2
<1>6. ASSUME NEW j \in 1 .. n - 1 PROVE s[p[j]] # e
  BY <1>2, <1>3, <1>5 DEF IsInjective
<1>7. \A j, k \in 1 .. n - 1 : j < k => p[j] < p[k]
  BY <1>2, <1>3
<1>8. ASSUME NEW k \in 1 .. n, s[k] # e
      PROVE  \E j \in 1 .. n - 1 : p[j] = k
  <2>1. k # i
    BY <1>2, <1>8
  <2>2. CASE k < i
    <3>1. k \in 1 .. n - 1 /\ p[k] = k
      BY <1>2, <1>3, <2>2
    <3> QED BY <3>1
  <2>3. CASE k > i
    <3>1. k - 1 \in 1 .. n - 1 /\ p[k - 1] = k
      BY <1>2, <1>3, <2>3
    <3> QED BY <3>1
  <2> QED BY <1>2, <1>3, <2>1, <2>2, <2>3
<1> HIDE DEF p
<1>9. \E q \in [1 .. Len(r) -> 1 .. n] :
        /\ \A j \in 1 .. Len(r) : r[j] = s[q[j]] /\ s[q[j]] # e
        /\ \A j, k \in 1 .. Len(r) : j < k => q[j] < q[k]
        /\ \A k \in 1 .. n : s[k] # e => \E j \in 1 .. Len(r) : q[j] = k
  <2>1. Len(r) = n - 1
    BY <1>1 DEF r, n
  <2>2. /\ p \in [1 .. Len(r) -> 1 .. n]
        /\ \A j \in 1 .. Len(r) : r[j] = s[p[j]] /\ s[p[j]] # e
        /\ \A j, k \in 1 .. Len(r) : j < k => p[j] < p[k]
        /\ \A k \in 1 .. n : s[k] # e => \E j \in 1 .. Len(r) : p[j] = k
    BY <1>4, <1>5, <1>6, <1>7, <1>8, <2>1
  <2> QED BY <2>2, Zenon
<1>10. Kept(s, r, e)
  BY <1>9, Zenon DEF Kept, n
<1> QED BY <1>1, <1>3, <1>10 DEF r, n

\* A removal takes out its element.
LEMMA RemoveRange ==
    ASSUME NEW S, NEW s \in Seq(S), IsInjective(s), NEW e \in Range(s)
    PROVE  LET r == Erase(s, e)
           IN r \in Seq(S) /\ IsInjective(r) /\ Range(r) = Range(s) \ {e}
<1> DEFINE r == Erase(s, e)
<1>1. /\ r \in Seq(S) /\ Len(r) = Len(s) - 1 /\ Len(s) \in Nat \ {0}
      /\ Kept(s, r, e)
  BY RemovePlaces
<1> HIDE DEF r
<1>2. PICK p \in [1 .. Len(r) -> 1 .. Len(s)] :
        /\ \A j \in 1 .. Len(r) : r[j] = s[p[j]] /\ s[p[j]] # e
        /\ \A j, k \in 1 .. Len(r) : j < k => p[j] < p[k]
        /\ \A k \in 1 .. Len(s) : s[k] # e => \E j \in 1 .. Len(r) : p[j] = k
  BY <1>1, Zenon DEF Kept
<1>3. DOMAIN r = 1 .. Len(r) /\ DOMAIN s = 1 .. Len(s)
  BY <1>1
<1>4. Range(r) \subseteq Range(s) \ {e}
  BY <1>2, <1>3 DEF Range
<1>5. Range(s) \ {e} \subseteq Range(r)
  <2> SUFFICES ASSUME NEW x \in Range(s), x # e PROVE x \in Range(r)
    OBVIOUS
  <2>1. PICK k \in 1 .. Len(s) : s[k] = x
    BY <1>3 DEF Range
  <2>2. PICK j \in 1 .. Len(r) : p[j] = k
    BY <1>2, <2>1
  <2> QED BY <1>2, <1>3, <2>1, <2>2 DEF Range
<1>6. ASSUME NEW j \in 1 .. Len(r), NEW k \in 1 .. Len(r), r[j] = r[k] PROVE j = k
  <2>1. p[j] \in 1 .. Len(s) /\ p[k] \in 1 .. Len(s) /\ s[p[j]] = s[p[k]]
    BY <1>2, <1>6
  <2>2. p[j] = p[k]
    BY <1>3, <2>1 DEF IsInjective
  <2>3. ~(j < k) /\ ~(k < j)
    BY <1>2, <2>1, <2>2
  <2> QED BY <1>1, <2>3
<1>7. IsInjective(r)
  BY <1>3, <1>6 DEF IsInjective
<1> QED BY <1>1, <1>4, <1>5, <1>7 DEF r

\* A place in the tree, counted.
LEMMA PlaceType ==
    ASSUME NEW n \in Nat, NEW D \in SUBSET (1 .. n)
    PROVE  Cardinality(D) \in 0 .. n
<1>1. IsFiniteSet(1 .. n) /\ Cardinality(1 .. n) = n
  BY FS_Interval
<1>2. IsFiniteSet(D) /\ Cardinality(D) <= n
  BY <1>1, FS_Subset
<1>3. Cardinality(D) \in Nat
  BY <1>2, FS_CardinalityType
<1> QED BY <1>2, <1>3

\* A set of places that is closed downwards is an initial part.
LEMMA PlaceDown ==
    ASSUME NEW n \in Nat, NEW D \in SUBSET (1 .. n),
           \A j \in D : \A k \in 1 .. j : k \in D
    PROVE  D = 1 .. Cardinality(D)
<1> DEFINE c == Cardinality(D)
<1>1. IsFiniteSet(1 .. n) /\ IsFiniteSet(D) /\ c \in 0 .. n
  <2>1. IsFiniteSet(1 .. n)
    BY FS_Interval
  <2>2. IsFiniteSet(D)
    BY <2>1, FS_Subset
  <2> QED BY <2>1, <2>2, PlaceType
<1> HIDE DEF c
<1>2. ASSUME NEW j \in D PROVE j \in 1 .. c
  <2>1. (1 .. j) \in SUBSET D /\ j \in 1 .. n
    OBVIOUS
  <2>2. Cardinality(1 .. j) <= c
    BY <1>1, <2>1, FS_Subset DEF c
  <2>3. Cardinality(1 .. j) = j
    BY <2>1, FS_Interval
  <2> QED BY <1>1, <2>1, <2>2, <2>3
<1>3. D \in SUBSET (1 .. c) /\ IsFiniteSet(1 .. c) /\ Cardinality(1 .. c) = c
  BY <1>1, <1>2, FS_Interval
<1> QED BY <1>3, FS_Subset DEF c

----------------------------------------------------------------------------
(* The run queue.                                                          *)

\* A list of tasks without repetition.
Distinct(q) == q \in Seq(Tasks) /\ IsInjective(q)

\* hev_task_system_insert_task adds a task to the run queue.
LEMMA InsertTaskQueue ==
    ASSUME NEW s, NEW t \in Tasks, NEW k, Distinct(s.q), t \notin Range(s.q)
    PROVE  /\ Distinct(InsertTask(s, t, k).q)
           /\ Range(InsertTask(s, t, k).q) = Range(s.q) \cup {t}
<1> DEFINE D == {j \in 1 .. Len(s.q) : s.k[s.q[j]] <= k}
           i == Cardinality(D)
<1>1. s.q \in Seq(Tasks) /\ IsInjective(s.q) /\ Len(s.q) \in Nat
  BY DEF Distinct
<1>2. i \in 0 .. Len(s.q)
  BY <1>1, PlaceType
<1>3. InsertTask(s, t, k).q = InsertAt(s.q, i + 1, t)
  BY DEF InsertTask
<1> HIDE DEF i
<1>4. i + 1 \in 1 .. Len(s.q) + 1
  BY <1>1, <1>2
<1>5. InsertAt(s.q, i + 1, t) \in Seq(Tasks)
  BY <1>1, <1>4, InsertProps
<1>6. Range(InsertAt(s.q, i + 1, t)) = Range(s.q) \cup {t}
  BY <1>1, <1>4, InsertRange
<1>7. IsInjective(InsertAt(s.q, i + 1, t))
  BY <1>1, <1>4, InsertInjective
<1> QED BY <1>3, <1>5, <1>6, <1>7 DEF Distinct

\* A wakeup puts the task on the run queue, once.
LEMMA WakeQueue ==
    ASSUME NEW s, NEW t \in Tasks, Distinct(s.q)
    PROVE  Distinct(Wake(s, t).q) /\ Range(Wake(s, t).q) = Range(s.q) \cup {t}
<1>1. CASE t \in Range(s.q)
  BY <1>1 DEF Wake
<1>2. CASE t \notin Range(s.q)
  BY <1>2, InsertTaskQueue DEF Wake
<1> QED BY <1>1, <1>2

\* A wait takes the current task off it.
LEMMA RemovedQueue ==
    ASSUME NEW s, Distinct(s.q), cur \in Range(s.q)
    PROVE  Distinct(Removed(s).q) /\ Range(Removed(s).q) = Range(s.q) \ {cur}
<1>1. Removed(s).q = Erase(s.q, cur)
  BY DEF Removed
<1> QED BY <1>1, RemoveRange DEF Distinct

\* hev_task_timer_wakeup adds the first sleeper at most.
LEMMA TimerWakeQueue ==
    ASSUME NEW s, NEW tm \in Seq(Tasks), Distinct(s.q)
    PROVE  /\ Distinct(TimerWake(s, tm).q)
           /\ \/ Range(TimerWake(s, tm).q) = Range(s.q)
              \/ tm # <<>> /\ Range(TimerWake(s, tm).q) = Range(s.q) \cup {tm[1]}
<1>1. CASE tm # <<>> /\ Cmp(now, node[tm[1]].expire) >= 0
  <2>1. tm[1] \in Tasks /\ TimerWake(s, tm) = Wake(s, tm[1])
    BY <1>1 DEF TimerWake
  <2> QED BY <1>1, <2>1, WakeQueue
<1>2. CASE ~(tm # <<>> /\ Cmp(now, node[tm[1]].expire) >= 0)
  BY <1>2 DEF TimerWake
<1> QED BY <1>1, <1>2

\* The queue becomes one with the tasks R.
Queued(R) == Distinct(queue') /\ Range(queue') = R

\* The queue of the scheduler that is set.
LEMMA SetSchedQueue ==
    ASSUME NEW s, SetSched(s) PROVE queue' = s.q
  BY DEF SetSched

\* The queue of the scheduler as it is.
LEMMA SchedQueue == Sched.q = queue
  BY DEF Sched

\* A yield keeps the tasks of the queue.
LEMMA ReinsertedQueue ==
    ASSUME NEW n, Distinct(queue), cur \in Range(queue), cur \in Tasks,
           SetSched(Reinserted(Sched, n))
    PROVE  Queued(Range(queue))
<1> DEFINE s == [q |-> Erase(queue, cur), k |-> key]
<1>1. Reinserted(Sched, n) = InsertTask(s, cur, key[cur] + n * Priority[cur])
  BY DEF Reinserted, Sched
<1>2. s.q = Erase(queue, cur)
  OBVIOUS
<1> HIDE DEF s
<1>3. Distinct(s.q) /\ Range(s.q) = Range(queue) \ {cur}
  BY <1>2, RemoveRange DEF Distinct
<1>4. /\ Distinct(Reinserted(Sched, n).q)
      /\ Range(Reinserted(Sched, n).q) = Range(s.q) \cup {cur}
  BY <1>1, <1>3, InsertTaskQueue
<1> QED BY <1>3, <1>4, SetSchedQueue DEF Queued

\* The cases of a step: what becomes of the queue.
LEMMA QueueSteps ==
    ASSUME Distinct(queue)
    PROVE  /\ \A t \in Tasks : SetSched(Wake(Sched, t)) => Queued(Range(queue) \cup {t})
           /\ \A t \in Tasks : \A k : t \notin Range(queue) /\ SetSched(InsertTask(Sched, t, k))
                    => Queued(Range(queue) \cup {t})
           /\ cur \in Range(queue) /\ SetSched(Removed(Sched))
                    => Queued(Range(queue) \ {cur})
           /\ \A t \in Tasks : cur \in Range(queue) /\ SetSched(Removed(Wake(Sched, t)))
                    => Queued((Range(queue) \cup {t}) \ {cur})
           /\ SetSched(Sched) => Queued(Range(queue))
<1>1. Distinct(Sched.q) /\ Sched.q = queue
  BY SchedQueue
<1>2. \A t \in Tasks : SetSched(Wake(Sched, t)) => Queued(Range(queue) \cup {t})
  BY <1>1, WakeQueue, SetSchedQueue DEF Queued
<1>3. \A t \in Tasks : \A k : t \notin Range(queue) /\ SetSched(InsertTask(Sched, t, k))
                    => Queued(Range(queue) \cup {t})
  <2> SUFFICES ASSUME NEW t \in Tasks, NEW k, t \notin Range(queue),
                      SetSched(InsertTask(Sched, t, k))
               PROVE  Queued(Range(queue) \cup {t})
    OBVIOUS
  <2>1. /\ Distinct(InsertTask(Sched, t, k).q)
        /\ Range(InsertTask(Sched, t, k).q) = Range(queue) \cup {t}
    BY <1>1, InsertTaskQueue
  <2>2. queue' = InsertTask(Sched, t, k).q
    BY SetSchedQueue
  <2> QED BY <2>1, <2>2 DEF Queued
<1>4. cur \in Range(queue) /\ SetSched(Removed(Sched)) => Queued(Range(queue) \ {cur})
  <2> SUFFICES ASSUME cur \in Range(queue), SetSched(Removed(Sched))
               PROVE  Queued(Range(queue) \ {cur})
    OBVIOUS
  <2>1. /\ Distinct(Removed(Sched).q)
        /\ Range(Removed(Sched).q) = Range(queue) \ {cur}
    BY <1>1, RemovedQueue
  <2>2. queue' = Removed(Sched).q
    BY SetSchedQueue
  <2> QED BY <2>1, <2>2 DEF Queued
<1>5. ASSUME NEW t \in Tasks, cur \in Range(queue), SetSched(Removed(Wake(Sched, t)))
      PROVE  Queued((Range(queue) \cup {t}) \ {cur})
  <2>1. Distinct(Wake(Sched, t).q) /\ Range(Wake(Sched, t).q) = Range(queue) \cup {t}
    BY <1>1, WakeQueue
  <2>2. /\ Distinct(Removed(Wake(Sched, t)).q)
        /\ Range(Removed(Wake(Sched, t)).q) = Range(Wake(Sched, t).q) \ {cur}
    BY <1>5, <2>1, RemovedQueue
  <2>3. queue' = Removed(Wake(Sched, t)).q
    BY <1>5, SetSchedQueue
  <2> QED BY <2>1, <2>2, <2>3 DEF Queued
<1>6. SetSched(Sched) => Queued(Range(queue))
  BY <1>1, SetSchedQueue DEF Queued
<1> QED BY <1>2, <1>3, <1>4, <1>5, <1>6

\* The run queue has the current task and none that was not started.
QueueInv ==
    /\ pc \in [Tasks -> PCs]
    /\ Distinct(queue)
    /\ cur \in Tasks \cup {None} /\ (cur # None => cur \in Range(queue))
    /\ \A t \in Tasks : t \in Range(queue) => pc[t] # "new"

\* The timer tree has the tasks asleep.
SleepInv ==
    /\ Distinct(timers)
    /\ \A t \in Tasks : t \in Range(timers) <=> pc[t] = "sleep"

\* The list of the mutex has the tasks that wait for it, and the first of them
\* can run while nobody holds it.
LockInv ==
    /\ Distinct(waiters) /\ locker \in BOOLEAN
    /\ \A t \in Tasks : t \in Range(waiters) <=> pc[t] = "lock"
    /\ ~locker /\ waiters # <<>> => waiters[1] \in Range(queue)

\* A task that joins and the one it joins know each other, until the latter
\* has exited and the former can run.
JoinInv ==
    /\ joiner \in [Tasks -> Tasks \cup {None}]
    /\ target \in [Tasks -> Tasks \cup {None}]
    /\ \A t \in Tasks : pc[t] = "join" =>
        /\ target[t] \in Tasks /\ pc[target[t]] # "new" /\ joiner[target[t]] = t
        /\ pc[target[t]] = "stopped" => t \in Range(queue)
    /\ \A u \in Tasks : joiner[u] # None /\ pc[u] # "stopped" =>
        pc[joiner[u]] = "join" /\ target[joiner[u]] = u
    /\ aborted = FALSE

SysInv == QueueInv /\ SleepInv /\ LockInv /\ JoinInv

\* A task that goes somewhere else leaves the others where they are.
LEMMA Moves ==
    ASSUME pc \in [Tasks -> PCs], NEW t \in Tasks, NEW p \in PCs, Go(t, p)
    PROVE  /\ pc' \in [Tasks -> PCs] /\ pc'[t] = p
           /\ \A u \in Tasks : u # t => pc'[u] = pc[u]
  BY DEF Go

\* The first of a list of tasks.
LEMMA FirstOf ==
    ASSUME NEW s, Distinct(s), s # <<>>
    PROVE  s[1] \in Tasks /\ s[1] \in Range(s)
<1>1. s \in Seq(Tasks) /\ Len(s) \in Nat /\ Len(s) # 0
  BY DEF Distinct
<1>2. 1 \in DOMAIN s
  BY <1>1
<1> QED BY <1>1, <1>2 DEF Range

\* The first waiter is in hev_task_mutex_lock.
LEMMA FirstWaiter ==
    ASSUME LockInv, waiters # <<>>
    PROVE  waiters[1] \in Tasks /\ pc[waiters[1]] = "lock"
  BY FirstOf DEF LockInv

\* The parts a step leaves alone.
LEMMA SleepKept ==
    ASSUME SleepInv, timers' = timers,
           \A u \in Tasks : pc'[u] = "sleep" <=> pc[u] = "sleep"
    PROVE  SleepInv'
<1>1. Distinct(timers)'
  BY DEF SleepInv, Distinct
<1>2. \A u \in Tasks : u \in Range(timers') <=> u \in Range(timers)
  OBVIOUS
<1>3. \A u \in Tasks : u \in Range(timers)' <=> pc'[u] = "sleep"
  BY <1>2, Zenon DEF SleepInv
<1> QED BY <1>1, <1>3 DEF SleepInv

\* The mutex where no task enters or leaves the wait for it.
LEMMA LockKept ==
    ASSUME LockInv, waiters' = waiters, locker' \in BOOLEAN,
           \A u \in Tasks : pc'[u] = "lock" <=> pc[u] = "lock",
           ~locker' /\ waiters # <<>> => waiters[1] \in Range(queue')
    PROVE  LockInv'
<1>1. Distinct(waiters)'
  BY DEF LockInv, Distinct
<1>2. \A u \in Tasks : u \in Range(waiters)' <=> pc'[u] = "lock"
  <2>1. \A u \in Tasks : u \in Range(waiters') <=> u \in Range(waiters)
    OBVIOUS
  <2> QED BY <2>1, Zenon DEF LockInv
<1>3. (~locker /\ waiters # <<>> => waiters[1] \in Range(queue))'
  OBVIOUS
<1> QED BY <1>1, <1>2, <1>3 DEF LockInv

\* The joins where no task joins, returns or ends.
LEMMA JoinKept ==
    ASSUME JoinInv, joiner' = joiner, target' = target, aborted' = aborted,
           \A u \in Tasks : pc'[u] = "join" <=> pc[u] = "join",
           \A u \in Tasks : pc'[u] = "stopped" <=> pc[u] = "stopped",
           \A u \in Tasks : pc[u] # "new" => pc'[u] # "new",
           \A u \in Tasks : pc[u] = "join" /\ u \in Range(queue) => u \in Range(queue')
    PROVE  JoinInv'
<1>1. \A u \in Tasks : joiner[u] # None => joiner[u] \in Tasks
  <2>1. joiner \in [Tasks -> Tasks \cup {None}]
    BY Zenon DEF JoinInv
  <2> QED BY <2>1
<1>2. /\ (joiner \in [Tasks -> Tasks \cup {None}])'
      /\ (target \in [Tasks -> Tasks \cup {None}])'
      /\ (aborted = FALSE)'
  BY DEF JoinInv
<1>3. ASSUME NEW u \in Tasks, pc'[u] = "join"
      PROVE  /\ target'[u] \in Tasks /\ pc'[target'[u]] # "new"
             /\ joiner'[target'[u]] = u
             /\ pc'[target'[u]] = "stopped" => u \in Range(queue')
  <2>1. pc[u] = "join" /\ target'[u] = target[u]
    BY <1>3
  <2>2. /\ target[u] \in Tasks /\ pc[target[u]] # "new" /\ joiner[target[u]] = u
        /\ pc[target[u]] = "stopped" => u \in Range(queue)
    BY <2>1, Zenon DEF JoinInv
  <2>3. pc'[target[u]] = "stopped" => u \in Range(queue')
    BY <2>1, <2>2, Zenon
  <2> QED BY <2>1, <2>2, <2>3
<1>4. ASSUME NEW u \in Tasks, joiner'[u] # None, pc'[u] # "stopped"
      PROVE  pc'[joiner'[u]] = "join" /\ target'[joiner'[u]] = u
  <2>1. joiner[u] # None /\ pc[u] # "stopped" /\ joiner'[u] = joiner[u]
    BY <1>4
  <2>2. pc[joiner[u]] = "join" /\ target[joiner[u]] = u
    BY <2>1, Zenon DEF JoinInv
  <2>3. joiner[u] \in Tasks
    BY <2>1, <1>1
  <2> QED BY <2>1, <2>2, <2>3
<1> QED BY <1>2, <1>3, <1>4, Zenon DEF JoinInv

\* A task outside the waits moves on or stays, and only it may leave the queue.
Plain == {"new", "ready", "crit", "io"}

\* A step between places that have nothing to do with timers, mutex and joins.
LEMMA Ordinary ==
    ASSUME SysInv, NEW t \in Tasks, pc' \in [Tasks -> PCs],
           \A u \in Tasks : u # t => pc'[u] = pc[u],
           pc'[t] = pc[t] \/ (pc[t] \in Plain /\ pc'[t] \in Plain \ {"new"}),
           UNCHANGED <<timers, waiters, joiner, target, aborted>>, locker' = locker,
           Distinct(queue'),
           \A u \in Tasks : u \in Range(queue') => pc'[u] # "new",
           \A u \in Tasks \ {t} : u \in Range(queue) => u \in Range(queue'),
           pc[t] \notin Plain /\ t \in Range(queue) => t \in Range(queue'),
           cur' \in Tasks \cup {None}, cur' # None => cur' \in Range(queue')
    PROVE  SysInv'
<1>1. /\ \A u \in Tasks : pc'[u] = "sleep" <=> pc[u] = "sleep"
      /\ \A u \in Tasks : pc'[u] = "lock" <=> pc[u] = "lock"
      /\ \A u \in Tasks : pc'[u] = "join" <=> pc[u] = "join"
      /\ \A u \in Tasks : pc'[u] = "stopped" <=> pc[u] = "stopped"
      /\ \A u \in Tasks : pc[u] # "new" => pc'[u] # "new"
  BY DEF Plain
<1>2. \A u \in Tasks : pc[u] \notin Plain /\ u \in Range(queue) => u \in Range(queue')
  OBVIOUS
<1>3. QueueInv'
  BY Zenon DEF QueueInv, Distinct
<1>4. SleepInv'
  BY <1>1, SleepKept DEF SysInv
<1>5. LockInv'
  <2>1. ASSUME ~locker', waiters # <<>> PROVE waiters[1] \in Range(queue')
    <3>1. waiters[1] \in Tasks /\ pc[waiters[1]] = "lock"
      BY <2>1, FirstWaiter DEF SysInv
    <3>2. waiters[1] \in Range(queue)
      BY <2>1 DEF SysInv, LockInv
    <3>3. pc[waiters[1]] \notin Plain
      BY <3>1 DEF Plain
    <3> QED BY <1>2, <3>1, <3>2, <3>3
  <2>2. LockInv /\ locker' \in BOOLEAN /\ waiters' = waiters
    BY DEF SysInv, LockInv
  <2> QED BY <1>1, <2>1, <2>2, LockKept
<1>6. JoinInv'
  <2>1. \A u \in Tasks : pc[u] = "join" /\ u \in Range(queue) => u \in Range(queue')
    BY <1>2 DEF Plain
  <2>2. JoinInv /\ joiner' = joiner /\ target' = target /\ aborted' = aborted
    BY DEF SysInv
  <2> QED BY <1>1, <2>1, <2>2, JoinKept
<1> QED BY <1>3, <1>4, <1>5, <1>6 DEF SysInv

\* What the invariant says of the run queue.
LEMMA QueueFacts ==
    ASSUME SysInv
    PROVE  /\ pc \in [Tasks -> PCs] /\ Distinct(queue) /\ Distinct(timers)
           /\ None \notin Tasks
           /\ \A t \in Tasks : t \in Range(queue) => pc[t] # "new"
           /\ \A t \in Tasks : cur = t => t \in Range(queue)
<1>1. None \notin Tasks
  BY TasksAreNumbers DEF None
<1> QED BY <1>1 DEF SysInv, QueueInv, SleepInv

\* A step that changes none of it: the clock.
LEMMA SysIdle ==
    ASSUME SysInv, UNCHANGED <<cur, queue, pc, timers, waiters, locker, joiner, target, aborted>>
    PROVE  SysInv'
<1>1. QueueInv'
  BY DEF SysInv, QueueInv, Distinct
<1>2. SleepInv'
  BY SleepKept DEF SysInv
<1>3. LockInv'
  BY LockKept DEF SysInv, LockInv
<1>4. JoinInv'
  BY JoinKept DEF SysInv
<1> QED BY <1>1, <1>2, <1>3, <1>4 DEF SysInv

\* hev_task_system_io_poll wakes a task.
LEMMA SysPoll == ASSUME SysInv, NEW t \in Tasks, io_poll(t) PROVE SysInv'
<1>1. /\ UNCHANGED <<cur, pc, timers, waiters, joiner, target, aborted>>
      /\ locker' = locker /\ pc[t] # "new" /\ SetSched(Wake(Sched, t)) /\ cur = None
  BY DEF io_poll, Waiting, clock, mutex, joins
<1>2. Distinct(queue') /\ Range(queue') = Range(queue) \cup {t}
  BY <1>1, QueueFacts, QueueSteps DEF Queued
<1>3. /\ \A u \in Tasks : u \in Range(queue') => pc'[u] # "new"
      /\ \A u \in Tasks : u \in Range(queue) => u \in Range(queue')
  BY <1>1, <1>2, QueueFacts
<1> QED BY <1>1, <1>2, <1>3, QueueFacts, Ordinary

\* hev_task_wakeup.
LEMMA SysWakeup == ASSUME SysInv, NEW t \in Tasks, wakeup(t) PROVE SysInv'
<1>1. PICK w \in Waiting :
      /\ UNCHANGED <<cur, pc, timers, waiters, joiner, target, aborted>>
      /\ locker' = locker /\ SetSched(Wake(Sched, w)) /\ cur = t
  BY DEF wakeup, clock, mutex, joins, On
<1>2. w \in Tasks /\ pc[w] # "new"
  BY DEF Waiting
<1>3. Distinct(queue') /\ Range(queue') = Range(queue) \cup {w}
  BY <1>1, <1>2, QueueFacts, QueueSteps DEF Queued
<1>4. /\ \A u \in Tasks : u \in Range(queue') => pc'[u] # "new"
      /\ \A u \in Tasks : u \in Range(queue) => u \in Range(queue')
      /\ cur' = t /\ t \in Range(queue')
  BY <1>1, <1>2, <1>3, QueueFacts
<1> QED BY <1>1, <1>3, <1>4, QueueFacts, Ordinary

\* hev_task_run.
LEMMA SysRun == ASSUME SysInv, NEW t \in Tasks, run(t) PROVE SysInv'
<1>1. PICK u \in Tasks :
      /\ UNCHANGED <<cur, timers, waiters, joiner, target, aborted>>
      /\ locker' = locker /\ cur = t /\ pc[u] = "new" /\ Go(u, "ready")
      /\ SetSched(InsertTask(Sched, u, Priority[u] + MinKey(Sched)))
  BY DEF run, clock, mutex, joins, On
<1>2. /\ pc' \in [Tasks -> PCs] /\ pc'[u] = "ready"
      /\ \A v \in Tasks : v # u => pc'[v] = pc[v]
  <2>1. "ready" \in PCs
    BY DEF PCs
  <2> QED BY <1>1, <2>1, QueueFacts, Moves
<1>3. u \notin Range(queue)
  BY <1>1, QueueFacts
<1>4. Distinct(queue') /\ Range(queue') = Range(queue) \cup {u}
  BY <1>1, <1>3, QueueFacts, QueueSteps DEF Queued
<1>5. /\ \A v \in Tasks : v \in Range(queue') => pc'[v] # "new"
      /\ \A v \in Tasks : v \in Range(queue) => v \in Range(queue')
      /\ cur' = t /\ t \in Range(queue')
  BY <1>1, <1>2, <1>4, QueueFacts
<1>6. pc[u] \in Plain /\ pc'[u] \in Plain \ {"new"}
  BY <1>1, <1>2 DEF Plain
<1> QED BY <1>1, <1>2, <1>4, <1>5, <1>6, Ordinary

\* hev_task_yield of a task that goes on.
LEMMA SysYield == ASSUME SysInv, NEW t \in Tasks, yield(t) PROVE SysInv'
<1>1. PICK n \in 1 .. MaxRun :
      /\ UNCHANGED <<pc, timers, waiters, joiner, target, aborted>>
      /\ locker' = locker /\ cur = t /\ cur' = None
      /\ SetSched(Reinserted(Sched, n))
  BY DEF yield, clock, mutex, joins
<1>2. Distinct(queue') /\ Range(queue') = Range(queue)
  BY <1>1, QueueFacts, ReinsertedQueue DEF Queued
<1>3. \A u \in Tasks : u \in Range(queue') => pc'[u] # "new"
  BY <1>1, <1>2, QueueFacts
<1> QED BY <1>1, <1>2, <1>3, QueueFacts, Ordinary

\* hev_task_yield of a task that waits.
LEMMA SysWaitio == ASSUME SysInv, NEW t \in Tasks, waitio(t) PROVE SysInv'
<1>1. /\ UNCHANGED <<timers, waiters, joiner, target, aborted>>
      /\ locker' = locker /\ cur = t /\ cur' = None /\ pc[t] = "ready" /\ Go(t, "io")
      /\ SetSched(Removed(Sched))
  BY DEF waitio, clock, mutex, joins, On
<1>2. /\ pc' \in [Tasks -> PCs] /\ pc'[t] = "io"
      /\ \A v \in Tasks : v # t => pc'[v] = pc[v]
  <2>1. "io" \in PCs
    BY DEF PCs
  <2> QED BY <1>1, <2>1, QueueFacts, Moves
<1>3. Distinct(queue') /\ Range(queue') = Range(queue) \ {t}
  BY <1>1, QueueFacts, QueueSteps DEF Queued
<1>4. /\ \A v \in Tasks : v \in Range(queue') => pc'[v] # "new"
      /\ \A v \in Tasks \ {t} : v \in Range(queue) => v \in Range(queue')
  BY <1>2, <1>3, QueueFacts
<1>5. pc[t] \in Plain /\ pc'[t] \in Plain \ {"new"}
  BY <1>1, <1>2 DEF Plain
<1> QED BY <1>1, <1>2, <1>3, <1>4, <1>5, Ordinary

\* The return from it.
LEMMA SysWaitioReturn == ASSUME SysInv, NEW t \in Tasks, waitio_return(t) PROVE SysInv'
<1>1. /\ UNCHANGED <<cur, queue, timers, waiters, joiner, target, aborted>>
      /\ locker' = locker /\ cur = t /\ pc[t] = "io" /\ Go(t, "ready")
  BY DEF waitio_return, clock, mutex, joins, On
<1>2. /\ pc' \in [Tasks -> PCs] /\ pc'[t] = "ready"
      /\ \A v \in Tasks : v # t => pc'[v] = pc[v]
  <2>1. "ready" \in PCs
    BY DEF PCs
  <2> QED BY <1>1, <2>1, QueueFacts, Moves
<1>3. Distinct(queue') /\ Range(queue') = Range(queue)
  BY <1>1, QueueFacts
<1>4. \A v \in Tasks : v \in Range(queue') => pc'[v] # "new"
  BY <1>2, <1>3, QueueFacts
<1>5. pc[t] \in Plain /\ pc'[t] \in Plain \ {"new"}
  BY <1>1, <1>2 DEF Plain
<1>6. cur' = t /\ t \in Range(queue')
  BY <1>1, <1>3, QueueFacts
<1> QED BY <1>1, <1>2, <1>3, <1>4, <1>5, <1>6, Ordinary

\* The timer and the pick.
LEMMA SysPick == ASSUME SysInv, pick_current_task PROVE SysInv'
<1> DEFINE s == TimerWake(Sched, timers)
<1>1. /\ UNCHANGED <<pc, timers, waiters, joiner, target, aborted>> /\ locker' = locker
      /\ s.q # <<>> /\ cur' = s.q[1] /\ queue' = s.q
  BY DEF pick_current_task, Pick, clock, mutex, joins
<1>2. /\ Distinct(s.q)
      /\ \/ Range(s.q) = Range(queue)
         \/ timers # <<>> /\ Range(s.q) = Range(queue) \cup {timers[1]}
  <2>1. Distinct(Sched.q) /\ Sched.q = queue /\ timers \in Seq(Tasks)
    BY SchedQueue, QueueFacts DEF Distinct
  <2> QED BY <2>1, TimerWakeQueue
<1> HIDE DEF s
<1>3. timers # <<>> => timers[1] \in Tasks /\ pc[timers[1]] = "sleep"
  BY FirstOf DEF SysInv, SleepInv
<1>4. cur' \in Tasks /\ cur' \in Range(queue')
  BY <1>1, <1>2, FirstOf
<1>5. /\ \A u \in Tasks : u \in Range(queue') => pc'[u] # "new"
      /\ \A u \in Tasks : u \in Range(queue) => u \in Range(queue')
  BY <1>1, <1>2, <1>3, QueueFacts
<1>6. pc' \in [Tasks -> PCs] /\ Distinct(queue')
  BY <1>1, <1>2, QueueFacts
<1> QED BY <1>1, <1>4, <1>5, <1>6, Ordinary

\* A task comes to the front of a list, and the first one leaves it.
LEMMA ConsDistinct ==
    ASSUME NEW s, Distinct(s), NEW t \in Tasks, t \notin Range(s)
    PROVE  Distinct(<<t>> \o s) /\ Range(<<t>> \o s) = Range(s) \cup {t}
<1>1. s \in Seq(Tasks) /\ IsInjective(s) /\ Len(s) \in Nat
  BY DEF Distinct
<1>2. <<t>> \in Seq(Tasks) /\ Len(<<t>>) = 1 /\ <<t>>[1] = t
  OBVIOUS
<1> DEFINE r == <<t>> \o s
<1>3. /\ r \in Seq(Tasks) /\ Len(r) = 1 + Len(s)
      /\ \A i \in 1 .. Len(r) : r[i] = IF i <= 1 THEN <<t>>[i] ELSE s[i - 1]
  BY <1>1, <1>2
<1> HIDE DEF r
<1>4. r[1] = t /\ \A i \in 2 .. 1 + Len(s) : r[i] = s[i - 1] /\ i - 1 \in 1 .. Len(s)
  BY <1>1, <1>2, <1>3
<1>5. DOMAIN r = 1 .. 1 + Len(s) /\ DOMAIN s = 1 .. Len(s)
  BY <1>1, <1>3
<1>6. \A i \in 2 .. 1 + Len(s) : r[i] \in Range(s)
  BY <1>4, <1>5 DEF Range
<1>7. \A i \in DOMAIN r : i = 1 \/ i \in 2 .. 1 + Len(s)
  BY <1>1, <1>5
<1>8. IsInjective(r)
  <2> SUFFICES ASSUME NEW a \in DOMAIN r, NEW b \in DOMAIN r, r[a] = r[b] PROVE a = b
    BY DEF IsInjective
  <2>1. CASE a = 1 \/ b = 1
    BY <1>4, <1>6, <1>7, <2>1
  <2>2. CASE a \in 2 .. 1 + Len(s) /\ b \in 2 .. 1 + Len(s)
    <3>1. s[a - 1] = s[b - 1] /\ a - 1 \in DOMAIN s /\ b - 1 \in DOMAIN s
      BY <1>4, <1>5, <2>2
    <3>2. a - 1 = b - 1
      BY <1>1, <3>1 DEF IsInjective
    <3> QED BY <2>2, <3>2
  <2> QED BY <1>7, <2>1, <2>2
<1>9. Range(r) = Range(s) \cup {t}
  <2>1. \A x \in Range(r) : x \in Range(s) \cup {t}
    BY <1>4, <1>6, <1>7 DEF Range
  <2>2. t \in Range(r)
    <3>1. 1 \in DOMAIN r
      BY <1>1, <1>5
    <3> QED BY <1>4, <3>1 DEF Range
  <2>3. ASSUME NEW x \in Range(s) PROVE x \in Range(r)
    <3>1. PICK i \in 1 .. Len(s) : x = s[i]
      BY <1>5 DEF Range
    <3>2. i + 1 \in 2 .. 1 + Len(s) /\ (i + 1) - 1 = i /\ i + 1 \in DOMAIN r
      BY <1>1, <1>5
    <3>3. r[i + 1] = x
      BY <1>4, <3>1, <3>2
    <3> QED BY <3>2, <3>3 DEF Range
  <2> QED BY <2>1, <2>2, <2>3
<1> QED BY <1>3, <1>8, <1>9 DEF Distinct, r

\* The rest of a sequence is without its first element.
LEMMA TailDistinct ==
    ASSUME NEW s, Distinct(s), s # <<>>
    PROVE  Distinct(Tail(s)) /\ Range(Tail(s)) = Range(s) \ {s[1]}
<1>1. s \in Seq(Tasks) /\ IsInjective(s) /\ Len(s) \in Nat /\ Len(s) # 0
  BY DEF Distinct
<1> DEFINE r == Tail(s)
<1>2. /\ r \in Seq(Tasks) /\ Len(r) = Len(s) - 1
      /\ \A i \in 1 .. Len(s) - 1 : r[i] = s[i + 1]
  BY <1>1
<1> HIDE DEF r
<1>3. DOMAIN r = 1 .. Len(s) - 1 /\ DOMAIN s = 1 .. Len(s)
  BY <1>1, <1>2
<1>4. \A i \in DOMAIN r : i + 1 \in DOMAIN s /\ i + 1 # 1 /\ r[i] = s[i + 1] /\ i \in Nat
  BY <1>1, <1>2, <1>3
<1>5. 1 \in DOMAIN s
  BY <1>1, <1>3
<1>6. IsInjective(r)
  <2> SUFFICES ASSUME NEW a \in DOMAIN r, NEW b \in DOMAIN r, r[a] = r[b] PROVE a = b
    BY DEF IsInjective
  <2>1. a + 1 = b + 1
    BY <1>1, <1>4 DEF IsInjective
  <2> QED BY <1>4, <2>1
<1>7. \A x \in Range(r) : x \in Range(s) /\ x # s[1]
  BY <1>1, <1>4, <1>5 DEF Range, IsInjective
<1>8. ASSUME NEW x \in Range(s), x # s[1] PROVE x \in Range(r)
  <2>1. PICK i \in 1 .. Len(s) : x = s[i]
    BY <1>3 DEF Range
  <2>2. i # 1 /\ i - 1 \in 1 .. Len(s) - 1 /\ (i - 1) + 1 = i
    BY <1>1, <1>8, <2>1
  <2>3. r[i - 1] = x /\ i - 1 \in DOMAIN r
    BY <1>2, <1>3, <2>1, <2>2
  <2> QED BY <2>3 DEF Range
<1>9. Range(r) = Range(s) \ {s[1]}
  BY <1>7, <1>8
<1> QED BY <1>2, <1>6, <1>9 DEF Distinct, r

----------------------------------------------------------------------------
\* The others stay in the queue.
Others(t) == \A u \in Tasks : u # t /\ u \in Range(queue) => u \in Range(queue')
Alone(t) == \A u \in Tasks : u # t => pc'[u] = pc[u]

\* The run queue, from what the step leaves on it.
LEMMA QueueMoves ==
    ASSUME pc' \in [Tasks -> PCs], Distinct(queue'),
           \A u \in Tasks : u \in Range(queue') => pc'[u] # "new",
           cur' \in Tasks \cup {None}, cur' # None => cur' \in Range(queue')
    PROVE  QueueInv'
  BY Zenon DEF QueueInv, Distinct

\* The mutex where a task moves that does not wait for it.
LEMMA LockStays ==
    ASSUME SysInv, NEW t \in Tasks, pc[t] # "lock", pc'[t] # "lock", Alone(t),
           waiters' = waiters, locker' = locker, Others(t)
    PROVE  LockInv'
<1>1. LockInv /\ locker' \in BOOLEAN
  BY DEF SysInv, LockInv
<1>2. \A u \in Tasks : pc'[u] = "lock" <=> pc[u] = "lock"
  BY DEF Alone
<1>3. ASSUME ~locker', waiters # <<>> PROVE waiters[1] \in Range(queue')
  <2>1. waiters[1] \in Tasks /\ waiters[1] # t
    BY <1>1, <1>3, FirstWaiter
  <2>2. waiters[1] \in Range(queue)
    BY <1>1, <1>3 DEF LockInv
  <2> QED BY <2>1, <2>2 DEF Others
<1> QED BY <1>1, <1>2, <1>3, LockKept

\* The joins where a task moves that does not join.
LEMMA JoinStays ==
    ASSUME SysInv, NEW t \in Tasks, Alone(t), Others(t),
           pc[t] \notin {"join", "stopped"}, pc'[t] \notin {"new", "join", "stopped"},
           joiner' = joiner, target' = target, aborted' = aborted
    PROVE  JoinInv'
<1>1. /\ \A u \in Tasks : pc'[u] = "join" <=> pc[u] = "join"
      /\ \A u \in Tasks : pc'[u] = "stopped" <=> pc[u] = "stopped"
      /\ \A u \in Tasks : pc[u] # "new" => pc'[u] # "new"
  BY DEF Alone
<1>2. \A u \in Tasks : pc[u] = "join" /\ u \in Range(queue) => u \in Range(queue')
  BY DEF Others
<1> QED BY <1>1, <1>2, JoinKept DEF SysInv

\* The timers where a task moves that does not sleep.
LEMMA SleepStays ==
    ASSUME SysInv, NEW t \in Tasks, Alone(t), pc[t] # "sleep", pc'[t] # "sleep",
           timers' = timers
    PROVE  SleepInv'
<1>1. \A u \in Tasks : pc'[u] = "sleep" <=> pc[u] = "sleep"
  BY DEF Alone
<1> QED BY <1>1, SleepKept DEF SysInv

\* The current task goes to sleep.
LEMMA SysSleep == ASSUME SysInv, NEW t \in Tasks, sleep(t) PROVE SysInv'
<1>1. PICK nd :
      /\ cur = t /\ pc[t] = "ready" /\ Go(t, "sleep") /\ SetSched(Removed(Sched))
      /\ cur' = None /\ timers' = InsertTimer(nd, t)
      /\ UNCHANGED <<waiters, joiner, target, aborted>> /\ locker' = locker
  BY DEF sleep, On, mutex, joins
<1>2. /\ pc' \in [Tasks -> PCs] /\ pc'[t] = "sleep" /\ Alone(t)
  <2>1. "sleep" \in PCs
    BY DEF PCs
  <2> QED BY <1>1, <2>1, QueueFacts, Moves DEF Alone
<1>3. Distinct(queue') /\ Range(queue') = Range(queue) \ {t}
  BY <1>1, QueueFacts, QueueSteps DEF Queued
<1>4. Others(t) /\ \A u \in Tasks : u \in Range(queue') => pc'[u] # "new"
  BY <1>2, <1>3, QueueFacts DEF Others, Alone
<1>5. QueueInv'
  BY <1>1, <1>2, <1>3, <1>4, QueueMoves
<1>6. SleepInv'
  <2>1. /\ Distinct(timers) /\ timers \in Seq(Tasks) /\ IsInjective(timers)
        /\ Len(timers) \in Nat /\ t \notin Range(timers)
        /\ \A u \in Tasks : u \in Range(timers) <=> pc[u] = "sleep"
    BY <1>1 DEF SysInv, SleepInv, Distinct
  <2> DEFINE i == Cardinality({j \in 1 .. Len(timers) : Before(timers[j], t, nd)})
  <2>2. i \in 0 .. Len(timers)
    BY <2>1, PlaceType
  <2>3. timers' = InsertAt(timers, i + 1, t)
    BY <1>1 DEF InsertTimer
  <2> HIDE DEF i
  <2>4. i + 1 \in 1 .. Len(timers) + 1
    BY <2>1, <2>2
  <2>5. timers' \in Seq(Tasks)
    BY <2>1, <2>3, <2>4, InsertProps
  <2>6. Range(timers') = Range(timers) \cup {t}
    <3>1. Range(InsertAt(timers, i + 1, t)) = Range(timers) \cup {t}
      BY <2>1, <2>4, InsertRange
    <3> QED BY <2>3, <3>1, Zenon
  <2>7. IsInjective(timers')
    BY <2>1, <2>3, <2>4, InsertInjective
  <2>8. \A u \in Tasks : u \in Range(timers') <=> pc'[u] = "sleep"
    BY <1>2, <2>1, <2>6 DEF Alone
  <2> QED BY <2>5, <2>7, <2>8 DEF SleepInv, Distinct
<1>7. LockInv'
  BY <1>1, <1>2, <1>4, LockStays
<1>8. JoinInv'
  BY <1>1, <1>2, <1>4, JoinStays
<1> QED BY <1>5, <1>6, <1>7, <1>8 DEF SysInv

\* It returns from it, and may wake up the task of the next timer.
LEMMA SysSleepReturn ==
    ASSUME SysInv, NEW t \in Tasks, sleep_return(t) PROVE SysInv'
<1> DEFINE rest == Erase(timers, t)
<1>1. /\ cur = t /\ pc[t] = "sleep" /\ Go(t, "ready") /\ cur' = cur /\ timers' = rest
      /\ SetSched(Sched) \/ SetSched(TimerWake(Sched, rest))
      /\ UNCHANGED <<waiters, joiner, target, aborted>> /\ locker' = locker
  BY DEF sleep_return, On, mutex, joins
<1>2. /\ pc' \in [Tasks -> PCs] /\ pc'[t] = "ready" /\ Alone(t)
  <2>1. "ready" \in PCs
    BY DEF PCs
  <2> QED BY <1>1, <2>1, QueueFacts, Moves DEF Alone
<1>3. Distinct(rest) /\ Range(rest) = Range(timers) \ {t}
  <2>1. timers \in Seq(Tasks) /\ IsInjective(timers) /\ t \in Range(timers)
    BY <1>1 DEF SysInv, SleepInv, Distinct
  <2> QED BY <2>1, RemoveRange DEF Distinct
<1> HIDE DEF rest
<1>4. rest # <<>> => rest[1] \in Tasks /\ pc[rest[1]] = "sleep" /\ rest[1] # t
  <2>1. ASSUME rest # <<>> PROVE rest[1] \in Tasks /\ rest[1] \in Range(timers) \ {t}
    BY <1>3, <2>1, FirstOf
  <2> QED BY <2>1 DEF SysInv, SleepInv
<1>5. /\ Distinct(queue')
      /\ \/ Range(queue') = Range(queue)
         \/ rest # <<>> /\ Range(queue') = Range(queue) \cup {rest[1]}
  <2>1. CASE SetSched(Sched)
    BY <2>1, QueueFacts, QueueSteps DEF Queued
  <2>2. CASE SetSched(TimerWake(Sched, rest))
    <3>1. Distinct(Sched.q) /\ Sched.q = queue /\ rest \in Seq(Tasks)
      BY <1>3, SchedQueue, QueueFacts DEF Distinct
    <3>2. queue' = TimerWake(Sched, rest).q
      BY <2>2, SetSchedQueue
    <3> QED BY <3>1, <3>2, TimerWakeQueue
  <2> QED BY <1>1, <2>1, <2>2
<1>6. Others(t) /\ \A u \in Tasks : u \in Range(queue') => pc'[u] # "new"
  BY <1>2, <1>4, <1>5, QueueFacts DEF Others, Alone
<1>7. QueueInv'
  <2>1. cur' = t /\ t \in Range(queue')
    BY <1>1, <1>5, QueueFacts
  <2> QED BY <1>2, <1>5, <1>6, <2>1, QueueMoves
<1>8. SleepInv'
  <2>1. Distinct(timers')
    BY <1>1, <1>3
  <2>2. \A u \in Tasks : u \in Range(timers) <=> pc[u] = "sleep"
    BY DEF SysInv, SleepInv
  <2>3. \A u \in Tasks : u \in Range(timers') <=> pc'[u] = "sleep"
    BY <1>1, <1>2, <1>3, <2>2 DEF Alone
  <2> QED BY <2>1, <2>3 DEF SleepInv, Distinct
<1>9. LockInv'
  BY <1>1, <1>2, <1>6, LockStays
<1>10. JoinInv'
  BY <1>1, <1>2, <1>6, JoinStays
<1> QED BY <1>7, <1>8, <1>9, <1>10 DEF SysInv

\* The mutex.
LEMMA SysLock == ASSUME SysInv, NEW t \in Tasks, lock(t) PROVE SysInv'
<1>1. /\ cur = t /\ pc[t] = "ready"
      /\ UNCHANGED <<timers, joiner, target, aborted>>
  BY DEF lock, On, clock, joins
<1>2. CASE locker
  <2>1. /\ waiters' = <<t>> \o waiters /\ locker' = TRUE /\ Go(t, "lock")
        /\ SetSched(Removed(Sched)) /\ cur' = None
    BY <1>2 DEF lock, SysInv, LockInv
  <2>2. pc' \in [Tasks -> PCs] /\ pc'[t] = "lock" /\ Alone(t)
    <3>1. "lock" \in PCs
      BY DEF PCs
    <3> QED BY <2>1, <3>1, QueueFacts, Moves DEF Alone
  <2>3. Distinct(queue') /\ Range(queue') = Range(queue) \ {t}
    BY <1>1, <2>1, QueueFacts, QueueSteps DEF Queued
  <2>4. Others(t) /\ \A u \in Tasks : u \in Range(queue') => pc'[u] # "new"
    BY <2>2, <2>3, QueueFacts DEF Others, Alone
  <2>5. QueueInv'
    BY <2>1, <2>2, <2>3, <2>4, QueueMoves
  <2>6. LockInv'
    <3>1. /\ Distinct(waiters) /\ t \notin Range(waiters)
          /\ \A u \in Tasks : u \in Range(waiters) <=> pc[u] = "lock"
      BY <1>1 DEF SysInv, LockInv
    <3>2. Distinct(waiters') /\ Range(waiters') = Range(waiters) \cup {t}
      BY <2>1, <3>1, ConsDistinct
    <3>3. \A u \in Tasks : u \in Range(waiters') <=> pc'[u] = "lock"
      BY <2>2, <3>1, <3>2 DEF Alone
    <3>4. locker' \in BOOLEAN
      BY <2>1, Zenon
    <3> QED BY <2>1, <3>2, <3>3, <3>4 DEF LockInv, Distinct
  <2>7. SleepInv'
    BY <1>1, <2>2, SleepStays
  <2>8. JoinInv'
    BY <1>1, <2>2, <2>4, JoinStays
  <2> QED BY <2>5, <2>6, <2>7, <2>8 DEF SysInv
<1>3. CASE ~locker
  <2>1. /\ locker' = TRUE /\ Go(t, "crit") /\ UNCHANGED <<cur, queue, waiters>>
    BY <1>3 DEF lock
  <2>2. pc' \in [Tasks -> PCs] /\ pc'[t] = "crit" /\ Alone(t)
    <3>1. "crit" \in PCs
      BY DEF PCs
    <3> QED BY <2>1, <3>1, QueueFacts, Moves DEF Alone
  <2>3. Distinct(queue') /\ Range(queue') = Range(queue) /\ cur' = t
    BY <1>1, <2>1, QueueFacts
  <2>4. Others(t) /\ \A u \in Tasks : u \in Range(queue') => pc'[u] # "new"
    BY <2>2, <2>3, QueueFacts DEF Others, Alone
  <2>5. QueueInv'
    <3>1. t \in Range(queue')
      BY <1>1, <2>3, QueueFacts
    <3> QED BY <2>2, <2>3, <2>4, <3>1, QueueMoves
  <2>6. LockInv'
    <3>1. locker' \in BOOLEAN
      BY <2>1, Zenon
    <3>2. \A u \in Tasks : pc'[u] = "lock" <=> pc[u] = "lock"
      BY <1>1, <2>2 DEF Alone
    <3> QED BY <2>1, <3>1, <3>2, LockKept DEF SysInv
  <2>7. SleepInv'
    BY <1>1, <2>2, SleepStays
  <2>8. JoinInv'
    BY <1>1, <2>2, <2>4, JoinStays
  <2> QED BY <2>5, <2>6, <2>7, <2>8 DEF SysInv
<1> QED BY <1>2, <1>3

\* The loop of hev_task_mutex_lock.
LEMMA SysLockReturn == ASSUME SysInv, NEW t \in Tasks, lock_return(t) PROVE SysInv'
<1>1. /\ cur = t /\ pc[t] = "lock"
      /\ UNCHANGED <<timers, joiner, target, aborted>>
  BY DEF lock_return, On, clock, joins
<1>2. CASE locker \/ waiters[1] # t
  <2>1. SetSched(Removed(Sched)) /\ cur' = None /\ UNCHANGED <<pc, waiters, locker>>
    BY <1>2 DEF lock_return, mutex
  <2>2. Distinct(queue') /\ Range(queue') = Range(queue) \ {t}
    BY <1>1, <2>1, QueueFacts, QueueSteps DEF Queued
  <2>3. /\ Others(t) /\ Alone(t) /\ pc' \in [Tasks -> PCs] /\ pc'[t] = "lock"
        /\ \A u \in Tasks : u \in Range(queue') => pc'[u] # "new"
    BY <1>1, <2>1, <2>2, QueueFacts DEF Others, Alone
  <2>4. QueueInv'
    BY <2>1, <2>2, <2>3, QueueMoves
  <2>5. LockInv'
    <3>1. ASSUME ~locker', waiters # <<>> PROVE waiters[1] \in Range(queue')
      <4>1. ~locker /\ waiters[1] # t
        BY <1>2, <2>1, <3>1
      <4>2. waiters[1] \in Range(queue)
        BY <3>1, <4>1 DEF SysInv, LockInv
      <4> QED BY <2>2, <4>1, <4>2
    <3>2. LockInv /\ locker' \in BOOLEAN
      BY <2>1 DEF SysInv, LockInv
    <3> QED BY <2>1, <3>1, <3>2, LockKept
  <2>6. SleepInv'
    BY <1>1, <2>3, SleepStays
  <2>7. JoinInv'
    BY <1>1, <2>3, JoinStays
  <2> QED BY <2>4, <2>5, <2>6, <2>7 DEF SysInv
<1>3. CASE ~(locker \/ waiters[1] # t)
  <2>1. /\ locker' = TRUE /\ waiters' = Tail(waiters) /\ Go(t, "crit")
        /\ UNCHANGED <<cur, queue>> /\ waiters[1] = t
    BY <1>3 DEF lock_return
  <2>2. pc' \in [Tasks -> PCs] /\ pc'[t] = "crit" /\ Alone(t)
    <3>1. "crit" \in PCs
      BY DEF PCs
    <3> QED BY <2>1, <3>1, QueueFacts, Moves DEF Alone
  <2>3. Distinct(queue') /\ Range(queue') = Range(queue) /\ cur' = t
    BY <1>1, <2>1, QueueFacts
  <2>4. Others(t) /\ \A u \in Tasks : u \in Range(queue') => pc'[u] # "new"
    BY <2>2, <2>3, QueueFacts DEF Others, Alone
  <2>5. QueueInv'
    <3>1. t \in Range(queue')
      BY <1>1, <2>3, QueueFacts
    <3> QED BY <2>2, <2>3, <2>4, <3>1, QueueMoves
  <2>6. LockInv'
    <3>1. /\ Distinct(waiters) /\ t \in Range(waiters)
          /\ \A u \in Tasks : u \in Range(waiters) <=> pc[u] = "lock"
      BY <1>1 DEF SysInv, LockInv
    <3>2. waiters # <<>>
      <4>1. Range(<<>>) = {}
        BY DEF Range
      <4> QED BY <3>1, <4>1
    <3>3. Distinct(waiters') /\ Range(waiters') = Range(waiters) \ {t}
      BY <2>1, <3>1, <3>2, TailDistinct
    <3>4. \A u \in Tasks : u \in Range(waiters') <=> pc'[u] = "lock"
      BY <2>2, <3>1, <3>3 DEF Alone
    <3>5. locker' \in BOOLEAN
      BY <2>1, Zenon
    <3> QED BY <2>1, <3>3, <3>4, <3>5 DEF LockInv, Distinct
  <2>7. SleepInv'
    BY <1>1, <2>2, SleepStays
  <2>8. JoinInv'
    BY <1>1, <2>2, <2>4, JoinStays
  <2> QED BY <2>5, <2>6, <2>7, <2>8 DEF SysInv
<1> QED BY <1>2, <1>3

\* hev_task_mutex_unlock wakes the first waiter.
LEMMA SysUnlock == ASSUME SysInv, NEW t \in Tasks, unlock(t) PROVE SysInv'
<1>1. /\ cur = t /\ pc[t] = "crit" /\ Go(t, "ready") /\ locker' = FALSE
      /\ waiters' = waiters /\ UNCHANGED <<cur, timers, joiner, target, aborted>>
      /\ waiters = <<>> => SetSched(Sched)
      /\ waiters # <<>> => SetSched(Wake(Sched, waiters[1]))
  BY DEF unlock, On, clock, joins
<1>2. pc' \in [Tasks -> PCs] /\ pc'[t] = "ready" /\ Alone(t)
  <2>1. "ready" \in PCs
    BY DEF PCs
  <2> QED BY <1>1, <2>1, QueueFacts, Moves DEF Alone
<1>3. waiters # <<>> => waiters[1] \in Tasks /\ pc[waiters[1]] = "lock"
  BY FirstWaiter DEF SysInv
<1>4. /\ Distinct(queue')
      /\ waiters = <<>> => Range(queue') = Range(queue)
      /\ waiters # <<>> => Range(queue') = Range(queue) \cup {waiters[1]}
  <2>1. CASE waiters = <<>>
    BY <1>1, <2>1, QueueFacts, QueueSteps DEF Queued
  <2>2. CASE waiters # <<>>
    BY <1>1, <1>3, <2>2, QueueFacts, QueueSteps DEF Queued
  <2> QED BY <2>1, <2>2
<1>5. Others(t) /\ \A u \in Tasks : u \in Range(queue') => pc'[u] # "new"
  <2>1. \A u \in Tasks : u \in Range(queue) => u \in Range(queue')
    BY <1>4
  <2>2. \A u \in Tasks : u \in Range(queue') => pc[u] # "new"
    BY <1>3, <1>4, QueueFacts
  <2> QED BY <1>2, <2>1, <2>2 DEF Others, Alone
<1>6. QueueInv'
  <2>1. cur' = t /\ t \in Range(queue')
    BY <1>1, <1>4, QueueFacts
  <2> QED BY <1>2, <1>4, <1>5, <2>1, QueueMoves
<1>7. LockInv'
  <2>1. locker' \in BOOLEAN
    BY <1>1, Zenon
  <2>2. \A u \in Tasks : pc'[u] = "lock" <=> pc[u] = "lock"
    BY <1>1, <1>2 DEF Alone
  <2>3. waiters # <<>> => waiters[1] \in Range(queue')
    BY <1>4
  <2> QED BY <1>1, <2>1, <2>2, <2>3, LockKept DEF SysInv
<1>8. SleepInv'
  BY <1>1, <1>2, SleepStays
<1>9. JoinInv'
  BY <1>1, <1>2, <1>5, JoinStays
<1> QED BY <1>6, <1>7, <1>8, <1>9 DEF SysInv

\* What JoinInv says of one task, in the words of the steps below.
Told(t) ==
    /\ target[t] \in Tasks /\ pc[target[t]] # "new" /\ joiner[target[t]] = t
    /\ pc[target[t]] = "stopped" => t \in Range(queue)
Known(u) == pc[joiner[u]] = "join" /\ target[joiner[u]] = u

\* What the invariant says of the joins.
LEMMA JoinFacts ==
    ASSUME SysInv
    PROVE  /\ joiner \in [Tasks -> Tasks \cup {None}]
           /\ target \in [Tasks -> Tasks \cup {None}]
           /\ \A t \in Tasks : pc[t] = "join" => Told(t)
           /\ \A u \in Tasks : joiner[u] # None /\ pc[u] # "stopped" => Known(u)
           /\ \A u \in Tasks : joiner[u] # None => joiner[u] \in Tasks
           /\ aborted = FALSE
<1>1. JoinInv
  BY DEF SysInv
<1>2. /\ joiner \in [Tasks -> Tasks \cup {None}] /\ target \in [Tasks -> Tasks \cup {None}]
      /\ aborted = FALSE
  BY <1>1 DEF JoinInv
<1>3. /\ \A t \in Tasks : pc[t] = "join" => Told(t)
      /\ \A u \in Tasks : joiner[u] # None /\ pc[u] # "stopped" => Known(u)
  BY <1>1, Zenon DEF JoinInv, Told, Known
<1>4. \A u \in Tasks : joiner[u] # None => joiner[u] \in Tasks
  BY <1>2
<1> QED BY <1>2, <1>3, <1>4

\* The joins, from what they say of each task.
LEMMA JoinHolds ==
    ASSUME joiner' \in [Tasks -> Tasks \cup {None}],
           target' \in [Tasks -> Tasks \cup {None}], aborted' = FALSE,
           \A t \in Tasks : pc'[t] = "join" => Told(t)',
           \A u \in Tasks : joiner'[u] # None /\ pc'[u] # "stopped" => Known(u)'
    PROVE  JoinInv'
  BY Zenon DEF JoinInv, Told, Known

\* The call of hev_task_join.
LEMMA SysJoin == ASSUME SysInv, NEW t \in Tasks, join(t) PROVE SysInv'
<1>1. PICK u \in Tasks \ {t} :
      /\ cur = t /\ pc[t] = "ready" /\ pc[u] # "new" /\ joiner[u] = None
      /\ joiner' = [joiner EXCEPT ![u] = t] /\ target' = [target EXCEPT ![t] = u]
      /\ Go(t, "join") /\ UNCHANGED <<cur, queue, timers, locker, waiters, aborted>>
  BY DEF join, On, clock, mutex
<1>2. pc' \in [Tasks -> PCs] /\ pc'[t] = "join" /\ Alone(t)
  <2>1. "join" \in PCs
    BY DEF PCs
  <2> QED BY <1>1, <2>1, QueueFacts, Moves DEF Alone
<1>3. Distinct(queue') /\ Range(queue') = Range(queue) /\ cur' = t /\ t \in Range(queue)
  BY <1>1, QueueFacts
<1>4. Others(t) /\ \A v \in Tasks : v \in Range(queue') => pc'[v] # "new"
  BY <1>2, <1>3, QueueFacts DEF Others, Alone
<1>5. QueueInv'
  BY <1>2, <1>3, <1>4, QueueMoves
<1>6. LockInv' /\ SleepInv'
  BY <1>1, <1>2, <1>4, LockStays, SleepStays
<1>7. /\ joiner' \in [Tasks -> Tasks \cup {None}] /\ joiner'[u] = t
      /\ \A v \in Tasks : v # u => joiner'[v] = joiner[v]
      /\ target' \in [Tasks -> Tasks \cup {None}] /\ target'[t] = u
      /\ \A v \in Tasks : v # t => target'[v] = target[v]
  BY <1>1, JoinFacts
<1>8. t # None /\ \A v \in Tasks : v # None
  BY QueueFacts
<1>9. ASSUME NEW v \in Tasks, pc'[v] = "join" PROVE Told(v)'
  <2>1. CASE v = t
    <3>1. pc'[u] = pc[u] /\ target'[v] = u
      BY <1>1, <1>2, <1>7, <2>1 DEF Alone
    <3>2. joiner'[u] = v /\ v \in Range(queue')
      BY <1>3, <1>7, <2>1
    <3> QED BY <1>1, <3>1, <3>2 DEF Told
  <2>2. CASE v # t
    <3>1. pc[v] = "join" /\ target'[v] = target[v]
      BY <1>2, <1>7, <1>9, <2>2 DEF Alone
    <3>2. Told(v)
      BY <3>1, JoinFacts
    <3>3. target[v] \in Tasks /\ pc[target[v]] # "new" /\ joiner[target[v]] = v
      BY <3>2 DEF Told
    <3>4. target[v] # u /\ joiner'[target[v]] = v
      BY <1>1, <1>7, <1>8, <3>3
    <3>5. pc'[target[v]] # "new"
      BY <1>2, <3>3 DEF Alone
    <3>6. pc'[target[v]] = "stopped" => v \in Range(queue')
      BY <1>2, <1>3, <3>2, <3>3 DEF Alone, Told
    <3> QED BY <3>1, <3>3, <3>4, <3>5, <3>6 DEF Told
  <2> QED BY <2>1, <2>2
<1>10. ASSUME NEW w \in Tasks, joiner'[w] # None, pc'[w] # "stopped" PROVE Known(w)'
  <2>1. CASE w = u
    BY <1>2, <1>7, <2>1 DEF Known
  <2>2. CASE w # u
    <3>1. joiner'[w] = joiner[w] /\ joiner[w] \in Tasks /\ joiner[w] # None
      BY <1>7, <1>10, <2>2, JoinFacts
    <3>2. pc[w] # "stopped"
      BY <1>1, <1>2, <1>10 DEF Alone
    <3>3. Known(w)
      BY <3>1, <3>2, JoinFacts
    <3>4. joiner[w] # t
      BY <1>1, <3>3 DEF Known
    <3>5. /\ pc'[joiner[w]] = pc[joiner[w]]
          /\ target'[joiner[w]] = target[joiner[w]]
      BY <1>2, <1>7, <3>1, <3>4 DEF Alone
    <3> QED BY <3>1, <3>3, <3>5, Zenon DEF Known
  <2> QED BY <2>1, <2>2
<1>11. JoinInv'
  <2>1. aborted' = FALSE
    BY <1>1, JoinFacts
  <2> QED BY <1>7, <1>9, <1>10, <2>1, JoinHolds
<1> QED BY <1>5, <1>6, <1>11 DEF SysInv

\* One turn of its loop.
LEMMA SysJoinLoop == ASSUME SysInv, NEW t \in Tasks, join_loop(t) PROVE SysInv'
<1>1. /\ cur = t /\ pc[t] = "join"
      /\ UNCHANGED <<timers, locker, waiters, joiner, aborted>>
  BY DEF join_loop, On, clock, mutex
<1>2. Told(t) /\ aborted' = FALSE
  BY <1>1, JoinFacts
<1>3. target[t] \in Tasks /\ pc[target[t]] # "new"
  BY <1>2 DEF Told
<1>4. CASE pc[target[t]] = "stopped"
  <2>1. /\ Go(t, "ready") /\ target' = [target EXCEPT ![t] = None]
        /\ UNCHANGED <<cur, queue>>
    BY <1>4 DEF join_loop
  <2>2. pc' \in [Tasks -> PCs] /\ pc'[t] = "ready" /\ Alone(t)
    <3>1. "ready" \in PCs
      BY DEF PCs
    <3> QED BY <2>1, <3>1, QueueFacts, Moves DEF Alone
  <2>3. Distinct(queue') /\ Range(queue') = Range(queue) /\ cur' = t /\ t \in Range(queue)
    BY <1>1, <2>1, QueueFacts
  <2>4. Others(t) /\ \A v \in Tasks : v \in Range(queue') => pc'[v] # "new"
    BY <2>2, <2>3, QueueFacts DEF Others, Alone
  <2>5. QueueInv'
    BY <2>2, <2>3, <2>4, QueueMoves
  <2>6. LockInv' /\ SleepInv'
    BY <1>1, <2>2, <2>4, LockStays, SleepStays
  <2>7. /\ target' \in [Tasks -> Tasks \cup {None}]
        /\ \A v \in Tasks : v # t => target'[v] = target[v]
    BY <2>1, JoinFacts
  <2>8. ASSUME NEW v \in Tasks, pc'[v] = "join" PROVE Told(v)'
    <3>1. v # t /\ pc[v] = "join" /\ target'[v] = target[v]
      BY <2>2, <2>7, <2>8 DEF Alone
    <3>2. Told(v)
      BY <3>1, JoinFacts
    <3>3. target[v] \in Tasks /\ pc[target[v]] # "new" /\ joiner'[target[v]] = v
      BY <1>1, <3>2 DEF Told
    <3>4. pc'[target[v]] # "new"
      BY <2>2, <3>3 DEF Alone
    <3>5. pc'[target[v]] = "stopped" => v \in Range(queue')
      BY <2>2, <2>3, <3>2, <3>3 DEF Alone, Told
    <3> QED BY <3>1, <3>3, <3>4, <3>5 DEF Told
  <2>9. ASSUME NEW w \in Tasks, joiner'[w] # None, pc'[w] # "stopped" PROVE Known(w)'
    <3>1. joiner'[w] = joiner[w] /\ joiner[w] \in Tasks /\ joiner[w] # None
      BY <1>1, <2>9, JoinFacts
    <3>2. pc[w] # "stopped"
      BY <1>1, <2>2, <2>9 DEF Alone
    <3>3. Known(w)
      BY <3>1, <3>2, JoinFacts
    <3>4. joiner[w] # t
      BY <1>4, <3>2, <3>3 DEF Known
    <3> QED BY <2>2, <2>7, <3>1, <3>3, <3>4 DEF Known, Alone
  <2>10. JoinInv'
    <3>1. joiner' \in [Tasks -> Tasks \cup {None}]
      BY <1>1, JoinFacts
    <3> QED BY <1>2, <2>7, <2>8, <2>9, <3>1, JoinHolds
  <2> QED BY <2>5, <2>6, <2>10 DEF SysInv
<1>5. CASE pc[target[t]] # "stopped"
  <2>1. /\ SetSched(Removed(Wake(Sched, target[t]))) /\ cur' = None
        /\ UNCHANGED <<pc, target>>
    BY <1>5 DEF join_loop
  <2>2. Distinct(queue') /\ Range(queue') = (Range(queue) \cup {target[t]}) \ {t}
    BY <1>1, <1>3, <2>1, QueueFacts, QueueSteps DEF Queued
  <2>3. /\ Others(t) /\ Alone(t) /\ pc' \in [Tasks -> PCs] /\ pc'[t] = "join"
        /\ \A u \in Tasks : u \in Range(queue') => pc'[u] # "new"
    BY <1>1, <1>3, <2>1, <2>2, QueueFacts DEF Others, Alone
  <2>4. QueueInv'
    BY <2>1, <2>2, <2>3, QueueMoves
  <2>5. LockInv' /\ SleepInv'
    BY <1>1, <2>3, LockStays, SleepStays
  <2>6. ASSUME NEW v \in Tasks, pc'[v] = "join" PROVE Told(v)'
    <3>1. Told(v)
      BY <2>1, <2>6, JoinFacts
    <3>2. pc[target[v]] = "stopped" => v \in Range(queue')
      BY <1>5, <2>3, <3>1 DEF Told, Others
    <3> QED BY <1>1, <2>1, <3>1, <3>2 DEF Told
  <2>7. ASSUME NEW w \in Tasks, joiner'[w] # None, pc'[w] # "stopped" PROVE Known(w)'
    BY <1>1, <2>1, <2>7, JoinFacts DEF Known
  <2>8. JoinInv'
    <3>1. joiner' \in [Tasks -> Tasks \cup {None}] /\ target' \in [Tasks -> Tasks \cup {None}]
      BY <1>1, <2>1, JoinFacts
    <3> QED BY <1>2, <2>6, <2>7, <3>1, JoinHolds
  <2> QED BY <2>4, <2>5, <2>8 DEF SysInv
<1> QED BY <1>4, <1>5

\* A task ends and tells its joiner.
LEMMA SysExit == ASSUME SysInv, NEW t \in Tasks, exit(t) PROVE SysInv'
<1> DEFINE j == joiner[t]
<1>1. /\ cur = t /\ pc[t] = "ready" /\ Go(t, "stopped") /\ cur' = None
      /\ aborted' = (aborted \/ (j # None /\ pc[j] = "stopped"))
      /\ SetSched(Removed(IF j = None \/ pc[j] = "stopped" THEN Sched ELSE Wake(Sched, j)))
      /\ UNCHANGED <<timers, locker, waiters, joiner, target>>
  BY DEF exit, On, clock, mutex, joins
<1>2. j # None => j \in Tasks /\ pc[j] = "join" /\ j # t
  <2>1. j # None => Known(t) /\ j \in Tasks
    BY <1>1, JoinFacts
  <2> QED BY <1>1, <2>1 DEF Known
<1>3. aborted' = FALSE
  BY <1>1, <1>2, JoinFacts, Zenon
<1>4. pc' \in [Tasks -> PCs] /\ pc'[t] = "stopped" /\ Alone(t)
  <2>1. "stopped" \in PCs
    BY DEF PCs
  <2> QED BY <1>1, <2>1, QueueFacts, Moves DEF Alone
<1>5. /\ Distinct(queue')
      /\ j = None => Range(queue') = Range(queue) \ {t}
      /\ j # None => Range(queue') = (Range(queue) \cup {j}) \ {t}
  <2>1. CASE j = None
    <3>1. SetSched(Removed(Sched))
      BY <1>1, <2>1, Zenon
    <3> QED BY <1>1, <2>1, <3>1, QueueFacts, QueueSteps DEF Queued
  <2>2. CASE j # None
    <3>1. SetSched(Removed(Wake(Sched, j)))
      BY <1>1, <1>2, <2>2
    <3> QED BY <1>1, <1>2, <2>2, <3>1, QueueFacts, QueueSteps DEF Queued
  <2> QED BY <2>1, <2>2
<1> HIDE DEF j
<1>6. Others(t) /\ \A u \in Tasks : u \in Range(queue') => pc'[u] # "new"
  <2>1. \A u \in Tasks : u # t /\ u \in Range(queue) => u \in Range(queue')
    BY <1>5
  <2>2. \A u \in Tasks : u \in Range(queue') => u # t /\ pc[u] # "new"
    BY <1>2, <1>5, QueueFacts
  <2> QED BY <1>4, <2>1, <2>2 DEF Others, Alone
<1>7. QueueInv'
  BY <1>1, <1>4, <1>5, <1>6, QueueMoves
<1>8. LockInv' /\ SleepInv'
  BY <1>1, <1>4, <1>6, LockStays, SleepStays
<1>9. ASSUME NEW v \in Tasks, pc'[v] = "join" PROVE Told(v)'
  <2>1. v # t /\ pc[v] = "join"
    BY <1>4, <1>9 DEF Alone
  <2>2. Told(v)
    BY <2>1, JoinFacts
  <2>3. target'[v] = target[v] /\ joiner' = joiner
    BY <1>1
  <2>4. target[v] \in Tasks /\ pc[target[v]] # "new" /\ joiner[target[v]] = v
    BY <2>2 DEF Told
  <2>5. pc'[target[v]] # "new"
    BY <1>4, <2>4 DEF Alone
  <2>6. pc'[target[v]] = "stopped" => v \in Range(queue')
    <3>1. CASE target[v] = t
      <4>1. j = v /\ v # None
        BY <2>4, <3>1, QueueFacts DEF j
      <4> QED BY <1>5, <2>1, <4>1
    <3>2. CASE target[v] # t
      <4>1. pc'[target[v]] = "stopped" => v \in Range(queue)
        BY <1>4, <2>2, <2>4, <3>2 DEF Alone, Told
      <4> QED BY <1>6, <2>1, <4>1 DEF Others
    <3> QED BY <3>1, <3>2
  <2> QED BY <2>3, <2>4, <2>5, <2>6 DEF Told
<1>10. ASSUME NEW w \in Tasks, joiner'[w] # None, pc'[w] # "stopped" PROVE Known(w)'
  <2>1. w # t /\ pc[w] # "stopped" /\ joiner[w] # None /\ joiner[w] \in Tasks
    BY <1>1, <1>4, <1>10, JoinFacts DEF Alone
  <2>2. Known(w)
    BY <2>1, JoinFacts
  <2>3. joiner[w] # t
    BY <1>1, <2>2 DEF Known
  <2> QED BY <1>1, <1>4, <2>1, <2>2, <2>3 DEF Known, Alone
<1>11. JoinInv'
  <2>1. joiner' \in [Tasks -> Tasks \cup {None}] /\ target' \in [Tasks -> Tasks \cup {None}]
    BY <1>1, JoinFacts
  <2> QED BY <1>3, <1>9, <1>10, <2>1, JoinHolds
<1> QED BY <1>7, <1>8, <1>11 DEF SysInv

\* The scheduler as hev_task_system_run starts it.
LEMMA SysInit == Init => SysInv
<1> SUFFICES ASSUME Init PROVE SysInv
  OBVIOUS
<1> DEFINE n == Cardinality(First)
<1>1. n \in Nat
  <2>1. IsFiniteSet(First)
    BY TasksAreNumbers, FirstAreTasks, FS_Subset
  <2> QED BY <2>1, FS_CardinalityType
<1>2. queue \in [1 .. n -> First] /\ IsInjective(queue)
  BY DEF Init, Bijection, Injection
<1> HIDE DEF n
<1>3. queue \in Seq(Tasks) /\ Range(queue) \subseteq First
  BY <1>1, <1>2, FirstAreTasks DEF Range
<1>4. IsInjective(queue)
  BY <1>2
<1>5. pc = [t \in Tasks |-> IF t \in First THEN "ready" ELSE "new"] /\ cur = None
  BY DEF Init
<1>6. QueueInv
  <2>1. pc \in [Tasks -> PCs]
    BY <1>5 DEF PCs
  <2>2. \A t \in Tasks : t \in Range(queue) => pc[t] # "new"
    BY <1>3, <1>5
  <2> QED BY <1>3, <1>4, <1>5, <2>1, <2>2 DEF QueueInv, Distinct
<1>7. <<>> \in Seq(Tasks) /\ IsInjective(<<>>) /\ Range(<<>>) = {}
  BY DEF IsInjective, Range
<1>8. SleepInv
  BY <1>5, <1>7 DEF Init, SleepInv, Distinct
<1>9. LockInv
  <2>1. locker = FALSE /\ waiters = <<>>
    BY DEF Init
  <2>2. locker \in BOOLEAN
    BY <2>1, Zenon
  <2> QED BY <1>5, <1>7, <2>1, <2>2 DEF LockInv, Distinct
<1>10. JoinInv
  BY <1>5 DEF Init, JoinInv
<1> QED BY <1>6, <1>8, <1>9, <1>10 DEF SysInv

\* One step per action.
LEMMA SysStep == ASSUME SysInv, [Next]_vars PROVE SysInv'
<1>1. CASE tick \/ done \/ UNCHANGED vars
  <2>1. UNCHANGED <<cur, queue, pc, timers, waiters, locker, joiner, target, aborted>>
    BY <1>1 DEF tick, done, vars, mutex, joins
  <2> QED BY <2>1, SysIdle
<1>2. CASE \E t \in Tasks :
           \/ io_poll(t) \/ yield(t) \/ waitio(t) \/ wakeup(t) \/ run(t) \/ sleep(t)
           \/ lock(t) \/ unlock(t) \/ join(t) \/ exit(t) \/ returns(t)
  BY <1>2, SysPoll, SysYield, SysWaitio, SysWakeup, SysRun, SysSleep, SysLock,
     SysUnlock, SysJoin, SysExit, SysWaitioReturn, SysSleepReturn, SysLockReturn,
     SysJoinLoop, Zenon DEF returns
<1> QED BY <1>1, <1>2, SysPick, Zenon DEF Next

\* The inductive invariant of the scheduler.
LEMMA SysHolds == Spec => []SysInv
  BY SysInit, SysStep, PTL DEF Spec

\* A free mutex is never forgotten: hev_task_mutex_unlock has put the waiter
\* that may take it into the run queue, and whatever wakes the others up, or
\* makes it sleep again in its loop, leaves it there or leaves the lock taken.
THEOREM MutexHandedOver == Spec => []HandedOver
<1>1. SysInv => HandedOver
  <2> SUFFICES ASSUME SysInv PROVE HandedOver
    OBVIOUS
  <2>1. ~locker /\ waiters # <<>> => waiters[1] \in Range(queue)
    BY DEF SysInv, LockInv
  <2>2. /\ waiters \in Seq(Tasks)
        /\ \A t \in Tasks : t \in Range(waiters) <=> pc[t] = "lock"
    BY DEF SysInv, LockInv, Distinct
  <2>3. Range(waiters) \subseteq Tasks
    BY <2>2 DEF Range
  <2>4. Range(waiters) = {t \in Tasks : pc[t] = "lock"}
    BY <2>2, <2>3
  <2> QED BY <2>1, <2>4 DEF HandedOver
<1> QED BY <1>1, SysHolds, PTL

\* Whoever is in hev_task_join is known to the task it waits for, can run when
\* that one has exited, and is still there when it does: the exit never wakes
\* up a stopped task, which would abort.
THEOREM JoinIsTold == Spec => []JoinTold
<1>1. SysInv => JoinTold
  BY JoinFacts, Zenon DEF JoinTold, Told
<1> QED BY <1>1, SysHolds, PTL

----------------------------------------------------------------------------
(* The order of the timers.                                                *)

\* hev_task_timer_cmp on timespecs whose nanoseconds may be a full second.
LEMMA CmpLoose ==
    ASSUME NEW a \in Loose, NEW b \in Loose
    PROVE  /\ Cmp(a, b) < 0 <=> a.sec < b.sec \/ (a.sec = b.sec /\ a.nsec < b.nsec)
           /\ Cmp(a, b) = 0 <=> a.sec = b.sec /\ a.nsec = b.nsec
           /\ Cmp(a, b) <= 0 => Instant(a) <= Instant(b)
           /\ Cmp(a, b) \in Int
<1>1. /\ a.sec \in Nat /\ a.nsec \in Nat /\ a.nsec <= NsSec
      /\ b.sec \in Nat /\ b.nsec \in Nat /\ b.nsec <= NsSec /\ NsSec \in Nat
  BY SecondType DEF Loose
<1>2. /\ Cmp(a, b) < 0 <=> a.sec < b.sec \/ (a.sec = b.sec /\ a.nsec < b.nsec)
      /\ Cmp(a, b) = 0 <=> a.sec = b.sec /\ a.nsec = b.nsec
      /\ Cmp(a, b) \in Int
  BY <1>1 DEF Cmp
<1>3. ASSUME Cmp(a, b) <= 0 PROVE Instant(a) <= Instant(b)
  <2>1. a.sec < b.sec \/ (a.sec = b.sec /\ a.nsec <= b.nsec)
    BY <1>1, <1>3 DEF Cmp
  <2>2. CASE a.sec < b.sec
    <3>1. a.sec * NsSec + NsSec <= b.sec * NsSec
      BY <1>1, <2>2, Multiples
    <3>2. a.sec * NsSec \in Int /\ b.sec * NsSec \in Int
      BY <1>1
    <3>3. a.sec * NsSec + a.nsec <= b.sec * NsSec + b.nsec
      BY <1>1, <3>1, <3>2
    <3> QED BY <3>3 DEF Instant
  <2>3. CASE a.sec = b.sec /\ a.nsec <= b.nsec
    <3>1. a.sec * NsSec \in Int /\ a.sec * NsSec = b.sec * NsSec
      BY <1>1, <2>3
    <3>2. a.sec * NsSec + a.nsec <= b.sec * NsSec + b.nsec
      BY <1>1, <2>3, <3>1
    <3> QED BY <3>2 DEF Instant
  <2> QED BY <2>1, <2>2, <2>3
<1> QED BY <1>2, <1>3

\* The parts of a timespec are numbers.
LEMMA LooseParts ==
    ASSUME NEW a \in Loose PROVE a.sec \in Nat /\ a.nsec \in Nat
  BY DEF Loose

\* The lexicographic order of three numbers.
Less(a, b, c, x, y, z) == a < x \/ (a = x /\ b < y) \/ (a = x /\ b = y /\ c < z)

\* It is total where the last numbers differ.
LEMMA LessTotal ==
    ASSUME NEW a \in Nat, NEW b \in Nat, NEW c \in Nat,
           NEW x \in Nat, NEW y \in Nat, NEW z \in Nat, c # z,
           ~Less(a, b, c, x, y, z)
    PROVE  Less(x, y, z, a, b, c)
  BY DEF Less

\* It is transitive.
LEMMA LessTransitive ==
    ASSUME NEW a \in Nat, NEW b \in Nat, NEW c \in Nat,
           NEW x \in Nat, NEW y \in Nat, NEW z \in Nat,
           NEW u \in Nat, NEW v \in Nat, NEW w \in Nat,
           Less(a, b, c, x, y, z), Less(x, y, z, u, v, w)
    PROVE  Less(a, b, c, u, v, w)
  BY DEF Less

\* hev_task_timer_node_cmp compares seconds, nanoseconds and addresses.
LEMMA BeforeLess ==
    ASSUME NEW nd, NEW t \in Tasks, NEW u \in Tasks,
           nd[t].expire \in Loose, nd[u].expire \in Loose
    PROVE  Before(t, u, nd) <=> Less(nd[t].expire.sec, nd[t].expire.nsec, t,
                                     nd[u].expire.sec, nd[u].expire.nsec, u)
<1> DEFINE a == nd[t].expire
           b == nd[u].expire
<1>1. Before(t, u, nd) <=> Cmp(a, b) < 0 \/ (Cmp(a, b) = 0 /\ t < u)
  BY Zenon DEF Before
<1>2. /\ Cmp(a, b) < 0 <=> a.sec < b.sec \/ (a.sec = b.sec /\ a.nsec < b.nsec)
      /\ Cmp(a, b) = 0 <=> a.sec = b.sec /\ a.nsec = b.nsec
  BY CmpLoose
<1> QED BY <1>1, <1>2, Zenon DEF Less

\* hev_task_timer_node_cmp is a strict total order.
LEMMA BeforeTotal ==
    ASSUME NEW nd, NEW t \in Tasks, NEW u \in Tasks, t # u,
           nd[t].expire \in Loose, nd[u].expire \in Loose, ~Before(t, u, nd)
    PROVE  Before(u, t, nd)
<1>1. t \in Nat /\ u \in Nat
  BY TasksAreNumbers
<1> DEFINE a == nd[t].expire.sec
           b == nd[t].expire.nsec
           x == nd[u].expire.sec
           y == nd[u].expire.nsec
<1>2. a \in Nat /\ b \in Nat /\ x \in Nat /\ y \in Nat
  BY LooseParts
<1>3. /\ Before(t, u, nd) <=> Less(a, b, t, x, y, u)
      /\ Before(u, t, nd) <=> Less(x, y, u, a, b, t)
  BY BeforeLess
<1> HIDE DEF a, b, x, y
<1>4. Less(x, y, u, a, b, t)
  BY <1>1, <1>2, <1>3, LessTotal
<1> QED BY <1>3, <1>4

\* The order of hev_task_timer_node_cmp is transitive.
LEMMA BeforeTransitive ==
    ASSUME NEW nd, NEW t \in Tasks, NEW u \in Tasks, NEW v \in Tasks,
           nd[t].expire \in Loose, nd[u].expire \in Loose, nd[v].expire \in Loose,
           Before(t, u, nd), Before(u, v, nd)
    PROVE  Before(t, v, nd)
<1>1. t \in Nat /\ u \in Nat /\ v \in Nat
  BY TasksAreNumbers
<1> DEFINE s(i) == nd[i].expire.sec
           n(i) == nd[i].expire.nsec
<1>2. /\ s(t) \in Nat /\ n(t) \in Nat
      /\ s(u) \in Nat /\ n(u) \in Nat
      /\ s(v) \in Nat /\ n(v) \in Nat
  BY LooseParts
<1>3. Less(s(t), n(t), t, s(u), n(u), u)
  BY BeforeLess
<1>4. Less(s(u), n(u), u, s(v), n(v), v)
  BY BeforeLess
<1>5. Before(t, v, nd) <=> Less(s(t), n(t), t, s(v), n(v), v)
  BY BeforeLess
<1> HIDE DEF s, n
<1>6. Less(s(t), n(t), t, s(v), n(v), v)
  BY <1>1, <1>2, <1>3, <1>4, LessTransitive
<1> QED BY <1>5, <1>6

\* A list in that order, and one more timer put into its place.
Ordered(s, nd) == \A i, j \in 1 .. Len(s) : i < j => Before(s[i], s[j], nd)

\* The insertion of a timer keeps the tree sorted.
LEMMA InsertOrdered ==
    ASSUME Distinct(timers), NEW t \in Tasks, t \notin Range(timers), NEW nd,
           \A u \in Tasks : u = t \/ u \in Range(timers) => nd[u].expire \in Loose,
           Ordered(timers, nd)
    PROVE  Ordered(InsertTimer(nd, t), nd)
<1> DEFINE L == Len(timers)
           D == {j \in 1 .. L : Before(timers[j], t, nd)}
           c == Cardinality(D)
           r == InsertAt(timers, c + 1, t)
<1>1. timers \in Seq(Tasks) /\ L \in Nat
  BY DEF Distinct
<1>2. \A j \in 1 .. L : timers[j] \in Tasks /\ timers[j] # t /\ nd[timers[j]].expire \in Loose
  BY <1>1 DEF Range
<1>3. nd[t].expire \in Loose
  OBVIOUS
<1>4. ASSUME NEW j \in D, NEW k \in 1 .. j PROVE k \in D
  <2>1. j \in 1 .. L /\ k \in 1 .. L /\ Before(timers[j], t, nd)
    BY <1>1
  <2>2. CASE k = j
    BY <2>2
  <2>3. CASE k # j
    <3>1. k < j
      BY <2>1, <2>3
    <3>2. Before(timers[k], timers[j], nd)
      BY <2>1, <3>1 DEF Ordered
    <3>3. Before(timers[k], t, nd)
      BY <1>2, <1>3, <2>1, <3>2, BeforeTransitive
    <3> QED BY <2>1, <3>3
  <2> QED BY <2>2, <2>3
<1>5. D = 1 .. c /\ c \in 0 .. L
  <2>1. D \in SUBSET (1 .. L)
    OBVIOUS
  <2> HIDE DEF D
  <2> QED BY <1>1, <1>4, <2>1, PlaceDown, PlaceType
<1>6. InsertTimer(nd, t) = r
  BY DEF InsertTimer
<1>7. /\ \A j \in 1 .. c : Before(timers[j], t, nd)
      /\ \A j \in c + 1 .. L : Before(t, timers[j], nd)
  <2>1. ASSUME NEW j \in c + 1 .. L PROVE Before(t, timers[j], nd)
    <3>1. j \in 1 .. L /\ j \notin 1 .. c
      BY <1>1, <1>5
    <3>2. ~Before(timers[j], t, nd)
      BY <1>5, <3>1
    <3> QED BY <1>2, <1>3, <3>1, <3>2, BeforeTotal
  <2> QED BY <1>5, <2>1
<1> HIDE DEF c
<1>8. /\ r \in Seq(Tasks) /\ Len(r) = L + 1 /\ r[c + 1] = t
      /\ \A j \in 1 .. c : r[j] = timers[j]
      /\ \A j \in c + 1 .. L : r[j + 1] = timers[j]
  <2>1. c + 1 \in 1 .. L + 1 /\ (c + 1) - 1 = c
    BY <1>1, <1>5
  <2>2. r \in Seq(Tasks) /\ Inserted(timers, c + 1, t, r)
    BY <1>1, <2>1, InsertProps
  <2> HIDE DEF r
  <2> QED BY <2>1, <2>2 DEF Inserted
<1> HIDE DEF r
<1>9. ASSUME NEW i \in 1 .. L + 1, NEW j \in 1 .. L + 1, i < j
      PROVE  Before(r[i], r[j], nd)
  <2>1. CASE j <= c
    <3>1. i \in 1 .. c /\ j \in 1 .. c /\ i \in 1 .. L /\ j \in 1 .. L
      BY <1>1, <1>5, <1>9, <2>1
    <3> QED BY <1>8, <1>9, <3>1 DEF Ordered
  <2>2. CASE j = c + 1
    <3>1. i \in 1 .. c
      BY <1>5, <1>9, <2>2
    <3> QED BY <1>7, <1>8, <2>2, <3>1
  <2>3. CASE i = c + 1
    <3>1. j - 1 \in c + 1 .. L /\ (j - 1) + 1 = j
      BY <1>1, <1>5, <1>9, <2>3
    <3>2. r[j] = timers[j - 1]
      BY <1>8, <3>1
    <3> QED BY <1>7, <1>8, <2>3, <3>1, <3>2
  <2>4. CASE i <= c /\ j > c + 1
    <3>1. i \in 1 .. c /\ j - 1 \in c + 1 .. L /\ (j - 1) + 1 = j
      BY <1>1, <1>5, <1>9, <2>4
    <3>2. r[j] = timers[j - 1] /\ r[i] = timers[i]
      BY <1>8, <3>1
    <3>3. i \in 1 .. L /\ j - 1 \in 1 .. L /\ i < j - 1
      BY <1>1, <1>5, <1>9, <2>4
    <3> QED BY <3>2, <3>3 DEF Ordered
  <2>5. CASE i > c + 1
    <3>1. /\ i - 1 \in c + 1 .. L /\ (i - 1) + 1 = i
          /\ j - 1 \in c + 1 .. L /\ (j - 1) + 1 = j
      BY <1>1, <1>5, <1>9, <2>5
    <3>2. r[j] = timers[j - 1] /\ r[i] = timers[i - 1]
      BY <1>8, <3>1
    <3>3. i - 1 \in 1 .. L /\ j - 1 \in 1 .. L /\ i - 1 < j - 1
      BY <1>1, <1>5, <1>9, <3>1
    <3> QED BY <3>2, <3>3 DEF Ordered
  <2>6. c \in Nat /\ i \in Nat /\ j \in Nat
    BY <1>1, <1>5
  <2>7. \/ j <= c \/ j = c + 1 \/ i = c + 1
        \/ i <= c /\ j > c + 1
        \/ i > c + 1
    BY <2>6
  <2> QED BY <2>1, <2>2, <2>3, <2>4, <2>5, <2>7, Zenon
<1> QED BY <1>6, <1>8, <1>9 DEF Ordered

\* The timers of s expire at the same time in both.
SameExpiry(s, nd, nd2) ==
    \A u \in Tasks : u \in Range(s) => nd2[u].expire = nd[u].expire

\* The order only depends on the expiry of the timers in the list.
LEMMA SameOrder ==
    ASSUME NEW s, Distinct(s), NEW nd, NEW nd2, Ordered(s, nd), SameExpiry(s, nd, nd2)
    PROVE  Ordered(s, nd2)
<1>1. \A i \in 1 .. Len(s) : s[i] \in Tasks /\ s[i] \in Range(s)
  BY DEF Distinct, Range
<1>2. ASSUME NEW i \in 1 .. Len(s), NEW j \in 1 .. Len(s), i < j
      PROVE  Before(s[i], s[j], nd2)
  <2>1. Before(s[i], s[j], nd)
    BY <1>2 DEF Ordered
  <2>2. nd2[s[i]].expire = nd[s[i]].expire /\ nd2[s[j]].expire = nd[s[j]].expire
    BY <1>1 DEF SameExpiry
  <2> QED BY <2>1, <2>2 DEF Before
<1> QED BY <1>2 DEF Ordered

\* A removal keeps the order.
LEMMA RemoveOrdered ==
    ASSUME NEW s, Distinct(s), NEW e \in Range(s), NEW nd, Ordered(s, nd)
    PROVE  Ordered(Erase(s, e), nd)
<1> DEFINE r == Erase(s, e)
<1>1. PICK p \in [1 .. Len(r) -> 1 .. Len(s)] :
        /\ \A j \in 1 .. Len(r) : r[j] = s[p[j]]
        /\ \A j, k \in 1 .. Len(r) : j < k => p[j] < p[k]
  <2>1. s \in Seq(Tasks) /\ IsInjective(s)
    BY DEF Distinct
  <2>2. Kept(s, r, e)
    BY <2>1, RemovePlaces
  <2> HIDE DEF r
  <2> QED BY <2>2, Zenon DEF Kept
<1> HIDE DEF r
<1>2. \A i, j \in 1 .. Len(r) : i < j => Before(r[i], r[j], nd)
  BY <1>1 DEF Ordered
<1> QED BY <1>2 DEF Ordered, r

\* The tree is sorted by the order of hev_task_timer_node_cmp.
TreeInv == Ordered(timers, node)

\* A sleep that begins.
LEMMA TreeSleep ==
    ASSUME SysInv, SysInv', ClockInv, TreeInv, NEW t \in Tasks, sleep(t)
    PROVE  TreeInv'
<1>1. PICK ms \in Sleeps :
      \E nd : /\ nd = [node EXCEPT ![t] = [expire |-> GetExpire(now, ms),
                          due |-> Instant(now) + ms * MsUnits, leftmost |-> FALSE]]
              /\ pc[t] = "ready" /\ timers' = InsertTimer(nd, t)
              /\ node' = [nd EXCEPT ![t].leftmost = (InsertTimer(nd, t)[1] = t)]
  BY Zenon DEF sleep, On
<1>2. PICK nd :
         /\ nd = [node EXCEPT ![t] = [expire |-> GetExpire(now, ms),
                     due |-> Instant(now) + ms * MsUnits, leftmost |-> FALSE]]
         /\ pc[t] = "ready" /\ timers' = InsertTimer(nd, t)
         /\ node' = [nd EXCEPT ![t].leftmost = (InsertTimer(nd, t)[1] = t)]
  BY <1>1
<1>3. /\ DOMAIN nd = Tasks /\ nd[t].expire = GetExpire(now, ms)
      /\ \A u \in Tasks : u # t => nd[u] = node[u]
  BY <1>2 DEF ClockInv
<1>4. nd[t].expire \in Loose
  <2>1. now \in Strict /\ ms \in Nat
    BY ClockAssumption DEF ClockInv
  <2> QED BY <1>3, <2>1, ExpireExact
<1>5. Distinct(timers) /\ \A u \in Tasks : u \in Range(timers) <=> pc[u] = "sleep"
  BY DEF SysInv, SleepInv
<1>6. t \notin Range(timers)
  BY <1>2, <1>5
<1>7. \A u \in Tasks : u = t \/ u \in Range(timers) => nd[u].expire \in Loose
  <2>1. \A u \in Tasks : u \in Range(timers) => node[u].expire \in Loose
    BY <1>5 DEF ClockInv, Asleep, NodeOK
  <2> QED BY <1>3, <1>4, <1>6, <2>1
<1>8. Ordered(timers, nd)
  <2>1. SameExpiry(timers, node, nd)
    BY <1>3, <1>6 DEF SameExpiry
  <2>2. Ordered(timers, node) /\ Distinct(timers)
    BY <1>5, Zenon DEF TreeInv
  <2> QED BY <2>1, <2>2, SameOrder
<1>9. Ordered(timers', nd)
  BY <1>2, <1>5, <1>6, <1>7, <1>8, InsertOrdered
<1>10. SameExpiry(timers', nd, node')
  BY <1>2, <1>3 DEF SameExpiry
<1>11. Distinct(timers')
  BY DEF SysInv, SleepInv, Distinct
<1>12. Ordered(timers', node')
  BY <1>9, <1>10, <1>11, SameOrder
<1> QED BY <1>12 DEF TreeInv, Ordered

\* A sleep that ends.
LEMMA TreeSleepReturn ==
    ASSUME SysInv, SysInv', ClockInv, TreeInv, NEW t \in Tasks, sleep_return(t)
    PROVE  TreeInv'
<1>1. /\ pc[t] = "sleep" /\ timers' = Erase(timers, t)
      /\ node' = [node EXCEPT ![t] = NoNode]
  BY DEF sleep_return, On
<1>2. /\ Distinct(timers) /\ timers \in Seq(Tasks) /\ IsInjective(timers)
      /\ t \in Range(timers)
  BY <1>1 DEF SysInv, SleepInv, Distinct
<1>3. Ordered(timers', node)
  BY <1>1, <1>2, RemoveOrdered DEF TreeInv
<1>4. Distinct(timers')
  BY DEF SysInv, SleepInv, Distinct
<1>5. t \notin Range(timers')
  <2>1. Range(timers') = Range(timers) \ {t}
    BY <1>1, <1>2, RemoveRange
  <2> QED BY <2>1
<1>6. SameExpiry(timers', node, node')
  BY <1>1, <1>5 DEF ClockInv, SameExpiry
<1>7. Ordered(timers', node')
  BY <1>3, <1>4, <1>6, SameOrder
<1> QED BY <1>7 DEF TreeInv, Ordered

\* The other steps leave the timers alone.
LEMMA TreeElse ==
    ASSUME TreeInv, NEW t \in Tasks,
           \/ io_poll(t) \/ yield(t) \/ waitio(t) \/ wakeup(t) \/ run(t)
           \/ lock(t) \/ unlock(t) \/ join(t) \/ exit(t)
           \/ waitio_return(t) \/ lock_return(t) \/ join_loop(t)
    PROVE  TreeInv'
<1>1. UNCHANGED clock
  BY Zenon DEF io_poll, yield, waitio, wakeup, run, lock, unlock, join, exit,
               waitio_return, lock_return, join_loop
<1>2. UNCHANGED <<timers, node>>
  BY <1>1 DEF clock
<1> QED BY <1>2 DEF TreeInv, Ordered

\* The timers are sorted by their expiry.
LEMMA TreeHolds == Spec => []TreeInv
<1>1. Init => TreeInv
  <2> SUFFICES ASSUME Init PROVE TreeInv
    OBVIOUS
  <2>1. timers = <<>> /\ Len(<<>>) = 0
    BY DEF Init
  <2> QED BY <2>1 DEF TreeInv, Ordered
<1>2. ASSUME SysInv, SysInv', ClockInv, TreeInv, [Next]_vars PROVE TreeInv'
  <2>1. CASE pick_current_task \/ tick \/ done \/ UNCHANGED vars
    <3>1. UNCHANGED <<timers, node>>
      BY <2>1 DEF pick_current_task, tick, done, vars, clock
    <3> QED BY <1>2, <3>1 DEF TreeInv, Ordered
  <2>2. CASE \E t \in Tasks :
           \/ io_poll(t) \/ yield(t) \/ waitio(t) \/ wakeup(t) \/ run(t) \/ sleep(t)
           \/ lock(t) \/ unlock(t) \/ join(t) \/ exit(t) \/ returns(t)
    BY <1>2, <2>2, TreeSleep, TreeSleepReturn, TreeElse, Zenon DEF returns
  <2> QED BY <1>2, <2>1, <2>2, Zenon DEF Next
<1> QED BY <1>1, <1>2, SysHolds, ClockHolds, PTL DEF Spec

\* The tree of the timers holds exactly the tasks in hev_task_timer_wait, the
\* first to expire first, and the comparison, the remaining time and the
\* timeout of the poll agree with the instant each sleep was asked to end:
\* for every resolution of the clock, every sleep and any number of tasks.
THEOREM TimersKeepOrder == Spec => []TimersExact
<1>1. ASSUME SysInv, ClockInv, TreeInv PROVE TimersExact
  <2>1. /\ Distinct(timers) /\ timers \in Seq(Tasks)
        /\ \A u \in Tasks : u \in Range(timers) <=> pc[u] = "sleep"
    BY <1>1 DEF SysInv, SleepInv, Distinct
  <2>2. Range(timers) = {t \in Tasks : pc[t] = "sleep"}
    <3>1. Range(timers) \subseteq Tasks
      BY <2>1 DEF Range
    <3> QED BY <2>1, <3>1
  <2>3. ASSUME NEW i \in 1 .. Len(timers), NEW j \in 1 .. Len(timers), i < j
        PROVE  node[timers[i]].due <= node[timers[j]].due
    <3> DEFINE t == timers[i]
               u == timers[j]
    <3>1. t \in Tasks /\ u \in Tasks /\ t \in Range(timers) /\ u \in Range(timers)
      BY <2>1 DEF Range
    <3>2. Before(t, u, node)
      BY <1>1, <2>3 DEF TreeInv, Ordered
    <3> HIDE DEF t, u
    <3>3. /\ node[t].expire \in Loose /\ node[t].due = Instant(node[t].expire)
          /\ node[u].expire \in Loose /\ node[u].due = Instant(node[u].expire)
      BY <1>1, <2>1, <3>1 DEF ClockInv, Asleep, NodeOK
    <3>4. Cmp(node[t].expire, node[u].expire) <= 0
      <4>1. Cmp(node[t].expire, node[u].expire) \in Int
        BY <3>3, CmpLoose
      <4> QED BY <3>2, <4>1 DEF Before
    <3>5. node[t].due <= node[u].due
      BY <3>3, <3>4, CmpLoose
    <3> QED BY <3>5 DEF t, u
  <2>4. \A t \in Tasks : pc[t] = "sleep" => ClockAgrees(t)
    BY <1>1, ClockSuffices
  <2> QED BY <2>2, <2>3, <2>4 DEF TimersExact
<1> QED BY <1>1, SysHolds, ClockHolds, TreeHolds, PTL
============================================================================

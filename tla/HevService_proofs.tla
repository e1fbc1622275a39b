------------------------- MODULE HevService_proofs --------------------------
(***************************************************************************)
(* Proofs about HevService for any number of threads and descriptors:      *)
(* OneTunnel, FdOpenWhileUsed, Released and ServiceConsistent.             *)
(*                                                                         *)
(* All of them rest on Owned: a thread that has not been joined is the one *)
(* that hev-jni.c knows of.  The globals are then a matter of how far this *)
(* thread has come (Stage), and what only holds of the program or only of  *)
(* calls that do not overlap is added in CliInv and in AndroidInv.         *)
(***************************************************************************)
EXTENDS HevService, TLAPS

\* The places of main behind event_task_init, and behind gateway_init.
Running == TaskSet \cup {"run", "fini", "fini_gateway"}
Served == Running \cup {"event"}

\* What is set up when main is at p, with r to be returned.
Stage(p, r) ==
    /\ p \notin Running \/ p = "fini_gateway" =>
           ~event.open /\ held \cap TaskSet = {}
    /\ p \notin Running => ~event.set
    /\ p \notin Served => gateway # "live"
    /\ p \notin Served \cup {"gateway"} => ~tun_fd_local
    /\ p = "exit" /\ r = 0 => held = {}

Staged ==
    /\ \A w \in Workers :
           work[w].pc # "none" => Stage(work[w].pc, work[w].ret)
    /\ (\A w \in Workers : work[w].pc = "none") => Stage("none", 0)

\* A thread that has been started and not joined is the one that is known.
Owner(w) == IF mode = "cli" THEN w = Main ELSE is_working /\ w = work_thread
Owned == \A w \in Workers : work[w].pc # "none" => Owner(w)

\* There is no Java in the program.
NoJava ==
    mode = "cli" => /\ \A t \in Threads : ui[t].pc = "idle"
                    /\ tunFd = None /\ leaked = {} /\ ~destroy
                    /\ ~is_working /\ ~enable

\* main of the program runs once and opens the device itself.
CliStage(p, r) ==
    /\ p \notin {"cleanup", "exit"} => gateway # "freed"
    /\ p \in InnerSet \cup {"tunnel", "cleanup"} => open = {}
    /\ p = "exit" /\ r = 0 => open = {}
    /\ p = "tunnel_config" => open = {tun_fd}
    /\ p \in Served \cup {"gateway"} /\ r = 0 => tun_fd_local /\ open = {tun_fd}

CliInv ==
    mode = "cli" =>
        /\ ~doubleFree
        /\ \A w \in Workers : work[w].pc # "none" =>
               work[w].fd = None /\ CliStage(work[w].pc, work[w].ret)

\* Where calls do not overlap, a thread works with the descriptor that the
\* service has, which is open, and so gets as far as the gateway.
AndroidWork ==
    \A w \in Workers : work[w].pc # "none" =>
        /\ work[w].fd = tunFd /\ tunFd # None
        /\ work[w].pc # "tunnel_config"
        /\ work[w].pc \in Served => gateway = "live"

AndroidInv ==
    mode = "android" /\ ~overlap =>
        /\ ~doubleFree /\ ~tun_fd_local /\ leaked = {}
        /\ tunFd # None => tunFd \in open
        /\ ui["main"].pc = "establish" => tunFd = None
        /\ ui["main"].pc \in InStart \ {"establish"} => tunFd # None
        /\ ui["main"].pc = "native_start" => ui["main"].fd = tunFd
        /\ AndroidWork

\* What is stored follows the descriptor.
PrefInv ==
    mode = "android" /\ ~overlap =>
        /\ is_working => \E w \in Workers : work[w].pc # "none"
        /\ is_working /\ ui["main"].pc # "enable" => enable
        /\ enable /\ (\A t \in Threads : ui[t].pc # "disable") => tunFd # None

\* The types that the proofs need: the records, and what the sets are made of.
WorkOK == work \in [Workers -> [pc : WorkPCs, fd : Fds \cup {None},
                                ret : -5 .. 0]]

GlobalsOK ==
    /\ event \in [set : BOOLEAN, open : BOOLEAN]
    /\ held \subseteq InnerSet \cup TaskSet /\ open \subseteq Fds

UiPCs == {"idle", "stop_self"} \cup InStart \cup InStop
UiOK == ui \in [Threads -> [pc : UiPCs, fd : Fds \cup {None}]]

RestOK == mode \in {"android", "cli"} /\ tunFd \in Fds \cup {None}

IInv ==
    /\ WorkOK /\ GlobalsOK /\ UiOK /\ RestOK
    /\ Owned /\ NoJava /\ Staged /\ CliInv /\ AndroidInv /\ PrefInv

----------------------------------------------------------------------------
\* The steps of a start, as sets.
LEMMA StepSets ==
    /\ InnerSet = {"config", "logger", "socks5_logger", "task_system"}
    /\ TaskSet = {"event_task", "lwip_io", "lwip_timer", "mapped_dns"}
<1>1. /\ Inner[1] = "config" /\ Inner[2] = "logger"
      /\ Inner[3] = "socks5_logger" /\ Inner[4] = "task_system"
  BY DEF Inner
<1>2. /\ Tasks[1] = "event_task" /\ Tasks[2] = "lwip_io"
      /\ Tasks[3] = "lwip_timer" /\ Tasks[4] = "mapped_dns"
  BY DEF Tasks
<1>3. 1 .. 4 = {1, 2, 3, 4}
  OBVIOUS
<1> HIDE DEF Inner, Tasks
<1>4. InnerSet = {"config", "logger", "socks5_logger", "task_system"}
  BY <1>1, <1>3, Zenon DEF InnerSet
<1>5. TaskSet = {"event_task", "lwip_io", "lwip_timer", "mapped_dns"}
  BY <1>2, <1>3, Zenon DEF TaskSet
<1> QED BY <1>4, <1>5

\* The places main can go on to.
LEMMA Places ==
    {"tunnel", "tunnel_config", "gateway", "event", "run", "fini",
     "fini_gateway", "cleanup", "exit"} \cup InnerSet \cup TaskSet \subseteq WorkPCs
  BY Zenon DEF WorkPCs

\* w went on to p, and no other thread did.
Went(w, p, r) ==
    /\ work'[w].pc = p /\ work'[w].ret = r /\ work'[w].fd = work[w].fd
    /\ \A v \in Workers : v # w => work'[v] = work[v]

\* What going on, or failing, does to the threads.
LEMMA WorkType ==
    ASSUME WorkOK, NEW w \in Workers, NEW p \in WorkPCs, NEW r \in -5 .. 0,
           (Go(w, p) /\ r = work[w].ret) \/ Fail(w, p, r)
    PROVE  WorkOK' /\ Went(w, p, r)
<1> DEFINE R == [pc : WorkPCs, fd : Fds \cup {None}, ret : -5 .. 0]
<1>1. work \in [Workers -> R] /\ work[w] \in R
  BY DEF WorkOK
<1>2. work' = [work EXCEPT ![w] = [pc |-> p, fd |-> work[w].fd, ret |-> r]]
  BY <1>1 DEF Go, Fail
<1>3. [pc |-> p, fd |-> work[w].fd, ret |-> r] \in R
  BY <1>1
<1> QED BY <1>1, <1>2, <1>3 DEF Went, WorkOK

\* All that is said of the globals while w works.
OnCli(w) ==
    mode = "cli" => /\ ~doubleFree /\ work[w].fd = None
                    /\ CliStage(work[w].pc, work[w].ret)

OnAndroid(w) ==
    mode = "android" /\ ~overlap =>
        /\ ~doubleFree /\ ~tun_fd_local
        /\ work[w].fd = tunFd /\ tunFd # None /\ tunFd \in open
        /\ work[w].pc # "tunnel_config"
        /\ work[w].pc \in Served => gateway = "live"

Local(w) == Stage(work[w].pc, work[w].ret) /\ OnCli(w) /\ OnAndroid(w)

\* Failing behind the gateway says nothing new of the program.
LEMMA FiniCli ==
    ASSUME NEW w \in Workers, OnCli(w), work[w].pc \notin {"cleanup", "exit"},
           Went(w, "fini", -5), UNCHANGED <<mode, doubleFree, gateway>>
    PROVE  OnCli(w)'
<1>1. "fini" \notin InnerSet /\ -5 # 0
  BY StepSets
<1>2. CliStage("fini", -5)' \/ mode # "cli"
  BY <1>1 DEF OnCli, CliStage
<1> QED BY <1>2 DEF OnCli, CliStage, Went

\* A step of main keeps the types of its variables and leads to a place where
\* the same is true again.
LEMMA MainKeeps ==
    ASSUME WorkOK, GlobalsOK, NEW w \in Workers, Local(w), MainStep(w),
           UNCHANGED <<mode, overlap, tunFd>>
    PROVE  /\ WorkOK' /\ GlobalsOK' /\ Local(w)' /\ work'[w].pc # "none"
           /\ \A v \in Workers : v # w => work'[v] = work[v]
<1>0. WorkOK /\ GlobalsOK /\ work[w].ret \in -5 .. 0
  BY DEF WorkOK
<1>1. CASE main_inner(w)
  <2>1. PICK k \in 1 .. 4 :
          /\ At(w, Inner[k])
          /\ \/ /\ Go(w, IF k = 4 THEN "tunnel" ELSE Inner[k + 1])
                /\ held' = held \cup {Inner[k]}
             \/ Fail(w, "exit", -k) /\ held' = held
          /\ UNCHANGED <<tun_fd, tun_fd_local, event, bytes, gateway, doubleFree,
                         open>>
    BY <1>1 DEF main_inner
  <2>2. work[w].pc \in InnerSet /\ Inner[k] \in InnerSet /\ -k \in -5 .. -1
    BY <2>1 DEF At, InnerSet
  <2>3. CASE Fail(w, "exit", -k) /\ held' = held
    <3>1. WorkOK' /\ Went(w, "exit", -k)
      BY <1>0, <2>1, <2>2, <2>3, Places, WorkType
    <3>2. GlobalsOK'
      BY <1>0, <2>1, <2>2, <2>3 DEF GlobalsOK
    <3>3. Stage(work[w].pc, work[w].ret)'
      BY <1>0, <2>1, <2>2, <2>3, <3>1, StepSets
         DEF Local, Stage, Went, Served, Running
    <3>4. OnCli(w)'
      BY <2>1, <2>2, <2>3, <3>1, StepSets
         DEF Local, OnCli, CliStage, Went, Served, Running
    <3>5. OnAndroid(w)'
      BY <2>1, <2>2, <2>3, <3>1, StepSets
         DEF Local, OnCli, OnAndroid, Went, Served, Running
    <3> QED BY <3>1, <3>2, <3>3, <3>4, <3>5, StepSets DEF Went, Local
  <2>4. CASE /\ Go(w, IF k = 4 THEN "tunnel" ELSE Inner[k + 1])
             /\ held' = held \cup {Inner[k]}
    <3>0. PICK p \in InnerSet \cup {"tunnel"} : Go(w, p)
      BY <2>4 DEF InnerSet
    <3>1. WorkOK' /\ Went(w, p, work[w].ret)
      BY <1>0, <2>1, <2>2, <2>4, <3>0, Places, WorkType
    <3>2. GlobalsOK'
      BY <1>0, <2>1, <2>2, <2>4, <3>0 DEF GlobalsOK
    <3>3. Stage(work[w].pc, work[w].ret)'
      BY <1>0, <2>1, <2>2, <2>4, <3>0, <3>1, StepSets
         DEF Local, Stage, Went, Served, Running
    <3>4. OnCli(w)'
      BY <2>1, <2>2, <2>4, <3>0, <3>1, StepSets
         DEF Local, OnCli, CliStage, Went, Served, Running
    <3>5. OnAndroid(w)'
      BY <2>1, <2>2, <2>4, <3>0, <3>1, StepSets
         DEF Local, OnCli, OnAndroid, Went, Served, Running
    <3> QED BY <3>1, <3>2, <3>3, <3>4, <3>5, StepSets DEF Went, Local
  <2> QED BY <2>1, <2>3, <2>4
<1>2. CASE tunnel_init(w)
  <2>1. /\ work[w].pc = "tunnel"
        /\ UNCHANGED <<tun_fd_local, event, bytes, gateway, doubleFree, held>>
    BY <1>2 DEF tunnel_init, At
  <2>2. CASE /\ work[w].fd \in open
             /\ Go(w, "gateway")
             /\ tun_fd' = work[w].fd /\ open' = open
    <3>0. work[w].fd # None
      BY <1>0, <2>2, FdsAreNumbers DEF GlobalsOK, None
    <3>1. WorkOK' /\ Went(w, "gateway", work[w].ret)
      BY <1>0, <2>1, <2>2, Places, WorkType
    <3>2. GlobalsOK'
      BY <1>0, <2>1, <2>2 DEF GlobalsOK
    <3>3. Stage(work[w].pc, work[w].ret)'
      BY <1>0, <2>1, <2>2, <3>1, StepSets, <3>0
         DEF Local, Stage, Went, Served, Running
    <3>4. OnCli(w)'
      BY <2>1, <2>2, <3>1, StepSets, <3>0
         DEF Local, OnCli, CliStage, Went, Served, Running
    <3>5. OnAndroid(w)'
      BY <2>1, <2>2, <3>1, StepSets, <3>0
         DEF Local, OnCli, OnAndroid, Went, Served, Running
    <3> QED BY <3>1, <3>2, <3>3, <3>4, <3>5, StepSets DEF Went, Local
  <2>3. CASE /\ work[w].fd = None \/ work[w].fd \notin open
             /\ Fail(w, "fini", -5)
             /\ tun_fd' \in {tun_fd, None} /\ open' = open
    <3>1. WorkOK' /\ Went(w, "fini", -5)
      BY <1>0, <2>1, <2>3, Places, WorkType
    <3>2. GlobalsOK'
      BY <1>0, <2>1, <2>3 DEF GlobalsOK
    <3>3. Stage(work[w].pc, work[w].ret)'
      BY <1>0, <2>1, <2>3, <3>1, StepSets
         DEF Local, Stage, Went, Served, Running
    <3>4. OnCli(w)'
      BY <2>1, <2>3, <3>1, StepSets
         DEF Local, OnCli, CliStage, Went, Served, Running
    <3>5. OnAndroid(w)'
      BY <2>1, <2>3, <3>1, StepSets
         DEF Local, OnCli, OnAndroid, Went, Served, Running
    <3> QED BY <3>1, <3>2, <3>3, <3>4, <3>5, StepSets DEF Went, Local
  <2>4. CASE work[w].fd = None /\ \E f \in Fds \ open :
                    /\ Go(w, "tunnel_config")
                    /\ tun_fd' = f /\ open' = open \cup {f}
    <3>1. WorkOK' /\ Went(w, "tunnel_config", work[w].ret)
      BY <1>0, <2>1, <2>4, Places, WorkType
    <3>2. GlobalsOK'
      BY <1>0, <2>1, <2>4 DEF GlobalsOK
    <3>3. Stage(work[w].pc, work[w].ret)'
      BY <1>0, <2>1, <2>4, <3>1, StepSets
         DEF Local, Stage, Went, Served, Running
    <3>4. OnCli(w)'
      BY <2>1, <2>4, <3>1, StepSets
         DEF Local, OnCli, CliStage, Went, Served, Running
    <3>5. OnAndroid(w)'
      BY <2>1, <2>4, <3>1, StepSets
         DEF Local, OnCli, OnAndroid, Went, Served, Running
    <3> QED BY <3>1, <3>2, <3>3, <3>4, <3>5, StepSets DEF Went, Local
  <2> QED BY <1>2, <2>2, <2>3, <2>4 DEF tunnel_init
<1>3. CASE tunnel_config(w)
  <2>1. /\ work[w].pc = "tunnel_config"
        /\ UNCHANGED <<tun_fd, event, bytes, gateway, doubleFree, held, open>>
    BY <1>3 DEF tunnel_config, At
  <2>2. CASE Go(w, "gateway") /\ tun_fd_local' = TRUE
    <3>1. WorkOK' /\ Went(w, "gateway", work[w].ret)
      BY <1>0, <2>1, <2>2, Places, WorkType
    <3>2. GlobalsOK'
      BY <1>0, <2>1, <2>2 DEF GlobalsOK
    <3>3. Stage(work[w].pc, work[w].ret)'
      BY <1>0, <2>1, <2>2, <3>1, StepSets
         DEF Local, Stage, Went, Served, Running
    <3>4. OnCli(w)'
      BY <2>1, <2>2, <3>1, StepSets
         DEF Local, OnCli, CliStage, Went, Served, Running
    <3>5. OnAndroid(w)'
      BY <2>1, <2>2, <3>1, StepSets
         DEF Local, OnCli, OnAndroid, Went, Served, Running
    <3> QED BY <3>1, <3>2, <3>3, <3>4, <3>5, StepSets DEF Went, Local
  <2>3. CASE Fail(w, "fini", -5) /\ tun_fd_local' = tun_fd_local
    <3>1. WorkOK' /\ Went(w, "fini", -5)
      BY <1>0, <2>1, <2>3, Places, WorkType
    <3>2. GlobalsOK'
      BY <1>0, <2>1, <2>3 DEF GlobalsOK
    <3>3. Stage(work[w].pc, work[w].ret)'
      BY <1>0, <2>1, <2>3, <3>1, StepSets
         DEF Local, Stage, Went, Served, Running
    <3>4. OnCli(w)'
      BY <2>1, <2>3, <3>1, StepSets
         DEF Local, OnCli, CliStage, Went, Served, Running
    <3>5. OnAndroid(w)'
      BY <2>1, <2>3, <3>1, StepSets
         DEF Local, OnCli, OnAndroid, Went, Served, Running
    <3> QED BY <3>1, <3>2, <3>3, <3>4, <3>5, StepSets DEF Went, Local
  <2> QED BY <1>3, <2>2, <2>3 DEF tunnel_config
<1>4. CASE gateway_init(w)
  <2>0. /\ work[w].pc = "gateway" /\ Go(w, "event") /\ gateway' = "live"
        /\ UNCHANGED <<tun_fd, tun_fd_local, event, bytes, doubleFree, held, open>>
    BY <1>4 DEF gateway_init, At
  <2>1. WorkOK' /\ Went(w, "event", work[w].ret)
    BY <1>0, <2>0, Places, WorkType
  <2>2. GlobalsOK'
    BY <1>0, <2>0 DEF GlobalsOK
  <2>3. Stage(work[w].pc, work[w].ret)'
    BY <1>0, <2>0, <2>1, StepSets
       DEF Local, Stage, Went, Served, Running
  <2>4. OnCli(w)'
    BY <2>0, <2>1, StepSets
       DEF Local, OnCli, CliStage, Went, Served, Running
  <2>5. OnAndroid(w)'
    BY <2>0, <2>1, StepSets
       DEF Local, OnCli, OnAndroid, Went, Served, Running
  <2> QED BY <2>1, <2>2, <2>3, <2>4, <2>5, StepSets DEF Went, Local
<1>5. CASE event_task_init(w)
  <2>1. /\ work[w].pc = "event"
        /\ UNCHANGED <<tun_fd, tun_fd_local, gateway, doubleFree, held, open>>
    BY <1>5 DEF event_task_init, At
  <2>2. CASE /\ Go(w, Tasks[1])
             /\ event' = [set |-> TRUE, open |-> TRUE] /\ bytes' = 0
    <3>0. PICK p \in TaskSet : Go(w, p)
      BY <2>2 DEF TaskSet
    <3>1. WorkOK' /\ Went(w, p, work[w].ret)
      BY <1>0, <2>1, <2>2, <3>0, Places, WorkType
    <3>2. GlobalsOK'
      BY <1>0, <2>1, <2>2, <3>0 DEF GlobalsOK
    <3>3. Stage(work[w].pc, work[w].ret)'
      BY <1>0, <2>1, <2>2, <3>0, <3>1, StepSets
         DEF Local, Stage, Went, Served, Running
    <3>4. OnCli(w)'
      BY <2>1, <2>2, <3>0, <3>1, StepSets
         DEF Local, OnCli, CliStage, Went, Served, Running
    <3>5. OnAndroid(w)'
      BY <2>1, <2>2, <3>0, <3>1, StepSets
         DEF Local, OnCli, OnAndroid, Went, Served, Running
    <3> QED BY <3>1, <3>2, <3>3, <3>4, <3>5, StepSets DEF Went, Local
  <2>3. CASE Fail(w, "fini", -5) /\ UNCHANGED <<event, bytes>>
    <3>1. WorkOK' /\ Went(w, "fini", -5)
      BY <1>0, <2>1, <2>3, Places, WorkType
    <3>2. GlobalsOK'
      BY <1>0, <2>1, <2>3 DEF GlobalsOK
    <3>3. Stage(work[w].pc, work[w].ret)'
      BY <1>0, <2>1, <2>3, <3>1, StepSets
         DEF Local, Stage, Went, Served, Running
    <3>4. OnCli(w)'
      BY <2>1, <2>3, <3>1, FiniCli DEF Local
    <3>5. OnAndroid(w)'
      BY <2>1, <2>3, <3>1, StepSets
         DEF Local, OnCli, OnAndroid, Went, Served, Running
    <3> QED BY <3>1, <3>2, <3>3, <3>4, <3>5, StepSets DEF Went, Local
  <2> QED BY <1>5, <2>2, <2>3 DEF event_task_init
<1>6. CASE tasks_init(w)
  <2>1. PICK k \in 1 .. 4 :
          /\ At(w, Tasks[k])
          /\ \/ /\ Go(w, IF k = 4 THEN "run" ELSE Tasks[k + 1])
                /\ held' = held \cup {Tasks[k]}
             \/ Fail(w, "fini", -5) /\ held' = held
          /\ UNCHANGED <<tun_fd, tun_fd_local, event, bytes, gateway, doubleFree,
                         open>>
    BY <1>6 DEF tasks_init
  <2>2. work[w].pc \in TaskSet /\ Tasks[k] \in TaskSet
    BY <2>1 DEF At, TaskSet
  <2>3. CASE Fail(w, "fini", -5) /\ held' = held
    <3>1. WorkOK' /\ Went(w, "fini", -5)
      BY <1>0, <2>3, Places, WorkType
    <3>2. GlobalsOK'
      BY <1>0, <2>1, <2>2, <2>3 DEF GlobalsOK
    <3>3. Stage(work[w].pc, work[w].ret)'
      BY <1>0, <2>1, <2>2, <2>3, <3>1, StepSets
         DEF Local, Stage, Went, Served, Running
    <3>4. OnCli(w)'
      <4>1. work[w].pc \notin {"cleanup", "exit"}
        BY <2>2, StepSets
      <4> QED BY <2>1, <3>1, <4>1, FiniCli DEF Local
    <3>5. OnAndroid(w)'
      BY <2>1, <2>2, <2>3, <3>1, StepSets
         DEF Local, OnCli, OnAndroid, Went, Served, Running
    <3> QED BY <3>1, <3>2, <3>3, <3>4, <3>5, StepSets DEF Went, Local
  <2>4. CASE /\ Go(w, IF k = 4 THEN "run" ELSE Tasks[k + 1])
             /\ held' = held \cup {Tasks[k]}
    <3>0. PICK p \in TaskSet \cup {"run"} : Go(w, p)
      BY <2>4 DEF TaskSet
    <3>1. WorkOK' /\ Went(w, p, work[w].ret)
      BY <1>0, <2>1, <2>2, <2>4, <3>0, Places, WorkType
    <3>2. GlobalsOK'
      BY <1>0, <2>1, <2>2, <2>4, <3>0 DEF GlobalsOK
    <3>3. Stage(work[w].pc, work[w].ret)'
      BY <1>0, <2>1, <2>2, <2>4, <3>0, <3>1, StepSets
         DEF Local, Stage, Went, Served, Running
    <3>4. OnCli(w)'
      BY <2>1, <2>2, <2>4, <3>0, <3>1, StepSets
         DEF Local, OnCli, CliStage, Went, Served, Running
    <3>5. OnAndroid(w)'
      BY <2>1, <2>2, <2>4, <3>0, <3>1, StepSets
         DEF Local, OnCli, OnAndroid, Went, Served, Running
    <3> QED BY <3>1, <3>2, <3>3, <3>4, <3>5, StepSets DEF Went, Local
  <2> QED BY <2>1, <2>3, <2>4
<1>7. CASE tunnel_run(w)
  <2>0. /\ work[w].pc = "run" /\ Go(w, "fini") /\ bytes' = 0
        /\ UNCHANGED <<tun_fd, tun_fd_local, event, gateway, doubleFree, held,
                       open>>
    BY <1>7 DEF tunnel_run, At
  <2>1. WorkOK' /\ Went(w, "fini", work[w].ret)
    BY <1>0, <2>0, Places, WorkType
  <2>2. GlobalsOK'
    BY <1>0, <2>0 DEF GlobalsOK
  <2>3. Stage(work[w].pc, work[w].ret)'
    BY <1>0, <2>0, <2>1, StepSets
       DEF Local, Stage, Went, Served, Running
  <2>4. OnCli(w)'
    BY <2>0, <2>1, StepSets
       DEF Local, OnCli, CliStage, Went, Served, Running
  <2>5. OnAndroid(w)'
    BY <2>0, <2>1, StepSets
       DEF Local, OnCli, OnAndroid, Went, Served, Running
  <2> QED BY <2>1, <2>2, <2>3, <2>4, <2>5, StepSets DEF Went, Local
<1>8. CASE fini(w)
  <2>a. /\ work[w].pc = "fini" /\ Go(w, "fini_gateway")
        /\ held' = held \ TaskSet /\ bytes' = 0
        /\ event' = [event EXCEPT !.open = FALSE]
        /\ UNCHANGED <<tun_fd, tun_fd_local, gateway, doubleFree, open>>
    BY <1>8 DEF fini, At
  <2>b. ~event'.open /\ event' \in [set : BOOLEAN, open : BOOLEAN]
    BY <1>0, <2>a DEF GlobalsOK
  <2>1. WorkOK' /\ Went(w, "fini_gateway", work[w].ret)
    BY <1>0, <2>a, Places, WorkType
  <2>2. GlobalsOK'
    BY <1>0, <2>a, <2>b DEF GlobalsOK
  <2>3. Stage(work[w].pc, work[w].ret)'
    BY <1>0, <2>a, <2>b, <2>1, StepSets
       DEF Local, Stage, Went, Served, Running
  <2>4. OnCli(w)'
    BY <2>a, <2>1, StepSets
       DEF Local, OnCli, CliStage, Went, Served, Running
  <2>5. OnAndroid(w)'
    BY <2>a, <2>1, StepSets
       DEF Local, OnCli, OnAndroid, Went, Served, Running
  <2> QED BY <2>1, <2>2, <2>3, <2>4, <2>5, StepSets DEF Went, Local
<1>9. CASE fini_gateway(w)
  <2>a. /\ work[w].pc = "fini_gateway"
        /\ Go(w, IF work[w].ret = 0 THEN "cleanup" ELSE "exit")
        /\ event' = [event EXCEPT !.set = FALSE]
        /\ gateway' = IF gateway = "null" THEN "null" ELSE "freed"
        /\ doubleFree' = (doubleFree \/ gateway = "freed")
        /\ IF tun_fd_local
           THEN open' = open \ {tun_fd} /\ tun_fd' = None /\ tun_fd_local' = FALSE
           ELSE UNCHANGED <<open, tun_fd, tun_fd_local>>
        /\ UNCHANGED <<bytes, held>>
    BY <1>9 DEF fini_gateway, At
  <2>b. /\ ~event'.set /\ event'.open = event.open
        /\ event' \in [set : BOOLEAN, open : BOOLEAN]
    BY <1>0, <2>a DEF GlobalsOK
  <2>c. PICK p \in {"cleanup", "exit"} :
           Go(w, p) /\ (p = "cleanup" <=> work[w].ret = 0)
    BY <2>a
  <2>1. WorkOK' /\ Went(w, p, work[w].ret)
    BY <1>0, <2>a, <2>c, Places, WorkType
  <2>2. GlobalsOK'
    BY <1>0, <2>a, <2>c, <2>b DEF GlobalsOK
  <2>3. Stage(work[w].pc, work[w].ret)'
    BY <1>0, <2>a, <2>c, <2>b, <2>1, StepSets
       DEF Local, Stage, Went, Served, Running
  <2>4. OnCli(w)'
    BY <2>a, <2>c, <2>1, StepSets
       DEF Local, OnCli, CliStage, Went, Served, Running
  <2>5. OnAndroid(w)'
    BY <2>a, <2>c, <2>1, StepSets
       DEF Local, OnCli, OnAndroid, Went, Served, Running
  <2> QED BY <2>1, <2>2, <2>3, <2>4, <2>5, StepSets DEF Went, Local
<1>10. CASE cleanup(w)
  <2>0. /\ work[w].pc = "cleanup" /\ Go(w, "exit") /\ held' = held \ InnerSet
        /\ UNCHANGED <<tun_fd, tun_fd_local, event, bytes, gateway, doubleFree,
                       open>>
    BY <1>10 DEF cleanup, At
  <2>b. held \cap TaskSet = {} => held' = {}
    BY <1>0, <2>0 DEF GlobalsOK
  <2>1. WorkOK' /\ Went(w, "exit", work[w].ret)
    BY <1>0, <2>0, Places, WorkType
  <2>2. GlobalsOK'
    BY <1>0, <2>0 DEF GlobalsOK
  <2>3. Stage(work[w].pc, work[w].ret)'
    BY <1>0, <2>0, <2>1, StepSets, <2>b
       DEF Local, Stage, Went, Served, Running
  <2>4. OnCli(w)'
    BY <2>0, <2>1, StepSets, <2>b
       DEF Local, OnCli, CliStage, Went, Served, Running
  <2>5. OnAndroid(w)'
    BY <2>0, <2>1, StepSets, <2>b
       DEF Local, OnCli, OnAndroid, Went, Served, Running
  <2> QED BY <2>1, <2>2, <2>3, <2>4, <2>5, StepSets DEF Went, Local
<1> QED
  BY <1>1, <1>2, <1>3, <1>4, <1>5, <1>6, <1>7, <1>8, <1>9, <1>10 DEF MainStep

----------------------------------------------------------------------------
(* The calls of the service.                                               *)

\* t went on to p, and the other thread did not.
UiWent(t, p) ==
    ui'[t].pc = p /\ \A u \in Threads : u # t => ui'[u] = ui[u]

\* What going on, or a call, does to the Java threads.
LEMMA UiType ==
    ASSUME UiOK, NEW t \in Threads, NEW p \in UiPCs, UiGo(t, p) \/ Call(t, p)
    PROVE  UiOK' /\ UiWent(t, p)
<1> DEFINE R == [pc : UiPCs, fd : Fds \cup {None}]
<1>1. ui \in [Threads -> R] /\ ui[t] \in R
  BY DEF UiOK
<1>2. PICK f \in Fds \cup {None} : ui' = [ui EXCEPT ![t] = [pc |-> p, fd |-> f]]
  BY <1>1 DEF UiGo, Call
<1>3. [pc |-> p, fd |-> f] \in R
  OBVIOUS
<1> QED BY <1>1, <1>2, <1>3 DEF UiWent, UiOK

\* The threads, and the places they go on to.
LEMMA UiPlaces ==
    /\ UiPCs = {"idle", "stop_self", "establish", "conf", "get_fd",
                "native_start", "enable", "native_stop", "wait", "write", "join",
                "close", "disable"}
    /\ "main" \in Threads /\ "binder" \in Threads
  BY DEF UiPCs, InStart, InStop, Threads

\* What the threads of main have done does not depend on the service.
LEMMA StagedFrame ==
    ASSUME Staged, UNCHANGED <<work, event, held, gateway, tun_fd_local>>
    PROVE  Staged'
  BY DEF Staged, Stage

LEMMA CliFrame ==
    ASSUME CliInv, UNCHANGED <<work, mode, gateway, doubleFree, open, tun_fd,
                               tun_fd_local>>
    PROVE  CliInv'
  BY DEF CliInv, CliStage

LEMMA OwnedFrame ==
    ASSUME Owned, UNCHANGED <<work, mode, is_working, work_thread>>
    PROVE  Owned'
  BY DEF Owned, Owner

\* Whatever calls the service is not the program.
LEMMA IsAndroid ==
    ASSUME RestOK, NoJava,
           \/ destroy \/ leaked # {} \/ mode = "android"
           \/ \E t \in Threads : ui[t].pc # "idle"
    PROVE  mode = "android"
  BY DEF RestOK, NoJava

\* A call that leaves main alone keeps what is said of main and of the program.
LEMMA CallKeeps ==
    ASSUME IInv, mode = "android", mode' = mode,
           UNCHANGED <<work, tun_fd, tun_fd_local, event, gateway, doubleFree,
                       held, is_working, work_thread>>,
           GlobalsOK', UiOK', RestOK', AndroidInv', PrefInv'
    PROVE  IInv'
<1>1. Staged' /\ Owned' /\ WorkOK'
  BY StagedFrame, OwnedFrame DEF IInv, WorkOK
<1>2. CliInv' /\ NoJava'
  BY DEF CliInv, NoJava
<1> QED BY <1>1, <1>2 DEF IInv

\* The steps of a start that leave main alone keep the invariant.
LEMMA StartKeeps ==
    ASSUME IInv,
           \/ startService \/ establish \/ write_conf \/ get_fd \/ setEnable
    PROVE  IInv'
<1>0. /\ IInv /\ WorkOK /\ GlobalsOK /\ UiOK /\ RestOK
      /\ Owned /\ NoJava /\ AndroidInv /\ PrefInv
  BY DEF IInv
<1>1. CASE startService
  <2>1. /\ mode = "android" /\ tunFd = None
        /\ ui["main"].pc = "idle" /\ Call("main", "establish")
        /\ UNCHANGED <<work, tun_fd, tun_fd_local, event, bytes, gateway,
                       doubleFree, held, open, mode, tunFd, enable, leaked,
                       destroy, mutex, is_working, work_thread, sig, dead,
                       overlap>>
    BY <1>1 DEF startService, UiAt, mainVars, globals, java, jni, StopWrites, Passing
  <2>2. mode = "android"
    BY <1>0, <2>1, UiPlaces, IsAndroid
  <2>3. UiOK' /\ UiWent("main", "establish")
    BY <1>0, <2>1, UiPlaces, UiType
  <2>4. GlobalsOK' /\ RestOK'
    BY <1>0, <2>1 DEF GlobalsOK, RestOK
  <2>5. AndroidInv'
    BY <1>0, <2>1, <2>2, <2>3, UiPlaces
       DEF AndroidInv, AndroidWork, UiWent, InStart
  <2>6. PrefInv'
    BY <1>0, <2>1, <2>2, <2>3, UiPlaces
       DEF PrefInv, AndroidInv, UiWent, InStart
  <2> QED BY <2>1, <2>2, <2>3, <2>4, <2>5, <2>6, CallKeeps
<1>2. CASE establish
  <2>1. /\ ui["main"].pc = "establish"
        /\ \/ \E f \in Fds \ open :
                  /\ UiGo("main", "conf") /\ tunFd' = f /\ open' = open \cup {f}
                  /\ UNCHANGED <<enable, destroy>>
           \/ /\ UiGo("main", "idle") /\ open' = open
              /\ tunFd' = None /\ enable' = FALSE /\ destroy' = TRUE
        /\ UNCHANGED <<work, tun_fd, tun_fd_local, event, bytes, gateway,
                       doubleFree, held, mode, leaked, mutex, is_working,
                       work_thread, sig, dead, overlap>>
    BY <1>2 DEF establish, UiAt, jni
  <2>2. mode = "android"
    BY <1>0, <2>1, UiPlaces, IsAndroid
  <2>3. CASE \E f \in Fds \ open :
                  /\ UiGo("main", "conf") /\ tunFd' = f /\ open' = open \cup {f}
                  /\ UNCHANGED <<enable, destroy>>
    <3>1. PICK f \in Fds \ open :
                  /\ UiGo("main", "conf") /\ tunFd' = f /\ open' = open \cup {f}
                  /\ UNCHANGED <<enable, destroy>>
      BY <2>3
    <3>2. UiOK' /\ UiWent("main", "conf")
      BY <1>0, <3>1, UiPlaces, UiType
    <3>3. GlobalsOK' /\ RestOK'
      BY <1>0, <2>1, <3>1 DEF GlobalsOK, RestOK
    <3>4. f # None
      BY FdsAreNumbers DEF None
    <3>5. AndroidInv'
      BY <1>0, <2>1, <2>2, <3>1, <3>2, <3>4, UiPlaces
         DEF AndroidInv, AndroidWork, UiWent, InStart
    <3>6. PrefInv'
      BY <1>0, <2>1, <2>2, <3>1, <3>2, <3>4, UiPlaces
         DEF PrefInv, AndroidInv, UiWent
    <3> QED BY <2>1, <2>2, <3>2, <3>3, <3>5, <3>6, CallKeeps
  <2>4. CASE /\ UiGo("main", "idle") /\ open' = open
             /\ tunFd' = None /\ enable' = FALSE /\ destroy' = TRUE
    <3>1. UiOK' /\ UiWent("main", "idle")
      BY <1>0, <2>4, UiPlaces, UiType
    <3>2. GlobalsOK' /\ RestOK'
      BY <1>0, <2>1, <2>4 DEF GlobalsOK, RestOK
    <3>3. AndroidInv'
      BY <1>0, <2>1, <2>2, <2>4, <3>1, UiPlaces
         DEF AndroidInv, AndroidWork, UiWent, InStart
    <3>4. PrefInv'
      BY <1>0, <2>1, <2>2, <2>4, <3>1, UiPlaces
         DEF PrefInv, AndroidInv, AndroidWork, UiWent
    <3> QED BY <2>1, <2>2, <2>4, <3>1, <3>2, <3>3, <3>4, CallKeeps
  <2> QED BY <2>1, <2>3, <2>4
<1>3. CASE write_conf
  <2>1. /\ ui["main"].pc = "conf"
        /\ UiGo("main", "get_fd") \/ UiGo("main", "idle")
        /\ UNCHANGED <<work, tun_fd, tun_fd_local, event, bytes, gateway,
                       doubleFree, held, open, mode, tunFd, enable, leaked,
                       destroy, mutex, is_working, work_thread, sig, dead,
                       overlap>>
    BY <1>3 DEF write_conf, UiAt, mainVars, globals, java, jni, StopWrites, Passing
  <2>2. mode = "android"
    BY <1>0, <2>1, UiPlaces, IsAndroid
  <2>0. PICK p \in {"get_fd", "idle"} : UiGo("main", p)
    BY <2>1
  <2>3. UiOK' /\ UiWent("main", p)
    BY <1>0, <2>1, <2>0, UiPlaces, UiType
  <2>4. GlobalsOK' /\ RestOK'
    BY <1>0, <2>1, <2>0 DEF GlobalsOK, RestOK
  <2>5. AndroidInv'
    BY <1>0, <2>1, <2>0, <2>2, <2>3, UiPlaces
       DEF AndroidInv, AndroidWork, UiWent, InStart
  <2>6. PrefInv'
    BY <1>0, <2>1, <2>0, <2>2, <2>3, UiPlaces
       DEF PrefInv, AndroidInv, UiWent, InStart
  <2> QED BY <2>1, <2>2, <2>3, <2>4, <2>5, <2>6, CallKeeps
<1>4. CASE get_fd
  <2>1. /\ ui["main"].pc = "get_fd"
        /\ \/ tunFd = None /\ dead' = "exception" /\ ui' = ui
           \/ /\ tunFd # None /\ dead' = dead
              /\ ui' = [ui EXCEPT !["main"] = [pc |-> "native_start", fd |-> tunFd]]
        /\ UNCHANGED <<work, tun_fd, tun_fd_local, event, bytes, gateway,
                       doubleFree, held, open, mode, tunFd, enable, leaked,
                       destroy, mutex, is_working, work_thread, sig, overlap>>
    BY <1>4 DEF get_fd, UiAt, mainVars, globals, jni
  <2>2. mode = "android"
    BY <1>0, <2>1, UiPlaces, IsAndroid
  <2>3. /\ UiOK'
        /\ \/ ui' = ui
           \/ /\ tunFd # None /\ UiWent("main", "native_start")
              /\ ui'["main"].fd = tunFd
    BY <1>0, <2>1, UiPlaces DEF UiOK, RestOK, UiWent
  <2>4. GlobalsOK' /\ RestOK'
    BY <1>0, <2>1 DEF GlobalsOK, RestOK
  <2>5. AndroidInv'
    BY <1>0, <2>1, <2>2, <2>3, UiPlaces
       DEF AndroidInv, AndroidWork, UiWent, InStart
  <2>6. PrefInv'
    BY <1>0, <2>1, <2>2, <2>3, UiPlaces DEF PrefInv, AndroidInv, UiWent
  <2> QED BY <2>1, <2>2, <2>3, <2>4, <2>5, <2>6, CallKeeps
<1>5. CASE setEnable
  <2>1. /\ ui["main"].pc = "enable" /\ UiGo("main", "idle") /\ enable' = TRUE
        /\ UNCHANGED <<work, tun_fd, tun_fd_local, event, bytes, gateway,
                       doubleFree, held, open, mode, tunFd, leaked, destroy,
                       mutex, is_working, work_thread, sig, dead, overlap>>
    BY <1>5 DEF setEnable, UiAt, mainVars, globals, java, jni, StopWrites, Passing
  <2>2. mode = "android"
    BY <1>0, <2>1, UiPlaces, IsAndroid
  <2>3. UiOK' /\ UiWent("main", "idle")
    BY <1>0, <2>1, UiPlaces, UiType
  <2>4. GlobalsOK' /\ RestOK'
    BY <1>0, <2>1 DEF GlobalsOK, RestOK
  <2>5. AndroidInv'
    BY <1>0, <2>1, <2>2, <2>3, UiPlaces
       DEF AndroidInv, AndroidWork, UiWent, InStart
  <2>6. PrefInv'
    BY <1>0, <2>1, <2>2, <2>3, UiPlaces
       DEF PrefInv, AndroidInv, UiWent, InStart
  <2> QED BY <2>1, <2>2, <2>3, <2>4, <2>5, <2>6, CallKeeps
<1> QED BY <1>1, <1>2, <1>3, <1>4, <1>5

\* So do those of a stop, up to the join and behind it, and the end of the
\* service.
LEMMA StopKeeps ==
    ASSUME IInv, NEW t \in Threads,
           \/ stopService(t) \/ native_stop_service(t) \/ stop_wait(t)
           \/ stop_write(t) \/ close_tunFd(t) \/ setDisable(t)
           \/ onRevoke \/ onDestroy \/ finalize
    PROVE  IInv'
<1>0. /\ IInv /\ WorkOK /\ GlobalsOK /\ UiOK /\ RestOK
      /\ Owned /\ NoJava /\ AndroidInv /\ PrefInv
  BY DEF IInv
<1>1. CASE stopService(t)
  <2>1. /\ mode = "android" /\ ui[t].pc = "idle" /\ Call(t, "native_stop")
        /\ UNCHANGED <<work, tun_fd, tun_fd_local, event, bytes, gateway,
                       doubleFree, held, open, mode, tunFd, enable, leaked,
                       destroy, mutex, is_working, work_thread, sig, dead,
                       overlap>>
    BY <1>1 DEF stopService, UiAt, mainVars, globals, java, jni, StopWrites, Passing
  <2>2. mode = "android"
    BY <1>0, <2>1, UiPlaces, IsAndroid
  <2>3. UiOK' /\ UiWent(t, "native_stop")
    BY <1>0, <2>1, UiPlaces, UiType
  <2>4. GlobalsOK' /\ RestOK'
    BY <1>0, <2>1 DEF GlobalsOK, RestOK
  <2>5. AndroidInv'
    BY <1>0, <2>1, <2>2, <2>3, UiPlaces
       DEF AndroidInv, AndroidWork, UiWent, InStart
  <2>6. PrefInv'
    BY <1>0, <2>1, <2>2, <2>3, UiPlaces
       DEF PrefInv, AndroidInv, UiWent, InStart
  <2> QED BY <2>1, <2>2, <2>3, <2>4, <2>5, <2>6, CallKeeps
<1>2. CASE native_stop_service(t)
  <2>1. /\ ui[t].pc = "native_stop"
        /\ UiGo(t, "wait") \/ UiGo(t, "close")
        /\ mutex' \in {t, mutex}
        /\ UNCHANGED <<work, tun_fd, tun_fd_local, event, bytes, gateway,
                       doubleFree, held, open, mode, tunFd, enable, leaked,
                       destroy, is_working, work_thread, sig, dead, overlap>>
    BY <1>2 DEF native_stop_service, UiAt, mainVars, globals, java, jni,
           StopWrites, Passing
  <2>2. mode = "android"
    BY <1>0, <2>1, UiPlaces, IsAndroid
  <2>0. PICK p \in {"wait", "close"} : UiGo(t, p)
    BY <2>1
  <2>3. UiOK' /\ UiWent(t, p)
    BY <1>0, <2>1, <2>0, UiPlaces, UiType
  <2>4. GlobalsOK' /\ RestOK'
    BY <1>0, <2>1, <2>0 DEF GlobalsOK, RestOK
  <2>5. AndroidInv'
    BY <1>0, <2>1, <2>0, <2>2, <2>3, UiPlaces
       DEF AndroidInv, AndroidWork, UiWent, InStart
  <2>6. PrefInv'
    BY <1>0, <2>1, <2>0, <2>2, <2>3, UiPlaces
       DEF PrefInv, AndroidInv, UiWent, InStart
  <2> QED BY <2>1, <2>2, <2>3, <2>4, <2>5, <2>6, CallKeeps
<1>3. CASE stop_wait(t)
  <2>1. /\ ui[t].pc = "wait"
        /\ UiGo(t, "write") \/ UiGo(t, "wait")
        /\ UNCHANGED <<work, tun_fd, tun_fd_local, event, bytes, gateway,
                       doubleFree, held, open, mode, tunFd, enable, leaked,
                       destroy, mutex, is_working, work_thread, sig, dead,
                       overlap>>
    BY <1>3 DEF stop_wait, UiAt, mainVars, globals, java, jni, StopWrites, Passing
  <2>2. mode = "android"
    BY <1>0, <2>1, UiPlaces, IsAndroid
  <2>0. PICK p \in {"wait", "write"} : UiGo(t, p)
    BY <2>1
  <2>3. UiOK' /\ UiWent(t, p)
    BY <1>0, <2>1, <2>0, UiPlaces, UiType
  <2>4. GlobalsOK' /\ RestOK'
    BY <1>0, <2>1, <2>0 DEF GlobalsOK, RestOK
  <2>5. AndroidInv'
    BY <1>0, <2>1, <2>0, <2>2, <2>3, UiPlaces
       DEF AndroidInv, AndroidWork, UiWent, InStart
  <2>6. PrefInv'
    BY <1>0, <2>1, <2>0, <2>2, <2>3, UiPlaces
       DEF PrefInv, AndroidInv, UiWent, InStart
  <2> QED BY <2>1, <2>2, <2>3, <2>4, <2>5, <2>6, CallKeeps
<1>4. CASE stop_write(t)
  <2>1. /\ ui[t].pc = "write"
        /\ UiGo(t, "join") \/ ui' = ui
        /\ UNCHANGED <<work, tun_fd, tun_fd_local, event, gateway, doubleFree,
                       held, open, mode, tunFd, enable, leaked, destroy, mutex,
                       is_working, work_thread, sig, overlap>>
    BY <1>4 DEF stop_write, UiAt, StopWrites, globals, jni
  <2>2. mode = "android"
    BY <1>0, <2>1, UiPlaces, IsAndroid
  <2>3. UiOK' /\ (UiWent(t, "join") \/ ui' = ui)
    BY <1>0, <2>1, UiPlaces, UiType DEF UiOK
  <2>4. GlobalsOK' /\ RestOK'
    BY <1>0, <2>1 DEF GlobalsOK, RestOK
  <2>5. AndroidInv'
    BY <1>0, <2>1, <2>2, <2>3, UiPlaces
       DEF AndroidInv, AndroidWork, UiWent, InStart
  <2>6. PrefInv'
    BY <1>0, <2>1, <2>2, <2>3, UiPlaces DEF PrefInv, UiWent
  <2> QED BY <2>1, <2>2, <2>3, <2>4, <2>5, <2>6, CallKeeps
<1>5. CASE close_tunFd(t)
  <2>1. /\ ui[t].pc = "close" /\ UiGo(t, "disable")
        /\ open' = open \ {tunFd} /\ tunFd' = None
        /\ overlap' = (overlap \/ is_working
                           \/ \E u \in Threads \ {t} : ui[u].pc \in InStart)
        /\ UNCHANGED <<work, tun_fd, tun_fd_local, event, bytes, gateway,
                       doubleFree, held, mode, enable, leaked, destroy, mutex,
                       is_working, work_thread, sig, dead>>
    BY <1>5 DEF close_tunFd, UiAt, Passing, jni
  <2>2. mode = "android"
    BY <1>0, <2>1, UiPlaces, IsAndroid
  <2>3. UiOK' /\ UiWent(t, "disable")
    BY <1>0, <2>1, UiPlaces, UiType
  <2>4. GlobalsOK' /\ RestOK'
    BY <1>0, <2>1 DEF GlobalsOK, RestOK
  <2>5. AndroidInv'
    <3>1. SUFFICES ASSUME ~overlap' PROVE AndroidInv'
      BY DEF AndroidInv
    <3>2. \A w \in Workers : work[w].pc = "none"
      BY <1>0, <2>1, <2>2, <3>1 DEF Owned, Owner
    <3>3. ui'["main"].pc \notin InStart
      BY <2>1, <2>3, <3>1, UiPlaces DEF UiWent, InStart
    <3> QED BY <1>0, <2>1, <2>2, <3>1, <3>2, <3>3
            DEF AndroidInv, AndroidWork, InStart
  <2>6. PrefInv'
    BY <1>0, <2>1, <2>2, <2>3, UiPlaces DEF PrefInv, UiWent
  <2> QED BY <2>1, <2>2, <2>3, <2>4, <2>5, <2>6, CallKeeps
<1>6. CASE setDisable(t)
  <2>1. /\ ui[t].pc = "disable"
        /\ UiGo(t, "stop_self") \/ UiGo(t, "idle")
        /\ enable' = FALSE
        /\ overlap' = (overlap \/ is_working
                           \/ \E u \in Threads \ {t} : ui[u].pc \in InStart)
        /\ UNCHANGED <<work, tun_fd, tun_fd_local, event, bytes, gateway,
                       doubleFree, held, open, mode, tunFd, leaked, destroy,
                       mutex, is_working, work_thread, sig, dead>>
    BY <1>6 DEF setDisable, UiAt, Passing, mainVars, globals, jni
  <2>2. mode = "android"
    BY <1>0, <2>1, UiPlaces, IsAndroid
  <2>3. PICK p \in {"stop_self", "idle"} : UiOK' /\ UiWent(t, p)
    BY <1>0, <2>1, UiPlaces, UiType
  <2>4. GlobalsOK' /\ RestOK'
    BY <1>0, <2>1 DEF GlobalsOK, RestOK
  <2>5. AndroidInv'
    BY <1>0, <2>1, <2>2, <2>3, UiPlaces
       DEF AndroidInv, AndroidWork, UiWent, InStart
  <2>6. PrefInv'
    BY <1>0, <2>1, <2>2, <2>3, UiPlaces DEF PrefInv, UiWent
  <2> QED BY <2>1, <2>2, <2>3, <2>4, <2>5, <2>6, CallKeeps
<1>7. CASE onRevoke
  <2>1. /\ ui["binder"].pc = "stop_self" /\ UiGo("binder", "idle")
        /\ destroy' = TRUE
        /\ UNCHANGED <<work, tun_fd, tun_fd_local, event, bytes, gateway,
                       doubleFree, held, open, mode, tunFd, enable, leaked,
                       mutex, is_working, work_thread, sig, dead, overlap>>
    BY <1>7 DEF onRevoke, UiAt, mainVars, globals, java, jni, StopWrites, Passing
  <2>2. mode = "android"
    BY <1>0, <2>1, UiPlaces, IsAndroid
  <2>3. UiOK' /\ UiWent("binder", "idle")
    BY <1>0, <2>1, UiPlaces, UiType
  <2>4. GlobalsOK' /\ RestOK'
    BY <1>0, <2>1 DEF GlobalsOK, RestOK
  <2>5. AndroidInv'
    BY <1>0, <2>1, <2>2, <2>3, UiPlaces
       DEF AndroidInv, AndroidWork, UiWent, InStart
  <2>6. PrefInv'
    BY <1>0, <2>1, <2>2, <2>3, UiPlaces
       DEF PrefInv, AndroidInv, UiWent, InStart
  <2> QED BY <2>1, <2>2, <2>3, <2>4, <2>5, <2>6, CallKeeps
<1>8. CASE onDestroy
  <2>1. /\ ui["main"].pc = "idle" /\ destroy /\ destroy' = FALSE
        /\ leaked' = leaked \cup ({tunFd} \ {None}) /\ tunFd' = None
        /\ overlap' = (overlap \/ tunFd # None)
        /\ ui' = ui
        /\ UNCHANGED <<work, tun_fd, tun_fd_local, event, bytes, gateway,
                       doubleFree, held, open, mode, enable, mutex, is_working,
                       work_thread, sig, dead>>
    BY <1>8 DEF onDestroy, UiAt, mainVars, globals, jni
  <2>2. mode = "android"
    BY <1>0, <2>1, IsAndroid
  <2>3. GlobalsOK' /\ UiOK' /\ RestOK'
    BY <1>0, <2>1 DEF GlobalsOK, UiOK, RestOK
  <2>4. AndroidInv'
    BY <1>0, <2>1, <2>2 DEF AndroidInv, AndroidWork, InStart
  <2>5. PrefInv'
    BY <1>0, <2>1, <2>2 DEF PrefInv
  <2> QED BY <2>1, <2>2, <2>3, <2>4, <2>5, CallKeeps
<1>9. CASE finalize
  <2>1. PICK f \in leaked :
        /\ leaked' = leaked \ {f} /\ open' = open \ {f} /\ ui' = ui
        /\ UNCHANGED <<work, tun_fd, tun_fd_local, event, bytes, gateway,
                       doubleFree, held, mode, tunFd, enable, destroy, mutex,
                       is_working, work_thread, sig, dead, overlap>>
    BY <1>9 DEF finalize, jni
  <2>2. mode = "android"
    BY <1>0, <2>1, IsAndroid
  <2>3. GlobalsOK' /\ UiOK' /\ RestOK'
    BY <1>0, <2>1 DEF GlobalsOK, UiOK, RestOK
  <2>4. overlap'
    BY <1>0, <2>1, <2>2 DEF AndroidInv, RestOK
  <2> QED BY <2>1, <2>2, <2>3, <2>4, CallKeeps DEF AndroidInv, PrefInv
<1> QED BY <1>1, <1>2, <1>3, <1>4, <1>5, <1>6, <1>7, <1>8, <1>9

----------------------------------------------------------------------------
(* Main.                                                                   *)

\* A thread is created only when no other one works.
LEMMA CreateKeeps ==
    ASSUME IInv, native_start_service PROVE IInv'
<1>0. /\ IInv /\ WorkOK /\ GlobalsOK /\ UiOK /\ RestOK
      /\ Owned /\ NoJava /\ AndroidInv /\ PrefInv
  BY DEF IInv
<1>1. /\ ui["main"].pc = "native_start" /\ Call("main", "enable")
      /\ UNCHANGED <<tun_fd, tun_fd_local, event, bytes, gateway, doubleFree,
                     held, open, mode, tunFd, enable, leaked, destroy, mutex,
                     sig, dead, overlap>>
  BY DEF native_start_service, UiAt, globals
<1>2. mode = "android"
  BY <1>0, <1>1, UiPlaces, IsAndroid
<1>3. UiOK' /\ UiWent("main", "enable")
  BY <1>0, <1>1, UiPlaces, UiType
<1>4. GlobalsOK'
  BY <1>0, <1>1 DEF GlobalsOK
<1>5. CASE UNCHANGED <<work, is_working, work_thread>>
  <2>1. RestOK'
    BY <1>0, <1>1, <1>5 DEF RestOK
  <2>2. AndroidInv'
    BY <1>0, <1>1, <1>2, <1>3, <1>5, UiPlaces
       DEF AndroidInv, AndroidWork, UiWent, InStart
  <2>3. PrefInv'
    BY <1>0, <1>1, <1>2, <1>3, <1>5, UiPlaces DEF PrefInv, UiWent
  <2> QED BY <1>1, <1>2, <1>3, <1>4, <1>5, <2>1, <2>2, <2>3, CallKeeps
<1>6. CASE /\ ~is_working /\ is_working' = TRUE
           /\ \E w \in Workers :
                 /\ At(w, "none")
                 /\ work' = [work EXCEPT ![w] = [pc |-> "config",
                                                 fd |-> ui["main"].fd, ret |-> 0]]
                 /\ work_thread' = w
  <2>1. PICK w \in Workers :
           /\ work' = [work EXCEPT ![w] = [pc |-> "config",
                                           fd |-> ui["main"].fd, ret |-> 0]]
           /\ work_thread' = w
    BY <1>6
  <2>2. \A v \in Workers : work[v].pc = "none"
    BY <1>0, <1>2, <1>6 DEF Owned, Owner
  <2>3. /\ work'[w] = [pc |-> "config", fd |-> ui["main"].fd, ret |-> 0]
        /\ \A v \in Workers : v # w => work'[v] = work[v]
        /\ "config" \in InnerSet /\ ui["main"].fd \in Fds \cup {None}
    BY <1>0, <2>1, StepSets, UiPlaces DEF WorkOK, UiOK
  <2>4. \A v \in Workers : work'[v].pc # "none" =>
             /\ work'[v].pc = "config" /\ work'[v].ret = 0
             /\ work'[v].fd = ui["main"].fd
    BY <2>2, <2>3
  <2>5. WorkOK'
    BY <1>0, <2>1, <2>3, Places DEF WorkOK
  <2>6. RestOK'
    BY <1>0, <1>1, <1>6, <2>1 DEF RestOK
  <2>7. Owned' /\ NoJava' /\ CliInv'
    BY <1>1, <1>2, <1>6, <2>1, <2>2, <2>3 DEF Owned, Owner, NoJava, CliInv
  <2>8. Staged'
    <3>1. Stage("none", 0)
      BY <1>0, <2>2 DEF IInv, Staged
    <3>2. Stage("config", 0)'
      BY <1>1, <3>1, StepSets DEF Stage, Served, Running
    <3>3. ASSUME NEW v \in Workers, work'[v].pc # "none"
          PROVE  Stage(work[v].pc, work[v].ret)'
      BY <3>2, <3>3, <2>4 DEF Stage
    <3>4. ~(\A v \in Workers : work'[v].pc = "none")
      BY <2>3
    <3> QED BY <3>3, <3>4, Zenon DEF Staged
  <2>9. AndroidInv'
    <3>1. "config" \notin Served
      BY StepSets DEF Served, Running
    <3>2. AndroidInv /\ ~overlap =>
              ui["main"].fd = tunFd /\ tunFd # None
      BY <1>1, <1>2 DEF AndroidInv, InStart
    <3>3. AndroidInv /\ ~overlap => AndroidWork'
      BY <1>1, <3>1, <3>2, <2>4 DEF AndroidWork
    <3> QED BY <1>0, <1>1, <1>2, <1>3, <3>3, UiPlaces
            DEF AndroidInv, UiWent, InStart
  <2>10. PrefInv'
    <3>1. ui'["main"].pc = "enable" /\ \E v \in Workers : work'[v].pc # "none"
      BY <1>3, <2>3 DEF UiWent
    <3>2. (\A t \in Threads : ui'[t].pc # "disable") =>
              \A t \in Threads : ui[t].pc # "disable"
      BY <1>1, <1>3 DEF UiWent
    <3> QED BY <1>0, <1>1, <3>1, <3>2 DEF PrefInv
  <2> QED BY <1>3, <1>4, <2>5, <2>6, <2>7, <2>8, <2>9, <2>10 DEF IInv
<1> QED BY <1>5, <1>6 DEF native_start_service

\* Behind the join no thread is left.
LEMMA JoinKeeps ==
    ASSUME IInv, NEW t \in Threads, stop_join(t) PROVE IInv'
<1>0. /\ IInv /\ WorkOK /\ GlobalsOK /\ UiOK /\ RestOK
      /\ Owned /\ NoJava /\ AndroidInv /\ PrefInv
  BY DEF IInv
<1>1. /\ ui[t].pc = "join" /\ UiGo(t, "close") /\ work[work_thread].pc = "exit"
      /\ work' = [work EXCEPT ![work_thread] = NoWork]
      /\ is_working' = FALSE /\ mutex' = Nobody
      /\ UNCHANGED <<tun_fd, tun_fd_local, event, bytes, gateway, doubleFree,
                     held, open, mode, tunFd, enable, leaked, destroy,
                     work_thread, sig, dead, overlap>>
  BY DEF stop_join, UiAt, At, globals
<1>2. mode = "android"
  BY <1>0, <1>1, UiPlaces, IsAndroid
<1>3. UiOK' /\ UiWent(t, "close")
  BY <1>0, <1>1, UiPlaces, UiType
<1>4. GlobalsOK'
  BY <1>0, <1>1 DEF GlobalsOK
<1>5. RestOK'
  BY <1>0, <1>1 DEF RestOK
<1>6. WorkOK'
  <2>1. NoWork \in [pc : WorkPCs, fd : Fds \cup {None}, ret : -5 .. 0]
    BY DEF NoWork, WorkPCs
  <2> QED BY <1>0, <1>1, <2>1 DEF WorkOK
<1>7. \A v \in Workers : work'[v].pc = "none"
  BY <1>0, <1>1, <1>2 DEF Owned, Owner, WorkOK, NoWork
<1>8. Owned' /\ NoJava' /\ CliInv'
  BY <1>1, <1>2, <1>7 DEF Owned, NoJava, CliInv
<1>9. Staged'
  <2>1. CASE work_thread \in Workers
    <3>1. Stage("exit", work[work_thread].ret)
      BY <1>0, <1>1, <2>1 DEF IInv, Staged
    <3> QED BY <1>1, <1>7, <3>1, StepSets DEF Staged, Stage, Served, Running
  <2>2. CASE work_thread \notin Workers
    <3>1. \A v \in Workers : work[v].pc = "none"
      BY <1>0, <1>2, <2>2 DEF Owned, Owner
    <3> QED BY <1>0, <1>1, <1>7, <3>1, StepSets
            DEF IInv, Staged, Stage, Served, Running
  <2> QED BY <2>1, <2>2
<1>10. AndroidInv'
  BY <1>0, <1>1, <1>2, <1>3, <1>7, UiPlaces
     DEF AndroidInv, AndroidWork, UiWent, InStart
<1>11. PrefInv'
  BY <1>0, <1>1, <1>2, <1>3, UiPlaces DEF PrefInv, UiWent
<1> QED BY <1>3, <1>4, <1>5, <1>6, <1>8, <1>9, <1>10, <1>11 DEF IInv

\* Only a thread that has been started makes a step of main.
LEMMA Started ==
    ASSUME NEW w \in Workers, MainStep(w) PROVE work[w].pc # "none"
<1>1. CASE main_inner(w)
  BY <1>1, StepSets DEF main_inner, At, InnerSet
<1>2. CASE tasks_init(w)
  BY <1>2, StepSets DEF tasks_init, At, TaskSet
<1> QED BY <1>1, <1>2 DEF MainStep, tunnel_init, tunnel_config, gateway_init,
           event_task_init, tunnel_run, fini, fini_gateway, cleanup, At

\* A step of main keeps the invariant.
LEMMA WorkerKeeps ==
    ASSUME IInv, NEW w \in Workers, worker(w) PROVE IInv'
<1>0. /\ IInv /\ WorkOK /\ GlobalsOK /\ UiOK /\ RestOK
      /\ Owned /\ NoJava /\ AndroidInv /\ PrefInv
  BY DEF IInv
<1>1. /\ MainStep(w) /\ work[w].pc # "none"
      /\ UNCHANGED <<mode, ui, tunFd, enable, leaked, destroy, mutex, is_working,
                     work_thread, sig, dead, overlap>>
  BY Started DEF worker, java, jni
<1>2. Local(w)
  BY <1>0, <1>1 DEF IInv, Staged, CliInv, AndroidInv, AndroidWork, Local, OnCli,
     OnAndroid
<1>3. /\ WorkOK' /\ GlobalsOK' /\ Local(w)' /\ work'[w].pc # "none"
      /\ \A v \in Workers : v # w => work'[v] = work[v]
  BY <1>0, <1>1, <1>2, MainKeeps
<1>4. \A v \in Workers : v # w => work[v].pc = "none" /\ work'[v].pc = "none"
  BY <1>0, <1>1, <1>3 DEF Owned, Owner
<1>5. UiOK' /\ RestOK' /\ NoJava'
  BY <1>0, <1>1 DEF UiOK, RestOK, NoJava
<1>6. Owned'
  BY <1>0, <1>1, <1>4 DEF Owned, Owner
<1>7. Staged'
  BY <1>3, <1>4 DEF Staged, Local
<1>8. CliInv'
  BY <1>3, <1>4 DEF CliInv, Local, OnCli
<1>9. AndroidInv'
  BY <1>0, <1>1, <1>3, <1>4 DEF AndroidInv, AndroidWork, Local, OnAndroid
<1>10. PrefInv'
  BY <1>0, <1>1, <1>3 DEF PrefInv
<1> QED BY <1>3, <1>5, <1>6, <1>7, <1>8, <1>9, <1>10 DEF IInv

\* The handler of SIGINT only writes.
LEMMA SignalKeeps ==
    ASSUME IInv, sigint_handler \/ sigint_wait \/ sigint_write \/ UNCHANGED vars
    PROVE  IInv'
<1>0. /\ IInv /\ WorkOK /\ GlobalsOK /\ UiOK /\ RestOK
      /\ Owned /\ NoJava /\ AndroidInv /\ PrefInv
  BY DEF IInv
<1>1. UNCHANGED <<ui, work, tun_fd, tun_fd_local, event, gateway, doubleFree,
                     held, open, mode, tunFd, enable, leaked, destroy, mutex,
                     is_working, work_thread, overlap>>
  BY DEF sigint_handler, sigint_wait, sigint_write, StopWrites, vars, mainVars,
     globals, java, jni
<1>2. WorkOK' /\ GlobalsOK' /\ UiOK' /\ RestOK'
  BY <1>0, <1>1 DEF WorkOK, GlobalsOK, UiOK, RestOK
<1>3. Staged' /\ CliInv' /\ Owned' /\ NoJava'
  BY <1>0, <1>1, StagedFrame, CliFrame, OwnedFrame DEF IInv, NoJava
<1>4. AndroidInv' /\ PrefInv'
  BY <1>0, <1>1 DEF AndroidInv, AndroidWork, PrefInv
<1> QED BY <1>2, <1>3, <1>4 DEF IInv

\* The invariant holds at the start ...
LEMMA InitInv == ASSUME Init PROVE IInv
<1>1. UiOK /\ RestOK /\ GlobalsOK /\ \A t \in Threads : ui[t].pc = "idle"
  BY DEF Init, MainInit, UiOK, UiPCs, RestOK, GlobalsOK
<1>2. PICK m \in {"android", "cli"} :
         /\ mode = m
         /\ work = IF m = "android" THEN [w \in Workers |-> NoWork]
                   ELSE [w \in Workers |-> IF w = Main
                            THEN [NoWork EXCEPT !.pc = "config"] ELSE NoWork]
  BY DEF Init
<1>3. \A w \in Workers :
         \/ work[w] = [pc |-> "none", fd |-> None, ret |-> 0]
         \/ /\ mode = "cli" /\ w = Main
            /\ work[w] = [pc |-> "config", fd |-> None, ret |-> 0]
  BY <1>2 DEF NoWork
<1>4. WorkOK
  BY <1>2, <1>3, StepSets DEF WorkOK, WorkPCs
<1>5. Owned /\ NoJava
  BY <1>1, <1>3 DEF Owned, Owner, NoJava, Init
<1>6. Staged /\ CliInv
  BY <1>3, StepSets
     DEF Init, MainInit, Staged, Stage, CliInv, CliStage, Served, Running
<1>7. AndroidInv /\ PrefInv
  BY <1>1, <1>3, UiPlaces DEF Init, MainInit, AndroidInv, AndroidWork, PrefInv,
     InStart
<1> QED BY <1>1, <1>4, <1>5, <1>6, <1>7 DEF IInv

\* ... and every step keeps it.
LEMMA NextInv == ASSUME IInv, [Next]_vars PROVE IInv'
<1>1. CASE Start
  BY <1>1, StartKeeps, CreateKeeps DEF Start
<1>2. ASSUME NEW t \in Threads, stopService(t) \/ Stop(t)
      PROVE  IInv'
  BY <1>2, StopKeeps, JoinKeeps DEF Stop
<1>3. CASE onRevoke \/ onDestroy \/ finalize
  BY <1>3, StopKeeps, UiPlaces
<1>4. CASE sigint_handler \/ sigint_wait \/ sigint_write \/ Ended \/ UNCHANGED vars
  BY <1>4, SignalKeeps DEF Ended
<1>5. ASSUME NEW w \in Workers, worker(w)
      PROVE  IInv'
  BY <1>5, WorkerKeeps
<1> QED BY <1>1, <1>2, <1>3, <1>4, <1>5 DEF Next

----------------------------------------------------------------------------
\* So the invariant always holds.
LEMMA AlwaysInv == Spec => []IInv
  BY InitInv, NextInv, PTL DEF Spec

\* hev-jni.c never lets two threads run main at a time.
THEOREM ServiceOneTunnel == Spec => []OneTunnel
<1>1. IInv => OneTunnel
  BY DEF IInv, RestOK, Owned, Owner, OneTunnel, Alive
<1> QED BY <1>1, AlwaysInv, PTL

\* The descriptor of a tunnel stays open as long as main uses it, unless calls
\* overlapped.
THEOREM ServiceFdOpen == Spec => []FdOpenWhileUsed
<1>1. IInv => FdOpenWhileUsed
  BY DEF IInv, RestOK, CliInv, AndroidInv, AndroidWork, FdOpenWhileUsed, Alive
<1> QED BY <1>1, AlwaysInv, PTL

\* What a start took is given back when main has returned, and the pcbs of the
\* gateway are freed once.
THEOREM ServiceReleased == Spec => []Released
<1>1. ASSUME IInv PROVE Released
  <2>1. ~overlap => ~doubleFree
    BY <1>1 DEF IInv, RestOK, CliInv, AndroidInv
  <2>2. ASSUME NEW w \in Workers, At(w, "exit")
        PROVE  /\ ~event.set /\ ~event.open /\ gateway # "live" /\ ~tun_fd_local
               /\ held \cap TaskSet = {}
               /\ work[w].ret = 0 => held = {} /\ (mode = "cli" => open = {})
    BY <1>1, <2>2, StepSets DEF IInv, At, Staged, Stage, CliInv, CliStage, Served,
       Running
  <2> QED BY <2>1, <2>2 DEF Released
<1> QED BY <1>1, AlwaysInv, PTL

\* Between calls the service, the native code and the preference agree, unless
\* calls overlapped.
THEOREM ServiceAgrees == Spec => []ServiceConsistent
<1>1. ASSUME IInv PROVE ServiceConsistent
  <2>1. CASE mode = "android"
    BY <1>1, <2>1, UiPlaces DEF IInv, AndroidInv, AndroidWork, PrefInv,
       ServiceConsistent
  <2>2. CASE mode = "cli"
    BY <1>1, <2>2 DEF IInv, NoJava, ServiceConsistent
  <2> QED BY <1>1, <2>1, <2>2 DEF IInv, RestOK
<1> QED BY <1>1, AlwaysInv, PTL
============================================================================

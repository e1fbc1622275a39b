---------------------------- MODULE HevService -----------------------------
(***************************************************************************)
(* Who starts and stops a tunnel.  In the Android library these are the    *)
(* methods of TProxyService.java, called on the "main" thread for an       *)
(* intent and on a "binder" thread for onRevoke, and the native methods of *)
(* hev-jni.c under a mutex, with one thread that runs main.  In the        *)
(* program (mode "cli") main runs on the only thread of the process and    *)
(* the SIGINT handler interrupts it.                                       *)
(*                                                                         *)
(* Intents, revocations and signals come in any number and order; nothing  *)
(* in the state counts them.  The calls of the system are external:        *)
(* establish takes a free descriptor or gives null, stopSelf destroys the  *)
(* service object some time later, and a descriptor whose object is gone   *)
(* is closed by its finalizer.  A write to a closed descriptor ends the    *)
(* process where assertions are compiled in and is ignored where not.      *)
(***************************************************************************)
EXTENDS HevMain

VARIABLES
    mode,          \* "android" or "cli"
    ui,            \* [pc, fd] of the Java threads
    tunFd, enable, \* the field of the service, and the stored preference
    leaked,        \* descriptors whose object is garbage
    destroy,       \* stopSelf was called
    mutex, is_working, work_thread,   \* hev-jni.c
    sig,           \* the SIGINT handler: "none", "wait" or "write"
    dead,          \* the process ended: "no", "exception" or "assert"
    overlap        \* a stop passed a start that was under way

java == <<ui, tunFd, enable, leaked, destroy>>
jni == <<mutex, is_working, work_thread>>
vars == <<mainVars, mode, java, jni, sig, dead, overlap>>

Threads == {"main", "binder"}
Nobody == "nobody"
Main == CHOOSE v \in Workers : TRUE

InStart == {"establish", "conf", "get_fd", "native_start", "enable"}
InStop == {"native_stop", "wait", "write", "join", "close", "disable"}

TypeOK ==
    /\ MainTypeOK
    /\ mode \in {"android", "cli"}
    /\ ui \in [Threads -> [pc : {"idle", "stop_self"} \cup InStart \cup InStop,
                           fd : Fds \cup {None}]]
    /\ tunFd \in Fds \cup {None} /\ enable \in BOOLEAN
    /\ leaked \subseteq Fds /\ destroy \in BOOLEAN
    /\ mutex \in Threads \cup {Nobody} /\ is_working \in BOOLEAN
    /\ work_thread \in Workers \cup {Nobody}
    /\ sig \in {"none", "wait", "write"}
    /\ dead \in {"no", "exception", "assert"} /\ overlap \in BOOLEAN

Init ==
    /\ MainInit
    /\ \E m \in {"android", "cli"} :
           /\ mode = m
           /\ work = IF m = "android" THEN [w \in Workers |-> NoWork]
                     ELSE [w \in Workers |-> IF w = Main
                              THEN [NoWork EXCEPT !.pc = "config"] ELSE NoWork]
    /\ ui = [t \in Threads |-> [pc |-> "idle", fd |-> None]]
    /\ tunFd = None /\ enable = FALSE /\ leaked = {} /\ destroy = FALSE
    /\ mutex = Nobody /\ is_working = FALSE /\ work_thread = Nobody
    /\ sig = "none" /\ dead = "no" /\ overlap = FALSE

UiAt(t, where) == dead = "no" /\ ui[t].pc = where
UiGo(t, where) == ui' = [ui EXCEPT ![t].pc = where]
Call(t, where) == ui' = [ui EXCEPT ![t] = [pc |-> where, fd |-> None]]

\* Another thread is in startService, or has been since this one found that
\* nothing is working.
Passing(t) == is_working \/ \E u \in Threads \ {t} : ui[u].pc \in InStart

----------------------------------------------------------------------------
\* A start intent on the main thread: startService, up to establish.
startService ==
    /\ mode = "android" /\ UiAt("main", "idle") /\ ~destroy
    /\ tunFd = None
    /\ Call("main", "establish")
    /\ UNCHANGED <<mainVars, mode, tunFd, enable, leaked, destroy, jni, sig, dead,
                   overlap>>

establish ==
    /\ UiAt("main", "establish")
    /\ \/ \E f \in Fds \ open :
              /\ UiGo("main", "conf")
              /\ tunFd' = f /\ open' = open \cup {f}
              /\ UNCHANGED <<enable, destroy>>
       \/ /\ UiGo("main", "idle")
          /\ tunFd' = None /\ enable' = FALSE /\ destroy' = TRUE
          /\ open' = open
    /\ UNCHANGED <<work, tun_fd, tun_fd_local, event, bytes, gateway, doubleFree,
                   held, mode, leaked, jni, sig, dead, overlap>>

\* The configuration file is written; an IOException leaves startService
\* with tunFd set and no tunnel.
write_conf ==
    /\ UiAt("main", "conf")
    /\ \E next \in {"get_fd", "idle"} : UiGo("main", next)
    /\ UNCHANGED <<mainVars, mode, tunFd, enable, leaked, destroy, jni, sig, dead,
                   overlap>>

\* tunFd.getFd (), evaluated before the call of TProxyStartService.
get_fd ==
    /\ UiAt("main", "get_fd")
    /\ IF tunFd = None
       THEN dead' = "exception" /\ ui' = ui
       ELSE /\ dead' = dead
            /\ ui' = [ui EXCEPT !["main"] = [pc |-> "native_start", fd |-> tunFd]]
    /\ UNCHANGED <<mainVars, mode, tunFd, enable, leaked, destroy, jni, sig, overlap>>

\* Mutant: a tunnel that works is not noticed.
native_start_service_Again ==
    /\ UiAt("main", "native_start") /\ mutex = Nobody
    /\ Call("main", "enable")
    /\ \/ /\ \E w \in Workers :
                 /\ At(w, "none")
                 /\ work' = [work EXCEPT ![w] = [pc |-> "config",
                                                 fd |-> ui["main"].fd, ret |-> 0]]
                 /\ work_thread' = w
          /\ is_working' = TRUE
       \/ UNCHANGED <<work, is_working, work_thread>>
    /\ UNCHANGED <<globals, mode, tunFd, enable, leaked, destroy, mutex, sig, dead,
                   overlap>>

\* native_start_service.  A thread that main has left, with an error, still
\* counts as working.  pthread_create may fail.
native_start_service ==
    /\ UiAt("main", "native_start") /\ mutex = Nobody
    /\ Call("main", "enable")
    /\ \/ /\ ~is_working
          /\ \E w \in Workers :
                 /\ At(w, "none")
                 /\ work' = [work EXCEPT ![w] = [pc |-> "config",
                                                 fd |-> ui["main"].fd, ret |-> 0]]
                 /\ work_thread' = w
          /\ is_working' = TRUE
       \/ UNCHANGED <<work, is_working, work_thread>>
    /\ UNCHANGED <<globals, mode, tunFd, enable, leaked, destroy, mutex, sig, dead,
                   overlap>>

setEnable ==
    /\ UiAt("main", "enable")
    /\ UiGo("main", "idle")
    /\ enable' = TRUE
    /\ UNCHANGED <<mainVars, mode, tunFd, leaked, destroy, jni, sig, dead, overlap>>

----------------------------------------------------------------------------
\* A disconnect intent on the main thread or onRevoke on the binder thread.
stopService(t) ==
    /\ mode = "android" /\ UiAt(t, "idle") /\ ~destroy
    /\ Call(t, "native_stop")
    /\ UNCHANGED <<mainVars, mode, tunFd, enable, leaked, destroy, jni, sig, dead,
                   overlap>>

\* native_stop_service, up to the poll of hev_socks5_tunnel_quit.
native_stop_service(t) ==
    /\ UiAt(t, "native_stop") /\ mutex = Nobody
    /\ IF is_working
       THEN UiGo(t, "wait") /\ mutex' = t
       ELSE UiGo(t, "close") /\ mutex' = mutex
    /\ UNCHANGED <<mainVars, mode, tunFd, enable, leaked, destroy, is_working,
                   work_thread, sig, dead, overlap>>

\* One turn of the loop of hev_socks5_tunnel_stop.
stop_wait(t) ==
    /\ UiAt(t, "wait")
    /\ UiGo(t, IF StopFinds THEN "write" ELSE "wait")
    /\ UNCHANGED <<mainVars, mode, tunFd, enable, leaked, destroy, jni, sig, dead,
                   overlap>>

stop_write(t) ==
    /\ UiAt(t, "write")
    /\ \/ StopWrites /\ UiGo(t, "join") /\ dead' = dead
       \/ /\ ~event.open
          /\ \/ dead' = "assert" /\ ui' = ui
             \/ dead' = dead /\ UiGo(t, "join")
          /\ UNCHANGED globals
    /\ UNCHANGED <<work, mode, tunFd, enable, leaked, destroy, jni, sig, overlap>>

\* pthread_join and the end of native_stop_service.
stop_join(t) ==
    /\ UiAt(t, "join") /\ At(work_thread, "exit")
    /\ UiGo(t, "close")
    /\ work' = [work EXCEPT ![work_thread] = NoWork]
    /\ is_working' = FALSE /\ mutex' = Nobody
    /\ UNCHANGED <<globals, mode, tunFd, enable, leaked, destroy, work_thread, sig,
                   dead, overlap>>

close_tunFd(t) ==
    /\ UiAt(t, "close")
    /\ UiGo(t, "disable")
    /\ open' = open \ {tunFd} /\ tunFd' = None
    /\ overlap' = (overlap \/ Passing(t))
    /\ UNCHANGED <<work, tun_fd, tun_fd_local, event, bytes, gateway, doubleFree,
                   held, mode, enable, leaked, destroy, jni, sig, dead>>

\* Mutant: the preference is not stored.
setDisable_Kept(t) ==
    /\ UiAt(t, "disable")
    /\ UiGo(t, IF t = "binder" THEN "stop_self" ELSE "idle")
    /\ overlap' = (overlap \/ Passing(t))
    /\ UNCHANGED <<mainVars, mode, tunFd, enable, leaked, destroy, jni, sig, dead>>

setDisable(t) ==
    /\ UiAt(t, "disable")
    /\ UiGo(t, IF t = "binder" THEN "stop_self" ELSE "idle")
    /\ enable' = FALSE
    /\ overlap' = (overlap \/ Passing(t))
    /\ UNCHANGED <<mainVars, mode, tunFd, leaked, destroy, jni, sig, dead>>

\* super.onRevoke () stops the service, also one started again meanwhile.
onRevoke ==
    /\ UiAt("binder", "stop_self")
    /\ UiGo("binder", "idle")
    /\ destroy' = TRUE
    /\ UNCHANGED <<mainVars, mode, tunFd, enable, leaked, jni, sig, dead, overlap>>

\* onDestroy stops nothing: the object and its field are gone.
onDestroy ==
    /\ UiAt("main", "idle") /\ destroy
    /\ destroy' = FALSE
    /\ leaked' = leaked \cup ({tunFd} \ {None}) /\ tunFd' = None
    /\ overlap' = (overlap \/ tunFd # None)
    /\ UNCHANGED <<mainVars, mode, ui, enable, jni, sig, dead>>

finalize == \E f \in leaked :
    /\ dead = "no"
    /\ leaked' = leaked \ {f} /\ open' = open \ {f}
    /\ UNCHANGED <<work, tun_fd, tun_fd_local, event, bytes, gateway, doubleFree,
                   held, mode, ui, tunFd, enable, destroy, jni, sig, dead, overlap>>

----------------------------------------------------------------------------
\* SIGINT: the handler runs hev_socks5_tunnel_stop on the thread of main.
sigint_handler ==
    /\ mode = "cli" /\ dead = "no" /\ sig = "none" /\ Alive(Main)
    /\ sig' = "wait"
    /\ UNCHANGED <<mainVars, mode, java, jni, dead, overlap>>

sigint_wait ==
    /\ dead = "no" /\ sig = "wait"
    /\ sig' = IF StopFinds THEN "write" ELSE "wait"
    /\ UNCHANGED <<mainVars, mode, java, jni, dead, overlap>>

sigint_write ==
    /\ dead = "no" /\ sig = "write"
    /\ \/ StopWrites /\ sig' = "none" /\ dead' = dead
       \/ /\ ~event.open
          /\ \/ dead' = "assert" /\ sig' = sig
             \/ dead' = dead /\ sig' = "none"
          /\ UNCHANGED globals
    /\ UNCHANGED <<work, mode, java, jni, overlap>>

\* A step of main, which waits for a handler that interrupted it.
worker(w) ==
    /\ dead = "no" /\ sig = "none"
    /\ MainStep(w)
    /\ UNCHANGED <<mode, java, jni, sig, dead, overlap>>

\* The process has ended.
Ended ==
    /\ dead # "no" \/ (mode = "cli" /\ At(Main, "exit"))
    /\ UNCHANGED vars

Start == startService \/ establish \/ write_conf \/ get_fd \/ native_start_service
             \/ setEnable
Stop(t) == native_stop_service(t) \/ stop_wait(t) \/ stop_write(t) \/ stop_join(t)
             \/ close_tunFd(t) \/ setDisable(t)

Next ==
    \/ Start \/ onRevoke \/ onDestroy \/ finalize
    \/ \E t \in Threads : stopService(t) \/ Stop(t)
    \/ sigint_handler \/ sigint_wait \/ sigint_write
    \/ \E w \in Workers : worker(w)
    \/ Ended

Spec == Init /\ [][Next]_vars

\* A thread that stops the tunnel or runs it goes on whenever it can; whether
\* a start or a stop is asked for, and completed, is open.  Strong fairness:
\* main goes on between two signals, and a thread gets the mutex that is free
\* again and again.
FairSpec ==
    /\ Spec
    /\ SF_vars(\E w \in Workers : worker(w))
    /\ \A t \in Threads :
           /\ SF_vars(native_stop_service(t))
           /\ WF_vars(Stop(t) /\ ui[t].pc # "native_stop")
    /\ WF_vars(sigint_wait \/ sigint_write)

----------------------------------------------------------------------------
\* hev-jni.c keeps the globals of the tunnel to one thread: two threads never
\* run main at a time, however starts and stops of the two Java threads mix.
OneTunnel == \A v, w \in Workers : Alive(v) /\ Alive(w) => v = w

\* The descriptor main was started with stays open as long as main uses it,
\* since stopService closes it only behind the join; a stop that overlaps a
\* start is excepted, where startService passes on a descriptor that may be
\* closed by then.
FdOpenWhileUsed ==
    \A w \in Workers :
        Alive(w) /\ work[w].fd # None /\ ~overlap => work[w].fd \in open

\* What a start takes is given back, once.  When main has returned, after a
\* failure or not, no stop finds the event descriptors, and the gateway and
\* the tasks are gone; after a run all is given back, the device that main
\* opened included.  The pcbs of the gateway are freed only once although
\* gateway_fini keeps the pointers and runs after any failure of init: a later
\* start that fails before gateway_init needs a descriptor that is closed.
Released ==
    /\ \A w \in Workers : At(w, "exit") =>
        /\ ~event.set /\ ~event.open /\ gateway # "live" /\ ~tun_fd_local
        /\ held \cap TaskSet = {}
        /\ work[w].ret = 0 => held = {} /\ (mode = "cli" => open = {})
    /\ ~overlap => ~doubleFree

\* Between calls the service, the native code and the stored preference
\* agree: a tunnel that works has its descriptor and is enabled, and nothing
\* is enabled without a descriptor.  Overlapping calls are excepted.
ServiceConsistent ==
    (\A t \in Threads : ui[t].pc = "idle") /\ dead = "no" /\ ~overlap =>
        /\ is_working => tunFd # None /\ enable
        /\ enable => tunFd # None

NoFailedStart == [](\A w \in Workers : work[w].ret = 0)

\* A stop takes effect, unless main failed: then is_working stays set, the
\* loop of hev_socks5_tunnel_stop has nothing to wait for, and the mutex of
\* hev-jni.c is never free again.  stopService returns, and a SIGINT ends the
\* program if it comes while the event descriptors are open; before that the
\* handler waits for them on the very thread that would open them.
StopReturns ==
    NoFailedStart =>
        /\ \A t \in Threads : (ui[t].pc \in InStop)
                                  ~> (ui[t].pc \notin InStop \/ dead # "no")
        /\ [](sig # "none" => event.open)
               => ((sig # "none") ~> At(Main, "exit"))
============================================================================

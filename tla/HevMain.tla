------------------------------ MODULE HevMain ------------------------------
(***************************************************************************)
(* How a tunnel starts and ends: hev_socks5_tunnel_main (hev-main.c) and   *)
(* the init, run, fini and stop of hev-socks5-tunnel.c.  A thread that     *)
(* runs main is an element of Workers; the globals of the two files are    *)
(* variables shared by all of them.                                        *)
(*                                                                         *)
(* A start takes its resources one after the other and each may fail.      *)
(* held has those that are only ever taken and given back; the descriptor  *)
(* of the TUN device, the socket pair of the event task and the two lwIP   *)
(* pcbs of the gateway have variables of their own, since other threads    *)
(* or a later start meet them.  What happens while the tunnel runs is the  *)
(* subject of HevSocks5Tunnel; here the run ends once a byte has come      *)
(* through the socket pair.                                                *)
(***************************************************************************)
EXTENDS Integers, Sequences

CONSTANTS Fds,      \* numbers the system hands out for TUN descriptors
          Workers   \* threads that may run main

None == -1

ASSUME FdsAreNumbers == Fds \subseteq Nat

VARIABLES
    work,          \* [pc, fd, ret] of each thread that runs main
    tun_fd, tun_fd_local,
    event,         \* event_fds: [set, open], open until it is closed
    bytes,         \* in the socket pair
    gateway,       \* the pcbs tcp and udp point to: "null", "live", "freed"
    doubleFree,    \* gateway_fini freed them once more
    held,          \* resources taken and not given back
    open           \* TUN descriptors that are open in the process

globals == <<tun_fd, tun_fd_local, event, bytes, gateway, doubleFree, held,
             open>>
mainVars == <<work, globals>>

\* The steps of a start, in the order of the code.  Those of Inner belong to
\* hev_socks5_tunnel_main_inner, which returns -k when the k-th fails.
Inner == <<"config", "logger", "socks5_logger", "task_system">>
Tasks == <<"event_task", "lwip_io", "lwip_timer", "mapped_dns">>
InnerSet == {Inner[k] : k \in 1 .. 4}
TaskSet == {Tasks[k] : k \in 1 .. 4}

WorkPCs == {"none", "tunnel", "tunnel_config", "gateway", "event", "run",
            "fini", "fini_gateway", "cleanup", "exit"}
               \cup InnerSet \cup TaskSet

MainTypeOK ==
    /\ work \in [Workers -> [pc : WorkPCs, fd : Fds \cup {None}, ret : -5 .. 0]]
    /\ tun_fd \in Fds \cup {None} /\ tun_fd_local \in BOOLEAN
    /\ event \in [set : BOOLEAN, open : BOOLEAN] /\ bytes \in 0 .. 2
    /\ gateway \in {"null", "live", "freed"} /\ doubleFree \in BOOLEAN
    /\ held \subseteq InnerSet \cup TaskSet
    /\ open \subseteq Fds

NoWork == [pc |-> "none", fd |-> None, ret |-> 0]

MainInit ==
    /\ tun_fd = None /\ tun_fd_local = FALSE
    /\ event = [set |-> FALSE, open |-> FALSE] /\ bytes = 0
    /\ gateway = "null" /\ doubleFree = FALSE
    /\ held = {} /\ open = {}

At(w, where) == work[w].pc = where
Go(w, where) == work' = [work EXCEPT ![w].pc = where]
Fail(w, where, ret) == work' = [work EXCEPT ![w].pc = where, ![w].ret = ret]

----------------------------------------------------------------------------
\* hev_socks5_tunnel_main_inner up to hev_socks5_tunnel_init.  What was
\* taken before a failure is not given back.
main_inner(w) == \E k \in 1 .. 4 :
    /\ At(w, Inner[k])
    /\ \/ /\ Go(w, IF k = 4 THEN "tunnel" ELSE Inner[k + 1])
          /\ held' = held \cup {Inner[k]}
       \/ Fail(w, "exit", -k) /\ held' = held
    /\ UNCHANGED <<tun_fd, tun_fd_local, event, bytes, gateway, doubleFree, open>>

\* tunnel_init: the descriptor of the caller is made non-blocking, which
\* fails when it is not open; without one a device is opened ...
tunnel_init(w) ==
    /\ At(w, "tunnel")
    /\ \/ /\ work[w].fd \in open
          /\ Go(w, "gateway")
          /\ tun_fd' = work[w].fd /\ open' = open
       \/ /\ work[w].fd # None /\ work[w].fd \notin open
          /\ Fail(w, "fini", -5)
          /\ UNCHANGED <<tun_fd, open>>
       \/ /\ work[w].fd = None
          /\ \/ \E f \in Fds \ open :
                    /\ Go(w, "tunnel_config")
                    /\ tun_fd' = f /\ open' = open \cup {f}
             \/ Fail(w, "fini", -5) /\ tun_fd' = None /\ open' = open
    /\ UNCHANGED <<tun_fd_local, event, bytes, gateway, doubleFree, held>>

\* Mutant: nobody notes that the device was opened here.
tunnel_config_Unnoted(w) ==
    /\ At(w, "tunnel_config")
    /\ Go(w, "gateway") \/ Fail(w, "fini", -5)
    /\ UNCHANGED globals

\* ... and configured; only then does tun_fd_local say who has to close it.
tunnel_config(w) ==
    /\ At(w, "tunnel_config")
    /\ \/ Go(w, "gateway") /\ tun_fd_local' = TRUE
       \/ Fail(w, "fini", -5) /\ tun_fd_local' = tun_fd_local
    /\ UNCHANGED <<tun_fd, event, bytes, gateway, doubleFree, held, open>>

gateway_init(w) ==
    /\ At(w, "gateway")
    /\ Go(w, "event")
    /\ gateway' = "live"
    /\ UNCHANGED <<tun_fd, tun_fd_local, event, bytes, doubleFree, held, open>>

\* Mutant: the end for stop is not published.
event_task_init_Unpublished(w) ==
    /\ At(w, "event")
    /\ \/ /\ Go(w, Tasks[1])
          /\ event' = [set |-> FALSE, open |-> TRUE] /\ bytes' = 0
       \/ Fail(w, "fini", -5) /\ UNCHANGED <<event, bytes>>
    /\ UNCHANGED <<tun_fd, tun_fd_local, gateway, doubleFree, held, open>>

\* event_task_init: from the socketpair call on a stop finds event_fds[1].
event_task_init(w) ==
    /\ At(w, "event")
    /\ \/ /\ Go(w, Tasks[1])
          /\ event' = [set |-> TRUE, open |-> TRUE] /\ bytes' = 0
       \/ Fail(w, "fini", -5) /\ UNCHANGED <<event, bytes>>
    /\ UNCHANGED <<tun_fd, tun_fd_local, gateway, doubleFree, held, open>>

\* The rest of event_task_init, lwip_io_task_init, lwip_timer_task_init and
\* mapped_dns_init, then hev_socks5_tunnel_run.
tasks_init(w) == \E k \in 1 .. 4 :
    /\ At(w, Tasks[k])
    /\ \/ /\ Go(w, IF k = 4 THEN "run" ELSE Tasks[k + 1])
          /\ held' = held \cup {Tasks[k]}
       \/ Fail(w, "fini", -5) /\ held' = held
    /\ UNCHANGED <<tun_fd, tun_fd_local, event, bytes, gateway, doubleFree, open>>

\* The event task reads what stop wrote, the tasks end and
\* hev_task_system_run returns.
tunnel_run(w) ==
    /\ At(w, "run") /\ bytes > 0
    /\ Go(w, "fini")
    /\ bytes' = 0
    /\ UNCHANGED <<tun_fd, tun_fd_local, event, gateway, doubleFree, held, open>>

\* hev_socks5_tunnel_fini up to the close of event_fds ...
fini(w) ==
    /\ At(w, "fini")
    /\ Go(w, "fini_gateway")
    /\ held' = held \ TaskSet
    /\ event' = [event EXCEPT !.open = FALSE] /\ bytes' = 0
    /\ UNCHANGED <<tun_fd, tun_fd_local, gateway, doubleFree, open>>

\* Mutant: the device is closed before it is known who opened it.
fini_gateway_Close(w) ==
    /\ At(w, "fini_gateway")
    /\ Go(w, IF work[w].ret = 0 THEN "cleanup" ELSE "exit")
    /\ event' = [event EXCEPT !.set = FALSE]
    /\ gateway' = IF gateway = "null" THEN "null" ELSE "freed"
    /\ doubleFree' = (doubleFree \/ gateway = "freed")
    /\ open' = open \ {tun_fd} /\ tun_fd' = None /\ tun_fd_local' = FALSE
    /\ UNCHANGED <<bytes, held>>

\* ... and from there: event_fds forgotten, gateway_fini, for which lwIP
\* ignores pointers that are NULL, and tunnel_fini.
fini_gateway(w) ==
    /\ At(w, "fini_gateway")
    /\ Go(w, IF work[w].ret = 0 THEN "cleanup" ELSE "exit")
    /\ event' = [event EXCEPT !.set = FALSE]
    /\ gateway' = IF gateway = "null" THEN "null" ELSE "freed"
    /\ doubleFree' = (doubleFree \/ gateway = "freed")
    /\ IF tun_fd_local
       THEN open' = open \ {tun_fd} /\ tun_fd' = None /\ tun_fd_local' = FALSE
       ELSE UNCHANGED <<open, tun_fd, tun_fd_local>>
    /\ UNCHANGED <<bytes, held>>

\* The end of hev_socks5_tunnel_main_inner after a run.
cleanup(w) ==
    /\ At(w, "cleanup")
    /\ Go(w, "exit")
    /\ held' = held \ InnerSet
    /\ UNCHANGED <<tun_fd, tun_fd_local, event, bytes, gateway, doubleFree, open>>

MainStep(w) ==
    \/ main_inner(w) \/ tunnel_init(w) \/ tunnel_config(w) \/ gateway_init(w)
    \/ event_task_init(w) \/ tasks_init(w) \/ tunnel_run(w)
    \/ fini(w) \/ fini_gateway(w) \/ cleanup(w)

----------------------------------------------------------------------------
\* hev_socks5_tunnel_stop: it polls event_fds[1], then writes a byte.  bytes
\* is capped at 2, since one is enough to end the run.
StopFinds == event.set

StopWrites ==
    /\ event.open
    /\ bytes' = IF bytes < 2 THEN bytes + 1 ELSE 2
    /\ UNCHANGED <<tun_fd, tun_fd_local, event, gateway, doubleFree, held, open>>

Alive(w) == work[w].pc \notin {"none", "exit"}
============================================================================

# hev-socks5-tunnel: specifications, model checking and proofs

hev-socks5-tunnel takes the IP packets of a TUN device apart with lwIP and
forwards every TCP connection and UDP flow through a SOCKS5 server. This
directory holds TLA+ modules of the parts of it in which order and timing
matter, the TLC configurations that check them on small instances, and proofs
that TLAPS checks for every value of the constants.

Paths below are relative to `src/jni/src/` unless they start with `src/`.

## The system

### Parts

| Part | Source | State | Operations |
|---|---|---|---|
| Tunnel core | `hev-socks5-tunnel.c` | `run`, the session list and count, three tasks, the lwIP mutex, the event socket pair | accept a TCP or UDP flow, insert/update/delete a session, I/O loop, timer loop, stop, init, fini, stats |
| TCP session | `hev-socks5-session-tcp.c`, `hev-socks5-session.c` | ring buffer, queue of received pbufs, `pcb`, `pcb_eof`, timeout | splice both ways, drain, recv/sent/err callbacks, terminate, destruct |
| UDP session | `hev-socks5-session-udp.c` | queue of frames, `pcb`, timeout | forward both ways, recv callback, terminate, destruct |
| Ring buffer | `misc/hev-ring-buffer.[ch]` | `rp`, `wp`, `rda_size`, `use_size` | reading, writing, finish, release |
| List | `misc/hev-list.[ch]` | links | add_tail, del, first |
| Mapped DNS | `hev-mapped-dns.c` | tree by name, list by age, `records[]`, `use` | find, handle, lookup |
| SOCKS5 client | `core/src/hev-socks5-client*.c` | fd, type, timeout | connect, handshake (standard and pipelined) |
| SOCKS5 UDP relay | `core/src/hev-socks5-udp.c` | | send and receive datagrams over TCP or UDP |
| SOCKS5 server, authenticator | `core/src/hev-socks5-server.c`, `...-authenticator.c` | users | handshake, connect, udp associate |
| Task system | `src/jni/third-part/hev-task-system` | tasks, run queue, epoll, timers, mutexes | run, yield, sleep, wakeup, join, lock, DNS proxy |
| Entry points | `hev-main.c`, `hev-jni.c` | configuration, thread, `is_working` | main, quit, start, stop, stats |
| Configuration | `hev-config.c` | static values | parse, get |
| Android service and demo | `src/hev-socks5-sdk`, `src/app` | `tunFd`, preferences | connect, disconnect, revoke |
| Imported libraries | `src/jni/third-part/lwip`, `.../yaml` | | lwIP's callbacks and `tcp_write`; the YAML parser |

### How they interact

One thread runs all tasks as coroutines: nothing is preempted, and a task gives
up the processor only where it yields, sleeps, joins or waits for the mutex. The
I/O task reads packets and calls lwIP with the mutex held; lwIP calls back into
the accept handlers and the sessions. A session's task connects to the server,
shakes hands and splices. The callbacks run between two yields of the session's
task and leave it data and a wake-up. The event task waits for a byte that
`hev_socks5_tunnel_stop` writes from another thread or a signal handler,
terminates all sessions and joins the other tasks. The timer task drives lwIP's
timers while there are sessions.

### What is hard about it

- lwIP is given pointers into the ring buffer, so its bytes stay in use after
  they are "read", until they are acknowledged.
- A session decides to sleep from what it saw before; callbacks, the kernel's
  edge-triggered readiness, the clock and terminations race with it.
- `terminate` sets the timeout to 0, and connect and handshake set it again.
- Waking a task that is not running aborts the process.
- The session list is reordered by each session and cut from the front.
- The timer task sleeps for ever when the list is empty.
- A message with several questions changes the mapped DNS cache several times
  before the answer is sent.
- A datagram carried in the TCP connection is a frame that a timeout may cut, and
  the functions that send and receive frames return a count of bytes on some
  paths and of messages on others.
- The pipelined handshake sends before it knows what the server will choose.
- A start takes a dozen things one after the other, a stop may come from two
  Java threads or a signal handler at any time, and the globals survive a run.
- The scheduler wakes one sleeper per poll, and a mutex that is handed over may
  be taken by another task first.

`PROJECT.json` lists each such hazard with its line and the properties that
cover it.

## The modules

| Module | Models | Extended by |
|---|---|---|
| `HevRingBuffer` | operators of `hev-ring-buffer.c` on a record of the four counters | `HevSocks5SessionTCP` |
| `HevSocks5SessionTCP` | one TCP session with its application and its server | `MCSessionTCP`, `HevSocks5SessionTCP_proofs` |
| `HevList` | `hev-list.c`: a list is the sequence of its nodes | `HevSocks5Tunnel`, `HevMappedDNS`, `HevList_proofs` |
| `HevSocks5Tunnel` | the tunnel's tasks, the sessions as the tunnel sees them, stop | `MCTunnel`, `HevSocks5Tunnel_proofs` |
| `HevMappedDNS` | the cache of mapped names and a message handled question by question | `HevDNSMessage` |
| `HevStream` | what one direction of a session promises: an abstract byte stream | instantiated by `HevSocks5SessionTCP` |
| `HevDNSMessage` | the layout of a DNS message around `HevMappedDNS` | `MCMappedDNS`, `HevMappedDNS_proofs` |
| `HevSocks5Handshake` | the SOCKS5 client's handshake with the library's server | `HevSocks5SessionUDP`, `HevSocks5Handshake_proofs` |
| `HevSocks5SessionUDP` | one UDP session from handshake to destructor, over either transport | `MCSessionUDP`, `HevSocks5SessionUDP_proofs` |
| `HevMain` | `main`, init, run, fini and stop, with every step that can fail | `HevService` |
| `HevService` | who calls them: `TProxyService`, `hev-jni.c`, the signal handler | `MCService`, `HevService_proofs` |
| `HevTaskSystem` | scheduler, timers, mutex and join under arbitrary tasks | `MCTaskSystem`, `HevTaskSystem_proofs` |
| `*_proofs` | lemmas and theorems | |

A definition whose name ends in `_Something` behind the name of another
(`Writing_OverInFlight`) is a wrong version of it. The definition is not used:
it documents which slip the properties would notice.

### HevSocks5SessionTCP

`pc` is the place in `hev_socks5_session_run`: the handshake, the two halves of
an iteration (`tcp_splice_f`, then `tcp_splice_b` as its readv part and its
tcp_write part), the yield, the drain loop, the destructor. The task does not
give up the processor between them, so callbacks, terminations and the clock are
enabled only when the task is `OffCpu`. The kernel is not bound by that: bytes
of the server arrive between any two steps, which is why `tcp_splice_b` is two
actions.

Bytes of the server are numbered, `mem` is the ring's memory, and `held` the set
of bytes lwIP may still transmit with the place each one points to. `tcp_write`
may refuse either part of a wrapped read (`writeFailed`); the code still counts
the bytes as sent, and so does the model. `tcp_sent_handler` acknowledges any
number of bytes that were accepted. An edge of epoll is a flag that the
scheduler delivers when it polls.

The handshake is one phase that ends well, badly, by timeout or by a
termination. What it sends is the subject of `HevSocks5Handshake`.

`HevStream` is the abstract specification of one direction: bytes are sent,
delivered in order and only as far as they were sent, and the end is announced
behind the last one; a direction may break, after which nothing is promised.
`upStream` and `downStream` are the refinement mappings: what the application
has handed to lwIP and `writev` has given the server, and what the server has
sent and `tcp_write` has taken. A direction breaks when its connection does, and
downwards also when `tcp_write` refuses a part. `CarriesUp` and `CarriesDown`
say that the session implements `HevStream` through them.

### HevSocks5Handshake and HevSocks5SessionUDP

`cpc` and `spc` are the next call of client and server, `up` and `down` the
messages in the connection. The instance has all twelve combinations of
pipelining, credentials and authenticator for a TCP session, which stops behind
its handshake here, and one for each UDP transport. A read takes the
message it is for; one that would take another message has no action, and
`Aligned` says that this never happens, so nothing is lost by it.

`HevSocks5SessionUDP` has the handshake as its first phase. Its transports share
the control flow and differ in units: over TCP a frame is several units and a
call may stop behind any of them, over UDP a datagram is one unit. Datagrams are
numbered from the one the receiver expects next, so histories are unbounded and
states are not. `torn` and `wild` record that a frame was cut going up or coming
down, after which datagrams are no longer told apart. On the paths where
`recvmmsg_tcp` returns a count of bytes the caller reads messages that were
never filled in; that is `Undefined`, whose outcomes include a crash. The
destructor frees the frames before it waits for the mutex (`freed`), and a
datagram that arrives then is linked to freed memory, with the same outcomes.

### HevMain and HevService

A worker is a thread that runs `main`. Each resource of a start is one step that
succeeds or fails, a failure goes to `fini` or leaves `main` as in the code, and
the globals (`tun_fd`, `event_fds`, the gateway's pcbs) are shared and survive.
`HevService` has two modes: the Android service, with intents on one thread and
`onRevoke` on another, and the program, whose only thread a SIGINT interrupts.
`overlap` records that a stop passed a start that was under way, which the code
does nothing about; the properties say which promises survive it.

### HevTaskSystem

The run queue is a sequence ordered by key; keys are shifted so that the smallest
is 0 whenever a task is picked, which changes no comparison and keeps the states
finite. Timers are kept with the expiry the code computes and, beside it, the
instant it stands for. A task may call anything at any time, and the poll may
wake any waiting task.

### HevSocks5Tunnel

An action is what a task does between two yields; the I/O task handles one
packet per action, which is exact since nothing else can run before its next
yield and packets are independent of each other. The mutex is taken and released
within an action, with one exception: `task_lost` models the failure path of the
accept handlers in which a task that holds the mutex locks it again. From then
on every task that wants lwIP waits.

A session is a phase, a timeout, a task state and whether its pcb still calls
back. `TimeoutAt` says which value the timeout has when a session resumed in one
phase yields in another one, `MayLookUp` and `MaySleep` where it may yield: a
wait for the DNS thread has no timeout and is not ended by a wake-up; a sleep in
the yielder fails at once when the timeout is 0; a plain yield does not look at
the timeout. `hev_task_wakeup` of a stopped task sets `aborted`.

Flows to the mapped DNS server's address create no session and are not part of
this module.

### HevMappedDNS

`handle` starts a message, `question` maps one name, `question_skipped` stands
for a question of another type or class or one for which there is no memory,
`handle_ends` for the end of the message or an early return. No lookup happens
between the questions of a message, as in the code. `recent` and `promised` are
history variables: the names in the order of last use, and the addresses given
out whose name is among the last `Max` used. The network base is taken to have
no host bits. `HevDNSMessage` adds the length of the request, the place reached
in it, and `ipo[]`; each of its steps is a step of `HevMappedDNS`.

## What TLC checks

| Run | Instance | Distinct states | Shows |
|---|---|---|---|
| `session_tcp` | ring of 3, server sends 4 bytes, application 2, window 2 | 1.3 M | all safety properties of the session |
| `session_tcp_live` | ring of 2, 3 and 1 bytes | 200 k | `SessionEnds`, `BothClosedEnds` |
| `tunnel` | 3 sessions, limit 2, 3 connections, 1 stop | 1.1 M | list, eviction, timer task |
| `tunnel_traffic` | 2 sessions, limit 2, DNS lookups, 1 packet, 1 allocation failure, 1 stop | 350 k | joins, kept terminations, callbacks |
| `tunnel_live` | 1 session, 2 connections, 2 packets, 2 stops, DNS lookups | 49 k | `QuitReturns`, `StopPrompt` |
| `mapped_dns` | 5 names up to symmetry, cache of 3, 4 questions, messages of 15 units, offsets modulo 8 | 60 k | all properties of the cache, and the pointers of the answers |
| `service` | 2 workers, 2 descriptors, 2 Java threads or a signal handler | 154 k | start and end of a tunnel |
| `task_system` | 3 tasks of which one is started later, two priorities, a clock over a second boundary | 211 k | the contracts of scheduler, timers, mutex and join; no starvation |
| `session_udp` | pool of 1, batches of 2, socket buffers of 2, frames of 2 and 4 units | 300 k | handshake and UDP session |
| `tunnel_limit_one` | limit 1 | | violates `NoAbort` |
| `tunnel_no_memory` | 1 failed `hev_task_new` | | violates `QuitReturns` |
| `mapped_dns_network` | as `mapped_dns` | | violates `OnlyMappedNetwork` |

Why the bounds are enough. A ring of 3 with 4 bytes wraps, with bytes in flight
on both sides of the end, and is reset when empty; a window of 2 and a socket
buffer of 1 give partial writes. Three sessions under a limit of two make one
session be evicted while another is accepted and a third is reordered.
`tunnel_traffic` turns deadlock checking off because the program really stops
when it waits for its own mutex; `tunnel` has no failures and checks it. A cache
of 3 and 5 names evict twice, and 4 questions overflow the cache in one message;
names of two lengths make offsets differ and reach the size of the pointer.
A pool of 1 and batches of 2 let a batch be the whole queue or a part of it, and
buffers smaller than a frame make every call stop inside one. Two descriptors let
a number be closed and handed out again. Three tasks are enough for a holder of
the mutex, a waiter and one that comes between; the clock of `task_system` has 4
units to a second and starts at 2, so that a sleep ends exactly on a second,
where `get_expire` does not carry. Symmetry is used for safety only.

Fairness. `FairSpec` says that a runnable task is run and a readiness event
delivered: the scheduler orders tasks by the time they have used, and polls
before it picks. That this scheduler does so is `StarvationFree` of
`task_system`, from the fact alone that a task on the CPU gives it up in the end.
In the tunnel also that `getaddrinfo` returns, and in the UDP session that lwIP's
mutex is given back. `HevService` assumes strong fairness of the threads: the
operating system runs them, signals end, and a mutex that is free again and again
is obtained. `ClockRuns`
(sleeps expire) and `PeersRespond` (the server takes, the application
acknowledges) are hypotheses of the properties that need them, so `StopPrompt`
does without the clock and `SessionEnds` without the peers. `TrafficStops` is a
hypothesis of the UDP session's end, since its loop does not look at the timeout
while there is traffic. `NoFailedStart` is one of `StopReturns`:
after a failed start `stop` polls for an event descriptor that is never set.

### Where the code and its documents disagree

- `max-session-count: 1`: the first session accepted is the oldest one and is
  terminated before its task runs, which aborts the process.
- When `hev_task_new` fails in an accept handler, the session's destructor locks
  the mutex that the I/O task already holds. Nothing that needs lwIP proceeds
  and a stop does not end the tunnel.
- `hev_mapped_dns_lookup` translates any IPv4 address whose host bits are an
  index in use, also outside of the mapped network.

## What is proved

All theorems hold for every value of the constants that the named assumptions
allow: `MaxSizeAssumption` and `BoundsAssumption` (sizes are positive, bounds
are natural numbers), `CacheAssumption` and `LayoutAssumption` (a cache of at
least one name that the network has room for; lengths are natural numbers),
`TunnelAssumption` (finitely many sessions at a time, bounds are natural
numbers), `FdsAreNumbers` (descriptors are natural numbers, so none is `None`),
`ConfigsAssumption` and `SizesAssumption` (a configuration has its fields;
frames, heads and buffers are not empty), and for the scheduler
`TasksAreNumbers` (finitely many, none of which is `None`),
`PrioritiesArePositive`, `FirstAreTasks` and `ClockAssumption` (a millisecond
and a second have at least one unit).

Every safety property and every refinement that a passing run checks is a
theorem.

**TCP session** (`HevSocks5SessionTCP_proofs`). `TypeOK`, `InFlightIntact`,
`StreamInOrder`, `WindowAccounting`, `NoLostWakeup`, `AbortLosesNothing`,
`ShutWrAfterLastByte`, `FinAfterLastByte` and `TerminatedNeverSleeps`; no run
checks the last three, which are parts of what `CarriesUp`, `CarriesDown` and
`StopPrompt` ask for. `InFlightIntact` is not inductive: a step could overwrite a
byte in flight unless the free part of the ring is known to be disjoint from the
places lwIP points to. The inductive invariant `IInv` adds
that the counters are consistent (`RingOK`), that the bytes in flight are
counted by `use_size - rda_size` (`InFlightCount`), that the unread bytes are the
last ones read, in order from `rp` (`Unread`), and that the bytes in flight lie
immediately behind `rp` (`HeldPlaces`). `RingOK` is shown for each ring
operation; `FreeIsNotHeld` is the arithmetic heart. `FinAfterLastByte` needs in
addition that the second half of `tcp_splice_b` sees the result of the first one
(`FinInv`). `AbortLosesNothing` puts the two together: the drain loop ends with
an empty ring, so nothing is in flight, and `FinInv` says that `lwip.nxt` is the
end of the server's stream.

`NoLostWakeup` compares what the splice found when it looked with what is there
while it sleeps. `WakeInv` follows it through one iteration: from the step that
found nothing to do in a direction up to the sleep, either there still is
nothing or an edge is on its way. The application's callbacks cannot come in
between because the task is on the CPU, and when they come during the sleep they
wake it; the server can come at any time, and each of its steps that matters
leaves an edge (`ServerWake`).

**Mapped DNS** (`HevMappedDNS_proofs`). `CacheConsistent`, `LeastRecentlyUsed`,
`PromiseKept` and `AnswersPoint`. The invariant relates the list to the history: the list is the
end of `recent`. Each of the three ways a name is used (hit, room left,
eviction) keeps that (`HitAges`, `GrowAges`, `EvictAges`), and `PromiseKept`
follows because a name among the last `Max` is cached under an index that is
unique. `AnswersPoint` is proved of `HevDNSMessage`, each of whose steps is one of
the cache (`MessageRefines`). A message must not evict what it has answered
itself: `LastInv` says that its names are the last ones of `recent`, so as long
as they are at most `Max` they all lie in the window (`LatestInWindow`) and their
answers stay promised. `NotedInv` ties `ipo[]` to the questions.

**Tunnel** (`HevSocks5Tunnel_proofs`). `TypeOK`, `ListConsistent`, `NoAbort` for
every limit but 1, `TimerAwake`, `JoinProgress` and `TerminateKept`. `NoAbort`
says that no stopped task is woken, which depends on where the sessions are: `IInv` adds that a
session's task is stopped exactly while the session does not exist, that a
session that does not exist has no callbacks and no clock (`SessionOK`), and
that the timer task ends only after a stop (`TimerLives`). The eviction is the
one place where the limit matters: with a limit of 2 or more the first of the
list is an older session, which exists (`AcceptNoAbort`). `TimerAwake` needs
`IInv` because a session's yield writes the list, and only an accept may make it
non-empty (`SetStaysEmpty`). `JoinProgress` is inductive together with the fact
that the event task is past its read only after a stop, when neither of the
tasks it joins blocks any more. `TerminateKept` rests on `SettledTimeout`: from
the splice on, or from the handshake on for TCP, no place that sets the timeout
lies ahead.

**Refinement** (`HevSocks5SessionTCP_proofs`). `CarriesUp` and `CarriesDown`:
every step of a session is a step of `HevStream` under `upStream` and `downStream`, or leaves
them unchanged. Upwards the invariant `UpInv` says that the bytes the server was
given, those queued and those the application has left are all there are, and
that the queue fits the window; `UpRefines` then goes through the few actions
that move such bytes (`UpSteps`). Downwards `IInv` of the session places
`lwip.nxt` among the bytes read, and `DownInv` bounds those by the bytes sent; a
refused `tcp_write`, a reset and the destructor are the abstract `Break`
(`DownLost`).

**Service** (`HevService_proofs`). `OneTunnel`, `FdOpenWhileUsed`, `Released` and
`ServiceConsistent`, for any number of threads and descriptors. None of them is
inductive: what a start has set up depends on how far the thread that runs main
has come, and this only makes sense if there is one such thread. `Owned` says
that a thread that was started and not joined is the one `work_thread` names
while `is_working` is set. `Stage` is then a table of the globals by the place
of that thread, and `MainKeeps` goes through the steps of main and their
failures once for both programs. `CliInv` adds what holds because the program
opens the device itself and runs main once. `AndroidInv` adds, as long as no
stop passed a start, that the thread works with the service's descriptor and
that this is open; `PrefInv` ties the preference to them.

**List** (`HevList_proofs`). What `add_tail`, `del` and both together do to
members, order and absence of duplicates.

**Handshake** (`HevSocks5Handshake_proofs`). `Aligned`, `Agreement` and
`NoMutualWait`, for every configuration of the two ends, with failures, timeouts
and resets anywhere. `HandInv` counts messages: from its place an end has
written and heard a certain part of the exchange that the configuration allows
(`Wrote`, `Heard`, `Took`, `Gave`), and what is in a direction is what one end has
written and the other has not taken. The three properties are read off it.

**UDP session** (`HevSocks5SessionUDP_proofs`). `SessionKeepsHandshake` is a
refinement: every step of the session is one of the handshake or leaves its
variables alone, so what is proved there holds here. `UpInOrder` rests on
`UpInv`, which follows the datagrams queued, those of the batch that a short
`sendmmsg` has sent and the unit in which a frame may be torn; `DownInOrder` on
`DownInv`, which places the read position inside a frame by the place of the
task. `NoLostWakeup` has a `WakeInv` as above, with the difference that here the
task may also sleep in the middle of a frame. `DamageNeedsLoss` is an action
property: the steps are gone through one by one, and `DamageInv` says that frames
are freed only at the places of the destructor that the property excuses.

**Task system** (`HevTaskSystem_proofs`). `MutualExclusion`, `HandedOver`, `JoinTold`
and `TimersExact`, for any tasks, priorities, sleeps and clock.
`MutualExclusion` is inductive with little help (`Excl`). `HandedOver` and
`JoinTold` say that a task is on the run queue, and any step may take the current
task off it; `SysInv` therefore has the queue (distinct tasks that were started,
the current one among them), the timers, the waiters and the joins, each tied to
the places of the tasks. `QueueSteps` says once what each operation of the
scheduler does to the queue, and the lemmas `Sys...` go through the actions.
`TimersExact` has two parts. `ClockInv` says that the timespec of a timer, which
`get_expire` does not always normalise, stands for the instant asked for, and
`ClockSuffices` derives the comparison and both roundings from it. `TreeInv` says
that the tree is sorted by its own comparison; that this is the order of the
instants is `CmpLoose`, and `InsertOrdered` is the insertion.

Only model-checked: the liveness properties (`SessionEnds`, `BothClosedEnds`,
`QuitReturns`, `StopPrompt`, `StopReturns`, `StarvationFree`, `SleepEnds` and
`ControlLossEnds`), since fairness is out of the prover's reach here.

## What is not modelled

- The inside of lwIP and of the YAML parser, which are most of the lines under
  `src/`: imported code, present through the contract of the calls made to it.
  lwIP's callbacks and the results of `tcp_write` and `udp_sendfrom` are
  environment actions; parsing succeeds or fails.
- The task system's channels, conditions, splice loops, file and pipe I/O, the
  slice allocator and the context switch: not used by the tunnel, or without
  state of their own.
- The core library's splicers (`hev-socks5-tcp.c`, `hev-socks5-udp.c` from line
  326 on), which only its server runs; the sessions replace them.
- The balancing of the red-black trees: the modules use their order only.
- Address conversions, logging, process helpers, the packet counters, the system
  calls of the TUN device for five operating systems, and the demo's user
  interface: conversions and output without control flow of interest here.
- Priorities that change while a task runs, which the tunnel does not use.

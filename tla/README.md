# A verification development for sthread

`sthread` is a C++98 coroutine library: an application writes blocking-looking
code (`st_recv`, `st_sleep`, `st_wait`), and inside one operating-system thread
a scheduler switches between coroutines while a daemon coroutine polls the
descriptors and the clock. This directory holds TLA+ models of the parts that
decide whether that works, and of the programs built on it, model-checked with
TLC and, where it matters most, proved with TLAPS.

1. [The system](#1-the-system)
2. [Modules](#2-modules)
3. [Runs, what they show, and their bounds](#3-runs-what-they-show-and-their-bounds)
4. [What the models show of the code](#4-what-the-models-show-of-the-code)
5. [Proofs](#5-proofs)
6. [What is not modelled, and the plan](#6-what-is-not-modelled-and-the-plan)

Run a model with `tlc -config <Run>.cfg MC<Module>.tla`, a proof with
`tlapm <Module>_proofs.tla`.

## 1. The system

Paths are relative to the repository. Every operating-system thread has its own
scheduler, event table, pools and daemon; nothing is shared between threads, so
there are no locks and all interleaving is between coroutines, the kernel and
the clock.

| Component | State | Operations | Interacts with |
|---|---|---|---|
| **Scheduler** `StThreadSchedule` (`src/st_thread.h`, `.cc`) | run, io, pend and reclaim lists, sleep heap, active thread, per-thread flags, wake time, sticky notification, parent and sub-coroutines, the pool of coroutines | `CreateThread`, `Sleep`, `InsertIOWait`, `Pend`, `Unpend`, `Notify`, `WakeupParent`, `Wakeup`, `IOWaitToRunable`, `Recycle`, `ReapReclaim`, `Yield` | the suspending calls and the daemon call it; it calls the heap and the pool |
| **Daemon loop** `StSysSchedule` (`src/st_sys.h`) | last clock, timer heap, idle timeout | `StartUp`: `Wait(GetTimeout())`, `UpdateLastClock`, `Wakeup`, `CheckExpired`, `Yield` | drives the event table and the scheduler |
| **Suspending calls** (`src/st_sys.cc`) | locals of the calling coroutine | `st_sleep`, `st_notify`, `st_notify_wait`, `st_wait`, `st_read`, `st_recv`, `st_send`, `st_connect`, `st_accept`, `WaitFdReady` | scheduler and event table |
| **Event table** `StEventSchedule` (`src/st_thread.h`, `.cc`) | `m_event_`: one item per descriptor | `Add`, `Delete`, `ClearItem`, `ClearOsfd`, `Schedule`, `Dispatch`, `Wait` | `StIOState` below, the scheduler above |
| **Back end** `StIOState` (`stlib/st_epoll.h`, `st_kqueue.h`) | the mask registered per descriptor | `AddEvent`, `DelEvent`, `ClearFd`, `Poll` | the kernel |
| **Items** `StEventItem` (`src/st_poll.h`) | descriptor, events, received events, owner, place in a set | `EnableInput`, `SetRecvEvents`, `Reset` | held by connections, the server and the hooks |
| **Connections** `StConnection`, `StClientConnection`, `StConnectionManager` (`src/st_connection.h`, `.cc`) | descriptor, item, buffers, a pool by address | `Create`, `SendData`, `RecvData`, `ReleaseItem`, `Close`, `AllocPtr`, `FreePtr` | suspending calls, event table, hash list, buffer pool |
| **Server** `StServer` (`src/st_server.h`) | listening item, connections | `CreateSocket`, `Loop`, `CallBack` | the above |
| **Hooks** (`app/st_sys.cc`) | per descriptor: in use, the user's non-blocking wish, timeouts, an item of its own | `socket`, `accept`, `read`, `write`, `connect`, `fcntl`, `setsockopt`, `shutdown`, `close` | redirect libc calls into the suspending calls; share the event table with connections |
| **C interface** (`app/st_c.cc`) | locals of an exchange | `tcp_sendrecv`, `udp_sendrecv` | connection manager, suspending calls |
| **Containers** (`stlib/`) | tail queue, binary heap, timer heap, open hash, buffer pool, pointer pool, singleton | | used by all of the above |
| **Context switch** (`stlib/st_context.*`, `ucontext/`) | stacks and registers | | assembly, mostly third-party |
| **Echo server** (`app/st_echo/server.cpp`) | the line a connection has read | `DoInput`, `DoOutput` | `StServer` |
| **Chat room** (`app/st_chat/server.cpp`) | sessions with a mailbox each | `broadcast`, `drain_mail`, `read_nick`, `session_main` | `st_wait`, `st_notify` |
| **Clients and proxy** (`app/st_echo/client.cpp`, `st_dns`, `st_redisclient`, `st_memcacheclient`, `st_httpclient`, `st_wrk`, `st_portscan`, `st_httpproxy`) | workers, connections, buffers, the proxy's backends and slots, common counters | exchanges of one request for one reply, with their parsers | connections and suspending calls |
| **Frame, other samples, tests** (`app/`, `tests/`) | | `Frame::Loop` | users |

What is hard, and what each component owes because of it:

- *Scheduler.* A thread is linked into a list through one pointer, and its flags
  are the only record of which list that is. It can be in the io list and the
  sleep heap at once and leave by an event, a timeout, a notification, or two of
  these in one round. Owed: flags and lists always agree, a live coroutine is
  always somewhere and only once, a finished one nowhere; pooled objects are
  handed out once; notifications and timeouts are neither lost nor early; who is
  ready runs in FIFO order.
- *Daemon.* Its poll must end when the next sleeper is due. Times are 64-bit,
  the poll's argument is 32-bit, and 0 is taken for "no timeout".
- *Event table.* For one descriptor number three records must agree: the item in
  the table, the mask `StIOState` remembers, and the registration the kernel
  holds, which `close()` drops silently. Numbers are reused, items are pooled
  and reused, a set of items can be half added or half removed, and all this can
  happen while a coroutine waits. Owed: the remembered mask is the kernel's;
  a waiter is armed with its own item; events are reported to who waits; nothing
  stays armed that nobody waits for.
- *Suspending calls.* Each is a loop of a system call and a wait, in which the
  time is looked at in one place, errors in another, and every wait gets the full
  timeout again. Owed: every byte is sent once and in order, 0 means the end and
  nothing else, a timeout is not early and not arbitrarily late.
- *Connections and server.* Partial reads and writes, an address-keyed pool whose
  keys can change under it, and objects and buffers that go from one client to the
  next. Owed: a connection has one user, its socket is closed once and by nobody
  else, a client sees only its own bytes, and is answered or closed in the end.
- *Hooks.* The library makes a descriptor non-blocking behind its user's back, and
  has items in the same table as the connections. Owed: a call blocks the
  coroutine and not the thread unless that was asked for; items have one owner.
- *Chat.* A notification and a readable socket end the same wait, and a broadcast
  happens while its receivers are anywhere in their loops. Owed: nobody sleeps
  over mail, and lines keep their order.
- *Exchanges.* A kept connection, common slots, a deadline that spans several
  calls, a reply in pieces. Owed: the reply is that of the request, a slot has one
  user, an exchange ends within a multiple of its time, what is accepted is whole.
- *Containers.* The heap returns the minimum and can delete any member; timers
  fire in order; the hash finds what was inserted.

`PROJECT.json` lists the individual hazards with the line at which each bites and
the property that covers it.

## 2. Modules

| Module | What it is |
|---|---|
| `StThreadSchedule` | the scheduler, the daemon loop, and the scheduler's side of every suspending call |
| `Coroutines` | the abstract scheduler it implements: one running, a FIFO of ready ones, a set of waiting ones |
| `StEventSchedule` | event table, `StIOState` over epoll, items, and what connections, server and hooks do to them |
| `StConnectionManager` | the pool of connections, found by address or reused, and who owns their sockets |
| `StSys` | the loops of the suspending calls, at the two ends of one connection |
| `StHooks` | the hooked system calls: their table, their items, and which call they make |
| `StServing` | accept loop, the coroutine of a connection, `SendData`, `RecvData`, buffers and pools, under the echo server |
| `StChat` | the chat room |
| `StExchange` | the request and reply exchanges of the client programs, and the proxy |
| `StHeapTimer` | the binary heap as an array, and the timers on it |
| `Timers` | the abstract timers it implements |
| `StParsers` | the parsers and builders of the client programs, as operators |
| `StReplies` | these parsers at work on messages that TCP cuts |
| `MC...` | one for each module that is run: the symmetry sets for TLC |
| `StThreadSchedule_proofs` | the scheduler: its inductive invariants, eight safety theorems and the refinement of `Coroutines` |
| `StEventSchedule_proofs` | the event table: types, mask = kernel, and who is armed, watched and woken |
| `StLib_proofs` | the safety theorems of `StConnectionManager`, and the refinement of `Timers` by `StHeapTimer` |
| `StHooks_proofs`, `StSys_proofs`, `StServing_proofs`, `StChat_proofs`, `StExchange_proofs` | the safety theorems of these modules |

The models are layers. `StThreadSchedule` and `StEventSchedule` are below: what
they show of a wait (it ends by an event, a timeout or a notification, and
reports which) is what `StSys` takes for one. What `StSys` shows of a call
(partial results, time, errors) is what the programs in `StServing`, `StExchange`
and `StReplies` meet. `StChat` uses `st_wait` and `st_notify` directly, and has
the wait itself. A layer allows what the one below shows and sometimes more,
never less.

### StThreadSchedule

Scheduling is cooperative: a coroutine runs until it calls something that ends in
`Yield`. An action is therefore one call of the active coroutine up to the switch
(`st_sleep`, `NotifyWait`, `WaitFdReady`, `st_wait`, `Pend`, `Finish`), one call
that does not switch (`CreateThread`, `CreateSub`, `Notify`, ...), what a call
does once it is switched back to (`Return`), or one stage of the daemon's loop
(`DaemonWait`, then `PollTimesOut` or `PollReports`, then `DaemonRound`).

- Lists: `run` is a sequence, because its order decides who runs; `io`, `pend`,
  `reclaim` and `heap` are sets. The heap is what it promises: a capacity, its
  earliest member, deletion of any member; equal wake times come out in any
  order (`WakeOrders`).
- `flag`, `wakeup`, `notified`, `parent`, `subs`, `idle` and `alive` are the
  fields and the pool. `Yield` includes `ReapReclaim`, as in the code.
- `pc` and `dpc` say where a thread is inside the library.
- `clock` is `Util::TimeMs()`; `ToInt32` is the conversion of the poll's time.
- What a descriptor reports is the environment's choice (`PollReports` wakes any
  of the waiting coroutines, in any order, or none).
- `Return` clears the wake time, which the code leaves as it was and does not
  read again before the next call sets it. This merges states and changes
  nothing else.

Contracts of the application: a coroutine with sub-coroutines does nothing
except create more and `Pend` (`JoinFirst`). `Unpend` and `WakeupParent` do not
look whether the parent pends, so the library relies on this. A handle may be
notified after its coroutine finished, as long as the object exists.

### StEventSchedule

`slot[fd]` is what the three records say of one descriptor. The helper operators
(`AddEvent`, `DelEvent`, `Add`, `Delete`, `ClearItem`) map one such record to the
next, each with a companion that says whether the call succeeds, because a
failing call leaves its partial effect. `AddSet` and `DeleteSet` are the loops
over a set of items with their roll-back. The items of one set belong to
different descriptors, so each descriptor's record is changed by one item only
and the loop is written as one function.

Actions are what a coroutine does between two switches: `Register` (socket or
accept, plus the item's `Add`), `Wait`, `ServeAgain` (`StServer::CallBack`),
`HookAgain` (`hook_ensure_item` after a hangup), `EndWait` (the part of
`Schedule` behind its `Yield`), `Release` (an item back to the pool, and the close
of the descriptor), `CloseOnly`; and the daemon's `Dispatch`. `Leave` is a timeout
or a notification. Which ready coroutine runs next is left open, so the module
allows every order the scheduler allows and more, and time does not appear: a
safety property that holds here holds under the real order.

Contracts of the application: one coroutine waits for a descriptor at a time, and
the items of one set have different descriptors. The library's own callers do
both. `EvInput`, `EvOutput` and `EvHangup` are the base class's, which only tests
override.

`fired` is a history variable: the items a waiting coroutine saw an event on. No
guard reads it.

### StConnectionManager

`conn` holds the fields of each connection that matter here (type, the two
addresses, descriptor), `alive` those not deleted, `idle` the free list of
`UtilPtrPool`, `hash` the entries of `m_hashlist_`, newest first, `open` the open
descriptors, `held` the connection each coroutine uses. `AllocPtr` is the set of
what the call can return and leave behind: a connection that is found by address,
as it is and whoever uses it (`Reused`), or one from the pool or the allocator
(`Fresh`: `Sourced` is where it comes from, `Before` what is in it, `Made` what
`AllocPtr` writes there).

Actions: `GetConn` is `tcp_sendrecv` or `udp_sendrecv` up to the connect. `Create`
closes what the connection has open (`Cleared`) before it makes a socket, or fails
to. `Accept` is `StServer::Loop`, which puts the accepted socket over whatever the
connection has; `RecvUdp` overwrites the destination with the sender's address;
`Release` is the end of the user, with `FreePtr`: the entry leaves the hash, the
socket is closed, and the connection is pooled or, when the pool is full, deleted.
`Asked` and `Served` are the kinds of connection that clients and servers use. The
library has one manager per kind of user; here one manager has both, which
allows every history that either has.

`StNetAddr` does not initialize itself. An address that was never set is therefore
any member of `Unset`, chosen anew for each object: for a connection in the heap, and
for each key on the stack. Nothing in the model keeps coroutines from asking for one
keepalive address at a time. What the use of a deleted connection does is undefined, so a
coroutine that holds one, or would be given one, has no step. `found` and `lost` are
history: whether the hash has ever led `AllocPtr` to a connection, and the sockets that
`Accept` has put another one over.

### Coroutines

The abstract scheduler: `running`, `ready`, `waiting`. The refinement maps
`running` to `active`, `ready` to `run`, `waiting` to the threads flagged io, sleep
or pend. It says that whatever the lists, flags and the pool do, a step only
spawns at the tail, blocks the running one, ends it, or wakes waiting ones behind
those that are ready, and that the processor always goes to the head.

### StSys

One connection with a client end (`st_connect`, `st_send`, `st_write`,
`st_sendto`) and a server end (`st_accept`, `st_recv`, `st_recvfrom`, `st_read`).
`call[t]` holds the locals of the call: where its loop is (`at`), when it began,
its timeout, what it has sent. A step is one system call with the code behind it
(`st_send`, `st_recv`, ...) or one pass through `WaitFdReady`, up to the switch;
`Resume` is the end of `Schedule`. The order in which a loop looks at the clock, at
`EINTR` and at `EAGAIN` differs from call to call and is kept: `Failed` is the
order of `st_connect`, `st_read` and `st_sendto`; `st_accept` does not look at the clock,
and `st_send` looks at it before the write, so both take `Refused`; `st_recv` waits first
and leaves the clock to `WaitFdReady`. The branch `n == 0` of `st_send` and `st_write` is
left out: a socket that is given bytes takes some or fails.

`link` and `wire` are the kernel's side: a connection that is being made, stands,
is refused or reset, and at most `Cap` bytes on their way. `Dispatch`, `Expire` and
`st_notify` end a wait; a hangup takes the item out of the table. `revents` stays
set after the first event, as `m_revents_` does. `spent`, `put` and `poked` are
history.

### StHooks

`info` is `g_sys_fdlist`, `table` the event table, `own` the items that
connections have registered, `kernel` whether a descriptor is open and blocks,
`hooked` the flag of `st_set_hook_flag`. Each hooked function is an action.
`Io` is the family of `sys_read`, `sys_write`, `sys_sendto`, `sys_recvfrom` and
`sys_connect`: `Real` decides between the real call and the timed one, and
`EnsureItem` is `hook_ensure_item` with what it overwrites. The event table may refuse the
new item, which then goes back to the pool and the call returns (`TimedCall`,
"refused"). `asked`, `set` and `lost` are history: what the user wanted, and which items
nobody will free. A descriptor of `sys_accept` is "accepted" until its user says something:
the library has marked it as non-blocking, and the user has asked for nothing.

### StServing

`pool` is the bucket of `StBufferPool` (which buffers exist, what they hold, the
queue of free ones), `conn` and `idle` the connections and their pool, `net` and `peer`
the sockets and the clients. `Accept` is `StServer::Loop`; `Recv` is one turn of
`CallBack` from the return of `st_recv` to the next suspending call: `RecvData`
with `DoInput`, `DoProcess`, `DoOutput` and `SendData`. `Send`, `SendFails` and
`RecvEnds` are the other returns, and `Finish` is `FreePtr`, `Reset`, `Close` and the
destructor in the order of the code: `TakeRecvFirst` and `TakeSendFirst` because the
constructor and `Reset` take the two buffers in different orders. Lines are
sequences of the client's own symbol, so that a foreign byte shows.

### StChat

A session's coroutine takes small steps while it is `active` and stops in `st_recv`,
`st_send` or `st_wait`. `co[s].st` says whether it is blocked or ready, `note` is the
sticky notification, `fd` whether the wait saw an event. `Broadcast` pushes and then
notifies, as the code does; `Notify` wakes any wait. A line is its client and a
number, so `out` needs only the last line each client got from each other.

`m_revents_` is not cleared after the nick, so every later wait of the session seems to
have seen an event: `st_wait` reports one whatever ended it, and `st_send` tries again,
and waits again if it must, until it finds its time over. That is not before a wait of it
has timed out or a second one has taken some of the time ("late"). A coroutine that was
made ready before its timeout is taken to run before the timeout passes. When a hangup has
dropped the item, `st_wait` fails with -2 and the session leaves. That the kernel refuses
the registration (-3), which leaves too, is not modelled.

### StExchange

One of seven programs runs (`prog`), with its workers; for the proxy the workers are its handlers and
`Probe` is `health_loop`. The programs share one shape: connect if there is no
connection, send, receive until the reply is whole. They differ in what is
kept (`Kept`), where time is looked at (`Receive`, `ConnectTime`, `Connected`), and
what a failure does (`End`, `Forwarded`, `Probed`), and the operators say so.
A call in which a coroutine waits can time out from `until` on, and has by `last`, which
`Longest` sets: the item of the connection still has the event of the connect or of the
previous piece, so the end of a wait in `st_send` or `st_recv` does not look like a
timeout, the loop waits once more for the full time, and only then is the time over.
`Received` may end an exchange that late as well. `Hasty` are the two functions of the C
interface, which call `st_recv` with a remaining time of 0.
`io` is a connection with its peer: the requests to be answered, the pieces to be
read, each tagged with the request it answers. `Tick` passes only when everybody
is suspended. `Report` is main, whose deadline ends the process.

### StHeapTimer and Timers

`list` and `index` are the array and the positions of `StHeapList`, with `SiftUp`,
`SiftDown`, `HeapPush` and `HeapDelete` as in the code: `Up` and `Down` are what one
iteration of a loop finds, and `Sift` repeats it; a loop that has ended stays where it
is. `Startup`, `Stop`,
`CheckExpired` and its next iterations are the timers. While `round` is not `Off` a
callback may call `Startup` and `Stop`. `Timers` knows deadlines only: what fires is
the earliest, it is due, and a round leaves nothing that was due when it began. The
refinement maps the deadline of a timer in the heap.

### StParsers and StReplies

`StParsers` has the parsers as functions from the bytes received so far to an
outcome: `resp_parse`, the two state machines of `memcache.cpp` with the loops
around them, the proxy's and the client's view of HTTP, `http_get`'s buffer, the
walk over DNS answers, `st_dns_build_reply` with the coding of names, and
`parse_spec`. A byte is a string. A word or a number is
one byte, except for memcache, whose machines look at each: there a word is two
bytes, and a number one or two digits. http_parser is third-party and external: a head ends at the empty line
and has a length or has none.

`StReplies` has what peers send (`Messages`, built independently of the parsers,
or with the program's own builders), and a reader that gets it in pieces and
parses again from the start with each piece, as all of them do. Both modules use
RECURSIVE operators and hold no theorems.

## 3. Runs, what they show, and their bounds

| Run | Question |
|---|---|
| `SchedulerSafety` | Can any order of calls, events, timeouts, notifications and joins break lists, pool, heap or a wait? Is every step one of `Coroutines`? |
| `SchedulerLiveness` | Does a ready coroutine run, and does a finite timeout end its call? |
| `EventsRefused` | Two descriptors, items and coroutines, sets of two, and a kernel that may refuse any registration: do mask and kernel agree, are waiters armed, are events reported, and only to who waits? |
| `EventsReuse` | One descriptor number, three items taking turns, with or without events: is what is armed the right item, and does somebody wait for it? |
| `Connections` | Connections of all kinds found, pooled, reused and deleted in any order, with entries that stay behind: has each one user until the hash is followed, and does no socket leak even then? |
| `Calls` | Whatever kernel, clock, peer and other coroutines do to a call: is what it returns true, and is its time bounded? |
| `Hooks` | Hooks and connections on common descriptors: are items owned, do timeouts and wishes belong to their descriptor, does a call stop its coroutine only? |
| `Serving` | Clients after clients on pooled objects: does each get its own line, and in the end? |
| `Chat` | Is mail seen, and in order? |
| `Exchange` | Is each reply that of its request, each slot used by one, and how long do exchanges and main take? |
| `Timers` | Do the heap and the timers implement `Timers`? |
| `Replies` | Is what a reader accepts whole, and what was sent? |

All runs pass. Every property has a mutant: a plausible slip in the code
(`Mutant...` next to the definition it stands for) under which TLC finds the
property violated.

Each module has its type invariant as a conjunct of one of its other invariants
(`OneUser`, `SendsAll`, `ItemsOwned`, `Held`, ...), the scheduler's in `SleepersInHeap`, the event table's in
`WaitersArmed`.

Bounds, all of them CONSTANTS:

- `Coroutine`: two, besides `main` and the daemon. Enough for a parent with a
  sub-coroutine and a bystander, for one coroutine in the pool while another is
  to be deleted (`MaxFree = 1`), and for three threads in the run list. The
  safety theorems hold for any number.
- `Timeout`, `MaxClock` of the scheduler: timeouts of 1 and 2 ms and a horizon of 2
  let two sleepers be due in one round, in different rounds, and late. `MayWait`
  keeps finite waits from ending beyond the horizon. `Tick` passes it only for a
  poll that was entered late and has a sleeper to wake.
- `IntMax` stands for 2^31 - 1 and is small so that the conversion of a far wake
  time to 32 bits goes negative inside the instance. `PollCap` and `IdleTimeout`
  keep the code's order (idle <= cap < `IntMax`).
- `HeapMax = 3` is exactly the threads that can sleep; the mutant with a smaller
  heap breaks `SleepersInHeap`. The code's capacity is in the millions.
- `Calls` selects the calls the instance makes, so that a liveness run can leave
  out `Frame::Loop`.
- `Fd`, `Item` of the event table: two descriptors are needed for an event of the
  wrong descriptor, two items for an eviction, three for an eviction in front of
  somebody who waits. `SetMax = 2` gives half-done sets. `ArmedIsWatched` is checked
  with sets of one, which is all the library makes (`Schedule` is always called with
  one item). It is false for larger sets: when `Delete` of a set meets an item that
  was evicted meanwhile, the roll-back adds the items before it again, and
  `Schedule` ignores the result, so they stay armed with nobody waiting. Nothing
  in the code says otherwise.
- `FirstEvents`: the hooks and the chat server register with no events; clients and
  the server's listener with output (`Create`, `CreateSocket`), of which an edge may be
  pending before anybody waits. `Refusals`: whether the kernel may refuse a registration.
- Connections: three coroutines and sockets, two connections and `MaxFree = 1`, so that
  one release finds the pool full and deletes, that the deleted one's memory is allocated
  again, and that the third coroutine comes to a connection that is shared or pooled twice.
  `Addr`: one address to ask for and the zeroed one, and `Unset` is both, so that keys
  agree and differ. `Sources = {none}`: no caller in the library passes a source
  address. `MaxEntries = 2` bounds the entries, since those left behind are never removed.
  One plain kind, and the two that are kept; `udp` adds nothing to `tcp` but `RecvUdp`,
  which `udp_session` has.
- `Calls`: two calls at each end, so that what the first one leaves behind meets
  the second; two bytes to send over a kernel buffer of one (`Cap`), so that writes
  are partial and the second byte waits; timeouts of 1 ms and infinite; `Slack = 1`,
  a scheduler that is late. `MaxClock = 4` is enough for two waits of one call and
  the slack; no call is begun that could last longer.
- `Hooks`: two descriptors, one of which can be listening, two items, one
  coroutine: the contract lets one coroutine at a time use a descriptor, and
  nothing but the descriptors and items is shared. `Default` and `Timeout` differ.
- `Serving`: two clients and two connections in all (`MaxConn`), at the same time or one
  after the other, so that the second meets what the first left; four buffers, two of them pooled (`MaxFree`) and one
  connection pooled (`MaxIdle`), so that each pool is found empty, filled and full; a
  buffer of three bytes, so that there are lines of length zero, lines that fit, and
  lines too long.
- `Chat`: two sessions, a mailbox of two lines, and per client its nick, a line and
  "quit": with the joining and leaving of the other that overfills a mailbox.
- `Exchange`: two workers, two backends with one slot, two exchanges per worker
  (the second meets what the first one left), three ports for two workers, replies
  of two pieces, timeouts of 2 against a default of 3. With `Slack = 3`, main's deadline
  2 * 3 + 3 lies beyond two exchanges of http (8), which thus must be waited for, and before
  two of redis (12), which need not be. `MaxTime = 9` is that deadline. `Health = 7`
  lets the probe run once, while a handler may be in its second exchange.
- `Timers`: seven timers for a heap of six. A heap of three levels with a last entry
  from another subtree is the smallest in which `HeapDelete` has to sift up; the
  seventh is refused.
- `Replies`: each limit (`MaxBulk`, `MaxKey`, `RecvSize`, `MaxLabel`, `NameSize`,
  `MaxHops`, `MaxPkt`, ...) is set so that there are messages at it and beyond it.
  A datagram (`dns`, `query`) and the text of a scan come in one piece.

Symmetry (coroutines; descriptors, items; users, connections; workers; timers) is
used where no liveness property is checked.

Fairness. A callback that never leaves the processor starves everybody by
design, so each coroutine is assumed to reach `Suspend` and `Return` in the end.
The daemon's loop has no way to stop, and the clock goes on. Nothing is assumed
of descriptors: `PollReports` is not fair, so a poll without a timeout may last
for ever. `TimedWaitsEnd` has the premise that the daemon gets its turn again and
again, because coroutines that notify each other in turn keep it away by
design. The liveness run leaves out `Frame::Loop` (which polls before the
coroutines already in the run list had their first turn) and `st_wait` (see
section 4), and its timeouts are not 0, for the reason given there.

`LinesEnd` of the server rests on the same two: the coroutine of a connection goes
on when its call returns, which it does with data or, `CallBounded`, with its
timeout; and the accept loop is such a coroutine. Nothing is assumed of clients.

`CHECK_DEADLOCK FALSE` is set where the system may stop: all calls made (`Calls`),
all lines said, all exchanges done, all messages read, and, in `Connections`, all
coroutines in the undefined use of deleted connections, or the bound on entries reached.

## 4. What the models show of the code

These are not contradictions the runs are made for, but behaviours that the
models have because the code has them, and that a reader of the properties
should know. Where one of them limits a property, the property or the run says
so.

Waiting and notifications:

- `st_sys.h:180` says only a target inside `st_notify_wait` or `st_wait` leaves its
  queue. `Notify` looks at the io and sleep flags, which `st_sleep`, `st_recv` and `st_send`
  set too. So `NoEarlyTimeout` of `StSys` excepts a call that was notified, and in the chat
  room a broadcast ends the `st_recv` of a session that has not given its nick. A session
  stopped in its own `st_send` is taken out of that wait too, but goes round and sends or
  waits again, as `m_revents_` still has the event of the nick. Only a send whose time is
  over, or whose peer is lost, drops the rest of its line: `MailSeen` excepts it, and `InOrder` does
  not ask that lines are whole. For the same reason `st_wait` there reports a readable socket
  when it was notified or timed out.
- `Reset` clears the sticky notification of a pooled coroutine (`st_poll.h:141` says
  why), but `Notify` of a handle whose object is already pooled sets it again and
  `AllocThread` does not look.
- `st_wait` with timeout 0 and nothing notified gives the daemon a poll of 0, which
  means "for ever", although `st_sys.h:192` promises `ETIME`; the same comment knows this
  of `Wait(0)`. It concerns every call with timeout 0, among them those that are
  handed a remaining time of 0 (`tcp_sendrecv`, `udp_sendrecv`).
- `m_revents_` is cleared by `Reset` of the item only, so a later wait for the same
  item that times out reports the old event, against `st_sys.h:165`. For the receiving
  and sending calls this means one more turn of their loop, with the full timeout:
  `CallBounded` says twice the timeout, not once.
- So an exchange takes more than its `-t`, which the HTTP client's README (line 32) calls the
  time-out of a single request: up to twice with `st_http_exchange` and `http_get`; up to
  three times with redis, whose `exchange_once` counts again from the connection on, and with
  the proxy, which may also wait for a slot; `udp_sendrecv` up to a millisecond more
  than twice; `tcp_sendrecv` connects with the connection's default of 30 s and then still sends and
  receives with nothing left. Only the scan, which connects, takes `-t`. `Allowed` has these
  numbers. Main waits for one `-t` per exchange, one more and 5 s, so when many exchanges
  time out it can report before its workers are done; `InTime` says for which programs.

Objects:

- `FreePtr` says that it "still HashRemoves, then pools" and that keepalive does "no real reuse"
  in the hash (`st_connection.h:264`). Neither is so. It looks for the entry under the
  connection's addresses. Nobody sets the source address, and `StNetAddr` leaves it
  uninitialized, in the connection, in the key on the stack of `AllocPtr` and in the key it
  inserts (`st_netaddr.h:21`, `st_connection.h:217,241,266`); the destination of a UDP session is
  overwritten by `RecvData`. When the bytes differ the entry stays, and leads to a connection that
  is pooled or deleted. When they agree, a second coroutine that asks for the same
  address gets the connection of the first, as the test `ConnManagerKeepaliveReuse` expects of
  `AllocPtr`; `Create` then closes the socket under the first one, and both free the
  connection, which the pool has twice from then on, to be handed to two coroutines that
  never asked for a kept one. `OneUser` therefore ends when the hash is followed (`found`).
- `StServer` with a keepalive kind, as the echo server has it, asks the same hash, by the
  client's address. If it leads to a connection in use, the accepted socket is put over
  the one the connection has, which stays open for good: `lost` in `SocketsOwned`.
- A descriptor that `sys_accept` returns has the mark of a user's wish for non-blocking
  calls: it is set with `sys_fcntl` (`app/st_sys.cc:376-384`), which `sys_socket` avoids and says
  why (`app/st_sys.cc:67`). A hooked read of it returns EAGAIN to a user who has
  asked for nothing. `AsAsked` excepts it by name ("accepted").
- The hooks drop an item without freeing it when a hangup took it out of the table
  before the next call, and in `sys_shutdown`. `ItemsOwned` counts these as `lost`.
- `Startup` of a timer that is already in the heap changes its deadline before the
  push is refused; the heap is then out of order. `Restart = FALSE` excludes it.

Programs:

- memcache's `FeedResponse` and `SetRequest` repeat while the parser says AGAIN, on
  the same bytes: on some cuts of a message they do not return, and on the others
  the parser says REPAIR and the exchange is given up. Only a message that comes
  whole with one `st_recv` is accepted, although `main.cpp:131` reads on until the
  parser is satisfied. `OkIsWhole` allows a reader to give up, and "spins" for these two.
- The proxy answers 400 to a request whose head or body does not come with one
  `st_recv` (a comment says so). It keeps the backend it picked while it waits for a
  slot, also when that one is marked dead meanwhile.
- `st_http_exchange` fails when bytes follow the reply in the same piece; `http_get` fails
  replies over 4096 bytes; RESP arrays are refused when their bulks are larger than
  the parser's buffer together.
- `dns_lookup` ends its walk at a record of a type it does not know, and succeeds with no
  address; a name that ends in a dot makes the question one byte too long.
- `st_dns_build_reply` copies all of the query and puts the answer behind it. The
  answer to a query with records behind the question (EDNS, several questions) is
  therefore not where a resolver looks for it; `Queries` has one question and
  nothing behind it, as `make_query` builds them. A name of 128 labels is refused.
- `parse_spec` takes "1-2-3" for "1-2".
- Lines that come with the nick are broadcast before the "joined" notice; a send
  that times out leaves a truncated line.

## 5. Proofs

The theorems hold for every value of the constants that satisfies the ASSUMEs of the
modules: any finite number of coroutines, any sizes and times. Where one needs more, the
table says so; it is then the hypothesis of the theorem.

| Theorem | Statement |
|---|---|
| *Scheduler* | |
| `TypeCorrect` | `TypeOK` |
| `OneQueueAlways` | flags and lists agree, nobody is queued twice |
| `ConservedAlways` | active or queued = live: nobody is lost, nobody comes back |
| `PoolSoundAlways` | the pool is within its limit, has no duplicates and nothing deleted |
| `JoinPendingAlways` | a pending parent has a live sub-coroutine to wake it |
| `NotifyNotLostAlways` | a notified coroutine is not left asleep |
| `NoEarlyTimeoutAlways` | no wait reports ETIME before its time |
| `SleepersInHeapWithin` | who sleeps is in the heap, if there are never more than `HeapMax - 1` live coroutines |
| `SleepersInHeapAlways` | the same, if `Cardinality(Worker) <= HeapMax` |
| `Refinement` | every step is one of `Coroutines` or a stutter |
| *Event table* | |
| `EventTypeCorrect` | `TypeOK` |
| `MaskIsKernelAlways` | `StIOState`'s mask is the kernel's registration |
| `WaitersArmedAlways` | who waits for an open descriptor is registered for it |
| `EventReportedAlways` | an event that was dispatched reaches the waiter |
| `ArmedHasItemAlways`, `ArmedIsWatchedAlways`, `WakesItsWaiterAlways` | what is armed has the right item and a waiter, and wakes that one; for `SetMax = 1` |
| *Connection pool* | |
| `OneUserAlways` | no connection has two users, until the hash leads to one |
| `SocketsOwnedAlways` | no socket is left open or closed under its user's connection, but for those a server puts another one over |
| *Hooks* | |
| `ItemsOwnedAlways` | an item has one owner |
| `TimeoutsAreItsOwnAlways` | no timeout is left of an earlier descriptor |
| `AsAskedAlways`, `WaitsWithItemAlways` | which calls return EAGAIN (those on accepted descriptors apart), stop the thread or find no item |
| *Suspending calls* | |
| `SysInvariant` | the inductive invariant |
| `SendsAllAlways`, `ZeroIsEndAlways` | what a send and a receive return is true |
| `NoEarlyTimeoutAlways`, `CallBoundedAlways` | a call lasts its timeout at least and twice as long, and the scheduler's delays, at most |
| *Server*, under `Enough` | |
| `ServInvariant` | the inductive invariant |
| `BuffersOwnedAlways` | every connection has two buffers of its own, the rest are pooled and empty |
| `OwnLineAlways` | a client gets its own line back |
| `NothingOwedAlways` | who waits for input has answered what it read |
| *Chat* | |
| `ChatInvariant` | the inductive invariant |
| `MailSeenAlways` | nobody sleeps over mail |
| `InOrderAlways` | lines are seen in order, and never one's own |
| *Client programs and proxy* | |
| `ExchInvariant` | the inductive invariant |
| `OwnReplyAlways` | an exchange reads its own reply, and leaves nothing for the next one |
| `HeldAlways` | connections and slots have one user, and are given back |
| `InTimeAlways` | an exchange ends within `Allowed`, a multiple of its time; main reports after its workers unless their exchanges may take as long as it waits; the counts are right |
| *Timers* | |
| `HeapImplementsTimers` | the heap with the timers on it implements `Timers`; for `~Restart` |

The hypotheses:

- `[]Roomy`: the application limits its live coroutines to what the sleepers' heap has room for (main()
  needs a place too). The code does not enforce it, and `HeapPush`'s failure is not looked at; without
  it `SleepersInHeap` is false. `Cardinality(Worker) <= HeapMax` implies it.
- `SetMax = 1`: waits for one descriptor, as every caller in the library makes them. With
  sets of two the roll-back of `Delete` arms items nobody waits for (section 4).
- `Enough`: there are finitely many connections, and no fewer than 2 `Cardinality(Obj)` buffers, so that
  `new StBuffer` always finds memory.
- `~Restart`: nobody starts a timer that is in the heap already. Otherwise the deadline of an
  entry changes under the heap, and the order is lost (section 4).
- The assumptions of `StExchange` itself, for `InTimeAlways`: there are finitely many workers,
  a connection's default timeout is no shorter than `-t`, and main waits at least a millisecond
  (`Slack`) beyond its estimate; the code waits 5000 (`st_portscan/main.cpp:230`). With `Slack = 0`
  main and the last worker would be at one time.

*Scheduler.* None of the safety invariants is inductive alone. `Inv` is
the conjunction of the first five with `ParentsStay` (a thread with sub-coroutines
is active or pending). That a coroutine from the pool can be queued needs
`Conserved` (it is queued nowhere); `Conserved` needs `PoolSound` (it is pooled
once and not also about to be deleted); `Finish`, which makes the parent ready,
needs `JoinPending` and `ParentsStay` (the parent is in the pend list and nowhere
else). Lemmas on `Append`, `Tail` and concatenation keep the run list without
duplicates; lemmas on `Yield`, `Woken` and the other list operations keep
`ListsAgree`; then there is one lemma per action. On top of `Inv`, `Waits` says for
each program counter which flags, notification and wake time a thread can have,
thread by thread (a notified waiter is runnable, an unnotified one that is runnable
has its time behind it). The refinement maps `run` and `active` to
themselves and the threads with a flag "io", "sleep" or "pend" to `waiting`; the
daemon's round is one step that wakes many.

*Event table.* A record of a descriptor is *sound* if mask and kernel agree and a
closed descriptor has neither. Each helper maps sound records to sound records
whether it succeeds or fails, so the set loops do, for any set and any failing
index, and so does every action that writes `slot`. `WaitInv` adds who owns an item
and where it may be (an item in a coroutine's set is owned by that coroutine, has a descriptor and
is in no other set), that the connections' descriptors are the items', and that an armed
waiter's events are its item's. `Armed` is `WaitersArmed` without its restriction to the io list,
since `Delete` must find the descriptors armed after the waiter has left that list. For sets of
one, `Kept` says of each descriptor what its record, its item and its owner have to do with
each other.

*Connection pool.* `SocketsOwned` with the types is inductive by itself: `Allocated` shows that
`AllocPtr` leaves the socket of what it hands out as it was, however it got there, so that
`Create` closes it (`ClosedIs`) before it makes another (`HoldStep`), and `FreePtr` closes
that of the connection it gets, whoever else uses it (`FreeStep`). For `OneUser`, one that did not come
through the hash is nobody's and is out of the pool (`AllocatedFresh`), which `OneHold` and `OneFree`
keep. No hypothesis on kinds or addresses is needed.

*Hooks.* `OneOwner` and `Placed` say that an item is in the pool, with one descriptor's record,
with one connection or lost, and where the table has it; `Waiting` what a coroutine in a wait holds;
`Blank` that a record not in use is blank; `Wishes` that the kernel's
flag is what the user asked for last, or non-blocking when the library chose, for its own
or for an accepted descriptor. A registration that fails leaves all of it alone.

*Suspending calls.* `Fine` bounds, for a call in each of its stages, the time since its start, the time
the last wait was given, and the bytes done; the clock never passes a
wake time by more than `Slack` without the call being woken. `Closing` says in which
stages an end may have closed.

*Server.* `Flow` describes the line of one client from beginning to end: it is answered,
or it is coming, cut at two places into what is in the receive buffer, in the socket and
still with the client, or it is in the send buffer, nothing of it sent. Each action moves one of the
two cuts or goes to the next of the three; the lemmas on parts of a line (`PartOfPart`,
`PartsJoin`, `PartsMove`) are about these cuts. `Buffers` says that the buffers in hand are
two for each connection, all different, and that what is in the pool is fresh; that a further
one exists is `RoomFor`, by counting.

*Chat.* `Queued` says of every mailbox whose lines it has, in which order and after
what was seen; `AllAlive` which program counters go with which session; `AllUnread` that a
session with mail will look at it before it waits; `OneSession` that a client has one.
`InOrder` follows for each step from the invariant before it.

*Client programs and proxy.* `Stands` relates an exchange to its connection in each of its
calls: nothing is outstanding until the request is sent; then what was read and what
lies there are the first pieces of the reply to this request, and the peer either has
exactly this request for the rest, or has answered it or shut its side. So a whole reply leaves
nothing outstanding, which is why it may be kept, and every other way out closes the connection.
`OneEach` and `InUse` say that users have different connections and that the slots in
use are those of the handlers in a call; `Unused` that nothing is outstanding on the
others; `Between` who holds a socket in between. `Stepped` shows once that a step
which changes one coroutine and one connection keeps all this; each action then only
has to show that what it leaves `Fits`. The proxy has at least one backend, as
`st_httpproxy/main.cpp:463` demands.
For `InTime`, `Timely` says of a call by when it is over, its second wait included (`last`), and
`Soon` that the time of its exchange is up early enough for that wait, so that time, which
passes only until the first call must end, leaves each exchange within `Allowed`. `Paced` adds
exchanges up (`Span`): a worker of a program that shares nothing (`Single`) has taken at most
what is allowed for each exchange it has done, and the workers of the scan, which take ports from one
counter, what is allowed for each port that is gone. So main's deadline comes before the workers
only if it is within that many exchanges (`Patience`). `Tally` is the count: a worker
adds to the score exactly when it adds to its own count or, in the scan, when it is done with a
port it has taken. The sum of the counts is over all
workers; `SumsExist` and `SumOneMore` show that the recursion that defines it has a value, and
that it grows by one with one of its summands.

*Timers.* `Linked` says that the entries have the positions they are at, `Ordered` that
no entry is below its parent; a timer has a deadline exactly while it is in the heap. `OrderedUp` and
`OrderedDown` are the order but for the entry at one position: but for itself and its
parent, or but for itself and its children, and in both cases the children are not below the parent.
One iteration (`UpRound`, `DownRound`) keeps that at the position it goes to, and either is nearer
to the end of the array or finds the order whole; after as many iterations as there are entries, it is
whole (`Sifted`). `PushIs` and `DeleteIs` show that both leave one entry out of
order, in the direction in which it is then sifted. `FirstIsLeast` gives the
timer that fires, and that the round may end.

Lemmas on sequences without repetitions (`RemovedFrom`, `Appended`, `TailOf`) stand in
each module that needs them.

Only model-checked, and why:

- Liveness under fairness is beyond the prover: `ReadyRuns`, `TimedWaitsEnd`,
  `LinesEnd`.
- RECURSIVE operators are too: what the parsers of `StParsers` compute, and so
  `OkIsWhole` and `Decoded`. (Where an induction over numbers was needed, for
  the sums of `StExchange` and the loops of the heap, the proofs take the least
  counterexample instead; the parsers go over data whose shape is recursive.)

## 6. What is not modelled, and the plan

`PROJECT.json` lists every component with its state. Done: the modules of section
2, and the theorems of section 5. What is next:

1. A pointer-level `StTailq` that implements sequences, with `REMOVE_SELF`; the
   buckets of `st_hash_list` and of the buffer pool.

Not modelled:

- `StIOState` over kqueue: the same interface with a filter per direction. Its
  behaviour after a refusal half way rests on the kernel's answers, of which the
  repository says nothing.
- http_parser: third-party, and the largest file of the repository. `StParsers` has
  what its users see of it.
- `st_wrk`'s processes, pipes and statistics: no coroutine takes part, and the
  arithmetic is a sum of numbers.
- The sample HTTP server, the hook demo and the chat client: one answer
  or one loop over components that are modelled, without state. The sample HTTP
  server answers what `DoInput` gives it, whole or not.
- Datagrams at a server (`StServer` with sessions over UDP), and a server whose
  connections are not kept alive.
- How late a timer of `st_heap_timer` fires: the daemon's poll looks at the sleepers
  only, so up to the idle timeout or the next event. Nothing in the repository
  starts a timer outside tests.
- `Init` of the event table, which takes max(cap, 65535) slots where the comment says
  min(rlim_cur, 65535); steps of the wall clock backwards, which lengthen every wait.
- The tail queue's macros, the singleton, context switching and stacks (assembly,
  third-party), logging, options, output, configuration and build files.

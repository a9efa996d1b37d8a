------------------------------- MODULE StExchange -------------------------------
(***************************************************************************)
(* The request and reply exchanges of the client programs under src/app,   *)
(* and the HTTP proxy, which puts its own slots around the same exchange:  *)
(*                                                                         *)
(*   echo   tcp_sendrecv, used by st_echo/client.cpp                       *)
(*   dns    udp_sendrecv, used by st_dns                                   *)
(*   redis  exchange_once of st_redisclient                                *)
(*   http   st_http_exchange, used by st_httpclient, and http_get of       *)
(*          st_wrk                                                         *)
(*   keep   the former with -k                                             *)
(*   scan   st_portscan, which only connects, and whose workers share the  *)
(*          ports                                                          *)
(*   proxy  st_httpproxy, on st_http_exchange, with its health probe       *)
(*                                                                         *)
(* A step goes from the return of one suspending call to the next one, as  *)
(* coroutines are not preempted.  Time passes only while all of them are   *)
(* suspended, and a call ends in the time StSys.CallBounded gives it.       *)
(***************************************************************************)
EXTENDS Integers, Sequences, FiniteSets, Functions

CONSTANTS
    Program,     \* the programs looked at, one of which runs
    Worker,      \* their coroutines: workers, or the proxy's handlers
    Probe,       \* the coroutine of the proxy's health_loop
    Backend,     \* g_be: 0..n-1
    Slot,        \* its slots: 0..g_slots-1
    Count,       \* exchanges of a worker
    Ports,       \* g_nports
    Pieces,      \* the pieces a reply comes in over TCP
    Timeout,     \* -t
    Default,     \* m_timeout_ of a connection, 30000, which tcp_sendrecv leaves
    Slack,       \* the 5000 ms main waits beyond its estimate
    Health,      \* g_health_ms
    MaxTime      \* bound of the clock

ASSUME ExchangeAssumption ==
    /\ Program \subseteq {"echo", "dns", "redis", "http", "keep", "scan", "proxy"}
    /\ Probe \notin Worker /\ Slot \subseteq Nat
    /\ Cardinality(Backend) \in Nat \ {0} /\ Backend = 0..(Cardinality(Backend) - 1)
    /\ (Worker \cup {Probe}) \cap (Backend \X Slot) = {}
    /\ {Count, Ports, Pieces, Timeout, Default, Health} \subseteq Nat \ {0}
    /\ Slack \in Nat \ {0} /\ MaxTime \in Nat /\ Timeout <= Default
    /\ IsFiniteSet(Worker)

VARIABLES
    prog,   \* the program that runs
    now,    \* Util::TimeMs
    run,    \* the coroutines
    io,     \* the connections, by who holds them
    alive,  \* alive of every backend
    use,    \* in_use of every slot
    next,   \* g_next, of the proxy the next backend, of the scan the next port
    main,   \* main waits for its workers, or has reported
    score   \* g_ok and g_fail, or what the scan found open and not

vars == <<prog, now, run, io, alive, use, next, main, score>>

Coroutine == Worker \cup {Probe}
Place == Backend \X Slot
Holder == Coroutine \cup Place

\* sock: none, open, or shut by the peer; asked: the requests the peer has to
\* answer, of the first of which it has sent so many pieces; in: what is to be read.
NoIo == [sock |-> "none", asked |-> <<>>, sent |-> 0, in |-> <<>>]

\* at: idle, asleep, or in the call it waits in, which times out from until on and by
\* last; n: exchanges done; began: when this one did, due: when its time is over;
\* got: pieces of the reply; be, slot: what pick_backend and the loop after it chose.
Idle == [at |-> "idle", n |-> 0, began |-> 0, due |-> 0, until |-> 0, last |-> 0, got |-> <<>>,
         be |-> 0, slot |-> 0]

\* A call with the time-out t.  While an event of an earlier wait lies in the item,
\* its end does not look like a time-out: st_send and st_recv find nothing to do and
\* wait again, and the clock ends them only when more than t has passed.  st_connect
\* has a new item, and no second wait.
Longest(at, t) ==
    IF at \notin {"send", "recv"} THEN t ELSE IF t = 0 THEN 1 ELSE 2 * t
Waiting(r, at, t) == [r EXCEPT !.at = at, !.until = now + t, !.last = now + Longest(at, t)]

Init ==
    /\ prog \in Program /\ now = 0
    /\ run = [c \in Coroutine |-> IF c = Probe THEN Waiting(Idle, "asleep", Health) ELSE Idle]
    /\ io = [h \in Holder |-> NoIo]
    /\ alive = [b \in Backend |-> TRUE] /\ use = [p \in Place |-> FALSE] /\ next = 0
    /\ main = "waits" /\ score = [ok |-> 0, fail |-> 0]

-----------------------------------------------------------------------------
(* What a coroutine works on.                                              *)

Proxied(c) == prog = "proxy" /\ c # Probe
Io(c) == IF Proxied(c) THEN <<run[c].be, run[c].slot>> ELSE c
Request(c) == <<c, run[c].n>>
Scan == prog = "scan"
Whole == IF prog = "dns" THEN 1 ELSE Pieces

\* remaining_ms and time_left.
MutantLeft(due) == Timeout  \* forgets the time that has passed
Left(due) == IF due > now THEN due - now ELSE 0

Go(c, r) == run' = [run EXCEPT ![c] = r]

-----------------------------------------------------------------------------
(* The end of an exchange.                                                 *)

\* st_http_exchange leaves the connection open after a whole reply, if the request
\* (keepalive) and the reply (keeps) say so; the others free it in any case.
MutantKept(c, good, keeps) == prog = "keep" \/ Proxied(c)
Kept(c, good, keeps) == good /\ keeps /\ (prog = "keep" \/ Proxied(c))

\* forward: the slot is free; a failure marks the backend and closes the slot.
Forwarded(c, good) ==
    /\ use' = [use EXCEPT ![Io(c)] = FALSE]
    /\ alive' = IF good THEN alive ELSE [alive EXCEPT ![run[c].be] = FALSE]
    /\ UNCHANGED next

\* probe_backend: alive after an answer of the 200s; then the next backend.
Probed(c, good) ==
    /\ \E fine \in BOOLEAN : (fine => good) /\ alive' = [alive EXCEPT ![run[c].be] = fine]
    /\ UNCHANGED <<use, next>>
AfterProbe ==
    LET b == run[Probe].be + 1
    IN  IF b \in Backend THEN [Idle EXCEPT !.be = b]
                         ELSE Waiting(Idle, "asleep", Health)

Counted(good) ==
    score' = IF good THEN [score EXCEPT !.ok = @ + 1] ELSE [score EXCEPT !.fail = @ + 1]

\* Every way out frees the connection and counts; a worker's last one closes what
\* -k left open.
Last(c) == run[c].n + 1 = Count /\ ~Proxied(c)
End(c, good, keeps) ==
    /\ io' = [io EXCEPT ![Io(c)] = IF Kept(c, good, keeps) /\ ~Last(c)
                                   THEN [@ EXCEPT !.in = <<>>] ELSE NoIo]
    /\ Go(c, IF c = Probe THEN AfterProbe ELSE [Idle EXCEPT !.n = run[c].n + 1])
    /\ CASE c = Probe  -> Probed(c, good) /\ UNCHANGED score
         [] Proxied(c) -> Forwarded(c, good) /\ UNCHANGED score
         [] OTHER      -> Counted(good) /\ UNCHANGED <<alive, use, next>>

Same == UNCHANGED <<prog, now, main>>
Quiet == UNCHANGED <<alive, use, next, score>> /\ Same

-----------------------------------------------------------------------------
(* The exchange.                                                           *)

Connects == prog # "dns"
ConnectTime == IF prog = "echo" THEN Default ELSE Timeout

\* From AllocPtr or ensure_conn to the first call: connecting, or sending at once
\* with udp and on a connection that is kept, whatever its peer has done since.
Exchanging(c, r) ==
    LET began == [r EXCEPT !.due = now + Timeout, !.got = <<>>]
        h == IF Proxied(c) THEN <<r.be, r.slot>> ELSE c
    IN  IF io[h].sock = "none" /\ Connects
        THEN Go(c, Waiting(began, "connect", ConnectTime)) /\ UNCHANGED io
        ELSE /\ Go(c, Waiting(began, "send", Timeout))
             /\ io' = [io EXCEPT ![h].sock = IF @ = "none" THEN "open" ELSE @]

Begin(c) ==
    /\ run[c].at = "idle" /\ ~Proxied(c) /\ ~Scan
    /\ c = Probe \/ (prog # "proxy" /\ run[c].n < Count)
    /\ Exchanging(c, [run[c] EXCEPT !.began = now]) /\ Quiet

\* The loop of the scan takes a port before it connects to it.
TakePort(c) ==
    /\ run[c].at = "idle" /\ Scan /\ c # Probe /\ next < Ports
    /\ next' = next + 1
    /\ Exchanging(c, [run[c] EXCEPT !.began = now])
    /\ UNCHANGED <<alive, use, score>> /\ Same

\* Only exchange_once of redis takes its time from here; the scan is done.
Connected(c) ==
    /\ run[c].at = "connect"
    /\ IF Scan THEN End(c, TRUE, FALSE) /\ Same
       ELSE /\ io' = [io EXCEPT ![Io(c)].sock = "open"]
            /\ LET due == IF prog = "redis" THEN now + Timeout ELSE run[c].due
               IN  Go(c, Waiting([run[c] EXCEPT !.due = due], "send", Left(due)))
            /\ Quiet

\* The loop around st_recv ends when it finds its time over; _tcp_check_recv still
\* goes around at the last moment.
Hasty == prog \in {"echo", "dns"}
Receive(c, due, got, rest) ==
    IF Left(due) > 0 \/ (Hasty /\ due = now)
    THEN /\ Go(c, Waiting([run[c] EXCEPT !.due = due, !.got = got], "recv", Left(due)))
         /\ io' = rest /\ UNCHANGED <<alive, use, next, score>>
    ELSE End(c, FALSE, FALSE)

\* A peer that has shut its side may still take a request.  tcp_sendrecv and
\* udp_sendrecv receive with what is left, though that be nothing.
Sent(c) ==
    /\ run[c].at = "send"
    /\ Receive(c, IF Hasty /\ run[c].due < now THEN now ELSE run[c].due, <<>>,
               [io EXCEPT ![Io(c)].asked =
                    IF io[Io(c)].sock = "open" THEN Append(@, Request(c)) ELSE @])
    /\ Same

\* One st_recv takes what is there; the parser, or the callback, says whether the
\* reply is whole.
Received(c) ==
    /\ run[c].at = "recv" /\ io[Io(c)].in # <<>>
    /\ LET got == run[c].got \o io[Io(c)].in
       IN  IF Len(got) >= Whole THEN \E keeps \in BOOLEAN : End(c, TRUE, keeps)
                                ELSE Receive(c, run[c].due, got, [io EXCEPT ![Io(c)].in = <<>>])
    /\ Same

\* A call fails: its time is up, or the peer refuses, has reset or has shut down.
Failed(c) ==
    /\ \/ run[c].at \in {"connect", "send", "recv"} /\ run[c].until <= now
       \/ run[c].at = "connect"
       \/ run[c].at = "send" /\ io[Io(c)].sock = "shut"
       \/ run[c].at = "recv" /\ io[Io(c)].sock = "shut" /\ io[Io(c)].in = <<>>
    /\ End(c, FALSE, FALSE) /\ Same

-----------------------------------------------------------------------------
(* The proxy: forward and health_loop.                                     *)

\* pick_backend: the first one alive, from g_next on; g_next goes on by one.
Backends == Cardinality(Backend)
Order(b) == (b - next + Backends) % Backends
FirstAlive == CHOOSE b \in Backend :
                  alive[b] /\ \A d \in Backend : alive[d] => Order(b) <= Order(d)

MutantFree(b) == Slot  \* does not look at in_use
Free(b) == {s \in Slot : ~use[<<b, s>>]}

\* The loop for a slot of the backend that was picked, which may die meanwhile.
TakeSlot(c, r) ==
    LET s == CHOOSE s \in Free(r.be) : \A t \in Free(r.be) : s <= t
    IN  use' = [use EXCEPT ![<<r.be, s>>] = TRUE] /\ Exchanging(c, [r EXCEPT !.slot = s])
SleepForSlot(c, r) == Go(c, Waiting(r, "slot", 1)) /\ UNCHANGED <<io, use>>
BadGateway(c) == Go(c, [Idle EXCEPT !.n = run[c].n + 1]) /\ UNCHANGED <<io, use>>

Forward(c) ==
    /\ run[c].at = "idle" /\ Proxied(c) /\ run[c].n < Count
    /\ next' = (next + 1) % Backends
    /\ IF \A b \in Backend : ~alive[b] THEN BadGateway(c)
       ELSE LET r == [run[c] EXCEPT !.began = now, !.be = FirstAlive]
            IN  IF Free(r.be) # {} THEN TakeSlot(c, r) ELSE SleepForSlot(c, r)
    /\ UNCHANGED <<alive, score>> /\ Same

WaitedForSlot(c) ==
    /\ run[c].at = "slot" /\ run[c].until = now
    /\ CASE Free(run[c].be) # {}         -> TakeSlot(c, run[c])
         [] Free(run[c].be) = {} /\ now - run[c].began >= Timeout -> BadGateway(c)
         [] OTHER                        -> SleepForSlot(c, run[c])
    /\ UNCHANGED <<alive, next, score>> /\ Same

\* health_loop: g_health_ms after the last probe ended, from the first backend on.
health_loop ==
    /\ run[Probe].at = "asleep" /\ run[Probe].until = now /\ prog = "proxy"
    /\ Go(Probe, Idle) /\ UNCHANGED io /\ Quiet

-----------------------------------------------------------------------------
(* The peers, the clock, and the main of the other programs.               *)

\* A peer answers in order, a piece at a time; over TCP it may shut its side at any
\* time.  Over UDP the answer may not come, which is a time-out.
Answer(h) ==
    /\ io[h].sock = "open" /\ io[h].asked # <<>>
    /\ LET piece == [of |-> Head(io[h].asked), k |-> io[h].sent + 1]
           last == piece.k = Whole
       IN  io' = [io EXCEPT ![h].in = Append(@, piece),
                            ![h].sent = IF last THEN 0 ELSE piece.k,
                            ![h].asked = IF last THEN Tail(@) ELSE @]
    /\ UNCHANGED run /\ Quiet
Shut(h) ==
    /\ io[h].sock = "open" /\ Connects
    /\ io' = [io EXCEPT ![h].sock = "shut", ![h].asked = <<>>, ![h].sent = 0]
    /\ UNCHANGED run /\ Quiet

Done(c) == IF Scan THEN run[c].at = "idle" /\ next = Ports ELSE run[c].n = Count
Suspended(c) == run[c].at # "idle" /\ run[c].last > now
Tick ==
    /\ now < MaxTime /\ now' = now + 1
    /\ \A c \in Worker : Done(c) \/ Suspended(c)
    /\ prog = "proxy" => Suspended(Probe)
    /\ UNCHANGED <<prog, run, io, alive, use, next, main, score>>

\* main looks every 10 ms; then the process ends.
Deadline == Timeout * (IF Scan THEN Ports ELSE Count + 1) + Slack
Report ==
    /\ prog # "proxy" /\ (now >= Deadline \/ \A c \in Worker : Done(c))
    /\ main' = "reports"
    /\ UNCHANGED <<prog, now, run, io, alive, use, next, score>>

Next ==
    /\ main = "waits"
    /\ \/ \E c \in Coroutine :
             Begin(c) \/ TakePort(c) \/ Connected(c) \/ Sent(c) \/ Received(c) \/ Failed(c)
       \/ \E c \in Worker : Forward(c) \/ WaitedForSlot(c)
       \/ \E h \in Holder : Answer(h) \/ Shut(h)
       \/ health_loop \/ Tick \/ Report

Spec == Init /\ [][Next]_vars

-----------------------------------------------------------------------------

Busy(c) == run[c].at \in {"connect", "send", "recv"}
Users(h) == {c \in Coroutine : Busy(c) /\ Io(c) = h}

\* What a coroutine has read, and what lies ready for it, are pieces of the reply to
\* its own request, from the first on; on a connection nobody uses, no reply is
\* outstanding that the next one could take for its own.
OwnReply ==
    /\ \A c \in Coroutine : Busy(c) =>
           LET pieces == run[c].got \o io[Io(c)].in
           IN  \A k \in 1..Len(pieces) : pieces[k] = [of |-> Request(c), k |-> k]
    /\ \A h \in Holder : Users(h) = {} => io[h].asked = <<>> /\ io[h].in = <<>>

\* Besides the types: a connection is used by one coroutine at a time, a slot is
\* taken exactly while somebody uses its connection, and between exchanges a
\* coroutine holds no socket, unless -k keeps it for the next one.
Held ==
    /\ prog \in Program /\ main \in {"waits", "reports"} /\ (Scan \/ next \in Backend)
    /\ \A h \in Holder : Cardinality(Users(h)) <= 1
    /\ \A p \in Place : use[p] <=> Users(p) # {}
    /\ \A c \in Coroutine :
           io[c].sock # "none" => c \in Users(c) \/ (prog = "keep" /\ ~Done(c))

\* How long an exchange can take: twice -t, also with several pieces and with a new
\* connection, as the second wait of its last call can begin when -t is over.  The scan
\* only connects.  tcp_sendrecv connects with the connection's own time-out, and then
\* sends and receives with nothing left; udp_sendrecv may receive so; exchange_once of
\* redis counts from the connection on, and the proxy may wait once more for a slot.
Allowed(c) ==
    CASE prog = "echo" -> IF 2 * Timeout > Default THEN 2 * Timeout + 1 ELSE Default + 2
      [] prog = "dns" -> 2 * Timeout + 1
      [] Scan -> Timeout
      [] prog = "redis" \/ Proxied(c) -> 3 * Timeout
      [] OTHER -> 2 * Timeout

\* No exchange takes longer.  Main, which waits for less, reports before its workers
\* are done only if that many exchanges may take as long as it waits; and what it
\* reports counts every exchange, and every port the workers have taken from their
\* common counter, once.
Rounds == IF Scan THEN Ports ELSE Count
Taken == IF Scan THEN next - Cardinality({c \in Worker : Busy(c)})
                 ELSE SumFunction([c \in Worker |-> run[c].n])
InTime ==
    /\ \A c \in Coroutine : run[c].at \notin {"idle", "asleep"} => now - run[c].began <= Allowed(c)
    /\ main = "reports" => \A c \in Worker : Done(c) \/ Deadline <= Rounds * Allowed(c)
    /\ prog # "proxy" => score.ok + score.fail = Taken
=============================================================================

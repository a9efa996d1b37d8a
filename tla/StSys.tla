--------------------------------- MODULE StSys ---------------------------------
(***************************************************************************)
(* The timed calls of src/src/st_sys.cc over one connection: st_connect,   *)
(* st_send, st_write and st_sendto of the coroutine at its client end,     *)
(* st_accept, st_recv, st_recvfrom and st_read of the one at its server    *)
(* end, with the loop that WaitFdReady closes in each.  StThreadSchedule   *)
(* and StEventSchedule say how a coroutine waits; here is what the calls   *)
(* do around a wait: the elapsed time, interrupted and refused system      *)
(* calls, partial writes, and what they return.                            *)
(*                                                                         *)
(* An action is one system call with the code behind it, or one pass       *)
(* through WaitFdReady.  The two ends use different descriptors and items. *)
(***************************************************************************)
EXTENDS Integers, Sequences

CONSTANTS
    Client, Server,  \* the coroutines at the two ends
    Wants,           \* the lengths asked for
    Cap,             \* bytes the kernel holds for the connection
    Timeout,         \* the finite timeouts in use
    IntMax,          \* 0x7fffffff, what NormalizeTimeoutMs makes of -1
    Slack,           \* how late, in ms, the scheduler comes back to a waiter
    Refusals,        \* may the kernel refuse to watch a descriptor
    MaxClock,        \* bound: no finite call can last beyond this instant
    MaxCalls         \* bound: the calls made at each end

Thread == {Client, Server}

ASSUME SysAssumption ==
    /\ Client # Server
    /\ Wants \subseteq Nat /\ Cap \in Nat \ {0}
    /\ Timeout \subseteq Nat \ {0} /\ \A ms \in Timeout : ms < IntMax
    /\ IntMax \in Nat /\ Slack \in Nat /\ MaxClock \in Nat /\ MaxCalls \in Nat
    /\ MaxClock < IntMax /\ Refusals \subseteq BOOLEAN

VARIABLES
    call,     \* the call each end is in, or has returned from
    wakeup,   \* until when it waits
    revents,  \* does the item of its descriptor have m_revents_
    item,     \* does the event table have an item for its descriptor
    link,     \* the connection
    wire,     \* the bytes on their way
    closed,   \* has the client closed its end
    clock,    \* Util::TimeMs()
    calls     \* the calls made

vars == <<call, wakeup, revents, item, link, wire, closed, clock, calls>>

Sending   == {"send", "sendto"}    \* "send" is st_send and st_write
Receiving == {"recv", "read"}      \* "recv" is st_recv and st_recvfrom
Ops  == Sending \cup Receiving \cup {"connect", "accept"}
Steps == {"idle", "try", "wait", "blocked", "ready", "back"}
Links == {"none", "syn", "backlog", "open", "refused", "reset"}

\* put holds the bytes of the buffer the call has handed to the kernel, as many as
\* send_len counts.  spent and poked are history: how long the call lasted, and
\* whether it was notified meanwhile.
NoCall == [op |-> "recv", at |-> "idle", start |-> 0, timeout |-> 0, want |-> 0,
           n |-> 0, errno |-> "none", spent |-> 0, put |-> <<>>, poked |-> FALSE]

Init ==
    /\ call = [t \in Thread |-> NoCall]
    /\ wakeup = [t \in Thread |-> 0]
    /\ revents = [t \in Thread |-> FALSE]
    /\ item = [t \in Thread |-> TRUE]
    /\ link \in {"none", "open"} /\ wire = <<>> /\ closed = FALSE
    /\ clock = 0 /\ calls = [t \in Thread |-> 0]

kernel == <<link, wire, closed>>
waiting == <<wakeup, revents, item>>

-----------------------------------------------------------------------------
(* What every call does.                                                   *)

In(t, ops, step) == call[t].op \in ops /\ call[t].at = step

Done(t) == Len(call[t].put)   \* send_len

NormalizeTimeoutMs(ms) == IF ms <= -1 THEN IntMax ELSE ms

\* The call c is left with n and errno; or it goes on with the next step.
Left(c, n, errno) ==
    [c EXCEPT !.at = "back", !.n = n, !.errno = errno, !.spent = clock - c.start, !.start = 0]
Return(t, n, errno) == call' = [call EXCEPT ![t] = Left(@, n, errno)]
GoOn(t, step) == call' = [call EXCEPT ![t].at = step]

TimeIsUp(t) == clock - call[t].start > call[t].timeout

\* A system call that has failed with errno, in the loops that call first and
\* look at the time afterwards.
Failed(t, errno, again) ==
    IF TimeIsUp(t) THEN Return(t, -1, "ETIME")
    ELSE IF errno = "EINTR" THEN GoOn(t, "try")
    ELSE IF errno \in again THEN GoOn(t, "wait")
    ELSE Return(t, -1, errno)

\* The same in st_accept, st_send and st_write, which leave the time to the next step.
Refused(t, errno) ==
    CASE errno = "EINTR"  -> GoOn(t, "try")
      [] errno = "EAGAIN" -> GoOn(t, "wait")
      [] OTHER            -> Return(t, -1, errno)

\* Only the calls that wait first do not start with their system call.
Start(t, op, want, ms) ==
    /\ call[t].at \in {"idle", "back"}
    /\ calls[t] < MaxCalls
    /\ ms = -1 \/ clock + 2 * ms + Slack <= MaxClock
    /\ calls' = [calls EXCEPT ![t] = @ + 1]
    /\ call' = [call EXCEPT ![t] =
                  [NoCall EXCEPT !.op = op, !.at = IF op = "recv" THEN "wait" ELSE "try",
                                 !.start = clock, !.want = want,
                                 !.timeout = NormalizeTimeoutMs(ms)]]
    /\ UNCHANGED <<waiting, kernel, clock>>

MutantUntil(t) == call[t].timeout  \* not from now on
Until(t) == clock + call[t].timeout

\* WaitFdReady up to the Yield of Schedule.  Each wait gets the full timeout.
MutantWaitFdReady(t) ==  \* does not look at the time spent
    /\ call[t].at = "wait"
    /\ IF ~item[t] THEN Return(t, -2, "EINVAL") /\ UNCHANGED wakeup
       ELSE \/ /\ GoOn(t, "blocked")
               /\ wakeup' = [wakeup EXCEPT ![t] = Until(t)]
            \/ /\ TRUE \in Refusals
               /\ Return(t, -3, "EIO")
               /\ UNCHANGED wakeup
    /\ UNCHANGED <<revents, item, kernel, clock, calls>>
WaitFdReady(t) ==
    /\ call[t].at = "wait"
    /\ IF TimeIsUp(t) THEN Return(t, -1, "ETIME") /\ UNCHANGED wakeup
       ELSE IF ~item[t] THEN Return(t, -2, "EINVAL") /\ UNCHANGED wakeup
       ELSE \/ /\ GoOn(t, "blocked")
               /\ wakeup' = [wakeup EXCEPT ![t] = Until(t)]
            \/ /\ TRUE \in Refusals
               /\ Return(t, -3, "EIO")
               /\ UNCHANGED wakeup
    /\ UNCHANGED <<revents, item, kernel, clock, calls>>

\* The end of Schedule: an event, also one of an earlier wait, or a timeout.
Resume(t) ==
    /\ call[t].at = "ready"
    /\ IF revents[t] THEN GoOn(t, "try") ELSE Return(t, -1, "ETIME")
    /\ UNCHANGED <<waiting, kernel, clock, calls>>

-----------------------------------------------------------------------------
(* The system calls.                                                       *)

\* The errors of connect().  A connection that stands is 0 or EISCONN, which the
\* code turns into 0 unless the time is up.
ConnectErrno ==
    CASE link = "none"    -> {"EINPROGRESS", "EINTR", "ECONNREFUSED"}
      [] link = "syn"     -> {"EALREADY"}
      [] link = "refused" -> {"ECONNREFUSED"}
      [] link = "reset"   -> {"ECONNRESET"}
      [] OTHER            -> {}

st_connect ==
    /\ In(Client, {"connect"}, "try")
    /\ \/ /\ link = "none" /\ link' = "backlog" /\ Return(Client, 0, "none")
       \/ /\ link \in {"backlog", "open"} /\ UNCHANGED link
          /\ Return(Client, 0, "none") \/ (TimeIsUp(Client) /\ Return(Client, -1, "ETIME"))
       \/ /\ \E errno \in ConnectErrno :
                /\ Failed(Client, errno, {"EAGAIN", "EINPROGRESS"})
                /\ link' = IF errno \in {"EINPROGRESS", "EINTR"} THEN "syn" ELSE link
    /\ UNCHANGED <<waiting, wire, closed, clock, calls>>

\* The accepted descriptor gets an item of its own.
AcceptErrno == {"EINTR", "EMFILE"} \cup IF link = "backlog" THEN {} ELSE {"EAGAIN"}

st_accept ==
    /\ In(Server, {"accept"}, "try")
    /\ \/ /\ link = "backlog" /\ link' = "open"
          /\ Return(Server, 1, "none")
          /\ revents' = [revents EXCEPT ![Server] = FALSE]
          /\ item' = [item EXCEPT ![Server] = TRUE]
       \/ /\ \E errno \in AcceptErrno : Refused(Server, errno)
          /\ UNCHANGED <<link, revents, item>>
    /\ UNCHANGED <<wakeup, wire, closed, clock, calls>>

Connected == link \in {"backlog", "open"}
Room == IF Connected THEN Cap - Len(wire) ELSE 0
Least(a, b) == IF a < b THEN a ELSE b
WriteErrno == IF Connected THEN {"EINTR"} \cup IF Room = 0 THEN {"EAGAIN"} ELSE {} ELSE {"EPIPE"}

Remaining(t) == call[t].want - Done(t)

\* The next k bytes of the buffer go into the kernel.
MutantPutBytes(t, k) == [i \in 1..k |-> i]  \* from the start of the buffer again
PutBytes(t, k) == [i \in 1..k |-> Done(t) + i]

\* A socket that is given bytes takes some or fails, so that n == 0 does not happen.
st_send ==
    LET t == Client IN
    /\ In(t, {"send"}, "try")
    /\ IF Done(t) >= call[t].want THEN Return(t, call[t].want, "none") /\ UNCHANGED wire
       ELSE IF TimeIsUp(t) THEN Return(t, -1, "ETIME") /\ UNCHANGED wire
       ELSE \/ \E errno \in WriteErrno : Refused(t, errno) /\ UNCHANGED wire
            \/ \E k \in 1..Least(Room, Remaining(t)) :
                 LET all == Done(t) + k >= call[t].want
                 IN  /\ wire' = wire \o PutBytes(t, k)
                     /\ LET c == [call[t] EXCEPT !.put = @ \o PutBytes(t, k)]
                        IN  call' = [call EXCEPT ![t] = IF all THEN Left(c, c.want, "none")
                                                              ELSE [c EXCEPT !.at = "wait"]]
    /\ UNCHANGED <<waiting, link, closed, clock, calls>>

st_sendto ==
    LET t == Client IN
    /\ In(t, {"sendto"}, "try")
    /\ \/ \E errno \in WriteErrno : Failed(t, errno, {"EAGAIN"}) /\ UNCHANGED wire
       \/ \E k \in 1..Least(Room, Remaining(t)) :
            /\ wire' = wire \o PutBytes(t, k)
            /\ call' = [call EXCEPT ![t] = Left([@ EXCEPT !.put = PutBytes(t, k)], k, "none")]
    /\ UNCHANGED <<waiting, link, closed, clock, calls>>

\* What a read finds: bytes, the end, or an errno.  A read of 0 bytes succeeds.
AtEnd == wire = <<>> /\ closed
ReadErrno ==
    IF wire # <<>> \/ AtEnd THEN {"EINTR"}
    ELSE IF link = "reset" THEN {"ECONNRESET"}
    ELSE IF link = "open" THEN {"EINTR", "EAGAIN"}
    ELSE {"ENOTCONN"}

Taken(t) ==
    \/ \E k \in 1..Least(Len(wire), call[t].want) :
         /\ wire' = SubSeq(wire, k + 1, Len(wire))
         /\ Return(t, k, "none")
    \/ /\ AtEnd \/ (call[t].want = 0 /\ wire # <<>>)
       /\ Return(t, 0, "none")
       /\ UNCHANGED wire

MutantRecvErrno(t, errno) ==  \* nothing there means the end
    IF errno = "EINTR" THEN GoOn(t, "wait") ELSE Return(t, IF errno = "EAGAIN" THEN 0 ELSE -1, errno)
RecvErrno(t, errno) ==
    IF errno \in {"EINTR", "EAGAIN"} THEN GoOn(t, "wait") ELSE Return(t, -1, errno)

st_recv ==
    /\ In(Server, {"recv"}, "try")
    /\ Taken(Server) \/ \E errno \in ReadErrno : RecvErrno(Server, errno) /\ UNCHANGED wire
    /\ UNCHANGED <<waiting, link, closed, clock, calls>>

st_read ==
    /\ In(Server, {"read"}, "try")
    /\ Taken(Server) \/ \E errno \in ReadErrno : Failed(Server, errno, {"EAGAIN"}) /\ UNCHANGED wire
    /\ UNCHANGED <<waiting, link, closed, clock, calls>>

-----------------------------------------------------------------------------
(* The kernel, the daemon and the rest of the program.                     *)

Readable == wire # <<>> \/ AtEnd \/ link \in {"backlog", "reset"}
Writable == link \in {"refused", "reset"} \/ Room > 0
FdReady(t) == IF t = Server THEN Readable ELSE Writable

\* The waiter joins the run list.  Its wake time is not read again: clearing it
\* keeps states together that differ in it alone.
Leave(t, poked) ==
    /\ call' = [call EXCEPT ![t].at = "ready", ![t].poked = @ \/ poked]
    /\ wakeup' = [wakeup EXCEPT ![t] = 0]

\* Poll reports the descriptor, and with a hangup drops its item.
Dispatch(t) ==
    /\ call[t].at = "blocked" /\ FdReady(t)
    /\ Leave(t, FALSE)
    /\ revents' = [revents EXCEPT ![t] = TRUE]
    /\ item' = [item EXCEPT ![t] = link \notin {"refused", "reset"}]
    /\ UNCHANGED <<kernel, clock, calls>>

Expire(t) ==
    /\ call[t].at = "blocked" /\ wakeup[t] <= clock
    /\ Leave(t, FALSE)
    /\ UNCHANGED <<revents, item, kernel, clock, calls>>

st_notify(t) ==
    /\ call[t].at = "blocked"
    /\ Leave(t, TRUE)
    /\ UNCHANGED <<revents, item, kernel, clock, calls>>

Connection ==
    /\ \/ link = "syn" /\ link' \in {"backlog", "refused"}
       \/ link = "open" /\ ~closed /\ link' = "reset"
    /\ UNCHANGED <<call, waiting, wire, closed, clock, calls>>

CloseClient ==
    /\ call[Client].at \in {"idle", "back"} /\ calls[Client] = MaxCalls
    /\ link = "open" /\ closed' = TRUE
    /\ UNCHANGED <<call, waiting, link, wire, clock, calls>>

\* A coroutine that can run does so before the next millisecond, and a waiter
\* that is due runs Slack later at most.
Tick ==
    /\ clock < MaxClock
    /\ \A t \in Thread : /\ call[t].at \in {"idle", "blocked", "back"}
                         /\ call[t].at = "blocked" => clock < wakeup[t] + Slack
    /\ clock' = clock + 1
    /\ UNCHANGED <<call, waiting, kernel, calls>>

ClientCalls ==
    \E ms \in Timeout \cup {-1}, want \in Wants :
        \/ link \in {"none", "syn"} /\ Start(Client, "connect", 0, ms)
        \/ \E op \in Sending : link \notin {"none", "syn"} /\ ~closed /\ Start(Client, op, want, ms)
ServerCalls ==
    \/ link \in {"none", "syn", "backlog"} /\ Start(Server, "accept", 0, -1)
    \/ \E ms \in Timeout \cup {-1}, want \in Wants, op \in Receiving :
           link \in {"open", "reset"} /\ Start(Server, op, want, ms)

Next ==
    \/ ClientCalls \/ ServerCalls
    \/ st_connect \/ st_accept \/ st_send \/ st_sendto \/ st_recv \/ st_read
    \/ \E t \in Thread : WaitFdReady(t) \/ Resume(t) \/ Dispatch(t) \/ Expire(t) \/ st_notify(t)
    \/ Connection \/ CloseClient \/ Tick

Spec == Init /\ [][Next]_vars
-----------------------------------------------------------------------------
(* What the calls owe their callers.                                       *)

\* The types of the variables.
TypeOK ==
    /\ \A t \in Thread :
         /\ call[t].op \in Ops /\ call[t].at \in Steps
         /\ call[t].timeout \in Timeout \cup {0, IntMax} /\ call[t].n \in Int
         /\ call[t].start <= clock /\ call[t].spent <= clock
         /\ call[t].want \in Wants \cup {0} /\ Len(call[t].put) <= call[t].want
    /\ wakeup \in [Thread -> Nat] /\ revents \in [Thread -> BOOLEAN]
    /\ item \in [Thread -> BOOLEAN] /\ link \in Links
    /\ wire \in Seq(Nat) /\ Len(wire) <= Cap /\ closed \in BOOLEAN
    /\ clock \in 0..MaxClock /\ calls \in [Thread -> 0..MaxCalls]

Returned(t, ops) == In(t, ops, "back")

\* Besides the types: st_send and st_write hand every byte of the buffer to the
\* kernel once and in order, through partial writes, refusals and interruptions;
\* they return the length when all of it has gone, and an error before that.
SendsAll ==
    /\ TypeOK
    /\ call[Client].put = [i \in 1..Done(Client) |-> i]
    /\ Returned(Client, {"send"}) =>
         IF call[Client].n >= 0
           THEN call[Client].n = call[Client].want /\ Done(Client) = call[Client].want
           ELSE Done(Client) < call[Client].want
    /\ Returned(Client, {"sendto"}) /\ call[Client].n >= 0 => Done(Client) = call[Client].n

\* A receiving call returns 0, which every user takes for the end of the stream,
\* when it is the end or nothing was asked for, and then no byte is left behind.
ZeroIsEnd ==
    Returned(Server, Receiving) /\ call[Server].n = 0 =>
        call[Server].want = 0 \/ AtEnd

\* ETIME is not reported before its time, except to a coroutine that was notified.
NoEarlyTimeout ==
    \A t \in Thread : call[t].at = "back" /\ call[t].errno = "ETIME" =>
        call[t].poked \/ call[t].spent >= call[t].timeout

\* Each wait gets the full timeout again, so that a call may exceed its timeout;
\* but it starts no wait once the timeout has passed, and lasts twice as long at
\* most, and as much as the scheduler is late.
CallBounded ==
    \A t \in Thread : call[t].at # "idle" =>
        LET spent == IF call[t].at = "back" THEN call[t].spent ELSE clock - call[t].start
        IN  spent <= 2 * call[t].timeout + Slack
=============================================================================

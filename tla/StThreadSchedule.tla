---------------------------- MODULE StThreadSchedule ----------------------------
(***************************************************************************)
(* The coroutine scheduler of one OS thread: StThreadSchedule              *)
(* (src/src/st_thread.h, st_thread.cc), the daemon loop of StSysSchedule   *)
(* (src/src/st_sys.h) that polls and wakes, and the suspending calls of    *)
(* src/src/st_sys.cc (st_sleep, st_notify_wait, st_wait, st_recv and its   *)
(* like) as far as the scheduler sees them.  What a descriptor reports is  *)
(* the environment's choice here; StEventSchedule models it.               *)
(*                                                                         *)
(* Scheduling is cooperative: one coroutine is active, and it runs until   *)
(* it calls something that ends in Yield.  An action is therefore one call *)
(* of the active coroutine, up to the switch, or what it does when it is   *)
(* switched back to.                                                       *)
(***************************************************************************)
EXTENDS Integers, Sequences, FiniteSets, Functions

CONSTANTS
    Coroutine,    \* the addresses at which an StThread can be constructed
    Primo,        \* the thread of main()
    Daemon,       \* the thread that runs StSysSchedule::StartUp
    None,         \* the NULL parent
    HeapMax,      \* capacity of m_sleep_list_
    MaxFree,      \* UtilPtrPool<StThread>::MaxFree()
    IdleTimeout,  \* StSysSchedule::m_timeout_, when nobody sleeps
    PollCap,      \* StEventSchedule::m_timeout_, the longest poll
    IntMax,       \* 0x7fffffff: "for ever" in every timed call
    Timeout,      \* the finite timeouts the applications of this instance use
    MaxClock,     \* bound: no finite wait ends after this instant
    Calls         \* bound: the calls the applications of this instance make

Thread  == Coroutine \cup {Primo, Daemon}
Worker  == Coroutine \cup {Primo}
AllCalls == {"create", "sub", "sleep", "nwait", "notify", "io", "wait", "finish", "loop"}

ASSUME ThreadAssumption ==
    /\ IsFiniteSet(Coroutine)
    /\ Primo \notin Coroutine /\ Daemon \notin Coroutine /\ Primo # Daemon
    /\ None \notin Thread
ASSUME SizeAssumption == HeapMax \in Nat /\ MaxFree \in Nat
ASSUME TimeAssumption ==
    /\ IdleTimeout \in Nat \ {0} /\ PollCap \in Nat \ {0} /\ IntMax \in Nat
    /\ MaxClock \in Nat /\ Timeout \subseteq Nat
    /\ IdleTimeout <= PollCap /\ PollCap < IntMax
    /\ \A ms \in Timeout : ms < IntMax
ASSUME CallAssumption == Calls \subseteq AllCalls

VARIABLES
    active,      \* m_active_thread_
    run,         \* m_run_list_, in order
    io,          \* m_io_list_
    pend,        \* m_pend_list_
    reclaim,     \* m_reclaim_list_
    heap,        \* m_sleep_list_: its members; Earliest is its top
    flag,        \* m_flag_ of every thread
    idle,        \* UtilPtrPool<StThread>: the coroutines kept for reuse, in order
    alive,       \* the StThread objects that have not been deleted
    parent,      \* m_parent_
    subs,        \* m_sub_threadlist_
    wakeup,      \* m_wakeup_time_
    notified,    \* m_notified_
    pc,          \* where each thread is inside the library
    dpc,         \* where the daemon is in its loop
    clock,       \* Util::TimeMs()
    last_clock,  \* StSysSchedule::m_last_clock_
    deadline     \* when the current Poll returns by itself

lists  == <<active, run, io, pend, reclaim, heap, flag>>
pool   == <<idle, alive>>
family == <<parent, subs>>
time   == <<clock, last_clock, deadline>>
vars   == <<lists, pool, family, wakeup, notified, pc, dpc, time>>

Flags == {"run", "io", "sleep", "pend", "sub"}
PCs   == {"app", "sleep", "nwait", "io", "wait", "pend", "idle", "gone"}

NoDeadline == -1

\* Constructed and neither pooled nor waiting to be deleted.
Live == alive \ (Range(idle) \cup reclaim)

Init ==
    /\ active = Primo
    /\ run = <<>> /\ io = {} /\ pend = {} /\ reclaim = {} /\ heap = {}
    /\ flag = [t \in Thread |-> {}]
    /\ idle = <<>> /\ alive = {}
    /\ parent = [t \in Thread |-> None]
    /\ subs = [t \in Thread |-> {}]
    /\ wakeup = [t \in Thread |-> 0]
    /\ notified = [t \in Thread |-> FALSE]
    /\ pc = [t \in Thread |-> IF t \in Coroutine THEN "idle" ELSE "app"]
    /\ dpc = "wait"
    /\ clock = 0 /\ last_clock = 0 /\ deadline = NoDeadline

-----------------------------------------------------------------------------
(* The list operations the handlers are built from.                        *)

\* ReapReclaim: delete what is left to reclaim except c, whose stack is in use.
MutantReap(c, r) == alive' = alive \ (r \ {c}) /\ reclaim' = r  \* not unlinked
Reap(c, r) == alive' = alive \ (r \ {c}) /\ reclaim' = r \cap {c}

\* Yield(c), reached with run queue q, flags f and reclaim list r: switch to the
\* head of the run queue or to the daemon.
MutantYield(c, q, f, r) ==  \* the newest first
    /\ Reap(c, r)
    /\ IF q = <<>>
         THEN active' = Daemon /\ run' = <<>> /\ flag' = f
         ELSE /\ active' = q[Len(q)]
              /\ run' = SubSeq(q, 1, Len(q) - 1)
              /\ flag' = [f EXCEPT ![q[Len(q)]] = @ \ {"run"}]
Yield(c, q, f, r) ==
    /\ Reap(c, r)
    /\ IF q = <<>>
         THEN /\ active' = Daemon
              /\ run' = <<>>
              /\ flag' = f
         ELSE /\ active' = Head(q)
              /\ run' = Tail(q)
              /\ flag' = [f EXCEPT ![Head(q)] = @ \ {"run"}]

\* HeapPush, whose -1 (heap full) every caller drops.
MutantHeapWith(c) == IF Cardinality(heap) < HeapMax - 1 THEN heap \cup {c} ELSE heap
HeapWith(c) == IF Cardinality(heap) < HeapMax THEN heap \cup {c} ELSE heap

\* The flags once the threads of S have left the io list and the sleep heap
\* and have joined the run list.
MutantWoken(S) ==  \* the sleep flag stays
    [t \in Thread |-> IF t \in S THEN (flag[t] \ {"io"}) \cup {"run"} ELSE flag[t]]
Woken(S) ==
    [t \in Thread |-> IF t \in S THEN (flag[t] \ {"io", "sleep"}) \cup {"run"} ELSE flag[t]]

Orderings(S) == Bijection(1..Cardinality(S), S)

Running(c, where) == active = c /\ pc[c] = where

\* Bound: finite waits end by MaxClock.
MayWait(ms) == ms = IntMax \/ (ms \in Timeout /\ clock + ms <= MaxClock)

\* A coroutine with sub-coroutines does nothing but create more and Pend on
\* them; the library relies on it (Unpend does not look whether the parent is
\* pending) and leaves it to the application.
JoinFirst(c) == subs[c] = {}

-----------------------------------------------------------------------------
(* Calls of the active coroutine.                                          *)

\* UtilPtrPool::AllocPtr: the oldest pooled coroutine, or a new object.
MutantAllocThread(t) ==  \* not taken out of the pool
    /\ IF idle = <<>> THEN t \in Coroutine \ alive ELSE t = Head(idle)
    /\ alive' = alive \cup {t}
    /\ UNCHANGED <<idle, notified>>
AllocThread(t) ==
    /\ IF idle = <<>> THEN t \in Coroutine \ alive ELSE t = Head(idle)
    /\ idle' = IF idle = <<>> THEN idle ELSE Tail(idle)
    /\ alive' = alive \cup {t}
    /\ notified' = IF t \in alive THEN notified ELSE [notified EXCEPT ![t] = FALSE]

CreateThread(c) ==
    /\ "create" \in Calls /\ Running(c, "app") /\ JoinFirst(c)
    /\ \E t \in Coroutine :
         /\ AllocThread(t)
         /\ flag' = [flag EXCEPT ![t] = @ \cup {"run"}]
         /\ run' = Append(run, t)
         /\ pc' = [pc EXCEPT ![t] = "app"]
    /\ UNCHANGED <<active, io, pend, reclaim, heap, family, wakeup, dpc, time>>

\* CreateThread, SetType(eSUB_THREAD) and AddSubStThread.
CreateSub(c) ==
    /\ "sub" \in Calls /\ Running(c, "app")
    /\ \E t \in Coroutine :
         /\ AllocThread(t)
         /\ flag' = [flag EXCEPT ![t] = @ \cup {"run", "sub"}]
         /\ run' = Append(run, t)
         /\ pc' = [pc EXCEPT ![t] = "app"]
         /\ parent' = [parent EXCEPT ![t] = c]
         /\ subs' = [subs EXCEPT ![c] = @ \cup {t}]
    /\ UNCHANGED <<active, io, pend, reclaim, heap, wakeup, dpc, time>>

\* Pend(active).
Pend(c) ==
    /\ "sub" \in Calls /\ Running(c, "app") /\ subs[c] # {}
    /\ pend' = pend \cup {c}
    /\ pc' = [pc EXCEPT ![c] = "pend"]
    /\ Yield(c, run, [flag EXCEPT ![c] = @ \cup {"pend"}], reclaim)
    /\ UNCHANGED <<io, heap, idle, family, wakeup, notified, dpc, time>>

\* StThread::Sleep(ms) sets the time, StThreadSchedule::Sleep suspends, unless
\* the thread already carries the flag.
SleepUntil(c, ms, where) ==
    /\ wakeup' = [wakeup EXCEPT ![c] = clock + ms]
    /\ pc' = [pc EXCEPT ![c] = where]
    /\ IF "sleep" \in flag[c]
         THEN UNCHANGED <<lists, alive>>
         ELSE /\ heap' = HeapWith(c)
              /\ Yield(c, run, [flag EXCEPT ![c] = @ \cup {"sleep"}], reclaim)
              /\ UNCHANGED <<io, pend>>

st_sleep(c) ==
    /\ "sleep" \in Calls /\ Running(c, "app") /\ JoinFirst(c)
    /\ \E ms \in Timeout : MayWait(ms) /\ SleepUntil(c, ms, "sleep")
    /\ UNCHANGED <<idle, family, notified, dpc, time>>

\* st_notify_wait when it does not suspend: a sticky notification, or timeout 0.
NotifyWaitAtOnce(c) ==
    /\ "nwait" \in Calls /\ Running(c, "app") /\ JoinFirst(c)
    /\ notified[c]
    /\ notified' = [notified EXCEPT ![c] = FALSE]
    /\ UNCHANGED <<lists, pool, family, wakeup, pc, dpc, time>>

MutantNotifyWait(c) ==  \* waits without looking for a sticky notification
    /\ "nwait" \in Calls /\ Running(c, "app") /\ JoinFirst(c)
    /\ \E ms \in (Timeout \cup {IntMax}) \ {0} : MayWait(ms) /\ SleepUntil(c, ms, "nwait")
    /\ UNCHANGED <<idle, family, notified, dpc, time>>
NotifyWait(c) ==
    /\ "nwait" \in Calls /\ Running(c, "app") /\ JoinFirst(c)
    /\ ~notified[c]
    /\ \E ms \in (Timeout \cup {IntMax}) \ {0} : MayWait(ms) /\ SleepUntil(c, ms, "nwait")
    /\ UNCHANGED <<idle, family, notified, dpc, time>>

\* Schedule: the item is armed, the coroutine joins the io list and the sleep
\* heap and yields.  "io" is a call that only waits for the descriptor (st_recv,
\* st_send, ...), "wait" is st_wait, which also takes notifications.
ScheduleUntil(c, ms, where) ==
    /\ wakeup' = [wakeup EXCEPT ![c] = clock + ms]
    /\ pc' = [pc EXCEPT ![c] = where]
    /\ io' = io \cup {c}
    /\ heap' = HeapWith(c)
    /\ Yield(c, run, [flag EXCEPT ![c] = @ \cup {"io", "sleep"}], reclaim)
    /\ UNCHANGED pend

WaitFdReady(c) ==
    /\ "io" \in Calls /\ Running(c, "app") /\ JoinFirst(c)
    /\ \E ms \in Timeout \cup {IntMax} : MayWait(ms) /\ ScheduleUntil(c, ms, "io")
    /\ UNCHANGED <<idle, family, notified, dpc, time>>

st_wait(c) ==
    /\ "wait" \in Calls /\ Running(c, "app") /\ JoinFirst(c)
    /\ ~notified[c]
    /\ \E ms \in Timeout \cup {IntMax} : MayWait(ms) /\ ScheduleUntil(c, ms, "wait")
    /\ UNCHANGED <<idle, family, notified, dpc, time>>

\* st_wait with a sticky notification probes the descriptor and returns.
WaitAtOnce(c) ==
    /\ "wait" \in Calls /\ Running(c, "app") /\ JoinFirst(c)
    /\ notified[c]
    /\ notified' = [notified EXCEPT ![c] = FALSE]
    /\ UNCHANGED <<lists, pool, family, wakeup, pc, dpc, time>>

\* st_notify(t): the sticky bit, and t leaves the queue it waits on.  The
\* application may hold the handle of a coroutine that has finished since, as
\* long as it has not been deleted.
Notify(c, t) ==
    /\ "notify" \in Calls /\ Running(c, "app")
    /\ t \in alive \cup {Primo}
    /\ notified' = [notified EXCEPT ![t] = TRUE]
    /\ IF t # active /\ flag[t] \cap {"io", "sleep"} # {}
         THEN /\ flag' = Woken({t})
              /\ io' = io \ {t}
              /\ heap' = heap \ {t}
              /\ run' = Append(run, t)
         ELSE UNCHANGED <<flag, io, heap, run>>
    /\ UNCHANGED <<active, pend, reclaim, pool, family, wakeup, pc, dpc, time>>

\* WakeupParent: c is the last sub-coroutine of its parent.
MutantLastSub(c) == parent[c] # None /\ subs[parent[c]] = {}  \* looks before it removes c
LastSub(c) == parent[c] # None /\ subs[parent[c]] = {c}

\* StThreadItem::Reset: what the next user of the coroutine finds.
Reset(c) ==
    /\ parent' = [parent EXCEPT ![c] = None]
    /\ wakeup' = [wakeup EXCEPT ![c] = 0]
    /\ notified' = [notified EXCEPT ![c] = FALSE]

\* DetachForReuse, Reset, and to the pool, or to be deleted when that is full.  A
\* running coroutine carries no flag but "sub" (see OneQueue), so that only the
\* parent's list is left to detach it from, and WakeupParent did that.
Recycle(c, q, f) ==
    LET keep == Len(idle) < MaxFree
    IN  /\ Reset(c)
        /\ idle' = IF keep THEN Append(idle, c) ELSE idle
        /\ Yield(c, q, [f EXCEPT ![c] = {}], IF keep THEN reclaim ELSE reclaim \cup {c})

\* ActiveThreadStartUp: the callback returns, then WakeupParent and Recycle.
Finish(c) ==
    /\ "finish" \in Calls /\ c \in Coroutine /\ Running(c, "app") /\ JoinFirst(c)
    /\ LET p      == parent[c]
           unpend == LastSub(c)
           q      == IF unpend THEN Append(run, p) ELSE run
           f      == [t \in Thread |->
                        IF unpend /\ t = p THEN (flag[t] \ {"pend"}) \cup {"run"} ELSE flag[t]]
       IN /\ pend' = IF unpend THEN pend \ {p} ELSE pend
          /\ subs' = IF p = None THEN subs ELSE [subs EXCEPT ![p] = @ \ {c}]
          /\ Recycle(c, q, f)
    /\ pc' = [pc EXCEPT ![c] = "idle"]
    /\ UNCHANGED <<io, heap, dpc, time>>

\* Frame::Loop: main() runs the daemon's loop on its own stack and never comes
\* back from it, because Yield(daemon) saves that stack as the daemon's.  Until
\* then m_active_thread_ still is main()'s thread, which the loop does not look at.
FrameLoop ==
    /\ "loop" \in Calls /\ Running(Primo, "app") /\ JoinFirst(Primo)
    /\ active' = Daemon
    /\ dpc' = "wait"
    /\ pc' = [pc EXCEPT ![Primo] = "gone"]
    /\ UNCHANGED <<run, io, pend, reclaim, heap, flag, pool, family, wakeup, notified, time>>

\* The rest of a call, once its coroutine has been switched back to.  The wake
\* time is not read again before the next call sets it: it is cleared here to
\* keep states that differ in it alone together.
Return(c) ==
    /\ \/ Running(c, "sleep") \/ Running(c, "io") \/ Running(c, "pend")
       \/ Running(c, "nwait") \/ Running(c, "wait")
    /\ notified' = IF pc[c] \in {"nwait", "wait"} THEN [notified EXCEPT ![c] = FALSE] ELSE notified
    /\ pc' = [pc EXCEPT ![c] = "app"]
    /\ wakeup' = [wakeup EXCEPT ![c] = 0]
    /\ UNCHANGED <<lists, pool, family, dpc, time>>

-----------------------------------------------------------------------------
(* The daemon loop: Wait(GetTimeout()), Wakeup, Yield.                     *)

Earliest == CHOOSE w \in {wakeup[t] : t \in heap} : \A t \in heap : w <= wakeup[t]

GetTimeout ==
    IF heap = {} THEN IdleTimeout
    ELSE IF Earliest < last_clock THEN 0 ELSE Earliest - last_clock

\* int64_t to the int32_t parameter of Wait.
ToInt32(v) == ((v + IntMax + 1) % (2 * (IntMax + 1))) - (IntMax + 1)

WaitTime == LET v == ToInt32(GetTimeout) IN IF PollCap < v THEN PollCap ELSE v

\* Wait: a time of 0 or less polls with no timeout at all.
DaemonWait ==
    /\ active = Daemon /\ dpc = "wait"
    /\ dpc' = "poll"
    /\ deadline' = IF WaitTime <= 0 THEN NoDeadline ELSE clock + WaitTime
    /\ UNCHANGED <<lists, pool, family, wakeup, notified, pc, clock, last_clock>>

PollTimesOut ==
    /\ active = Daemon /\ dpc = "poll"
    /\ deadline # NoDeadline /\ deadline <= clock
    /\ dpc' = "wake"
    /\ deadline' = NoDeadline
    /\ UNCHANGED <<lists, pool, family, wakeup, notified, pc, clock, last_clock>>

\* Poll returns with events, and Dispatch wakes the coroutines they are for, in
\* any order the kernel reports them.  No coroutine at all is an interrupted
\* poll, or an event nobody waits for.
PollReports ==
    /\ active = Daemon /\ dpc = "poll"
    /\ \E S \in SUBSET io : \E q \in Orderings(S) :
         /\ flag' = Woken(S)
         /\ io' = io \ S
         /\ heap' = heap \ S
         /\ run' = run \o q
    /\ dpc' = "wake"
    /\ deadline' = NoDeadline
    /\ UNCHANGED <<active, pend, reclaim, pool, family, wakeup, notified, pc, clock, last_clock>>

MutantExpiredEarly == {t \in heap : wakeup[t] <= clock + 1}
MutantExpiredLate == {t \in heap : wakeup[t] < clock}
Expired == {t \in heap : wakeup[t] <= clock}

\* The orders in which the heap can give up its expired members.
WakeOrders ==
    {q \in Orderings(Expired) : \A i, j \in DOMAIN q : i < j => wakeup[q[i]] <= wakeup[q[j]]}

\* UpdateLastClock, Wakeup(now) and Yield(daemon).
DaemonRound ==
    /\ active = Daemon /\ dpc = "wake"
    /\ dpc' = "wait"
    /\ last_clock' = clock
    /\ io' = io \ Expired
    /\ heap' = heap \ Expired
    /\ \E q \in WakeOrders : Yield(Daemon, run \o q, Woken(Expired), reclaim)
    /\ UNCHANGED <<pend, idle, family, wakeup, notified, pc, clock, deadline>>

\* Time passes up to MaxClock, and beyond it only for a poll that was entered
\* late and still has a sleeper to wake that was due by then.
Tick ==
    /\ \/ clock < MaxClock
       \/ /\ dpc = "poll" /\ clock < deadline
          /\ \E t \in heap : wakeup[t] <= MaxClock
    /\ clock' = clock + 1
    /\ UNCHANGED <<lists, pool, family, wakeup, notified, pc, dpc, last_clock, deadline>>

-----------------------------------------------------------------------------

\* What takes the active coroutine off the processor.
Suspend(c) ==
    \/ Pend(c) \/ st_sleep(c) \/ NotifyWait(c) \/ WaitFdReady(c) \/ st_wait(c)
    \/ Finish(c) \/ (c = Primo /\ FrameLoop)

Call(c) ==
    \/ CreateThread(c) \/ CreateSub(c) \/ NotifyWaitAtOnce(c) \/ WaitAtOnce(c)
    \/ \E t \in Worker : Notify(c, t)

DaemonStep == DaemonWait \/ PollTimesOut \/ DaemonRound

Next ==
    \/ \E c \in Worker : Suspend(c) \/ Call(c) \/ Return(c)
    \/ DaemonStep
    \/ PollReports
    \/ Tick

\* A callback that never leaves the processor starves everybody by design, so
\* each coroutine is assumed to suspend or finish in the end; the daemon's loop
\* and the clock do not stop.  Nothing is assumed of the descriptors.
Fairness ==
    /\ \A c \in Worker : WF_vars(Suspend(c)) /\ WF_vars(Return(c))
    /\ WF_vars(DaemonStep)
    /\ WF_vars(Tick)

Spec == Init /\ [][Next]_vars
FairSpec == Spec /\ Fairness
-----------------------------------------------------------------------------
(* What makes the scheduler correct.                                       *)

\* The types of the variables, a part of SleepersInHeap.
TypeOK ==
    /\ active \in Thread
    /\ run \in Seq(Thread)
    /\ io \subseteq Thread /\ pend \subseteq Thread /\ heap \subseteq Thread
    /\ reclaim \subseteq Coroutine
    /\ flag \in [Thread -> SUBSET Flags]
    /\ idle \in Seq(Coroutine) /\ alive \subseteq Coroutine
    /\ parent \in [Thread -> Thread \cup {None}]
    /\ subs \in [Thread -> SUBSET Coroutine]
    /\ wakeup \in [Thread -> Nat]
    /\ notified \in [Thread -> BOOLEAN]
    /\ pc \in [Thread -> PCs] /\ dpc \in {"wait", "poll", "wake"}
    /\ clock \in Nat /\ last_clock \in Nat /\ deadline \in Nat \cup {NoDeadline}

QueueFlags == {"run", "io", "sleep", "pend"}
Queued(t)  == flag[t] \cap QueueFlags

\* The flags f say which threads are in the run list q, the io list i, the pend
\* list p and the sleep heap h, and no thread is in two places.
ListsAgree(f, q, i, p, h) ==
    /\ \A t \in Thread :
         /\ "run" \in f[t] <=> t \in Range(q)
         /\ "io" \in f[t] <=> t \in i
         /\ "pend" \in f[t] <=> t \in p
         /\ t \in h => "sleep" \in f[t]
         /\ f[t] \cap QueueFlags \in {{}, {"run"}, {"sleep"}, {"io", "sleep"}, {"pend"}}
    /\ IsInjective(q)
    /\ f[Daemon] = {}

\* m_next_ links a thread into one list at a time, and every handler trusts the
\* flags to know which: flags and lists agree, nobody is queued twice, and
\* neither the active thread nor the daemon is queued at all.
OneQueue == ListsAgree(flag, run, io, pend, heap) /\ Queued(active) = {}

\* No coroutine gets lost and none comes back from the dead: the threads that
\* are active or queued are the live coroutines and main()'s thread, so that
\* one that is pooled, about to be deleted or deleted is never switched to.
Conserved ==
    \A t \in Worker :
        (t = active \/ Queued(t) # {}) <=> (t \in Live \/ (t = Primo /\ pc[t] # "gone"))

\* A pooled coroutine can be handed out once only, the pool never exceeds its
\* limit, nothing deleted is pooled or waits to be deleted again, and no more
\* than the one coroutine that finished last is waiting to be deleted.
PoolSound ==
    /\ IsInjective(idle)
    /\ Len(idle) <= MaxFree
    /\ Range(idle) \cup reclaim \subseteq alive
    /\ Range(idle) \cap reclaim = {}
    /\ \A s, t \in reclaim : s = t

\* Besides the types: a thread that carries the sleep flag is in the heap, so that
\* its timeout can fire (HeapPush's failure is not looked at).
SleepersInHeap == TypeOK /\ \A t \in Thread : "sleep" \in flag[t] => t \in heap

\* A notification that reaches a coroutine inside st_notify_wait or st_wait is
\* never left waiting with it.
NotifyNotLost ==
    \A t \in Worker : pc[t] \in {"nwait", "wait"} /\ notified[t] => Queued(t) \subseteq {"run"}

\* st_notify_wait reports ETIME, that is, it is switched back to without a
\* notification, only once its time is up.
NoEarlyTimeout ==
    \A t \in Worker : pc[t] = "nwait" /\ Queued(t) \subseteq {"run"} /\ ~notified[t] => wakeup[t] <= clock

\* A parent that pends has a sub-coroutine left to wake it up, and the lists of
\* sub-coroutines and the parent pointers of live coroutines agree.
JoinPending ==
    /\ \A t \in pend : subs[t] # {}
    /\ \A t, c \in Thread : c \in subs[t] <=> parent[c] = t
    /\ \A t \in Thread : subs[t] \subseteq Live

\* A coroutine in the run list runs: FIFO order and a daemon that only runs when
\* the list is empty leave nobody behind.
ReadyRuns == \A t \in Worker : (t \in Range(run)) ~> (active = t)

\* As long as the daemon gets its turn again and again, every call with a finite
\* timeout returns.
TimedWaitsEnd ==
    []<>(active = Daemon) =>
        \A t \in Worker :
            (pc[t] \in {"sleep", "nwait", "io", "wait"} /\ wakeup[t] <= MaxClock) ~> (pc[t] = "app")

\* The scheduler implements the abstract one of module Coroutines.
Abs == INSTANCE Coroutines WITH
         Thread <- Thread, Main <- Primo, Idle <- Daemon,
         running <- active, ready <- run,
         waiting <- {t \in Thread : flag[t] \cap {"io", "sleep", "pend"} # {}}
ImplementsCoroutines == Abs!ASpec
=============================================================================

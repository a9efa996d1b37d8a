------------------------ MODULE StThreadSchedule_proofs ------------------------
(***************************************************************************)
(* Theorems about StThreadSchedule, for any number of coroutines, any heap *)
(* and pool capacity and any timeouts.                                     *)
(***************************************************************************)
EXTENDS StThreadSchedule, SequenceTheorems, FiniteSetTheorems, TLAPS

-----------------------------------------------------------------------------
(* The run list and the pool are sequences without repetition.             *)

\* Appending a newcomer keeps a sequence free of repetitions.
LEMMA AppendDistinct ==
    ASSUME NEW S, NEW s \in Seq(S), IsInjective(s), NEW x \in S, x \notin Range(s)
    PROVE  /\ Append(s, x) \in Seq(S)
           /\ IsInjective(Append(s, x))
           /\ Range(Append(s, x)) = Range(s) \cup {x}
           /\ Len(Append(s, x)) = Len(s) + 1
  <1> DEFINE a == Append(s, x)
  <1>1. /\ a \in Seq(S) /\ Len(a) = Len(s) + 1 /\ Len(s) \in Nat
        /\ DOMAIN s = 1..Len(s) /\ DOMAIN a = 1..(Len(s) + 1)
        /\ \A i \in 1..Len(s) : a[i] = s[i]
        /\ a[Len(s) + 1] = x
    BY AppendProperties, LenProperties
  <1>2. \A i \in 1..Len(s) : s[i] # x
    BY <1>1 DEF Range
  <1>3. IsInjective(a)
    BY <1>1, <1>2 DEF IsInjective
  <1>4. Range(a) = Range(s) \cup {x}
    BY <1>1 DEF Range
  <1> QED BY <1>1, <1>3, <1>4

\* Popping the head removes it, and it was there only once.
LEMMA TailDistinct ==
    ASSUME NEW S, NEW s \in Seq(S), IsInjective(s), s # <<>>
    PROVE  /\ Head(s) \in S /\ Tail(s) \in Seq(S)
           /\ Head(s) \in Range(s)
           /\ IsInjective(Tail(s))
           /\ Range(Tail(s)) = Range(s) \ {Head(s)}
           /\ Len(Tail(s)) = Len(s) - 1
  <1> DEFINE r == Tail(s)
  <1>1. /\ Head(s) \in S /\ r \in Seq(S) /\ Len(r) = Len(s) - 1 /\ Len(s) \in Nat \ {0}
        /\ DOMAIN s = 1..Len(s) /\ DOMAIN r = 1..(Len(s) - 1)
        /\ \A i \in 1..(Len(s) - 1) : r[i] = s[i + 1]
        /\ Head(s) = s[1]
    BY HeadTailProperties, LenProperties, EmptySeq
  <1>2. IsInjective(r)
    BY <1>1 DEF IsInjective
  <1>3. Range(r) \subseteq Range(s) \ {Head(s)}
    BY <1>1 DEF Range, IsInjective
  <1>4. ASSUME NEW y \in Range(s) \ {Head(s)} PROVE y \in Range(r)
    <2>1. PICK i \in 1..Len(s) : y = s[i]
      BY <1>1 DEF Range
    <2>2. i # 1 /\ i - 1 \in 1..(Len(s) - 1) /\ r[i - 1] = y
      BY <1>1, <2>1
    <2> QED BY <1>1, <2>2 DEF Range
  <1>5. Head(s) \in Range(s)
    BY <1>1 DEF Range
  <1> QED BY <1>1, <1>2, <1>3, <1>4, <1>5

\* Appending a batch of newcomers keeps a sequence free of repetitions.
LEMMA ConcatDistinct ==
    ASSUME NEW S, NEW s \in Seq(S), NEW q \in Seq(S), IsInjective(s), IsInjective(q),
           Range(s) \cap Range(q) = {}
    PROVE  /\ s \o q \in Seq(S)
           /\ IsInjective(s \o q)
           /\ Range(s \o q) = Range(s) \cup Range(q)
  <1> DEFINE a == s \o q
  <1>1. /\ a \in Seq(S) /\ Len(s) \in Nat /\ Len(q) \in Nat
        /\ DOMAIN s = 1..Len(s) /\ DOMAIN q = 1..Len(q) /\ DOMAIN a = 1..(Len(s) + Len(q))
        /\ \A i \in 1..(Len(s) + Len(q)) : a[i] = IF i <= Len(s) THEN s[i] ELSE q[i - Len(s)]
    BY ConcatProperties, LenProperties
  <1>2. ASSUME NEW i \in 1..(Len(s) + Len(q)), NEW j \in 1..(Len(s) + Len(q)), a[i] = a[j]
        PROVE  i = j
    <2>1. CASE i <= Len(s) /\ j <= Len(s)
      BY <1>1, <1>2, <2>1 DEF IsInjective
    <2>2. CASE i > Len(s) /\ j > Len(s)
      <3>1. i - Len(s) \in DOMAIN q /\ j - Len(s) \in DOMAIN q /\ q[i - Len(s)] = q[j - Len(s)]
        BY <1>1, <1>2, <2>2
      <3> QED BY <3>1, <1>1 DEF IsInjective
    <2>3. CASE i <= Len(s) /\ j > Len(s)
      <3>1. i \in DOMAIN s /\ j - Len(s) \in DOMAIN q /\ s[i] = q[j - Len(s)]
        BY <1>1, <1>2, <2>3
      <3> QED BY <3>1 DEF Range
    <2>4. CASE i > Len(s) /\ j <= Len(s)
      <3>1. j \in DOMAIN s /\ i - Len(s) \in DOMAIN q /\ s[j] = q[i - Len(s)]
        BY <1>1, <1>2, <2>4
      <3> QED BY <3>1 DEF Range
    <2> QED BY <1>1, <2>1, <2>2, <2>3, <2>4
  <1>3. IsInjective(a)
    BY <1>1, <1>2 DEF IsInjective
  <1>4. Range(a) = Range(s) \cup Range(q)
    BY RangeConcatenation
  <1> QED BY <1>1, <1>3, <1>4

\* An ordering of a finite set lists each of its members exactly once.
LEMMA OrderingDistinct ==
    ASSUME NEW S, IsFiniteSet(S), NEW q \in Orderings(S)
    PROVE  q \in Seq(S) /\ IsInjective(q) /\ Range(q) = S
  <1>1. Cardinality(S) \in Nat
    BY FS_CardinalityType
  <1>2. q \in [1..Cardinality(S) -> S] /\ IsInjective(q) /\ \A t \in S : \E i \in 1..Cardinality(S) : q[i] = t
    BY DEF Orderings, Bijection, Injection, Surjection
  <1>3. q \in Seq(S)
    BY <1>1, <1>2, SeqDef
  <1>4. Range(q) = S
    BY <1>2 DEF Range
  <1> QED BY <1>2, <1>3, <1>4
-----------------------------------------------------------------------------
(* Type correctness.                                                       *)

\* A nonempty set of natural numbers has a least element.
LEMMA NatMinimum ==
    ASSUME NEW T, T \subseteq Nat, T # {}
    PROVE  \E x \in T : \A y \in T : x <= y
  <1>1. PICK x \in T : \A y \in T : ~ (<<y, x>> \in OpToRel(<, Nat))
    BY NatLessThanWellFounded, WFMin
  <1>2. ASSUME NEW y \in T PROVE x <= y
    <2>1. ~ (y < x)
      BY <1>1 DEF OpToRel
    <2> QED BY <2>1
  <1> QED BY <1>2

\* The time the daemon polls for is a number, whatever the heap holds.
LEMMA WaitTimeType ==
    ASSUME TypeOK PROVE WaitTime \in Int
  <1>1. GetTimeout \in Int
    <2>1. CASE heap = {}
      BY <2>1, TimeAssumption DEF GetTimeout
    <2>2. CASE heap # {}
      <3> DEFINE T == {wakeup[t] : t \in heap}
      <3>1. T \subseteq Nat /\ T # {}
        BY <2>2 DEF TypeOK
      <3>2. \E x \in T : \A y \in T : x <= y
        BY <3>1, NatMinimum
      <3>3. \E w \in T : \A t \in heap : w <= wakeup[t]
        BY <3>2
      <3>4. Earliest \in T
        BY <3>3 DEF Earliest
      <3>5. Earliest \in Nat
        BY <3>1, <3>4
      <3> QED BY <3>5, <2>2 DEF GetTimeout, TypeOK
    <2> QED BY <2>1, <2>2
  <1> QED BY <1>1, TimeAssumption DEF WaitTime, ToInt32

LEMMA FiniteThreads == IsFiniteSet(Thread)
  <1>1. Thread = (Coroutine \cup {Primo}) \cup {Daemon}
    BY DEF Thread
  <1> QED BY <1>1, ThreadAssumption, FS_AddElement

\* An ordering of threads can be appended to the run list.
LEMMA OrderingType ==
    ASSUME NEW S \in SUBSET Thread, NEW q \in Orderings(S)
    PROVE  q \in Seq(Thread) /\ q \in Seq(S) /\ IsInjective(q) /\ Range(q) = S
  <1>1. IsFiniteSet(S)
    BY FiniteThreads, FS_Subset
  <1>2. q \in Seq(S) /\ IsInjective(q) /\ Range(q) = S
    BY <1>1, OrderingDistinct
  <1> QED BY <1>2, SeqMonotonic

\* Yield keeps the types of what it changes.
LEMMA YieldType ==
    ASSUME NEW c \in Thread, NEW q \in Seq(Thread), NEW f \in [Thread -> SUBSET Flags],
           NEW r \in SUBSET Coroutine, alive \subseteq Coroutine, Yield(c, q, f, r)
    PROVE  /\ active' \in Thread /\ run' \in Seq(Thread) /\ flag' \in [Thread -> SUBSET Flags]
           /\ alive' \subseteq Coroutine /\ reclaim' \subseteq Coroutine
  <1>1. alive' \subseteq Coroutine /\ reclaim' \subseteq Coroutine
    BY DEF Yield, Reap
  <1>2. CASE q = <<>>
    BY <1>1, <1>2, EmptySeq DEF Yield, Reap, Thread
  <1>3. CASE q # <<>>
    <2>1. Head(q) \in Thread /\ Tail(q) \in Seq(Thread)
      BY <1>3, HeadTailProperties
    <2> QED BY <1>1, <1>3, <2>1 DEF Yield, Reap
  <1> QED BY <1>2, <1>3

\* Every step keeps the types.
LEMMA TypeStep == TypeOK /\ [Next]_vars => TypeOK'
  <1> SUFFICES ASSUME TypeOK, [Next]_vars PROVE TypeOK'
    OBVIOUS
  <1> USE DEF TypeOK, lists, pool, family, time
  <1>f. ASSUME NEW x \in Worker, NEW S \in SUBSET Flags
        PROVE  x \in Thread /\ [flag EXCEPT ![x] = @ \cup S] \in [Thread -> SUBSET Flags]
    BY DEF Worker, Thread
  <1>w. \A S \in SUBSET Thread : Woken(S) \in [Thread -> SUBSET Flags]
    BY DEF Woken, Flags
  <1>h. \A c \in Thread : HeapWith(c) \subseteq Thread
    BY DEF HeapWith
  <1>a. ASSUME NEW t \in Coroutine, AllocThread(t)
        PROVE  /\ idle' \in Seq(Coroutine) /\ alive' \subseteq Coroutine
               /\ notified' \in [Thread -> BOOLEAN]
    <2>1. idle' \in Seq(Coroutine)
      BY <1>a, HeadTailProperties DEF AllocThread
    <2> QED BY <1>a, <2>1 DEF AllocThread, Thread
  <1>m. \A ms : MayWait(ms) => ms \in Nat
    BY TimeAssumption DEF MayWait
  <1>1. ASSUME NEW c \in Worker, CreateThread(c) PROVE TypeOK'
    <2>1. PICK t \in Coroutine : /\ AllocThread(t)
                                 /\ flag' = [flag EXCEPT ![t] = @ \cup {"run"}]
                                 /\ run' = Append(run, t)
                                 /\ pc' = [pc EXCEPT ![t] = "app"]
      BY <1>1 DEF CreateThread
    <2>2. run' \in Seq(Thread) /\ flag' \in [Thread -> SUBSET Flags] /\ pc' \in [Thread -> PCs]
      BY <2>1, AppendProperties DEF Thread, Flags, PCs
    <2> QED BY <1>1, <1>a, <2>1, <2>2 DEF CreateThread
  <1>2. ASSUME NEW c \in Worker, CreateSub(c) PROVE TypeOK'
    <2>1. PICK t \in Coroutine : /\ AllocThread(t)
                                 /\ flag' = [flag EXCEPT ![t] = @ \cup {"run", "sub"}]
                                 /\ run' = Append(run, t)
                                 /\ pc' = [pc EXCEPT ![t] = "app"]
                                 /\ parent' = [parent EXCEPT ![t] = c]
                                 /\ subs' = [subs EXCEPT ![c] = @ \cup {t}]
      BY <1>2 DEF CreateSub
    <2>2. run' \in Seq(Thread) /\ flag' \in [Thread -> SUBSET Flags] /\ pc' \in [Thread -> PCs]
      BY <2>1, AppendProperties DEF Thread, Flags, PCs
    <2>3. parent' \in [Thread -> Thread \cup {None}] /\ subs' \in [Thread -> SUBSET Coroutine]
      BY <2>1 DEF Thread, Worker
    <2> QED BY <1>2, <1>a, <2>1, <2>2, <2>3 DEF CreateSub
  <1>3. ASSUME NEW c \in Worker, Pend(c) PROVE TypeOK'
    <2>1. pend' \subseteq Thread /\ pc' \in [Thread -> PCs]
      BY <1>3 DEF Pend, Worker, Thread, PCs
    <2>2. [flag EXCEPT ![c] = @ \cup {"pend"}] \in [Thread -> SUBSET Flags] /\ c \in Thread
      BY <1>f DEF Flags
    <2>3. /\ active' \in Thread /\ run' \in Seq(Thread) /\ flag' \in [Thread -> SUBSET Flags]
          /\ alive' \subseteq Coroutine /\ reclaim' \subseteq Coroutine
      BY <1>3, <2>2, YieldType DEF Pend
    <2> QED BY <1>3, <2>1, <2>3 DEF Pend
  <1>s. ASSUME NEW c \in Worker, NEW ms \in Nat, NEW where \in PCs, SleepUntil(c, ms, where)
        PROVE  /\ active' \in Thread /\ run' \in Seq(Thread) /\ flag' \in [Thread -> SUBSET Flags]
               /\ alive' \subseteq Coroutine /\ reclaim' \subseteq Coroutine /\ heap' \subseteq Thread
               /\ wakeup' \in [Thread -> Nat] /\ pc' \in [Thread -> PCs]
               /\ io' = io /\ pend' = pend
    <2>1. wakeup' \in [Thread -> Nat] /\ pc' \in [Thread -> PCs]
      BY <1>s DEF SleepUntil, Worker, Thread
    <2>2. CASE "sleep" \in flag[c]
      BY <1>s, <2>1, <2>2 DEF SleepUntil
    <2>3. CASE "sleep" \notin flag[c]
      <3>1. [flag EXCEPT ![c] = @ \cup {"sleep"}] \in [Thread -> SUBSET Flags] /\ c \in Thread
        BY <1>f DEF Flags
      <3>2. /\ active' \in Thread /\ run' \in Seq(Thread) /\ flag' \in [Thread -> SUBSET Flags]
            /\ alive' \subseteq Coroutine /\ reclaim' \subseteq Coroutine
        BY <1>s, <2>3, <3>1, YieldType DEF SleepUntil
      <3> QED BY <1>s, <1>h, <2>1, <2>3, <3>1, <3>2 DEF SleepUntil
    <2> QED BY <2>2, <2>3
  <1>4. ASSUME NEW c \in Worker, st_sleep(c) PROVE TypeOK'
    <2>1. PICK ms \in Timeout : MayWait(ms) /\ SleepUntil(c, ms, "sleep")
      BY <1>4 DEF st_sleep
    <2>2. ms \in Nat /\ "sleep" \in PCs
      BY <1>m, <2>1 DEF PCs
    <2> QED BY <1>4, <1>s, <2>1, <2>2 DEF st_sleep
  <1>5. ASSUME NEW c \in Worker, NotifyWaitAtOnce(c) PROVE TypeOK'
    BY <1>5 DEF NotifyWaitAtOnce, Worker, Thread
  <1>6. ASSUME NEW c \in Worker, NotifyWait(c) PROVE TypeOK'
    <2>1. PICK ms \in (Timeout \cup {IntMax}) \ {0} : MayWait(ms) /\ SleepUntil(c, ms, "nwait")
      BY <1>6 DEF NotifyWait
    <2>2. ms \in Nat /\ "nwait" \in PCs
      BY <1>m, <2>1 DEF PCs
    <2> QED BY <1>6, <1>s, <2>1, <2>2 DEF NotifyWait
  <1>u. ASSUME NEW c \in Worker, NEW ms \in Nat, NEW where \in PCs, ScheduleUntil(c, ms, where)
        PROVE  /\ active' \in Thread /\ run' \in Seq(Thread) /\ flag' \in [Thread -> SUBSET Flags]
               /\ alive' \subseteq Coroutine /\ reclaim' \subseteq Coroutine /\ heap' \subseteq Thread
               /\ wakeup' \in [Thread -> Nat] /\ pc' \in [Thread -> PCs]
               /\ io' \subseteq Thread /\ pend' = pend
    <2>1. wakeup' \in [Thread -> Nat] /\ pc' \in [Thread -> PCs] /\ io' \subseteq Thread
      BY <1>u DEF ScheduleUntil, Worker, Thread
    <2>2. [flag EXCEPT ![c] = @ \cup {"io", "sleep"}] \in [Thread -> SUBSET Flags] /\ c \in Thread
      BY <1>f DEF Flags
    <2>3. /\ active' \in Thread /\ run' \in Seq(Thread) /\ flag' \in [Thread -> SUBSET Flags]
          /\ alive' \subseteq Coroutine /\ reclaim' \subseteq Coroutine
      BY <1>u, <2>2, YieldType DEF ScheduleUntil
    <2> QED BY <1>u, <1>h, <2>1, <2>2, <2>3 DEF ScheduleUntil
  <1>7. ASSUME NEW c \in Worker, WaitFdReady(c) PROVE TypeOK'
    <2>1. PICK ms \in Timeout \cup {IntMax} : MayWait(ms) /\ ScheduleUntil(c, ms, "io")
      BY <1>7 DEF WaitFdReady
    <2>2. ms \in Nat /\ "io" \in PCs
      BY <1>m, <2>1 DEF PCs
    <2> QED BY <1>7, <1>u, <2>1, <2>2 DEF WaitFdReady
  <1>8. ASSUME NEW c \in Worker, st_wait(c) PROVE TypeOK'
    <2>1. PICK ms \in Timeout \cup {IntMax} : MayWait(ms) /\ ScheduleUntil(c, ms, "wait")
      BY <1>8 DEF st_wait
    <2>2. ms \in Nat /\ "wait" \in PCs
      BY <1>m, <2>1 DEF PCs
    <2> QED BY <1>8, <1>u, <2>1, <2>2 DEF st_wait
  <1>9. ASSUME NEW c \in Worker, WaitAtOnce(c) PROVE TypeOK'
    BY <1>9 DEF WaitAtOnce, Worker, Thread
  <1>10. ASSUME NEW c \in Worker, NEW t \in Worker, Notify(c, t) PROVE TypeOK'
    <2>1. t \in Thread /\ {t} \in SUBSET Thread
      BY DEF Worker, Thread
    <2>2. CASE t # active /\ flag[t] \cap {"io", "sleep"} # {}
      <3>1. run' \in Seq(Thread) /\ flag' \in [Thread -> SUBSET Flags]
        <4>1. run' = Append(run, t) /\ flag' = Woken({t})
          BY <1>10, <2>2 DEF Notify
        <4>2. Append(run, t) \in Seq(Thread)
          BY <2>1, AppendProperties
        <4> QED BY <1>w, <2>1, <4>1, <4>2
      <3>2. notified' \in [Thread -> BOOLEAN] /\ io' \subseteq Thread /\ heap' \subseteq Thread
        BY <1>10, <2>1, <2>2 DEF Notify
      <3> QED BY <1>10, <3>1, <3>2 DEF Notify
    <2>3. CASE ~(t # active /\ flag[t] \cap {"io", "sleep"} # {})
      BY <1>10, <2>1, <2>3 DEF Notify
    <2> QED BY <2>2, <2>3
  <1>11. ASSUME NEW c \in Worker, Finish(c) PROVE TypeOK'
    <2> DEFINE p      == parent[c]
               unpend == p # None /\ subs[p] = {c}
               q      == IF unpend THEN Append(run, p) ELSE run
               f      == [t \in Thread |->
                            IF t = c THEN {}
                            ELSE IF unpend /\ t = p THEN (flag[t] \ {"pend"}) \cup {"run"}
                            ELSE flag[t]]
               keep   == Len(idle) < MaxFree
               r      == IF keep THEN reclaim ELSE reclaim \cup {c}
    <2>1. c \in Coroutine /\ c \in Thread /\ (p # None => p \in Thread)
      BY <1>11 DEF Finish, LastSub, Worker, Thread
    <2>2. q \in Seq(Thread) /\ f \in [Thread -> SUBSET Flags] /\ r \in SUBSET Coroutine
      BY <2>1, AppendProperties DEF Flags
    <2>3. /\ pend' = (IF unpend THEN pend \ {p} ELSE pend)
          /\ subs' = (IF p = None THEN subs ELSE [subs EXCEPT ![p] = @ \ {c}])
          /\ idle' = (IF keep THEN Append(idle, c) ELSE idle)
          /\ Yield(c, q, f, r)
      <3> DEFINE g == [t \in Thread |->
                         IF unpend /\ t = p THEN (flag[t] \ {"pend"}) \cup {"run"} ELSE flag[t]]
      <3>1. [g EXCEPT ![c] = {}] = f
        BY <2>1
      <3>2. Recycle(c, q, g)
        BY <1>11 DEF Finish, LastSub
      <3>3. Yield(c, q, f, r) /\ idle' = (IF keep THEN Append(idle, c) ELSE idle)
        BY <3>1, <3>2 DEF Recycle
      <3> QED BY <1>11, <3>3 DEF Finish, LastSub
    <2>4. /\ active' \in Thread /\ run' \in Seq(Thread) /\ flag' \in [Thread -> SUBSET Flags]
          /\ alive' \subseteq Coroutine /\ reclaim' \subseteq Coroutine
      BY <2>1, <2>2, <2>3, YieldType
    <2>5. idle' \in Seq(Coroutine) /\ pend' \subseteq Thread /\ subs' \in [Thread -> SUBSET Coroutine]
      BY <2>1, <2>3, AppendProperties
    <2>6. /\ parent' \in [Thread -> Thread \cup {None}] /\ wakeup' \in [Thread -> Nat]
          /\ notified' \in [Thread -> BOOLEAN] /\ pc' \in [Thread -> PCs]
      BY <1>11, <2>1 DEF Finish, Recycle, Reset, PCs
    <2> QED BY <1>11, <2>4, <2>5, <2>6 DEF Finish, LastSub
  <1>12. ASSUME FrameLoop PROVE TypeOK'
    BY <1>12 DEF FrameLoop, Thread, PCs
  <1>13. ASSUME NEW c \in Worker, Return(c) PROVE TypeOK'
    BY <1>13 DEF Return, Worker, Thread, PCs
  <1>14. ASSUME DaemonWait PROVE TypeOK'
    <2>1. deadline' \in Nat \cup {NoDeadline}
      BY <1>14, WaitTimeType DEF DaemonWait
    <2> QED BY <1>14, <2>1 DEF DaemonWait
  <1>15. ASSUME PollTimesOut PROVE TypeOK'
    BY <1>15 DEF PollTimesOut
  <1>16. ASSUME PollReports PROVE TypeOK'
    <2>a. PICK S \in SUBSET io : \E q \in Orderings(S) :
              flag' = Woken(S) /\ io' = io \ S /\ heap' = heap \ S /\ run' = run \o q
      BY <1>16 DEF PollReports
    <2>1. PICK q \in Orderings(S) :
              flag' = Woken(S) /\ io' = io \ S /\ heap' = heap \ S /\ run' = run \o q
      BY <2>a
    <2>2. S \in SUBSET Thread
      BY <2>1
    <2>3. q \in Seq(Thread)
      BY <2>1, <2>2, OrderingType
    <2>4. run' \in Seq(Thread) /\ flag' \in [Thread -> SUBSET Flags]
      BY <1>w, <2>1, <2>2, <2>3, ConcatProperties
    <2> QED BY <1>16, <2>1, <2>4 DEF PollReports
  <1>17. ASSUME DaemonRound PROVE TypeOK'
    <2>1. PICK q \in WakeOrders : Yield(Daemon, run \o q, Woken(Expired), reclaim)
      BY <1>17 DEF DaemonRound
    <2>2. Expired \in SUBSET Thread /\ q \in Orderings(Expired)
      BY <2>1 DEF Expired, WakeOrders
    <2>3. run \o q \in Seq(Thread) /\ Woken(Expired) \in [Thread -> SUBSET Flags] /\ Daemon \in Thread
      BY <1>w, <2>2, OrderingType, ConcatProperties DEF Thread
    <2>4. /\ active' \in Thread /\ run' \in Seq(Thread) /\ flag' \in [Thread -> SUBSET Flags]
          /\ alive' \subseteq Coroutine /\ reclaim' \subseteq Coroutine
      BY <2>1, <2>3, YieldType
    <2> QED BY <1>17, <2>4 DEF DaemonRound
  <1>18. ASSUME Tick PROVE TypeOK'
    BY <1>18 DEF Tick
  <1>19. CASE UNCHANGED vars
    BY <1>19 DEF vars
  <1> QED
    BY <1>1, <1>2, <1>3, <1>4, <1>5, <1>6, <1>7, <1>8, <1>9, <1>10, <1>11, <1>12, <1>13, <1>14,
       <1>15, <1>16, <1>17, <1>18, <1>19
       DEF Next, Suspend, Call, DaemonStep

\* The variables always have their types.
THEOREM TypeCorrect == Spec => []TypeOK
  <1>1. Init => TypeOK
    BY TimeAssumption, EmptySeq DEF Init, TypeOK, Thread, PCs
  <1> QED BY <1>1, TypeStep, PTL DEF Spec

-----------------------------------------------------------------------------
(* The safety invariants.  None is inductive alone: that the lists and     *)
(* flags agree when a coroutine is taken from the pool needs to know that  *)
(* it is not queued, that needs to know that the pool has only coroutines  *)
(* that finished, and a parent may be made ready again only when it pends. *)

\* A thread with sub-coroutines creates more of them or pends.
ParentsStay == \A t \in Thread : subs[t] # {} => t # Daemon /\ (t = active \/ t \in pend)

Inv == TypeOK /\ OneQueue /\ Conserved /\ PoolSound /\ JoinPending /\ ParentsStay

-----------------------------------------------------------------------------
(* Flags, one at a time.                                                   *)

\* What the queue flags of one thread exclude of each other.
Exclusive(F) ==
    /\ "run" \in F => "io" \notin F /\ "sleep" \notin F /\ "pend" \notin F
    /\ "pend" \in F => "io" \notin F /\ "sleep" \notin F
    /\ "io" \in F => "sleep" \in F

Quiet(F) == "run" \notin F /\ "io" \notin F /\ "sleep" \notin F /\ "pend" \notin F

\* ListsAgree, thread by thread and flag by flag.
Agree(f, q, i, p, h) ==
    /\ \A t \in Thread :
         /\ "run" \in f[t] <=> t \in Range(q)
         /\ "io" \in f[t] <=> t \in i
         /\ "pend" \in f[t] <=> t \in p
         /\ t \in h => "sleep" \in f[t]
         /\ Exclusive(f[t])
    /\ IsInjective(q)
    /\ f[Daemon] = {}

LEMMA QuietIff == \A F : F \cap QueueFlags = {} <=> Quiet(F)
  BY DEF QueueFlags, Quiet

LEMMA ExclusiveIff ==
    \A F : F \cap QueueFlags \in {{}, {"run"}, {"sleep"}, {"io", "sleep"}, {"pend"}} <=> Exclusive(F)
  <1> SUFFICES ASSUME NEW F
               PROVE  F \cap QueueFlags \in {{}, {"run"}, {"sleep"}, {"io", "sleep"}, {"pend"}}
                        <=> Exclusive(F)
    OBVIOUS
  <1>1. ASSUME F \cap QueueFlags \in {{}, {"run"}, {"sleep"}, {"io", "sleep"}, {"pend"}}
        PROVE  Exclusive(F)
    BY <1>1 DEF QueueFlags, Exclusive
  <1>2. ASSUME Exclusive(F)
        PROVE  F \cap QueueFlags \in {{}, {"run"}, {"sleep"}, {"io", "sleep"}, {"pend"}}
    <2>1. CASE "run" \in F
      <3>1. F \cap QueueFlags = {"run"}
        BY <1>2, <2>1 DEF QueueFlags, Exclusive
      <3> QED BY <3>1
    <2>2. CASE "pend" \in F
      <3>1. F \cap QueueFlags = {"pend"}
        BY <1>2, <2>2 DEF QueueFlags, Exclusive
      <3> QED BY <3>1
    <2>3. CASE "io" \in F
      <3>1. F \cap QueueFlags = {"io", "sleep"}
        BY <1>2, <2>3 DEF QueueFlags, Exclusive
      <3> QED BY <3>1
    <2>4. CASE "sleep" \in F /\ "io" \notin F
      <3>1. F \cap QueueFlags = {"sleep"}
        BY <1>2, <2>4 DEF QueueFlags, Exclusive
      <3> QED BY <3>1
    <2>5. CASE Quiet(F)
      <3>1. F \cap QueueFlags = {}
        BY <2>5, QuietIff
      <3> QED BY <3>1
    <2> QED BY <2>1, <2>2, <2>3, <2>4, <2>5 DEF Quiet
  <1> QED BY <1>1, <1>2

LEMMA AgreeIff ==
    \A f, q, i, p, h : ListsAgree(f, q, i, p, h) <=> Agree(f, q, i, p, h)
  <1> SUFFICES ASSUME NEW f, NEW q, NEW i, NEW p, NEW h
               PROVE  ListsAgree(f, q, i, p, h) <=> Agree(f, q, i, p, h)
    OBVIOUS
  <1>1. \A t : f[t] \cap QueueFlags \in {{}, {"run"}, {"sleep"}, {"io", "sleep"}, {"pend"}}
                <=> Exclusive(f[t])
    BY ExclusiveIff
  <1> QED BY <1>1, Zenon DEF ListsAgree, Agree

-----------------------------------------------------------------------------
(* The list operations keep lists and flags in agreement.                  *)

\* Yield leaves the new active thread in no list and the others where they are.
LEMMA YieldAgrees ==
    ASSUME NEW c \in Thread, NEW q \in Seq(Thread), NEW f \in [Thread -> SUBSET Flags],
           NEW r, NEW i, NEW p, NEW h, Agree(f, q, i, p, h), Yield(c, q, f, r)
    PROVE  /\ Agree(flag', run', i, p, h)
           /\ active' \in Thread /\ Quiet(flag'[active'])
           /\ \A t \in Worker : (t = active' \/ ~Quiet(flag'[t])) <=> ~Quiet(f[t])
  <1>1. CASE q = <<>>
    <2>1. active' = Daemon /\ run' = q /\ flag' = f
      BY <1>1 DEF Yield, Reap
    <2>2. Quiet(f[Daemon]) /\ Daemon \in Thread /\ Daemon \notin Worker
      BY ThreadAssumption DEF Agree, Quiet, Worker, Thread
    <2> QED BY <2>1, <2>2
  <1>2. CASE q # <<>>
    <2> DEFINE n == Head(q)
    <2>1. active' = n /\ run' = Tail(q) /\ flag' = [f EXCEPT ![n] = @ \ {"run"}]
      BY <1>2 DEF Yield, Reap
    <2>2. IsInjective(q)
      BY DEF Agree
    <2>3. /\ n \in Thread /\ n \in Range(q) /\ IsInjective(run')
          /\ Range(run') = Range(q) \ {n}
      BY <1>2, <2>1, <2>2, TailDistinct
    <2>4. "run" \in f[n] /\ n # Daemon /\ Exclusive(f[n])
      BY <2>3, ThreadAssumption DEF Agree, Thread
    <2>5. flag'[n] = f[n] \ {"run"} /\ \A t \in Thread \ {n} : flag'[t] = f[t]
      BY <2>1, <2>3
    <2>6. Quiet(flag'[n]) /\ ~Quiet(f[n])
      BY <2>4, <2>5 DEF Quiet, Exclusive
    <2>7. flag'[Daemon] = {}
      BY <2>4, <2>5, ThreadAssumption DEF Agree, Thread
    <2>8. ASSUME NEW t \in Thread
          PROVE  /\ "run" \in flag'[t] <=> t \in Range(run')
                 /\ "io" \in flag'[t] <=> t \in i
                 /\ "pend" \in flag'[t] <=> t \in p
                 /\ t \in h => "sleep" \in flag'[t]
                 /\ Exclusive(flag'[t])
      <3>1. CASE t = n
        BY <2>3, <2>4, <2>5, <2>6, <3>1 DEF Agree, Quiet, Exclusive
      <3>2. CASE t # n
        BY <2>3, <2>5, <3>2 DEF Agree
      <3> QED BY <3>1, <3>2
    <2>9. Agree(flag', run', i, p, h)
      BY <2>3, <2>7, <2>8 DEF Agree
    <2>10. \A t \in Worker : (t = active' \/ ~Quiet(flag'[t])) <=> ~Quiet(f[t])
      BY <2>1, <2>5, <2>6 DEF Worker, Thread
    <2> QED BY <2>1, <2>3, <2>6, <2>9, <2>10
  <1> QED BY <1>1, <1>2

\* Suspending: a thread that is in no list joins the lists its new flags name.
LEMMA BlockAgrees ==
    ASSUME TypeOK, Agree(flag, run, io, pend, heap), NEW c \in Worker, Quiet(flag[c]),
           NEW F \in {{"sleep"}, {"io", "sleep"}, {"pend"}},
           NEW i, i = (IF "io" \in F THEN io \cup {c} ELSE io),
           NEW p, p = (IF "pend" \in F THEN pend \cup {c} ELSE pend),
           NEW h, h \subseteq (IF "sleep" \in F THEN heap \cup {c} ELSE heap)
    PROVE  /\ Agree([flag EXCEPT ![c] = @ \cup F], run, i, p, h)
           /\ [flag EXCEPT ![c] = @ \cup F] \in [Thread -> SUBSET Flags]
           /\ \A t \in Worker : ~Quiet([flag EXCEPT ![c] = @ \cup F][t]) <=> (t = c \/ ~Quiet(flag[t]))
  <1> DEFINE f == [flag EXCEPT ![c] = @ \cup F]
  <1>1. c \in Thread /\ c # Daemon /\ Worker \subseteq Thread
    BY ThreadAssumption DEF Worker, Thread
  <1>2. f \in [Thread -> SUBSET Flags]
    BY <1>1 DEF TypeOK, Flags
  <1>3. f[c] = flag[c] \cup F /\ \A t \in Thread \ {c} : f[t] = flag[t]
    BY <1>1 DEF TypeOK
  <1> HIDE DEF f
  <1>4. Exclusive(f[c]) /\ ~Quiet(f[c])
    BY <1>3 DEF Exclusive, Quiet
  <1>5. ASSUME NEW t \in Thread
        PROVE  /\ "run" \in f[t] <=> t \in Range(run)
               /\ "io" \in f[t] <=> t \in i
               /\ "pend" \in f[t] <=> t \in p
               /\ t \in h => "sleep" \in f[t]
               /\ Exclusive(f[t])
    <2>1. CASE t = c
      BY <1>1, <1>3, <1>4, <2>1 DEF Agree, Quiet
    <2>2. CASE t # c
      BY <1>3, <2>2 DEF Agree
    <2> QED BY <2>1, <2>2
  <1>6. f[Daemon] = {}
    BY <1>1, <1>3 DEF Agree, Thread
  <1>7. Agree(f, run, i, p, h)
    BY <1>5, <1>6 DEF Agree
  <1>8. \A t \in Worker : ~Quiet(f[t]) <=> (t = c \/ ~Quiet(flag[t]))
    BY <1>1, <1>3, <1>4
  <1> QED BY <1>2, <1>7, <1>8 DEF f

\* InsertRunable of a thread that is in no list.
LEMMA InsertRunableAgrees ==
    ASSUME TypeOK, Agree(flag, run, io, pend, heap), NEW t \in Worker, Quiet(flag[t]),
           NEW F \in {{"run"}, {"run", "sub"}}
    PROVE  /\ Agree([flag EXCEPT ![t] = @ \cup F], Append(run, t), io, pend, heap)
           /\ \A u \in Worker : ~Quiet([flag EXCEPT ![t] = @ \cup F][u]) <=> (u = t \/ ~Quiet(flag[u]))
  <1> DEFINE f == [flag EXCEPT ![t] = @ \cup F]
  <1>1. t \in Thread /\ t # Daemon /\ Worker \subseteq Thread
    BY ThreadAssumption DEF Worker, Thread
  <1>2. f[t] = flag[t] \cup F /\ \A u \in Thread \ {t} : f[u] = flag[u]
    BY <1>1 DEF TypeOK
  <1> HIDE DEF f
  <1>3. t \notin Range(run) /\ run \in Seq(Thread) /\ IsInjective(run)
    BY <1>1 DEF TypeOK, Agree, Quiet
  <1>4. IsInjective(Append(run, t)) /\ Range(Append(run, t)) = Range(run) \cup {t}
    BY <1>1, <1>3, AppendDistinct
  <1>5. Exclusive(f[t]) /\ ~Quiet(f[t])
    BY <1>2 DEF Exclusive, Quiet
  <1>6. ASSUME NEW u \in Thread
        PROVE  /\ "run" \in f[u] <=> u \in Range(Append(run, t))
               /\ "io" \in f[u] <=> u \in io
               /\ "pend" \in f[u] <=> u \in pend
               /\ u \in heap => "sleep" \in f[u]
               /\ Exclusive(f[u])
    <2>1. CASE u = t
      BY <1>1, <1>2, <1>4, <1>5, <2>1 DEF Agree, Quiet
    <2>2. CASE u # t
      BY <1>2, <1>4, <2>2 DEF Agree
    <2> QED BY <2>1, <2>2
  <1>7. f[Daemon] = {}
    BY <1>1, <1>2 DEF Agree, Thread
  <1>8. Agree(f, Append(run, t), io, pend, heap)
    BY <1>4, <1>6, <1>7 DEF Agree
  <1>9. \A u \in Worker : ~Quiet(f[u]) <=> (u = t \/ ~Quiet(flag[u]))
    BY <1>1, <1>2, <1>5
  <1> QED BY <1>8, <1>9 DEF f

\* Waking: the threads of S leave the io list and the heap for the run list.
LEMMA WakeAgrees ==
    ASSUME TypeOK, Agree(flag, run, io, pend, heap), NEW S \in SUBSET Thread,
           \A t \in S : "io" \in flag[t] \/ "sleep" \in flag[t],
           NEW q \in Seq(Thread), IsInjective(q), Range(q) = S
    PROVE  /\ Agree(Woken(S), run \o q, io \ S, pend, heap \ S)
           /\ run \o q \in Seq(Thread) /\ Woken(S) \in [Thread -> SUBSET Flags]
           /\ \A t \in Thread : ~Quiet(Woken(S)[t]) <=> ~Quiet(flag[t])
  <1> DEFINE f == Woken(S)
  <1>1. f \in [Thread -> SUBSET Flags]
    BY DEF Woken, TypeOK, Flags
  <1>2. /\ \A t \in S : f[t] = (flag[t] \ {"io", "sleep"}) \cup {"run"}
        /\ \A t \in Thread \ S : f[t] = flag[t]
    BY DEF Woken
  <1> HIDE DEF f
  <1>3. run \in Seq(Thread) /\ IsInjective(run) /\ Range(run) \cap S = {}
    BY DEF TypeOK, Agree, Exclusive
  <1>4. run \o q \in Seq(Thread) /\ IsInjective(run \o q) /\ Range(run \o q) = Range(run) \cup S
    BY <1>3, ConcatDistinct
  <1>5. ASSUME NEW t \in Thread
        PROVE  /\ "run" \in f[t] <=> t \in Range(run \o q)
               /\ "io" \in f[t] <=> t \in io \ S
               /\ "pend" \in f[t] <=> t \in pend
               /\ t \in heap \ S => "sleep" \in f[t]
               /\ Exclusive(f[t])
               /\ ~Quiet(f[t]) <=> ~Quiet(flag[t])
    <2>1. CASE t \in S
      BY <1>2, <1>4, <2>1 DEF Agree, Exclusive, Quiet
    <2>2. CASE t \notin S
      BY <1>2, <1>4, <2>2 DEF Agree
    <2> QED BY <2>1, <2>2
  <1>6. f[Daemon] = {}
    <2>1. Daemon \in Thread \ S
      BY DEF Thread, Agree
    <2> QED BY <1>2, <2>1 DEF Agree
  <1>7. Agree(f, run \o q, io \ S, pend, heap \ S)
    BY <1>4, <1>5, <1>6 DEF Agree
  <1> QED BY <1>1, <1>4, <1>5, <1>7 DEF f

\* Unpend of p while c, in no list, resets its flags.
LEMMA UnpendAgrees ==
    ASSUME TypeOK, Agree(flag, run, io, pend, heap), NEW c \in Worker, Quiet(flag[c]),
           NEW P \in SUBSET pend, \A s, t \in P : s = t,
           NEW q, q = (IF P = {} THEN run ELSE Append(run, CHOOSE p \in P : TRUE)),
           NEW f, f = [t \in Thread |-> IF t = c THEN {}
                                        ELSE IF t \in P THEN (flag[t] \ {"pend"}) \cup {"run"}
                                        ELSE flag[t]]
    PROVE  /\ Agree(f, q, io, pend \ P, heap)
           /\ q \in Seq(Thread) /\ f \in [Thread -> SUBSET Flags]
           /\ \A t \in Worker : ~Quiet(f[t]) <=> ~Quiet(flag[t])
  <1>1. c \in Thread /\ c # Daemon /\ Worker \subseteq Thread /\ P \subseteq Thread /\ c \notin P
    BY ThreadAssumption DEF Worker, Thread, TypeOK, Agree, Quiet
  <1>2. f \in [Thread -> SUBSET Flags]
    BY DEF TypeOK, Flags
  <1>3. /\ f[c] = {}
        /\ \A t \in P : f[t] = (flag[t] \ {"pend"}) \cup {"run"}
        /\ \A t \in Thread \ (P \cup {c}) : f[t] = flag[t]
    BY <1>1
  <1>4. run \in Seq(Thread) /\ IsInjective(run) /\ Range(run) \cap P = {}
    BY <1>1 DEF TypeOK, Agree, Exclusive
  <1>5. q \in Seq(Thread) /\ IsInjective(q) /\ Range(q) = Range(run) \cup P
    <2>1. CASE P = {}
      BY <1>4, <2>1
    <2>2. CASE P # {}
      <3>1. PICK p \in P : P = {p} /\ q = Append(run, p)
        BY <2>2
      <3>2. p \in Thread /\ p \notin Range(run)
        BY <1>1, <1>4
      <3> QED BY <1>4, <3>1, <3>2, AppendDistinct
    <2> QED BY <2>1, <2>2
  <1>6. ASSUME NEW t \in Thread
        PROVE  /\ "run" \in f[t] <=> t \in Range(q)
               /\ "io" \in f[t] <=> t \in io
               /\ "pend" \in f[t] <=> t \in pend \ P
               /\ t \in heap => "sleep" \in f[t]
               /\ Exclusive(f[t])
               /\ ~Quiet(f[t]) <=> ~Quiet(flag[t])
    <2>1. CASE t = c
      BY <1>1, <1>3, <1>5, <2>1 DEF Agree, Quiet, Exclusive
    <2>2. CASE t \in P
      BY <1>1, <1>3, <1>5, <2>2 DEF Agree, Quiet, Exclusive
    <2>3. CASE t # c /\ t \notin P
      BY <1>3, <1>5, <2>3 DEF Agree
    <2> QED BY <2>1, <2>2, <2>3
  <1>7. f[Daemon] = {}
    <2>1. Daemon \in Thread /\ "pend" \notin flag[Daemon]
      BY DEF Thread, Agree
    <2> QED BY <1>1, <1>3, <2>1 DEF Agree
  <1>8. Agree(f, q, io, pend \ P, heap)
    BY <1>5, <1>6, <1>7 DEF Agree
  <1> QED BY <1>1, <1>2, <1>5, <1>6, <1>8
-----------------------------------------------------------------------------
(* OneQueue and Conserved, flag by flag, of a state and of its successor.  *)

LEMMA Unfold ==
    ASSUME Inv
    PROVE  /\ Agree(flag, run, io, pend, heap)
           /\ Quiet(flag[active])
           /\ \A t \in Worker : (t = active \/ ~Quiet(flag[t]))
                               <=> (t \in Live \/ (t = Primo /\ pc[t] # "gone"))
  <1>1. ListsAgree(flag, run, io, pend, heap) /\ flag[active] \cap QueueFlags = {}
    BY DEF Inv, OneQueue, Queued
  <1>2. Agree(flag, run, io, pend, heap) /\ Quiet(flag[active])
    BY <1>1, AgreeIff, QuietIff
  <1>3. \A t : Queued(t) # {} <=> ~Quiet(flag[t])
    BY QuietIff DEF Queued
  <1> QED BY <1>2, <1>3 DEF Inv, Conserved

LEMMA Fold ==
    ASSUME Agree(flag', run', io', pend', heap'), Quiet(flag'[active']),
           \A t \in Worker : (t = active' \/ ~Quiet(flag'[t]))
                           <=> (t \in Live' \/ (t = Primo /\ pc'[t] # "gone"))
    PROVE  OneQueue' /\ Conserved'
  <1>1. ListsAgree(flag', run', io', pend', heap') /\ flag'[active'] \cap QueueFlags = {}
    BY AgreeIff, QuietIff
  <1>2. \A t : Queued(t)' # {} <=> ~Quiet(flag'[t])
    BY QuietIff DEF Queued
  <1> QED BY <1>1, <1>2 DEF OneQueue, Conserved, Queued

\* The active thread suspends and stays alive: the processor goes on and what
\* was left to delete is deleted.
LEMMA SuspendKeeps ==
    ASSUME Inv, NEW c \in Thread, c = active,
           NEW q \in Seq(Thread), NEW f \in [Thread -> SUBSET Flags],
           Agree(f, q, io', pend', heap'), Yield(c, q, f, reclaim), idle' = idle,
           \A t \in Worker : ~Quiet(f[t]) <=> (t = c \/ ~Quiet(flag[t])),
           (pc'[Primo] = "gone") <=> (pc[Primo] = "gone")
    PROVE  OneQueue' /\ Conserved' /\ PoolSound' /\ Live' = Live
  <1>1. /\ Agree(flag', run', io', pend', heap') /\ Quiet(flag'[active'])
        /\ \A t \in Worker : (t = active' \/ ~Quiet(flag'[t])) <=> ~Quiet(f[t])
    BY YieldAgrees
  <1>2. c \notin reclaim
    <2>1. CASE c \in Coroutine
      <3>1. c \in Worker /\ c # Primo
        BY <2>1, ThreadAssumption DEF Worker
      <3>2. c \in Live
        BY <3>1, Unfold
      <3> QED BY <3>2 DEF Live
    <2>2. CASE c \notin Coroutine
      BY <2>2 DEF Inv, TypeOK
    <2> QED BY <2>1, <2>2
  <1>3. alive' = alive \ reclaim /\ reclaim' = {}
    BY <1>2 DEF Yield, Reap
  <1>4. Live' = Live /\ PoolSound'
    BY <1>3 DEF Live, Inv, PoolSound
  <1> QED BY <1>1, <1>4, Unfold, Fold

\* The family of a suspending thread stays as it is.
LEMMA SuspendFamily ==
    ASSUME Inv, Live' = Live, UNCHANGED <<parent, subs>>,
           pend \subseteq pend',
           \A t \in pend' : t \in pend \/ subs[t] # {},
           active = Daemon \/ active \in pend' \/ subs[active] = {}
    PROVE  JoinPending' /\ ParentsStay'
  <1>1. JoinPending'
    BY DEF Inv, JoinPending
  <1>2. ParentsStay'
    BY DEF Inv, ParentsStay
  <1> QED BY <1>1, <1>2

\* Steps after which the same thread is active.
LEMMA SameActive ==
    ASSUME Inv, active' = active, Agree(flag', run', io', pend', heap'),
           \A t \in Worker : ~Quiet(flag'[t]) <=> ~Quiet(flag[t]),
           Quiet(flag'[active]),
           UNCHANGED <<pend, reclaim, idle, alive, parent, subs>>,
           (pc'[Primo] = "gone") <=> (pc[Primo] = "gone")
    PROVE  OneQueue' /\ Conserved' /\ PoolSound' /\ JoinPending' /\ ParentsStay'
  <1>1. Live' = Live
    BY DEF Live
  <1>2. OneQueue' /\ Conserved'
    BY <1>1, Unfold, Fold
  <1>3. PoolSound' /\ JoinPending' /\ ParentsStay'
    BY <1>1 DEF Inv, PoolSound, JoinPending, ParentsStay
  <1> QED BY <1>2, <1>3
-----------------------------------------------------------------------------
(* The coroutines come and go.                                             *)

\* The coroutine AllocPtr returns was not in use: it is in no list, has no
\* family, and is one more live coroutine afterwards.
LEMMA AllocFresh ==
    ASSUME Inv, NEW t \in Coroutine, AllocThread(t), reclaim' = reclaim
    PROVE  /\ t \in Worker /\ t # Primo /\ t # active /\ t \notin Live /\ Quiet(flag[t])
           /\ parent[t] = None /\ subs[t] = {}
           /\ Live' = Live \cup {t} /\ PoolSound'
  <1>1. t \in Worker /\ t # Primo /\ t \in Thread /\ idle \in Seq(Coroutine) /\ PoolSound
    BY ThreadAssumption DEF Worker, Thread, Inv, TypeOK
  <1>2. t \notin Live /\ Live' = Live \cup {t} /\ PoolSound'
    <2>1. CASE idle = <<>>
      <3>1. Range(idle) = {} /\ idle' = idle /\ alive' = alive \cup {t} /\ t \notin alive
        BY <2>1 DEF AllocThread, Range
      <3> QED BY <1>1, <3>1 DEF Live, PoolSound
    <2>2. CASE idle # <<>>
      <3>1. t = Head(idle) /\ idle' = Tail(idle) /\ alive' = alive \cup {t} /\ IsInjective(idle)
        BY <1>1, <2>2 DEF AllocThread, PoolSound
      <3>2. /\ t \in Range(idle) /\ IsInjective(idle') /\ Range(idle') = Range(idle) \ {t}
            /\ Len(idle') = Len(idle) - 1
        BY <1>1, <2>2, <3>1, TailDistinct
      <3>3. Len(idle') <= MaxFree
        BY <1>1, <3>2, LenProperties, SizeAssumption DEF PoolSound
      <3> QED BY <1>1, <3>1, <3>2, <3>3 DEF Live, PoolSound
    <2> QED BY <2>1, <2>2
  <1>3. t # active /\ Quiet(flag[t])
    BY <1>1, <1>2, Unfold
  <1>4. t \notin pend
    BY <1>1, <1>3, Unfold DEF Agree, Quiet
  <1>5. parent[t] = None /\ subs[t] = {}
    <2>1. \A x \in Thread : t \notin subs[x]
      BY <1>2 DEF Inv, JoinPending
    <2>2. parent[t] \in Thread \cup {None}
      BY <1>1 DEF Inv, TypeOK
    <2>3. parent[t] = None
      BY <1>1, <2>1, <2>2 DEF Inv, JoinPending
    <2> QED BY <1>1, <1>3, <1>4, <2>3 DEF Inv, ParentsStay
  <1> QED BY <1>1, <1>2, <1>3, <1>5

LEMMA CreateKeeps ==
    ASSUME Inv, NEW t \in Coroutine, AllocThread(t), NEW F \in {{"run"}, {"run", "sub"}},
           flag' = [flag EXCEPT ![t] = @ \cup F], run' = Append(run, t),
           UNCHANGED <<active, io, pend, reclaim, heap>>,
           pc'[Primo] = pc[Primo]
    PROVE  OneQueue' /\ Conserved' /\ PoolSound'
  <1>1. t \in Worker /\ t # Primo /\ t # active /\ Quiet(flag[t]) /\ Live' = Live \cup {t} /\ PoolSound'
    BY AllocFresh
  <1>2. TypeOK /\ t \in Thread /\ active \in Thread
    BY <1>1 DEF Inv, TypeOK, Worker, Thread
  <1>3. /\ Agree(flag', run', io', pend', heap')
        /\ \A u \in Worker : ~Quiet(flag'[u]) <=> (u = t \/ ~Quiet(flag[u]))
    BY <1>1, <1>2, Unfold, InsertRunableAgrees
  <1>4. flag'[active'] = flag[active]
    BY <1>1, <1>2 DEF TypeOK
  <1> QED BY <1>1, <1>3, <1>4, Unfold, Fold

LEMMA FinishKeeps ==
    ASSUME Inv, NEW c \in Worker, Finish(c)
    PROVE  OneQueue' /\ Conserved' /\ PoolSound' /\ JoinPending' /\ ParentsStay'
  <1> DEFINE p      == parent[c]
             unpend == p # None /\ subs[p] = {c}
             q      == IF unpend THEN Append(run, p) ELSE run
             f      == [t \in Thread |->
                          IF t = c THEN {}
                          ELSE IF unpend /\ t = p THEN (flag[t] \ {"pend"}) \cup {"run"}
                          ELSE flag[t]]
             keep   == Len(idle) < MaxFree
             r      == IF keep THEN reclaim ELSE reclaim \cup {c}
             P      == IF unpend THEN {p} ELSE {}
  <1>1. /\ c \in Coroutine /\ c \in Thread /\ c # Primo /\ c = active /\ subs[c] = {}
        /\ pend' = (IF unpend THEN pend \ {p} ELSE pend)
        /\ subs' = (IF p = None THEN subs ELSE [subs EXCEPT ![p] = @ \ {c}])
        /\ idle' = (IF keep THEN Append(idle, c) ELSE idle)
        /\ Yield(c, q, f, r)
        /\ parent' = [parent EXCEPT ![c] = None]
        /\ pc' = [pc EXCEPT ![c] = "idle"]
        /\ io' = io /\ heap' = heap
    <2> DEFINE g == [t \in Thread |->
                       IF unpend /\ t = p THEN (flag[t] \ {"pend"}) \cup {"run"} ELSE flag[t]]
    <2>1. c \in Coroutine /\ c \in Thread /\ c # Primo /\ c = active /\ subs[c] = {}
      BY ThreadAssumption DEF Finish, Running, JoinFirst, Worker, Thread
    <2>2. [g EXCEPT ![c] = {}] = f
      OBVIOUS
    <2>3. Recycle(c, q, g)
      BY DEF Finish, LastSub
    <2>4. Yield(c, q, f, r) /\ idle' = (IF keep THEN Append(idle, c) ELSE idle)
      BY <2>2, <2>3 DEF Recycle
    <2>5. parent' = [parent EXCEPT ![c] = None]
      BY <2>3 DEF Recycle, Reset
    <2> QED BY <2>1, <2>4, <2>5 DEF Finish, LastSub
  <1>2. /\ TypeOK /\ Agree(flag, run, io, pend, heap) /\ Quiet(flag[c]) /\ c \in Live
        /\ parent \in [Thread -> Thread \cup {None}] /\ subs \in [Thread -> SUBSET Coroutine]
    BY <1>1, Unfold DEF Inv, TypeOK
  <1>3. P \in SUBSET pend
    <2>1. ASSUME unpend PROVE p \in pend
      <3>1. p \in Thread /\ subs[p] # {}
        BY <1>1, <1>2, <2>1
      <3> QED BY <1>1, <2>1, <3>1 DEF Inv, ParentsStay
    <2> QED BY <2>1
  <1>4. /\ q = (IF P = {} THEN run ELSE Append(run, CHOOSE x \in P : TRUE))
        /\ f = [t \in Thread |-> IF t = c THEN {}
                                 ELSE IF t \in P THEN (flag[t] \ {"pend"}) \cup {"run"}
                                 ELSE flag[t]]
        /\ pend' = pend \ P
        /\ \A s, t \in P : s = t
    <2>1. CASE unpend
      BY <1>1, <2>1
    <2>2. CASE ~unpend
      BY <1>1, <2>2
    <2> QED BY <2>1, <2>2
  <1> HIDE DEF q, f, P
  <1>5. /\ Agree(f, q, io', pend', heap')
        /\ q \in Seq(Thread) /\ f \in [Thread -> SUBSET Flags]
        /\ \A t \in Worker : ~Quiet(f[t]) <=> ~Quiet(flag[t])
    <2>1. /\ Agree(f, q, io, pend \ P, heap)
          /\ q \in Seq(Thread) /\ f \in [Thread -> SUBSET Flags]
          /\ \A t \in Worker : ~Quiet(f[t]) <=> ~Quiet(flag[t])
      BY <1>2, <1>3, <1>4, UnpendAgrees
    <2> QED BY <1>1, <1>4, <2>1
  <1>6. /\ Agree(flag', run', io', pend', heap') /\ active' \in Thread /\ Quiet(flag'[active'])
        /\ \A t \in Worker : (t = active' \/ ~Quiet(flag'[t])) <=> ~Quiet(f[t])
    BY <1>1, <1>5, YieldAgrees
  <1>7. c \notin Range(idle) /\ c \notin reclaim /\ c \in alive /\ idle \in Seq(Coroutine) /\ PoolSound
    BY <1>2 DEF Live, Inv, TypeOK
  <1>8. PoolSound' /\ Live' = Live \ {c}
    <2>1. CASE keep
      <3>1. /\ IsInjective(idle') /\ Range(idle') = Range(idle) \cup {c} /\ Len(idle') = Len(idle) + 1
        BY <1>1, <1>7, <2>1, AppendDistinct DEF PoolSound
      <3>2. alive' = alive \ reclaim /\ reclaim' = {}
        BY <1>1, <1>7, <2>1 DEF Yield, Reap
      <3>3. Len(idle') <= MaxFree
        BY <1>7, <2>1, <3>1, LenProperties, SizeAssumption
      <3> QED BY <1>7, <3>1, <3>2, <3>3 DEF PoolSound, Live
    <2>2. CASE ~keep
      <3>1. idle' = idle /\ alive' = alive \ reclaim /\ reclaim' = {c}
        BY <1>1, <1>7, <2>2 DEF Yield, Reap
      <3> QED BY <1>7, <3>1 DEF PoolSound, Live
    <2> QED BY <2>1, <2>2
  <1>9. \A t \in Worker : (t = active' \/ ~Quiet(flag'[t]))
                        <=> (t \in Live' \/ (t = Primo /\ pc'[t] # "gone"))
    <2> SUFFICES ASSUME NEW t \in Worker
                 PROVE  ~Quiet(f[t]) <=> (t \in Live' \/ (t = Primo /\ pc'[t] # "gone"))
      BY <1>6
    <2>1. CASE t = c
      BY <1>1, <1>2, <1>5, <1>8, <2>1
    <2>2. CASE t # c
      <3>1. t \in Thread /\ pc'[t] = pc[t]
        BY <1>1, <1>2, <2>2 DEF TypeOK, Worker, Thread
      <3> QED BY <1>1, <1>5, <1>8, <2>2, <3>1, Unfold
    <2> QED BY <2>1, <2>2
  <1>10. OneQueue' /\ Conserved'
    BY <1>6, <1>9, Fold
  <1>11. \A t \in Thread : subs'[t] = subs[t] \ {c}
    <2>1. \A t \in Thread : c \in subs[t] => t = p
      BY <1>1, <1>2 DEF Inv, JoinPending
    <2>2. CASE p = None
      BY <1>1, <1>2, <2>1, <2>2, ThreadAssumption
    <2>3. CASE p # None
      BY <1>1, <1>2, <2>1, <2>3
    <2> QED BY <2>2, <2>3
  <1>12. \A t \in Thread : subs[t] = {c} <=> t \in P
    <2>1. \A t \in Thread : c \in subs[t] <=> t = p
      BY <1>1, <1>2, ThreadAssumption DEF Inv, JoinPending
    <2> QED BY <1>2, <2>1, ThreadAssumption DEF P
  <1>13. JoinPending'
    <2>1. ASSUME NEW t \in pend' PROVE subs'[t] # {}
      <3>1. t \in Thread /\ t \in pend /\ t \notin P
        BY <1>2, <1>4, <2>1 DEF TypeOK
      <3>2. subs[t] # {} /\ subs[t] # {c}
        BY <1>12, <3>1 DEF Inv, JoinPending
      <3> QED BY <1>11, <3>1, <3>2
    <2>2. \A t, x \in Thread : x \in subs'[t] <=> parent'[x] = t
      BY <1>1, <1>2, <1>11, ThreadAssumption DEF Inv, JoinPending
    <2>3. \A t \in Thread : subs'[t] \subseteq Live'
      BY <1>8, <1>11 DEF Inv, JoinPending
    <2> QED BY <2>1, <2>2, <2>3 DEF JoinPending
  <1>14. ParentsStay'
    <2> SUFFICES ASSUME NEW t \in Thread, subs'[t] # {} PROVE t # Daemon /\ t \in pend'
      BY DEF ParentsStay
    <2>1. subs[t] # {} /\ subs[t] # {c} /\ t # c
      BY <1>1, <1>11
    <2> QED BY <1>1, <1>4, <1>12, <2>1 DEF Inv, ParentsStay
  <1> QED BY <1>8, <1>10, <1>13, <1>14
-----------------------------------------------------------------------------
(* The invariant is inductive.                                             *)

LEMMA InvInit == Init => Inv
  <1> SUFFICES ASSUME Init PROVE Inv
    OBVIOUS
  <1>1. TypeOK
    BY TimeAssumption, EmptySeq DEF Init, TypeOK, Thread, PCs
  <1>2. Range(run) = {} /\ Range(idle) = {} /\ Len(idle) = 0 /\ IsInjective(run) /\ IsInjective(idle)
    BY EmptySeq DEF Init, Range, IsInjective
  <1>3. \A t \in Thread : flag[t] = {} /\ subs[t] = {} /\ parent[t] = None
    BY DEF Init
  <1>4. OneQueue
    <2>1. Agree(flag, run, io, pend, heap) /\ Quiet(flag[active])
      BY <1>2, <1>3 DEF Init, Agree, Exclusive, Quiet, Thread
    <2> QED BY <2>1, AgreeIff, QuietIff DEF OneQueue, Queued
  <1>5. Conserved
    BY <1>3, ThreadAssumption DEF Init, Conserved, Queued, Live, Worker, Thread
  <1>6. PoolSound
    BY <1>2, SizeAssumption DEF Init, PoolSound
  <1>7. JoinPending /\ ParentsStay
    BY <1>3, ThreadAssumption DEF Init, JoinPending, ParentsStay
  <1> QED BY <1>1, <1>4, <1>5, <1>6, <1>7 DEF Inv

\* What st_sleep and the waiting calls do to the lists.
LEMMA SleepKeeps ==
    ASSUME Inv, NEW c \in Worker, c = active, subs[c] = {}, pc[c] = "app",
           NEW ms \in Nat, NEW where \in PCs \ {"gone"},
           SleepUntil(c, ms, where) \/ ScheduleUntil(c, ms, where),
           UNCHANGED <<idle, family>>
    PROVE  OneQueue' /\ Conserved' /\ PoolSound' /\ JoinPending' /\ ParentsStay'
  <1>1. TypeOK /\ Agree(flag, run, io, pend, heap) /\ Quiet(flag[c]) /\ c \in Thread
    BY Unfold DEF Inv, Worker, Thread
  <1>2. /\ pc' = [pc EXCEPT ![c] = where]
        /\ pend' = pend /\ HeapWith(c) \subseteq heap \cup {c}
    BY <1>1 DEF SleepUntil, ScheduleUntil, HeapWith, Quiet, lists
  <1>3. (pc'[Primo] = "gone") <=> (pc[Primo] = "gone")
    BY <1>1, <1>2 DEF TypeOK, Thread
  <1>4. PICK F \in {{"sleep"}, {"io", "sleep"}} :
              /\ io' = IF "io" \in F THEN io \cup {c} ELSE io
              /\ heap' = HeapWith(c)
              /\ Yield(c, run, [flag EXCEPT ![c] = @ \cup F], reclaim)
    <2>1. CASE SleepUntil(c, ms, where)
      BY <1>1, <2>1 DEF SleepUntil, Quiet
    <2>2. CASE ScheduleUntil(c, ms, where)
      BY <2>2 DEF ScheduleUntil
    <2> QED BY <2>1, <2>2
  <1> DEFINE f == [flag EXCEPT ![c] = @ \cup F]
  <1>5. /\ Agree(f, run, io', pend', heap') /\ f \in [Thread -> SUBSET Flags]
        /\ \A t \in Worker : ~Quiet(f[t]) <=> (t = c \/ ~Quiet(flag[t]))
    BY <1>1, <1>2, <1>4, BlockAgrees
  <1>6. Yield(c, run, f, reclaim) /\ idle' = idle /\ run \in Seq(Thread)
    BY <1>1, <1>4 DEF TypeOK
  <1> HIDE DEF f
  <1>7. OneQueue' /\ Conserved' /\ PoolSound' /\ Live' = Live
    BY <1>1, <1>3, <1>5, <1>6, SuspendKeeps
  <1>8. JoinPending' /\ ParentsStay'
    BY <1>2, <1>7, SuspendFamily DEF family
  <1> QED BY <1>7, <1>8

LEMMA PendKeeps ==
    ASSUME Inv, NEW c \in Worker, Pend(c)
    PROVE  OneQueue' /\ Conserved' /\ PoolSound' /\ JoinPending' /\ ParentsStay'
  <1> DEFINE f == [flag EXCEPT ![c] = @ \cup {"pend"}]
  <1>1. /\ c = active /\ pc[c] = "app" /\ subs[c] # {} /\ pend' = pend \cup {c}
        /\ pc' = [pc EXCEPT ![c] = "pend"] /\ Yield(c, run, f, reclaim)
        /\ UNCHANGED <<io, heap, idle, parent, subs>>
    BY DEF Pend, Running, family
  <1>2. TypeOK /\ Agree(flag, run, io, pend, heap) /\ Quiet(flag[c]) /\ c \in Thread
    BY <1>1, Unfold DEF Inv, Worker, Thread
  <1>3. (pc'[Primo] = "gone") <=> (pc[Primo] = "gone")
    BY <1>1, <1>2 DEF TypeOK, Thread
  <1>4. /\ Agree(f, run, io, pend \cup {c}, heap) /\ f \in [Thread -> SUBSET Flags]
        /\ \A t \in Worker : ~Quiet(f[t]) <=> (t = c \/ ~Quiet(flag[t]))
    BY <1>2, BlockAgrees
  <1>5. Agree(f, run, io', pend', heap') /\ run \in Seq(Thread)
    BY <1>1, <1>2, <1>4 DEF TypeOK
  <1> HIDE DEF f
  <1>6. OneQueue' /\ Conserved' /\ PoolSound' /\ Live' = Live
    BY <1>1, <1>2, <1>3, <1>4, <1>5, SuspendKeeps
  <1>7. JoinPending' /\ ParentsStay'
    BY <1>1, <1>6, SuspendFamily
  <1> QED BY <1>6, <1>7

LEMMA CreateSubKeeps ==
    ASSUME Inv, NEW c \in Worker, CreateSub(c)
    PROVE  OneQueue' /\ Conserved' /\ PoolSound' /\ JoinPending' /\ ParentsStay'
  <1>1. PICK t \in Coroutine : /\ AllocThread(t)
                               /\ flag' = [flag EXCEPT ![t] = @ \cup {"run", "sub"}]
                               /\ run' = Append(run, t)
                               /\ pc' = [pc EXCEPT ![t] = "app"]
                               /\ parent' = [parent EXCEPT ![t] = c]
                               /\ subs' = [subs EXCEPT ![c] = @ \cup {t}]
    BY DEF CreateSub
  <1>2. c = active /\ UNCHANGED <<active, io, pend, reclaim, heap>>
    BY DEF CreateSub, Running
  <1>3. /\ t \in Worker /\ t # Primo /\ t # active /\ t \notin Live
        /\ parent[t] = None /\ subs[t] = {} /\ Live' = Live \cup {t}
    BY <1>1, <1>2, AllocFresh
  <1>4. /\ c \in Thread /\ t \in Thread /\ c # Daemon /\ c # None
        /\ parent \in [Thread -> Thread \cup {None}] /\ subs \in [Thread -> SUBSET Coroutine]
    BY <1>3, ThreadAssumption DEF Worker, Thread, Inv, TypeOK
  <1>5. pc'[Primo] = pc[Primo]
    BY <1>1, <1>3 DEF Inv, TypeOK, Thread
  <1>6. OneQueue' /\ Conserved' /\ PoolSound'
    BY <1>1, <1>2, <1>5, CreateKeeps
  <1>7. JoinPending'
    <2>1. \A u \in pend' : subs'[u] # {}
      BY <1>1, <1>2, <1>4 DEF Inv, TypeOK, JoinPending
    <2>2. \A u, x \in Thread : x \in subs'[u] <=> parent'[x] = u
      BY <1>1, <1>3, <1>4, ThreadAssumption DEF Inv, JoinPending
    <2>3. \A u \in Thread : subs'[u] \subseteq Live'
      BY <1>1, <1>3, <1>4 DEF Inv, JoinPending
    <2> QED BY <2>1, <2>2, <2>3 DEF JoinPending
  <1>8. ParentsStay'
    BY <1>1, <1>2, <1>4 DEF Inv, ParentsStay
  <1> QED BY <1>6, <1>7, <1>8

LEMMA CreateThreadKeeps ==
    ASSUME Inv, NEW c \in Worker, CreateThread(c)
    PROVE  OneQueue' /\ Conserved' /\ PoolSound' /\ JoinPending' /\ ParentsStay'
  <1>1. PICK t \in Coroutine : /\ AllocThread(t)
                               /\ flag' = [flag EXCEPT ![t] = @ \cup {"run"}]
                               /\ run' = Append(run, t)
                               /\ pc' = [pc EXCEPT ![t] = "app"]
    BY DEF CreateThread
  <1>2. UNCHANGED <<active, io, pend, reclaim, heap, parent, subs>>
    BY DEF CreateThread, family
  <1>3. t # Primo /\ Live' = Live \cup {t}
    BY <1>1, <1>2, AllocFresh
  <1>4. pc'[Primo] = pc[Primo]
    BY <1>1, <1>3 DEF Inv, TypeOK, Thread
  <1>5. OneQueue' /\ Conserved' /\ PoolSound'
    BY <1>1, <1>2, <1>4, CreateKeeps
  <1>6. JoinPending' /\ ParentsStay'
    BY <1>2, <1>3 DEF Inv, JoinPending, ParentsStay
  <1> QED BY <1>5, <1>6

LEMMA NotifyKeeps ==
    ASSUME Inv, NEW c \in Worker, NEW t \in Worker, Notify(c, t)
    PROVE  OneQueue' /\ Conserved' /\ PoolSound' /\ JoinPending' /\ ParentsStay'
  <1>1. UNCHANGED <<active, pend, reclaim, idle, alive, parent, subs, pc>>
    BY DEF Notify, pool, family
  <1>2. TypeOK /\ Agree(flag, run, io, pend, heap) /\ Quiet(flag[active]) /\ active \in Thread /\ t \in Thread
    BY Unfold DEF Inv, TypeOK, Worker, Thread
  <1>3. CASE t # active /\ flag[t] \cap {"io", "sleep"} # {}
    <2>1. /\ flag' = Woken({t}) /\ io' = io \ {t} /\ heap' = heap \ {t} /\ run' = Append(run, t)
      BY <1>3 DEF Notify
    <2>2. <<t>> \in Seq(Thread) /\ IsInjective(<<t>>) /\ Range(<<t>>) = {t} /\ run' = run \o <<t>>
      BY <1>2, <2>1, AppendIsConcat DEF IsInjective, Range, TypeOK
    <2>3. \A s \in {t} : "io" \in flag[s] \/ "sleep" \in flag[s]
      BY <1>3
    <2>4. /\ Agree(flag', run', io', pend', heap')
          /\ \A s \in Thread : ~Quiet(flag'[s]) <=> ~Quiet(flag[s])
      <3>1. {t} \in SUBSET Thread
        BY <1>2
      <3>2. /\ Agree(Woken({t}), run \o <<t>>, io \ {t}, pend, heap \ {t})
            /\ \A s \in Thread : ~Quiet(Woken({t})[s]) <=> ~Quiet(flag[s])
        BY <1>2, <2>2, <2>3, <3>1, WakeAgrees
      <3> QED BY <1>1, <2>1, <2>2, <3>2
    <2>5. \A s \in Worker : ~Quiet(flag'[s]) <=> ~Quiet(flag[s])
      BY <2>4 DEF Worker, Thread
    <2> QED BY <1>1, <1>2, <2>4, <2>5, SameActive
  <1>4. CASE ~(t # active /\ flag[t] \cap {"io", "sleep"} # {})
    <2>1. UNCHANGED <<flag, io, heap, run>>
      BY <1>4 DEF Notify
    <2> QED BY <1>1, <1>2, <2>1, SameActive
  <1> QED BY <1>3, <1>4

LEMMA PollReportsKeeps ==
    ASSUME Inv, PollReports
    PROVE  OneQueue' /\ Conserved' /\ PoolSound' /\ JoinPending' /\ ParentsStay'
  <1>1. UNCHANGED <<active, pend, reclaim, idle, alive, parent, subs, pc>>
    BY DEF PollReports, pool, family
  <1>2. TypeOK /\ Agree(flag, run, io, pend, heap) /\ Quiet(flag[active]) /\ active \in Thread
    BY Unfold DEF Inv, TypeOK
  <1>3. PICK S \in SUBSET io : \E q \in Orderings(S) :
            flag' = Woken(S) /\ io' = io \ S /\ heap' = heap \ S /\ run' = run \o q
    BY DEF PollReports
  <1>4. PICK q \in Orderings(S) :
            flag' = Woken(S) /\ io' = io \ S /\ heap' = heap \ S /\ run' = run \o q
    BY <1>3
  <1>5. S \in SUBSET Thread /\ \A t \in S : "io" \in flag[t] \/ "sleep" \in flag[t]
    BY <1>2, <1>3 DEF TypeOK, Agree
  <1>6. q \in Seq(Thread) /\ IsInjective(q) /\ Range(q) = S
    BY <1>5, OrderingType
  <1>7. /\ Agree(Woken(S), run \o q, io \ S, pend, heap \ S)
        /\ \A t \in Thread : ~Quiet(Woken(S)[t]) <=> ~Quiet(flag[t])
    BY <1>2, <1>5, <1>6, WakeAgrees
  <1>8. Agree(flag', run', io', pend', heap')
    BY <1>1, <1>4, <1>7
  <1>9. \A t \in Thread : ~Quiet(flag'[t]) <=> ~Quiet(flag[t])
    BY <1>4, <1>7
  <1>10. \A t \in Worker : ~Quiet(flag'[t]) <=> ~Quiet(flag[t])
    BY <1>9 DEF Worker, Thread
  <1> QED BY <1>1, <1>2, <1>8, <1>9, <1>10, SameActive

LEMMA DaemonRoundKeeps ==
    ASSUME Inv, DaemonRound
    PROVE  OneQueue' /\ Conserved' /\ PoolSound' /\ JoinPending' /\ ParentsStay'
  <1>1. /\ active = Daemon /\ Daemon \in Thread /\ Daemon \notin Worker
        /\ io' = io \ Expired /\ heap' = heap \ Expired
        /\ UNCHANGED <<pend, idle, parent, subs, pc>>
    BY ThreadAssumption DEF DaemonRound, family, Worker, Thread
  <1>2. TypeOK /\ Agree(flag, run, io, pend, heap)
    BY Unfold DEF Inv
  <1>3. PICK q \in WakeOrders : Yield(Daemon, run \o q, Woken(Expired), reclaim)
    BY DEF DaemonRound
  <1>4. Expired \in SUBSET Thread /\ \A t \in Expired : "io" \in flag[t] \/ "sleep" \in flag[t]
    BY <1>2 DEF TypeOK, Agree, Expired
  <1>5. q \in Seq(Thread) /\ IsInjective(q) /\ Range(q) = Expired
    BY <1>4, OrderingType DEF WakeOrders
  <1> DEFINE f == Woken(Expired)
             r == run \o q
  <1>6. /\ Agree(f, r, io', pend, heap') /\ r \in Seq(Thread) /\ f \in [Thread -> SUBSET Flags]
        /\ \A t \in Thread : ~Quiet(f[t]) <=> ~Quiet(flag[t])
    <2>1. /\ Agree(f, r, io \ Expired, pend, heap \ Expired) /\ r \in Seq(Thread)
          /\ f \in [Thread -> SUBSET Flags]
          /\ \A t \in Thread : ~Quiet(f[t]) <=> ~Quiet(flag[t])
      BY <1>2, <1>4, <1>5, WakeAgrees
    <2> QED BY <1>1, <2>1
  <1>7. Yield(Daemon, r, f, reclaim)
    BY <1>3
  <1> HIDE DEF f, r
  <1>8. Agree(f, r, io', pend', heap') /\ \A t \in Worker : ~Quiet(f[t]) <=> (t = Daemon \/ ~Quiet(flag[t]))
    BY <1>1, <1>6 DEF Worker, Thread
  <1>9. OneQueue' /\ Conserved' /\ PoolSound' /\ Live' = Live
    BY <1>1, <1>6, <1>7, <1>8, SuspendKeeps
  <1>10. JoinPending' /\ ParentsStay'
    BY <1>1, <1>9, SuspendFamily
  <1> QED BY <1>9, <1>10

LEMMA FrameLoopKeeps ==
    ASSUME Inv, FrameLoop
    PROVE  OneQueue' /\ Conserved' /\ PoolSound' /\ JoinPending' /\ ParentsStay'
  <1>1. /\ active = Primo /\ active' = Daemon /\ subs[Primo] = {} /\ pc' = [pc EXCEPT ![Primo] = "gone"]
        /\ UNCHANGED <<run, io, pend, reclaim, heap, flag, idle, alive, parent, subs>>
    BY DEF FrameLoop, Running, JoinFirst, pool, family
  <1>2. Primo \in Thread /\ Primo \in Worker /\ Primo # Daemon /\ Daemon \notin Worker
    BY ThreadAssumption DEF Thread, Worker
  <1>3. Agree(flag', run', io', pend', heap') /\ Quiet(flag[Primo]) /\ Quiet(flag'[active'])
    BY <1>1, Unfold DEF Agree, Quiet
  <1>4. Live' = Live /\ PoolSound'
    BY <1>1 DEF Live, Inv, PoolSound
  <1>5. Primo \notin Live
    BY ThreadAssumption DEF Inv, TypeOK, Live
  <1>6. pc'[Primo] = "gone" /\ \A t \in Worker \ {Primo} : pc'[t] = pc[t]
    BY <1>1, <1>2 DEF Inv, TypeOK, Worker, Thread
  <1>7. \A t \in Worker : (t = active' \/ ~Quiet(flag'[t])) <=> (t \in Live' \/ (t = Primo /\ pc'[t] # "gone"))
    BY <1>1, <1>2, <1>3, <1>4, <1>5, <1>6, Unfold
  <1>8. OneQueue' /\ Conserved'
    BY <1>3, <1>7, Fold
  <1>9. JoinPending' /\ ParentsStay'
    BY <1>1, <1>4 DEF Inv, JoinPending, ParentsStay
  <1> QED BY <1>4, <1>8, <1>9

\* Steps that touch no list.
LEMMA ListsStay ==
    ASSUME Inv, UNCHANGED <<lists, pool, family>>, (pc'[Primo] = "gone") <=> (pc[Primo] = "gone")
    PROVE  OneQueue' /\ Conserved' /\ PoolSound' /\ JoinPending' /\ ParentsStay'
  <1>1. UNCHANGED <<active, run, io, pend, reclaim, heap, flag, idle, alive, parent, subs>>
    BY DEF lists, pool, family
  <1>2. Agree(flag', run', io', pend', heap') /\ Quiet(flag'[active])
    BY <1>1, Unfold
  <1> QED BY <1>1, <1>2, SameActive

\* Return never gives main()'s thread back what FrameLoop took: it does not run.
LEMMA ReturnKeeps ==
    ASSUME Inv, NEW c \in Worker, Return(c)
    PROVE  OneQueue' /\ Conserved' /\ PoolSound' /\ JoinPending' /\ ParentsStay'
  <1>1. /\ UNCHANGED <<lists, pool, family>> /\ pc' = [pc EXCEPT ![c] = "app"] /\ pc[c] # "gone"
    BY DEF Return, Running
  <1>2. (pc'[Primo] = "gone") <=> (pc[Primo] = "gone")
    BY <1>1 DEF Inv, TypeOK, Thread, Worker
  <1> QED BY <1>1, <1>2, ListsStay

\* Every step of the scheduler keeps the invariant.
LEMMA InvStep == Inv /\ [Next]_vars => Inv'
  <1> SUFFICES ASSUME Inv, [Next]_vars
               PROVE  OneQueue' /\ Conserved' /\ PoolSound' /\ JoinPending' /\ ParentsStay'
    BY TypeStep DEF Inv
  <1> DEFINE Kept == OneQueue' /\ Conserved' /\ PoolSound' /\ JoinPending' /\ ParentsStay'
  <1>m. \A ms : MayWait(ms) => ms \in Nat
    BY TimeAssumption DEF MayWait
  <1>1. ASSUME NEW c \in Worker, Suspend(c) PROVE Kept
    <2>1. CASE Pend(c)
      BY <2>1, PendKeeps
    <2>2. CASE st_sleep(c)
      <3>1. PICK ms \in Timeout : MayWait(ms) /\ SleepUntil(c, ms, "sleep")
        BY <2>2 DEF st_sleep
      <3>2. ms \in Nat /\ "sleep" \in PCs \ {"gone"}
        BY <1>m, <3>1 DEF PCs
      <3>3. c = active /\ pc[c] = "app" /\ subs[c] = {} /\ UNCHANGED <<idle, family>>
        BY <2>2 DEF st_sleep, Running, JoinFirst
      <3> QED BY <3>1, <3>2, <3>3, SleepKeeps
    <2>3. CASE NotifyWait(c)
      <3>1. PICK ms \in (Timeout \cup {IntMax}) \ {0} : MayWait(ms) /\ SleepUntil(c, ms, "nwait")
        BY <2>3 DEF NotifyWait
      <3>2. ms \in Nat /\ "nwait" \in PCs \ {"gone"}
        BY <1>m, <3>1 DEF PCs
      <3>3. c = active /\ pc[c] = "app" /\ subs[c] = {} /\ UNCHANGED <<idle, family>>
        BY <2>3 DEF NotifyWait, Running, JoinFirst
      <3> QED BY <3>1, <3>2, <3>3, SleepKeeps
    <2>4. CASE WaitFdReady(c)
      <3>1. PICK ms \in Timeout \cup {IntMax} : MayWait(ms) /\ ScheduleUntil(c, ms, "io")
        BY <2>4 DEF WaitFdReady
      <3>2. ms \in Nat /\ "io" \in PCs \ {"gone"}
        BY <1>m, <3>1 DEF PCs
      <3>3. c = active /\ pc[c] = "app" /\ subs[c] = {} /\ UNCHANGED <<idle, family>>
        BY <2>4 DEF WaitFdReady, Running, JoinFirst
      <3> QED BY <3>1, <3>2, <3>3, SleepKeeps
    <2>5. CASE st_wait(c)
      <3>1. PICK ms \in Timeout \cup {IntMax} : MayWait(ms) /\ ScheduleUntil(c, ms, "wait")
        BY <2>5 DEF st_wait
      <3>2. ms \in Nat /\ "wait" \in PCs \ {"gone"}
        BY <1>m, <3>1 DEF PCs
      <3>3. c = active /\ pc[c] = "app" /\ subs[c] = {} /\ UNCHANGED <<idle, family>>
        BY <2>5 DEF st_wait, Running, JoinFirst
      <3> QED BY <3>1, <3>2, <3>3, SleepKeeps
    <2>6. CASE Finish(c)
      BY <2>6, FinishKeeps
    <2>7. CASE FrameLoop
      BY <2>7, FrameLoopKeeps
    <2> QED BY <1>1, <2>1, <2>2, <2>3, <2>4, <2>5, <2>6, <2>7 DEF Suspend
  <1>2. ASSUME NEW c \in Worker, Call(c) PROVE Kept
    <2>1. CASE CreateThread(c)
      BY <2>1, CreateThreadKeeps
    <2>2. CASE CreateSub(c)
      BY <2>2, CreateSubKeeps
    <2>3. CASE NotifyWaitAtOnce(c) \/ WaitAtOnce(c)
      <3>1. UNCHANGED <<lists, pool, family, pc>>
        BY <2>3 DEF NotifyWaitAtOnce, WaitAtOnce
      <3> QED BY <3>1, ListsStay
    <2>4. CASE \E t \in Worker : Notify(c, t)
      BY <2>4, NotifyKeeps
    <2> QED BY <1>2, <2>1, <2>2, <2>3, <2>4 DEF Call
  <1>3. ASSUME NEW c \in Worker, Return(c) PROVE Kept
    BY <1>3, ReturnKeeps
  <1>4. CASE DaemonStep
    <2>1. CASE DaemonWait \/ PollTimesOut
      <3>1. UNCHANGED <<lists, pool, family, pc>>
        BY <2>1 DEF DaemonWait, PollTimesOut
      <3> QED BY <3>1, ListsStay
    <2>2. CASE DaemonRound
      BY <2>2, DaemonRoundKeeps
    <2> QED BY <1>4, <2>1, <2>2 DEF DaemonStep
  <1>5. CASE PollReports
    BY <1>5, PollReportsKeeps
  <1>6. CASE Tick \/ UNCHANGED vars
    <2>1. UNCHANGED <<lists, pool, family, pc>>
      BY <1>6 DEF Tick, vars
    <2> QED BY <2>1, ListsStay
  <1> QED BY <1>1, <1>2, <1>3, <1>4, <1>5, <1>6 DEF Next

\* The lists and the flags always agree, and no thread is in two lists.
THEOREM OneQueueAlways == Spec => []OneQueue
  <1>1. Inv => OneQueue
    BY DEF Inv
  <1> QED BY <1>1, InvInit, InvStep, PTL DEF Spec

\* No coroutine is lost, and none that finished is run again.
THEOREM ConservedAlways == Spec => []Conserved
  <1>1. Inv => Conserved
    BY DEF Inv
  <1> QED BY <1>1, InvInit, InvStep, PTL DEF Spec

\* The pool hands a coroutine out once, and nothing deleted is touched again.
THEOREM PoolSoundAlways == Spec => []PoolSound
  <1>1. Inv => PoolSound
    BY DEF Inv
  <1> QED BY <1>1, InvInit, InvStep, PTL DEF Spec

\* A pending parent always has a live sub-coroutine that will wake it up.
THEOREM JoinPendingAlways == Spec => []JoinPending
  <1>1. Inv => JoinPending
    BY DEF Inv
  <1> QED BY <1>1, InvInit, InvStep, PTL DEF Spec
-----------------------------------------------------------------------------
(* What the actions do to the flags.                                       *)

Asleep(F) == "io" \in F \/ "sleep" \in F \/ "pend" \in F

\* F and G name the same queues but the run list.
SameWait(F, G) ==
    ("io" \in F <=> "io" \in G) /\ ("sleep" \in F <=> "sleep" \in G) /\ ("pend" \in F <=> "pend" \in G)

\* The threads that wait, as the refinement mapping has them.
Waiting == {t \in Thread : flag[t] \cap {"io", "sleep", "pend"} # {}}

LEMMA WaitingIff == \A t \in Thread : t \in Waiting <=> Asleep(flag[t])
  BY DEF Waiting, Asleep

\* Yield takes a flag from the new active thread only, and not that of a wait.
LEMMA YieldWaits ==
    ASSUME NEW c, NEW q \in Seq(Thread), NEW f \in [Thread -> SUBSET Flags], NEW r,
           Yield(c, q, f, r)
    PROVE  /\ \A t \in Thread : SameWait(flag'[t], f[t])
           /\ IF q = <<>> THEN active' = Daemon /\ run' = <<>>
                          ELSE active' = Head(q) /\ run' = Tail(q)
  <1>1. CASE q = <<>>
    BY <1>1 DEF Yield, SameWait
  <1>2. CASE q # <<>>
    <2>1. flag' = [f EXCEPT ![Head(q)] = @ \ {"run"}]
      BY <1>2 DEF Yield
    <2>2. \A t \in Thread : flag'[t] = f[t] \/ flag'[t] = f[t] \ {"run"}
      BY <2>1
    <2>3. \A t \in Thread : SameWait(flag'[t], f[t])
      BY <2>2 DEF SameWait
    <2> QED BY <1>2, <2>3 DEF Yield
  <1> QED BY <1>1, <1>2

\* st_sleep and the waiting calls leave the processor with these flags.
SleepFlags(where) == IF where \in {"sleep", "nwait"} THEN {"sleep"} ELSE {"io", "sleep"}
Sleeps(c, ms, where) ==
    IF where \in {"sleep", "nwait"} THEN SleepUntil(c, ms, where)
    ELSE where \in {"io", "wait"} /\ ScheduleUntil(c, ms, where)

LEMMA SleepEffect ==
    ASSUME Inv, NEW c \in Worker, c = active, NEW ms, NEW where, Sleeps(c, ms, where)
    PROVE  /\ Yield(c, run, [flag EXCEPT ![c] = @ \cup SleepFlags(where)], reclaim)
           /\ heap' = HeapWith(c)
           /\ wakeup' = [wakeup EXCEPT ![c] = clock + ms]
           /\ pc' = [pc EXCEPT ![c] = where]
  <1>1. Quiet(flag[c])
    BY Unfold
  <1>2. CASE where \in {"sleep", "nwait"}
    BY <1>1, <1>2 DEF Sleeps, SleepFlags, SleepUntil, Quiet
  <1>3. CASE where \notin {"sleep", "nwait"}
    BY <1>3 DEF Sleeps, SleepFlags, ScheduleUntil
  <1> QED BY <1>2, <1>3

\* The last sub-coroutine of a parent finds it pending, and makes it ready.
LEMMA FinishEffect ==
    ASSUME Inv, NEW c \in Worker, Finish(c)
    PROVE  \E P \in SUBSET pend, q \in Seq(Thread), f \in [Thread -> SUBSET Flags],
                  r \in {reclaim, reclaim \cup {c}} :
              /\ \/ P = {} /\ q = run
                 \/ \E p \in pend : P = {p} /\ q = Append(run, p)
              /\ f = [t \in Thread |-> IF t = c THEN {}
                                       ELSE IF t \in P THEN (flag[t] \ {"pend"}) \cup {"run"}
                                       ELSE flag[t]]
              /\ Yield(c, q, f, r)
  <1> DEFINE p      == parent[c]
             unpend == p # None /\ subs[p] = {c}
             q      == IF unpend THEN Append(run, p) ELSE run
             P      == IF unpend THEN {p} ELSE {}
             r      == IF Len(idle) < MaxFree THEN reclaim ELSE reclaim \cup {c}
             g      == [t \in Thread |->
                          IF unpend /\ t = p THEN (flag[t] \ {"pend"}) \cup {"run"} ELSE flag[t]]
             f      == [t \in Thread |-> IF t = c THEN {}
                                         ELSE IF t \in P THEN (flag[t] \ {"pend"}) \cup {"run"}
                                         ELSE flag[t]]
  <1>1. /\ c \in Thread /\ c = active /\ subs[c] = {} /\ run \in Seq(Thread)
        /\ flag \in [Thread -> SUBSET Flags] /\ pend \subseteq Thread
        /\ parent \in [Thread -> Thread \cup {None}]
    BY DEF Finish, Running, JoinFirst, Worker, Thread, Inv, TypeOK
  <1>2. Recycle(c, q, g)
    BY DEF Finish, LastSub
  <1>3. [g EXCEPT ![c] = {}] = f
    OBVIOUS
  <1>4. Yield(c, q, f, r)
    BY <1>2, <1>3 DEF Recycle
  <1>5. ASSUME unpend PROVE p \in pend
    <2>1. p \in Thread /\ subs[p] # {}
      BY <1>1, <1>5
    <2> QED BY <1>1, <1>5, <2>1 DEF Inv, ParentsStay
  <1>6. P \in SUBSET pend /\ q \in Seq(Thread)
    BY <1>1, <1>5, AppendProperties
  <1>7. \/ P = {} /\ q = run
        \/ \E x \in pend : P = {x} /\ q = Append(run, x)
    BY <1>5
  <1>8. f \in [Thread -> SUBSET Flags]
    BY <1>1 DEF Flags
  <1>8r. r \in {reclaim, reclaim \cup {c}}
    OBVIOUS
  <1> HIDE DEF P, q, r, f
  <1>9. f = [t \in Thread |-> IF t = c THEN {}
                              ELSE IF t \in P THEN (flag[t] \ {"pend"}) \cup {"run"}
                              ELSE flag[t]]
    BY DEF f
  <1> QED BY <1>4, <1>6, <1>7, <1>8, <1>8r, <1>9
-----------------------------------------------------------------------------
(* Waits.  That a notification or a timeout is not lost needs to know what *)
(* kind of call each queue is for: only the daemon and st_notify end a     *)
(* wait, and an event ends only a wait for a descriptor.                   *)

WaitOf(F, where, note, until, now) ==
    /\ "io" \in F => where \in {"io", "wait"}
    /\ "pend" \in F => where = "pend"
    /\ where \in {"nwait", "wait"} /\ note => ~Asleep(F)
    /\ where = "nwait" /\ ~note /\ ~Asleep(F) => until <= now

Waits == \A t \in Worker : WaitOf(flag[t], pc[t], notified[t], wakeup[t], clock)

WInv == Inv /\ Waits

LEMMA WaitSame ==
    ASSUME NEW F, NEW G, SameWait(F, G), NEW where, NEW note, NEW until, NEW now,
           WaitOf(G, where, note, until, now)
    PROVE  WaitOf(F, where, note, until, now)
  BY DEF SameWait, WaitOf, Asleep

LEMMA WaitsInit == Init => Waits
  BY DEF Init, Waits, WaitOf, Asleep, Worker, Thread

\* st_sleep and the waiting calls.
LEMMA SleepWaits ==
    ASSUME WInv, NEW c \in Worker, Running(c, "app"), NEW ms, NEW where, Sleeps(c, ms, where),
           where \in {"nwait", "wait"} => ~notified[c],
           UNCHANGED <<notified, time>>
    PROVE  Waits'
  <1> DEFINE F == SleepFlags(where)
  <1>1. /\ TypeOK /\ c = active /\ c \in Thread /\ Quiet(flag[c]) /\ Worker \subseteq Thread
        /\ run \in Seq(Thread) /\ flag \in [Thread -> SUBSET Flags] /\ clock' = clock
    BY Unfold DEF WInv, Inv, TypeOK, Running, Worker, Thread, time
  <1>2. /\ Yield(c, run, [flag EXCEPT ![c] = @ \cup F], reclaim)
        /\ wakeup' = [wakeup EXCEPT ![c] = clock + ms]
        /\ pc' = [pc EXCEPT ![c] = where]
    BY <1>1, SleepEffect DEF WInv
  <1> DEFINE f == [flag EXCEPT ![c] = @ \cup F]
  <1>3. /\ f \in [Thread -> SUBSET Flags] /\ f[c] = flag[c] \cup F
        /\ \A t \in Thread \ {c} : f[t] = flag[t]
    BY <1>1 DEF Flags, SleepFlags
  <1>4. \A t \in Thread : SameWait(flag'[t], f[t])
    BY <1>1, <1>2, <1>3, YieldWaits
  <1> HIDE DEF f
  <1>5. ASSUME NEW t \in Worker
        PROVE  WaitOf(f[t], pc'[t], notified'[t], wakeup'[t], clock')
    <2>1. CASE t = c
      <3>1. pc'[t] = where /\ notified'[t] = notified[t]
        BY <1>1, <1>2, <2>1 DEF TypeOK
      <3>2. "sleep" \in f[t] /\ "pend" \notin f[t] /\ ("io" \in f[t] => where \in {"io", "wait"})
        BY <1>1, <1>3, <2>1 DEF Quiet, Sleeps, SleepFlags
      <3> QED BY <2>1, <3>1, <3>2 DEF WaitOf, Asleep
    <2>2. CASE t # c
      <3>1. pc'[t] = pc[t] /\ wakeup'[t] = wakeup[t] /\ notified'[t] = notified[t] /\ f[t] = flag[t]
        BY <1>1, <1>2, <1>3, <2>2 DEF TypeOK
      <3> QED BY <1>1, <3>1 DEF WInv, Waits
    <2> QED BY <2>1, <2>2
  <1> QED BY <1>1, <1>4, <1>5, WaitSame DEF Waits

LEMMA PendWaits ==
    ASSUME WInv, NEW c \in Worker, Pend(c)
    PROVE  Waits'
  <1> DEFINE f == [flag EXCEPT ![c] = @ \cup {"pend"}]
  <1>1. /\ TypeOK /\ c \in Thread /\ Quiet(flag[c]) /\ Worker \subseteq Thread
        /\ run \in Seq(Thread) /\ flag \in [Thread -> SUBSET Flags]
        /\ Yield(c, run, f, reclaim) /\ pc' = [pc EXCEPT ![c] = "pend"]
        /\ UNCHANGED <<notified, wakeup, clock>>
    BY Unfold DEF WInv, Inv, TypeOK, Pend, Running, Worker, Thread, time
  <1>2. /\ f \in [Thread -> SUBSET Flags] /\ f[c] = flag[c] \cup {"pend"}
        /\ \A t \in Thread \ {c} : f[t] = flag[t]
    BY <1>1 DEF Flags
  <1>3. \A t \in Thread : SameWait(flag'[t], f[t])
    BY <1>1, <1>2, YieldWaits
  <1> HIDE DEF f
  <1>4. ASSUME NEW t \in Worker
        PROVE  WaitOf(f[t], pc'[t], notified'[t], wakeup'[t], clock')
    <2>1. CASE t = c
      BY <1>1, <1>2, <2>1 DEF WaitOf, Quiet, TypeOK
    <2>2. CASE t # c
      BY <1>1, <1>2, <2>2 DEF WInv, Waits, TypeOK
    <2> QED BY <2>1, <2>2
  <1> QED BY <1>1, <1>3, <1>4, WaitSame DEF Waits

LEMMA FinishWaits ==
    ASSUME WInv, NEW c \in Worker, Finish(c)
    PROVE  Waits'
  <1>1. PICK P \in SUBSET pend, q \in Seq(Thread), f \in [Thread -> SUBSET Flags],
                  r \in {reclaim, reclaim \cup {c}} :
              /\ \/ P = {} /\ q = run
                 \/ \E p \in pend : P = {p} /\ q = Append(run, p)
              /\ f = [t \in Thread |-> IF t = c THEN {}
                                       ELSE IF t \in P THEN (flag[t] \ {"pend"}) \cup {"run"}
                                       ELSE flag[t]]
              /\ Yield(c, q, f, r)
    BY FinishEffect DEF WInv
  <1>2. /\ TypeOK /\ c \in Thread /\ Worker \subseteq Thread /\ pc' = [pc EXCEPT ![c] = "idle"]
        /\ notified' = [notified EXCEPT ![c] = FALSE]
        /\ wakeup' = [wakeup EXCEPT ![c] = 0] /\ clock' = clock
    BY DEF WInv, Inv, Finish, Recycle, Reset, Worker, Thread, time
  <1>3. \A t \in Thread : SameWait(flag'[t], f[t])
    BY <1>1, YieldWaits
  <1>4. ASSUME NEW t \in Worker
        PROVE  WaitOf(f[t], pc'[t], notified'[t], wakeup'[t], clock')
    <2>1. CASE t = c
      BY <1>1, <1>2, <2>1 DEF WaitOf, TypeOK
    <2>2. CASE t \in P /\ t # c
      <3>1. "pend" \in flag[t]
        BY <1>2, <2>2, Unfold DEF WInv, Agree
      <3>2. pc[t] = "pend" /\ pc'[t] = "pend"
        BY <1>2, <2>2, <3>1 DEF WInv, Waits, WaitOf, TypeOK
      <3>3. "io" \notin f[t]
        BY <1>1, <1>2, <2>2, <3>2 DEF WInv, Waits, WaitOf
      <3> QED BY <3>2, <3>3 DEF WaitOf
    <2>3. CASE t \notin P /\ t # c
      <3>1. pc'[t] = pc[t] /\ wakeup'[t] = wakeup[t] /\ notified'[t] = notified[t] /\ f[t] = flag[t]
        BY <1>1, <1>2, <2>3 DEF TypeOK
      <3> QED BY <1>2, <3>1 DEF WInv, Waits
    <2> QED BY <2>1, <2>2, <2>3
  <1>5. ASSUME NEW t \in Worker
        PROVE  WaitOf(flag'[t], pc'[t], notified'[t], wakeup'[t], clock')
    <2>1. SameWait(flag'[t], f[t])
      BY <1>2, <1>3
    <2> QED BY ONLY <1>4, <2>1, WaitSame
  <1> QED BY ONLY <1>5 DEF Waits

\* A coroutine that starts is inside no call.
LEMMA CreateWaits ==
    ASSUME WInv, NEW c \in Worker, CreateThread(c) \/ CreateSub(c)
    PROVE  Waits'
  <1>1. PICK t \in Coroutine, F \in {{"run"}, {"run", "sub"}} :
              AllocThread(t) /\ flag' = [flag EXCEPT ![t] = @ \cup F] /\ pc' = [pc EXCEPT ![t] = "app"]
    BY DEF CreateThread, CreateSub
  <1>2. reclaim' = reclaim /\ UNCHANGED <<wakeup, clock>>
    BY DEF CreateThread, CreateSub, time
  <1>3. Quiet(flag[t]) /\ t \in Thread /\ Worker \subseteq Thread /\ TypeOK
    BY <1>1, <1>2, AllocFresh DEF WInv, Inv, Worker, Thread
  <1>4. \A u \in Worker \ {t} : flag'[u] = flag[u] /\ pc'[u] = pc[u] /\ notified'[u] = notified[u]
    BY <1>1, <1>3 DEF TypeOK, AllocThread
  <1>5. pc'[t] = "app" /\ flag'[t] = flag[t] \cup F
    BY <1>1, <1>3 DEF TypeOK
  <1>6. WaitOf(flag'[t], pc'[t], notified'[t], wakeup'[t], clock')
    BY <1>3, <1>5 DEF WaitOf, Quiet
  <1>7. \A u \in Worker \ {t} : WaitOf(flag'[u], pc'[u], notified'[u], wakeup'[u], clock')
    BY <1>2, <1>4 DEF WInv, Waits
  <1> QED BY <1>6, <1>7 DEF Waits

\* Steps of a thread that carries no flag of a wait, and leaves a waiting call.
LEMMA LeaveWaits ==
    ASSUME WInv, NEW c \in Worker, c = active, UNCHANGED <<flag, clock>>,
           pc'[c] \notin {"nwait", "wait"},
           \A t \in Worker \ {c} : UNCHANGED <<pc[t], notified[t], wakeup[t]>>
    PROVE  Waits'
  <1>1. Quiet(flag'[c])
    BY Unfold DEF WInv
  <1>2. WaitOf(flag'[c], pc'[c], notified'[c], wakeup'[c], clock')
    BY <1>1 DEF WaitOf, Quiet
  <1>3. \A t \in Worker \ {c} : WaitOf(flag'[t], pc'[t], notified'[t], wakeup'[t], clock')
    BY DEF WInv, Waits
  <1> QED BY <1>2, <1>3 DEF Waits

\* Waking the threads of S, each for a reason.
LEMMA WakeWaits ==
    ASSUME WInv, NEW S \in SUBSET Thread, \A t \in Thread : SameWait(flag'[t], Woken(S)[t]),
           UNCHANGED <<pc, wakeup, clock>>,
           \A t \in S : "io" \in flag[t] \/ "sleep" \in flag[t],
           \A t \in Worker \ S : notified'[t] = notified[t],
           \A t \in Worker \cap S : pc[t] = "nwait" /\ ~notified'[t] => wakeup[t] <= clock
    PROVE  Waits'
  <1>1. Worker \subseteq Thread /\ flag \in [Thread -> SUBSET Flags] /\ Agree(flag, run, io, pend, heap)
    BY Unfold DEF WInv, Inv, TypeOK, Worker, Thread
  <1>2. ASSUME NEW t \in Worker
        PROVE  WaitOf(Woken(S)[t], pc'[t], notified'[t], wakeup'[t], clock')
    <2>1. CASE t \in S
      <3>1. /\ "io" \notin Woken(S)[t] /\ "sleep" \notin Woken(S)[t]
            /\ "pend" \in Woken(S)[t] <=> "pend" \in flag[t]
        BY <1>1, <2>1 DEF Woken
      <3>2. "pend" \notin flag[t]
        BY <1>1, <2>1 DEF Agree, Exclusive
      <3> QED BY <2>1, <3>1, <3>2 DEF WaitOf, Asleep
    <2>2. CASE t \notin S
      <3>1. Woken(S)[t] = flag[t] /\ notified'[t] = notified[t]
        BY <1>1, <2>2 DEF Woken
      <3> QED BY <3>1 DEF WInv, Waits
    <2> QED BY <2>1, <2>2
  <1> QED BY <1>1, <1>2, WaitSame DEF Waits

LEMMA NotifyWaits ==
    ASSUME WInv, NEW c \in Worker, NEW t \in Worker, Notify(c, t)
    PROVE  Waits'
  <1>1. /\ t \in Thread /\ TypeOK /\ Agree(flag, run, io, pend, heap) /\ Quiet(flag[active])
        /\ notified' = [notified EXCEPT ![t] = TRUE] /\ UNCHANGED <<pc, wakeup, clock>>
    BY Unfold DEF WInv, Inv, Notify, Worker, Thread, time
  <1>2. notified'[t] = TRUE /\ \A u \in Worker \ {t} : notified'[u] = notified[u]
    BY <1>1 DEF TypeOK, Worker, Thread
  <1>3. CASE t # active /\ flag[t] \cap {"io", "sleep"} # {}
    <2>1. flag' = Woken({t}) /\ ("io" \in flag[t] \/ "sleep" \in flag[t])
      BY <1>3 DEF Notify
    <2>2. \A u \in Thread : SameWait(flag'[u], Woken({t})[u])
      BY <2>1 DEF SameWait
    <2>3. {t} \in SUBSET Thread /\ \A u \in {t} : "io" \in flag[u] \/ "sleep" \in flag[u]
      BY <1>1, <2>1
    <2>4. /\ \A u \in Worker \ {t} : notified'[u] = notified[u]
          /\ \A u \in Worker \cap {t} : pc[u] = "nwait" /\ ~notified'[u] => wakeup[u] <= clock
      BY <1>2
    <2> QED BY <1>1, <2>2, <2>3, <2>4, WakeWaits
  <1>4. CASE ~(t # active /\ flag[t] \cap {"io", "sleep"} # {})
    <2>1. flag' = flag /\ "io" \notin flag[t] /\ "sleep" \notin flag[t]
      BY <1>1, <1>4 DEF Notify, Quiet
    <2>2. WaitOf(flag'[t], pc'[t], notified'[t], wakeup'[t], clock')
      BY <1>1, <1>2, <2>1 DEF WInv, Waits, WaitOf, Asleep
    <2>3. \A u \in Worker \ {t} : WaitOf(flag'[u], pc'[u], notified'[u], wakeup'[u], clock')
      BY <1>1, <1>2, <2>1 DEF WInv, Waits
    <2> QED BY <2>2, <2>3 DEF Waits
  <1> QED BY <1>3, <1>4

LEMMA PollReportsWaits ==
    ASSUME WInv, PollReports
    PROVE  Waits'
  <1>1. PICK S \in SUBSET io : flag' = Woken(S)
    BY DEF PollReports
  <1>2. /\ S \in SUBSET Thread /\ \A t \in S : "io" \in flag[t]
        /\ UNCHANGED <<pc, wakeup, clock, notified>>
    BY <1>1, Unfold DEF WInv, Inv, TypeOK, Agree, PollReports
  <1>3. \A t \in Worker \cap S : pc[t] # "nwait"
    BY <1>2 DEF WInv, Waits, WaitOf
  <1>4. \A t \in Thread : SameWait(flag'[t], Woken(S)[t])
    BY <1>1 DEF SameWait
  <1> QED BY <1>2, <1>3, <1>4, WakeWaits

LEMMA DaemonRoundWaits ==
    ASSUME WInv, DaemonRound
    PROVE  Waits'
  <1>1. PICK q \in WakeOrders : Yield(Daemon, run \o q, Woken(Expired), reclaim)
    BY DEF DaemonRound
  <1>2. /\ TypeOK /\ Agree(flag, run, io, pend, heap) /\ UNCHANGED <<pc, wakeup, clock, notified>>
        /\ Expired \in SUBSET Thread
    BY Unfold DEF WInv, Inv, TypeOK, DaemonRound, Expired
  <1>3. \A t \in Expired : "sleep" \in flag[t] /\ wakeup[t] <= clock
    BY <1>2 DEF Expired, Agree, TypeOK
  <1>4. Woken(Expired) \in [Thread -> SUBSET Flags] /\ run \o q \in Seq(Thread)
    <2>1. q \in Seq(Thread)
      BY <1>2, OrderingType DEF WakeOrders
    <2>2. Woken(Expired) \in [Thread -> SUBSET Flags]
      BY <1>2 DEF Woken, TypeOK, Flags
    <2> QED BY <1>2, <2>1, <2>2, ConcatProperties DEF TypeOK
  <1>5. \A t \in Thread : SameWait(flag'[t], Woken(Expired)[t])
    BY <1>1, <1>4, YieldWaits
  <1> QED BY <1>2, <1>3, <1>5, WakeWaits

\* Every wait ends for its reason.
LEMMA WaitsStep == WInv /\ [Next]_vars => Waits'
  <1> SUFFICES ASSUME WInv, [Next]_vars PROVE Waits'
    OBVIOUS
  <1>0. Inv /\ TypeOK /\ Worker \subseteq Thread
    BY DEF WInv, Inv, Worker, Thread
  <1>1. ASSUME NEW c \in Worker, Suspend(c) PROVE Waits'
    <2>1. CASE Pend(c)
      BY <2>1, PendWaits
    <2>2. CASE st_sleep(c)
      <3>1. PICK ms \in Timeout : Sleeps(c, ms, "sleep")
        BY <2>2 DEF st_sleep, Sleeps
      <3>2. Running(c, "app") /\ UNCHANGED <<notified, time>>
        BY <2>2 DEF st_sleep
      <3> QED BY <3>1, <3>2, SleepWaits
    <2>3. CASE NotifyWait(c)
      <3>1. PICK ms \in (Timeout \cup {IntMax}) \ {0} : Sleeps(c, ms, "nwait")
        BY <2>3 DEF NotifyWait, Sleeps
      <3>2. Running(c, "app") /\ ~notified[c] /\ UNCHANGED <<notified, time>>
        BY <2>3 DEF NotifyWait
      <3> QED BY <3>1, <3>2, SleepWaits
    <2>4. CASE WaitFdReady(c)
      <3>1. PICK ms \in Timeout \cup {IntMax} : Sleeps(c, ms, "io")
        BY <2>4 DEF WaitFdReady, Sleeps
      <3>2. Running(c, "app") /\ UNCHANGED <<notified, time>>
        BY <2>4 DEF WaitFdReady
      <3> QED BY <3>1, <3>2, SleepWaits
    <2>5. CASE st_wait(c)
      <3>1. PICK ms \in Timeout \cup {IntMax} : Sleeps(c, ms, "wait")
        BY <2>5 DEF st_wait, Sleeps
      <3>2. Running(c, "app") /\ ~notified[c] /\ UNCHANGED <<notified, time>>
        BY <2>5 DEF st_wait
      <3> QED BY <3>1, <3>2, SleepWaits
    <2>6. CASE Finish(c)
      BY <2>6, FinishWaits
    <2>7. CASE c = Primo /\ FrameLoop
      <3>1. /\ c = active /\ UNCHANGED <<flag, clock, notified, wakeup>>
            /\ pc' = [pc EXCEPT ![c] = "gone"]
        BY <2>7 DEF FrameLoop, Running, time
      <3>2. pc'[c] = "gone" /\ \A t \in Worker \ {c} : pc'[t] = pc[t]
        BY <1>0, <3>1 DEF TypeOK
      <3> QED BY <3>1, <3>2, LeaveWaits
    <2> QED BY <1>1, <2>1, <2>2, <2>3, <2>4, <2>5, <2>6, <2>7 DEF Suspend
  <1>2. ASSUME NEW c \in Worker, Call(c) PROVE Waits'
    <2>1. CASE CreateThread(c) \/ CreateSub(c)
      BY <2>1, CreateWaits
    <2>2. CASE NotifyWaitAtOnce(c) \/ WaitAtOnce(c)
      <3>1. /\ c = active /\ pc[c] = "app" /\ notified' = [notified EXCEPT ![c] = FALSE]
            /\ UNCHANGED <<flag, pc, wakeup, clock>>
        BY <2>2 DEF NotifyWaitAtOnce, WaitAtOnce, Running, lists, time
      <3>2. \A t \in Worker \ {c} : notified'[t] = notified[t]
        BY <1>0, <3>1 DEF TypeOK
      <3> QED BY <3>1, <3>2, LeaveWaits
    <2>3. CASE \E t \in Worker : Notify(c, t)
      BY <2>3, NotifyWaits
    <2> QED BY <1>2, <2>1, <2>2, <2>3 DEF Call
  <1>3. ASSUME NEW c \in Worker, Return(c) PROVE Waits'
    <2>1. /\ c = active /\ UNCHANGED <<flag, clock>> /\ pc' = [pc EXCEPT ![c] = "app"]
          /\ wakeup' = [wakeup EXCEPT ![c] = 0]
          /\ notified' \in {notified, [notified EXCEPT ![c] = FALSE]}
      BY <1>3 DEF Return, Running, lists, time
    <2>2. pc'[c] = "app" /\ \A t \in Worker \ {c} : UNCHANGED <<pc[t], notified[t], wakeup[t]>>
      BY <1>0, <2>1 DEF TypeOK
    <2> QED BY <2>1, <2>2, LeaveWaits
  <1>4. CASE DaemonWait \/ PollTimesOut \/ UNCHANGED vars
    <2>1. UNCHANGED <<flag, pc, notified, wakeup, clock>>
      BY <1>4 DEF DaemonWait, PollTimesOut, vars, lists, time
    <2> QED BY <2>1 DEF WInv, Waits
  <1>5. CASE DaemonRound
    BY <1>5, DaemonRoundWaits
  <1>6. CASE PollReports
    BY <1>6, PollReportsWaits
  <1>7. CASE Tick
    <2>1. UNCHANGED <<flag, pc, notified, wakeup>> /\ clock' = clock + 1
      BY <1>7 DEF Tick, lists
    <2>2. \A t \in Worker : wakeup[t] \in Nat /\ clock \in Nat
      BY <1>0 DEF TypeOK
    <2> QED BY <2>1, <2>2 DEF WInv, Waits, WaitOf
  <1> QED BY <1>1, <1>2, <1>3, <1>4, <1>5, <1>6, <1>7 DEF Next, DaemonStep

LEMMA WInvAlways == Spec => []WInv
  <1>1. WInv /\ [Next]_vars => WInv'
    BY InvStep, WaitsStep DEF WInv
  <1>2. Init => WInv
    BY InvInit, WaitsInit DEF WInv
  <1> QED BY <1>1, <1>2, PTL DEF Spec

LEMMA QueuedIff ==
    ASSUME Inv
    PROVE  \A t \in Thread : Queued(t) \subseteq {"run"} <=> ~Asleep(flag[t])
  BY DEF Queued, QueueFlags, Asleep

\* A coroutine that waits for notifications and has one is not left asleep:
\* st_notify sets the bit and wakes in one step, a waiting call looks at the bit
\* before it suspends, and nothing in between suspends a coroutine again.
THEOREM NotifyNotLostAlways == Spec => []NotifyNotLost
  <1>1. WInv => NotifyNotLost
    <2> SUFFICES ASSUME WInv, NEW t \in Worker, pc[t] \in {"nwait", "wait"}, notified[t]
                 PROVE  Queued(t) \subseteq {"run"}
      BY DEF NotifyNotLost
    <2>1. ~Asleep(flag[t]) /\ t \in Thread
      BY DEF WInv, Waits, WaitOf, Worker, Thread
    <2> QED BY <2>1, QueuedIff DEF WInv
  <1> QED BY <1>1, WInvAlways, PTL

\* st_notify_wait comes back without a notification only when its time is up:
\* only the daemon's round and st_notify take a coroutine off the sleep heap
\* that waits for no descriptor.
THEOREM NoEarlyTimeoutAlways == Spec => []NoEarlyTimeout
  <1>1. WInv => NoEarlyTimeout
    <2> SUFFICES ASSUME WInv, NEW t \in Worker, pc[t] = "nwait", Queued(t) \subseteq {"run"}, ~notified[t]
                 PROVE  wakeup[t] <= clock
      BY DEF NoEarlyTimeout
    <2>1. ~Asleep(flag[t])
      BY QueuedIff DEF WInv, Worker, Thread
    <2> QED BY <2>1 DEF WInv, Waits, WaitOf
  <1> QED BY <1>1, WInvAlways, PTL
-----------------------------------------------------------------------------
(* The sleep heap.  HeapPush reports a full heap and nobody looks: that    *)
(* nobody sleeps outside it holds when it has room for every thread.       *)

SleepingIn(f, h) == \A t \in Thread : "sleep" \in f[t] => t \in h

HInv == Inv /\ SleepingIn(flag, heap)

\* The heap has room for the live coroutines and the thread of main().
Roomy == Cardinality(Live) < HeapMax

\* The coroutine that goes to sleep is not in the heap, so there is room.
LEMMA RoomToSleep ==
    ASSUME Roomy, Inv, NEW c \in Worker, c = active
    PROVE  HeapWith(c) = heap \cup {c}
  <1> DEFINE S == Live \cup {Primo}
  <1>1. Agree(flag, run, io, pend, heap) /\ Quiet(flag[c]) /\ c \in Thread /\ heap \subseteq Thread
    BY Unfold DEF Inv, TypeOK, Worker, Thread
  <1>2. c \notin heap /\ Daemon \notin heap
    BY <1>1 DEF Agree, Quiet
  <1>3. c \in S
    BY Unfold
  <1>4. ASSUME NEW t \in heap PROVE t \in S
    <2>1. t \in Worker /\ ~Quiet(flag[t])
      BY <1>1, <1>2 DEF Worker, Thread, Agree, Quiet
    <2> QED BY <2>1, Unfold
  <1>5. heap \subseteq S \ {c}
    BY <1>2, <1>4
  <1>6. IsFiniteSet(Live) /\ Primo \notin Live
    <2>1. Live \subseteq Coroutine
      BY DEF Live, Inv, TypeOK
    <2> QED BY <2>1, ThreadAssumption, FS_Subset
  <1>7. IsFiniteSet(S) /\ Cardinality(S) = Cardinality(Live) + 1
    BY <1>6, FS_AddElement
  <1> HIDE DEF S
  <1>8. Cardinality(S \ {c}) = Cardinality(S) - 1 /\ IsFiniteSet(S \ {c})
    BY <1>3, <1>7, FS_RemoveElement
  <1>9. /\ Cardinality(heap) <= Cardinality(S \ {c})
        /\ Cardinality(heap) \in Nat /\ Cardinality(Live) \in Nat
    BY <1>5, <1>6, <1>8, FS_Subset, FS_CardinalityType
  <1>10. Cardinality(heap) < HeapMax
    BY <1>7, <1>8, <1>9, SizeAssumption DEF Roomy
  <1> QED BY <1>10 DEF HeapWith

LEMMA SleepInHeap ==
    ASSUME Roomy, HInv, NEW c \in Worker, c = active,
           NEW ms, NEW where, Sleeps(c, ms, where)
    PROVE  SleepingIn(flag', heap')
  <1> DEFINE f == [flag EXCEPT ![c] = @ \cup SleepFlags(where)]
  <1>1. Yield(c, run, f, reclaim) /\ heap' = heap \cup {c}
    BY SleepEffect, RoomToSleep DEF HInv
  <1>2. run \in Seq(Thread) /\ flag \in [Thread -> SUBSET Flags] /\ c \in Thread
    BY DEF HInv, Inv, TypeOK, Worker, Thread
  <1>3. f \in [Thread -> SUBSET Flags] /\ \A t \in Thread \ {c} : f[t] = flag[t]
    BY <1>2 DEF SleepFlags, Flags
  <1> HIDE DEF f
  <1>4. \A t \in Thread : SameWait(flag'[t], f[t])
    BY <1>1, <1>2, <1>3, YieldWaits
  <1> QED BY <1>1, <1>3, <1>4 DEF HInv, SleepingIn, SameWait

LEMMA HeapStep ==
    ASSUME Roomy, HInv, [Next]_vars
    PROVE  SleepingIn(flag', heap')
  <1>0. /\ Inv /\ run \in Seq(Thread) /\ flag \in [Thread -> SUBSET Flags]
        /\ Worker \subseteq Thread /\ SleepingIn(flag, heap)
    BY DEF HInv, Inv, TypeOK, Worker, Thread
  <1>w. ASSUME NEW S, heap' = heap \ S, \A t \in Thread : SameWait(flag'[t], Woken(S)[t])
        PROVE  SleepingIn(flag', heap')
    BY <1>0, <1>w DEF SleepingIn, SameWait, Woken
  <1>1. ASSUME NEW c \in Worker, Suspend(c) PROVE SleepingIn(flag', heap')
    <2>1. CASE Pend(c)
      <3> DEFINE f == [flag EXCEPT ![c] = @ \cup {"pend"}]
      <3>1. Yield(c, run, f, reclaim) /\ heap' = heap
        BY <2>1 DEF Pend
      <3>2. f \in [Thread -> SUBSET Flags] /\ \A t \in Thread : "sleep" \in f[t] <=> "sleep" \in flag[t]
        BY <1>0 DEF Flags
      <3> HIDE DEF f
      <3>3. \A t \in Thread : SameWait(flag'[t], f[t])
        BY <1>0, <3>1, <3>2, YieldWaits
      <3> QED BY <1>0, <3>1, <3>2, <3>3 DEF SleepingIn, SameWait
    <2>2. CASE st_sleep(c) \/ NotifyWait(c) \/ WaitFdReady(c) \/ st_wait(c)
      <3>1. CASE st_sleep(c)
        <4>1. PICK ms \in Timeout : Sleeps(c, ms, "sleep")
          BY <3>1 DEF st_sleep, Sleeps
        <4> QED BY <3>1, <4>1, SleepInHeap DEF st_sleep, Running
      <3>2. CASE NotifyWait(c)
        <4>1. PICK ms \in (Timeout \cup {IntMax}) \ {0} : Sleeps(c, ms, "nwait")
          BY <3>2 DEF NotifyWait, Sleeps
        <4> QED BY <3>2, <4>1, SleepInHeap DEF NotifyWait, Running
      <3>3. CASE WaitFdReady(c)
        <4>1. PICK ms \in Timeout \cup {IntMax} : Sleeps(c, ms, "io")
          BY <3>3 DEF WaitFdReady, Sleeps
        <4> QED BY <3>3, <4>1, SleepInHeap DEF WaitFdReady, Running
      <3>4. CASE st_wait(c)
        <4>1. PICK ms \in Timeout \cup {IntMax} : Sleeps(c, ms, "wait")
          BY <3>4 DEF st_wait, Sleeps
        <4> QED BY <3>4, <4>1, SleepInHeap DEF st_wait, Running
      <3> QED BY <2>2, <3>1, <3>2, <3>3, <3>4
    <2>3. CASE Finish(c)
      <3>1. PICK P \in SUBSET pend, q \in Seq(Thread), f \in [Thread -> SUBSET Flags],
                  r \in {reclaim, reclaim \cup {c}} :
              /\ \/ P = {} /\ q = run
                 \/ \E p \in pend : P = {p} /\ q = Append(run, p)
              /\ f = [t \in Thread |-> IF t = c THEN {}
                                       ELSE IF t \in P THEN (flag[t] \ {"pend"}) \cup {"run"}
                                       ELSE flag[t]]
              /\ Yield(c, q, f, r)
        BY <1>0, <2>3, FinishEffect
      <3>2. heap' = heap
        BY <2>3 DEF Finish
      <3>3. \A t \in Thread : "sleep" \in f[t] => "sleep" \in flag[t]
        BY <3>1
      <3>4. \A t \in Thread : SameWait(flag'[t], f[t])
        BY <3>1, YieldWaits
      <3> QED BY <1>0, <3>2, <3>3, <3>4 DEF SleepingIn, SameWait
    <2>4. CASE FrameLoop
      BY <1>0, <2>4 DEF FrameLoop
    <2> QED BY <1>1, <2>1, <2>2, <2>3, <2>4 DEF Suspend
  <1>2. ASSUME NEW c \in Worker, Call(c) PROVE SleepingIn(flag', heap')
    <2>1. CASE CreateThread(c) \/ CreateSub(c)
      <3>1. PICK t \in Coroutine, F \in {{"run"}, {"run", "sub"}} :
              flag' = [flag EXCEPT ![t] = @ \cup F] /\ heap' = heap
        BY <2>1 DEF CreateThread, CreateSub
      <3>2. \A u \in Thread : "sleep" \in flag'[u] <=> "sleep" \in flag[u]
        BY <1>0, <3>1
      <3> QED BY <1>0, <3>1, <3>2 DEF SleepingIn
    <2>2. CASE NotifyWaitAtOnce(c) \/ WaitAtOnce(c)
      BY <1>0, <2>2 DEF NotifyWaitAtOnce, WaitAtOnce, lists
    <2>3. CASE \E t \in Worker : Notify(c, t)
      <3>1. PICK t \in Worker : Notify(c, t)
        BY <2>3
      <3>2. CASE flag' = Woken({t}) /\ heap' = heap \ {t}
        BY <1>w, <3>2 DEF SameWait
      <3>3. CASE flag' = flag /\ heap' = heap
        BY <1>0, <3>3
      <3> QED BY <3>1, <3>2, <3>3 DEF Notify
    <2> QED BY <1>2, <2>1, <2>2, <2>3 DEF Call
  <1>3. CASE DaemonRound
    <2>1. PICK q \in WakeOrders : Yield(Daemon, run \o q, Woken(Expired), reclaim)
      BY <1>3 DEF DaemonRound
    <2>2. heap' = heap \ Expired /\ Expired \in SUBSET Thread
      BY <1>3 DEF DaemonRound, Expired, HInv, Inv, TypeOK
    <2>3. q \in Seq(Thread) /\ Woken(Expired) \in [Thread -> SUBSET Flags]
      BY <1>0, <2>2, OrderingType DEF WakeOrders, Woken, Flags
    <2>4. run \o q \in Seq(Thread)
      BY <1>0, <2>3, ConcatProperties
    <2>5. \A t \in Thread : SameWait(flag'[t], Woken(Expired)[t])
      BY <2>1, <2>3, <2>4, YieldWaits
    <2> QED BY <1>w, <2>2, <2>5
  <1>4. CASE PollReports
    <2>1. PICK S \in SUBSET io : flag' = Woken(S) /\ heap' = heap \ S
      BY <1>4 DEF PollReports
    <2> QED BY <1>w, <2>1 DEF SameWait
  <1>5. CASE DaemonWait \/ PollTimesOut \/ Tick \/ (\E c \in Worker : Return(c)) \/ UNCHANGED vars
    <2>1. UNCHANGED lists
      BY <1>5 DEF DaemonWait, PollTimesOut, Tick, Return, vars
    <2> QED BY <1>0, <2>1 DEF lists
  <1> QED BY <1>1, <1>2, <1>3, <1>4, <1>5 DEF Next, DaemonStep

\* A thread that carries the sleep flag can be found by the daemon when its time
\* is up, in an application that never has more live coroutines than the heap has
\* room for, main() included.  StSysSchedule::Init sizes it and nothing limits the
\* coroutines to that size; HeapPush's failure is looked at nowhere, and a sleeper
\* outside the heap would sleep for ever.
THEOREM SleepersInHeapWithin == Spec /\ []Roomy => []SleepersInHeap
  <1>1. Init => HInv
    BY InvInit DEF Init, HInv, SleepingIn
  <1>2. Roomy /\ HInv /\ [Next]_vars => HInv'
    BY InvStep, HeapStep DEF HInv
  <1>3. HInv => SleepersInHeap
    BY DEF HInv, Inv, SleepingIn, SleepersInHeap
  <1> QED BY <1>1, <1>2, <1>3, PTL DEF Spec

\* The same, of a heap with room for every thread: no application can have too many.
THEOREM SleepersInHeapAlways ==
    ASSUME Cardinality(Worker) <= HeapMax
    PROVE  Spec => []SleepersInHeap
  <1>1. TypeOK => Roomy
    <2>1. ASSUME TypeOK PROVE Live \subseteq Coroutine
      BY <2>1 DEF Live, TypeOK
    <2>2. /\ IsFiniteSet(Coroutine) /\ Cardinality(Coroutine) \in Nat
          /\ Cardinality(Worker) = Cardinality(Coroutine) + 1
      BY ThreadAssumption, FS_AddElement, FS_CardinalityType DEF Worker
    <2>3. ASSUME TypeOK PROVE Cardinality(Live) <= Cardinality(Coroutine) /\ Cardinality(Live) \in Nat
      BY <2>1, <2>2, <2>3, FS_Subset, FS_CardinalityType
    <2> QED BY <2>2, <2>3, SizeAssumption DEF Roomy
  <1>2. Spec => []TypeOK
    BY TypeCorrect
  <1> QED BY <1>1, <1>2, SleepersInHeapWithin, PTL
-----------------------------------------------------------------------------
(* Refinement: every step of the scheduler is one of Coroutines, or none.  *)

\* The waiting threads after a step, from flags that name the same waits.
LEMMA WaitingNext ==
    ASSUME NEW f, \A t \in Thread : SameWait(flag'[t], f[t])
    PROVE  Waiting' = {t \in Thread : Asleep(f[t])}
  <1>1. \A t \in Thread : t \in Waiting' <=> Asleep(flag'[t])
    BY DEF Waiting, Asleep
  <1>2. \A t \in Thread : Asleep(flag'[t]) <=> Asleep(f[t])
    BY DEF SameWait, Asleep
  <1>3. Waiting' \subseteq Thread
    BY DEF Waiting
  <1> QED BY <1>1, <1>2, <1>3

\* st_sleep, Pend and the waiting calls of c.
LEMMA BlockRefines ==
    ASSUME Inv, NEW c \in Worker, c = active,
           NEW F \in {{"sleep"}, {"io", "sleep"}, {"pend"}},
           Yield(c, run, [flag EXCEPT ![c] = @ \cup F], reclaim)
    PROVE  Abs!Block
  <1> DEFINE f == [flag EXCEPT ![c] = @ \cup F]
  <1>1. /\ run \in Seq(Thread) /\ flag \in [Thread -> SUBSET Flags] /\ c \in Thread /\ c # Daemon
    BY ThreadAssumption DEF Inv, TypeOK, Worker, Thread
  <1>2. f \in [Thread -> SUBSET Flags] /\ f[c] = flag[c] \cup F /\ \A t \in Thread \ {c} : f[t] = flag[t]
    BY <1>1 DEF Flags
  <1> HIDE DEF f
  <1>3. /\ \A t \in Thread : SameWait(flag'[t], f[t])
        /\ IF run = <<>> THEN active' = Daemon /\ run' = <<>>
                         ELSE active' = Head(run) /\ run' = Tail(run)
    BY <1>1, <1>2, YieldWaits DEF f
  <1>4. \A t \in Thread : Asleep(f[t]) <=> t \in Waiting \cup {c}
    BY <1>2, WaitingIff DEF Asleep
  <1>5. Waiting' = Waiting \cup {c}
    BY <1>1, <1>3, <1>4, WaitingNext DEF Waiting
  <1> QED BY <1>1, <1>3, <1>5 DEF Abs!Block, Abs!PassTo, Waiting

LEMMA FinishRefines ==
    ASSUME Inv, NEW c \in Worker, Finish(c)
    PROVE  Abs!Exit
  <1>1. PICK P \in SUBSET pend, q \in Seq(Thread), f \in [Thread -> SUBSET Flags],
                  r \in {reclaim, reclaim \cup {c}} :
              /\ \/ P = {} /\ q = run
                 \/ \E p \in pend : P = {p} /\ q = Append(run, p)
              /\ f = [t \in Thread |-> IF t = c THEN {}
                                       ELSE IF t \in P THEN (flag[t] \ {"pend"}) \cup {"run"}
                                       ELSE flag[t]]
              /\ Yield(c, q, f, r)
    BY FinishEffect
  <1>2. /\ c = active /\ c \in Thread /\ c # Daemon /\ Quiet(flag[c]) /\ pend \subseteq Thread
        /\ Agree(flag, run, io, pend, heap)
    BY Unfold, ThreadAssumption DEF Finish, Running, Inv, TypeOK, Worker, Thread
  <1>3. /\ \A t \in Thread : SameWait(flag'[t], f[t])
        /\ IF q = <<>> THEN active' = Daemon /\ run' = <<>>
                       ELSE active' = Head(q) /\ run' = Tail(q)
    BY <1>1, YieldWaits
  <1>4. \A t \in P : t \in Waiting /\ ~Asleep(f[t])
    <2> SUFFICES ASSUME NEW t \in P PROVE t \in Waiting /\ ~Asleep(f[t])
      OBVIOUS
    <2>1. t \in Thread /\ "pend" \in flag[t] /\ t # c /\ "io" \notin flag[t] /\ "sleep" \notin flag[t]
      BY <1>1, <1>2 DEF Agree, Exclusive, Quiet
    <2>2. f[t] = (flag[t] \ {"pend"}) \cup {"run"}
      BY <1>1, <2>1
    <2> QED BY <2>1, <2>2, WaitingIff DEF Asleep
  <1>5. f[c] = {} /\ \A t \in Thread \ (P \cup {c}) : f[t] = flag[t]
    BY <1>1, <1>2
  <1>6. c \notin Waiting /\ ~Asleep(f[c])
    BY <1>2, <1>5, WaitingIff DEF Asleep, Quiet
  <1>7. \A t \in Thread : Asleep(f[t]) <=> t \in Waiting \ P
    BY <1>4, <1>5, <1>6, WaitingIff
  <1>8. Waiting' = Waiting \ P
    BY <1>3, <1>7, WaitingNext DEF Waiting
  <1>9. CASE P = {} /\ q = run
    <2>1. Waiting' = Waiting /\ Abs!PassTo(run)
      BY <1>3, <1>8, <1>9 DEF Abs!PassTo
    <2> QED BY <1>2, <2>1 DEF Abs!Exit, Waiting
  <1>10. CASE \E p \in pend : P = {p} /\ q = Append(run, p)
    <2>1. PICK p \in pend : P = {p} /\ q = Append(run, p)
      BY <1>10
    <2>2. p \in Waiting /\ Waiting' = Waiting \ {p} /\ Abs!PassTo(Append(run, p))
      BY <1>3, <1>4, <1>8, <2>1 DEF Abs!PassTo
    <2> QED BY <1>2, <2>2 DEF Abs!Exit, Waiting
  <1> QED BY <1>1, <1>9, <1>10

LEMMA CreateRefines ==
    ASSUME Inv, NEW c \in Worker, CreateThread(c) \/ CreateSub(c)
    PROVE  Abs!Spawn
  <1>1. PICK t \in Coroutine, F \in {{"run"}, {"run", "sub"}} :
              AllocThread(t) /\ flag' = [flag EXCEPT ![t] = @ \cup F] /\ run' = Append(run, t)
    BY DEF CreateThread, CreateSub
  <1>2. reclaim' = reclaim /\ active' = active /\ active # Daemon
    BY ThreadAssumption DEF CreateThread, CreateSub, Running, Worker, Thread
  <1>3. /\ t \in Thread /\ t # Daemon /\ t # active /\ Quiet(flag[t])
        /\ Agree(flag, run, io, pend, heap) /\ flag \in [Thread -> SUBSET Flags]
    BY <1>1, <1>2, AllocFresh, Unfold, ThreadAssumption DEF Inv, TypeOK, Thread
  <1>4. t \notin Range(run) /\ t \notin Waiting
    BY <1>3, WaitingIff DEF Agree, Quiet, Asleep
  <1>5. \A u \in Thread : SameWait(flag'[u], flag[u])
    BY <1>1, <1>3 DEF SameWait
  <1>6. Waiting' = Waiting
    BY <1>5, WaitingNext, WaitingIff DEF Waiting
  <1>7. t \in Thread \ (Abs!Scheduled \cup {Daemon})
    BY <1>3, <1>4 DEF Abs!Scheduled, Abs!Range, Range, Waiting
  <1> QED BY <1>1, <1>2, <1>6, <1>7 DEF Abs!Spawn, Waiting

\* Waking the threads of S in the order q.
LEMMA WokenWaiting ==
    ASSUME Inv, NEW S \in SUBSET Thread, \A t \in S : "io" \in flag[t] \/ "sleep" \in flag[t],
           \A t \in Thread : SameWait(flag'[t], Woken(S)[t])
    PROVE  S \in SUBSET Waiting /\ Waiting' = Waiting \ S
  <1>1. Agree(flag, run, io, pend, heap)
    BY Unfold
  <1>2. \A t \in S : t \in Waiting
    BY WaitingIff DEF Asleep
  <1>3. ASSUME NEW t \in Thread PROVE Asleep(Woken(S)[t]) <=> t \in Waiting \ S
    <2>1. CASE t \in S
      BY <1>1, <2>1 DEF Woken, Asleep, Agree, Exclusive
    <2>2. CASE t \notin S
      BY <2>2, WaitingIff DEF Woken
    <2> QED BY <2>1, <2>2
  <1>4. Waiting' = Waiting \ S
    BY <1>3, WaitingNext DEF Waiting
  <1> QED BY <1>2, <1>4

LEMMA WakeRefines ==
    ASSUME Inv, NEW S \in SUBSET Thread, \A t \in S : "io" \in flag[t] \/ "sleep" \in flag[t],
           NEW q \in Orderings(S), flag' = Woken(S), run' = run \o q, active' = active
    PROVE  Abs!ANext
  <1>1. S \in SUBSET Waiting /\ Waiting' = Waiting \ S
    BY WokenWaiting DEF SameWait
  <1>2. Abs!Wake(q)
    BY DEF Abs!Wake
  <1>3. Abs!Cardinality(S) = Cardinality(S)
    BY DEF Abs!Cardinality, Cardinality
  <1>4. q \in Abs!Bijection(1..Abs!Cardinality(S), S)
    BY <1>3 DEF Orderings, Bijection, Injection, Surjection, IsInjective,
           Abs!Bijection, Abs!Injection, Abs!Surjection, Abs!IsInjective
  <1> QED BY <1>1, <1>2, <1>4 DEF Abs!ANext, Waiting

LEMMA NotifyRefines ==
    ASSUME Inv, NEW c \in Worker, NEW t \in Worker, Notify(c, t)
    PROVE  Abs!ANext \/ UNCHANGED <<active, run, Waiting>>
  <1>1. t \in Thread /\ run \in Seq(Thread) /\ active' = active
    BY DEF Notify, Inv, TypeOK, Worker, Thread
  <1>2. CASE t # active /\ flag[t] \cap {"io", "sleep"} # {}
    <2>1. /\ flag' = Woken({t}) /\ run' = Append(run, t)
          /\ {t} \in SUBSET Thread /\ \A u \in {t} : "io" \in flag[u] \/ "sleep" \in flag[u]
      BY <1>1, <1>2 DEF Notify
    <2>2. run' = run \o <<t>>
      BY <1>1, <2>1, AppendIsConcat
    <2>3. <<t>> \in Orderings({t})
      <3>1. Cardinality({t}) = 1
        BY FS_Singleton
      <3>2. <<t>> \in [1..1 -> {t}]
        OBVIOUS
      <3> QED BY <3>1, <3>2 DEF Orderings, Bijection, Injection, Surjection, IsInjective
    <2> QED BY <1>1, <2>1, <2>2, <2>3, WakeRefines
  <1>3. CASE ~(t # active /\ flag[t] \cap {"io", "sleep"} # {})
    BY <1>1, <1>3 DEF Notify, Waiting
  <1> QED BY <1>2, <1>3

LEMMA PollReportsRefines ==
    ASSUME Inv, PollReports
    PROVE  Abs!ANext
  <1>1. PICK S \in SUBSET io : \E q \in Orderings(S) : flag' = Woken(S) /\ run' = run \o q
    BY DEF PollReports
  <1>2. PICK q \in Orderings(S) : flag' = Woken(S) /\ run' = run \o q
    BY <1>1
  <1>3. S \in SUBSET Thread /\ \A t \in S : "io" \in flag[t] \/ "sleep" \in flag[t]
    BY Unfold DEF Inv, TypeOK, Agree
  <1>4. active' = active
    BY DEF PollReports
  <1> QED BY <1>2, <1>3, <1>4, WakeRefines

LEMMA DaemonRoundRefines ==
    ASSUME Inv, DaemonRound
    PROVE  Abs!ANext
  <1>1. PICK q \in WakeOrders : Yield(Daemon, run \o q, Woken(Expired), reclaim)
    BY DEF DaemonRound
  <1>2. /\ run \in Seq(Thread) /\ flag \in [Thread -> SUBSET Flags] /\ Expired \in SUBSET Thread
        /\ \A t \in Expired : "io" \in flag[t] \/ "sleep" \in flag[t]
    BY Unfold DEF Inv, TypeOK, Expired, Agree
  <1>3. q \in Orderings(Expired) /\ q \in Seq(Thread)
    BY <1>2, OrderingType DEF WakeOrders
  <1>4. Woken(Expired) \in [Thread -> SUBSET Flags] /\ run \o q \in Seq(Thread)
    BY <1>2, <1>3, ConcatProperties DEF Woken, Flags
  <1>5. /\ \A t \in Thread : SameWait(flag'[t], Woken(Expired)[t])
        /\ IF run \o q = <<>> THEN active' = Daemon /\ run' = <<>>
                              ELSE active' = Head(run \o q) /\ run' = Tail(run \o q)
    BY <1>1, <1>4, YieldWaits
  <1>6. Expired \in SUBSET Waiting /\ Waiting' = Waiting \ Expired
    BY <1>2, <1>5, WokenWaiting
  <1>7. Abs!IdleTurn(q)
    BY <1>5 DEF Abs!IdleTurn, Abs!PassTo, DaemonRound
  <1>8. q \in Abs!Bijection(1..Abs!Cardinality(Expired), Expired)
    <2>1. Abs!Cardinality(Expired) = Cardinality(Expired)
      BY DEF Abs!Cardinality, Cardinality
    <2> QED BY <1>3, <2>1 DEF Orderings, Bijection, Injection, Surjection, IsInjective,
              Abs!Bijection, Abs!Injection, Abs!Surjection, Abs!IsInjective
  <1> QED BY <1>6, <1>7, <1>8 DEF Abs!ANext, Waiting

LEMMA StepRefines == Inv /\ [Next]_vars => [Abs!ANext]_(Abs!avars)
  <1> DEFINE Step == Abs!ANext \/ UNCHANGED <<active, run, Waiting>>
  <1> SUFFICES ASSUME Inv, [Next]_vars PROVE Step
    BY DEF Abs!avars, Waiting
  <1>1. ASSUME NEW c \in Worker, Suspend(c) PROVE Step
    <2>1. CASE Pend(c)
      BY <2>1, BlockRefines DEF Pend, Running, Abs!ANext
    <2>2. ASSUME NEW ms, NEW where, Sleeps(c, ms, where), c = active PROVE Step
      <3>1. Yield(c, run, [flag EXCEPT ![c] = @ \cup SleepFlags(where)], reclaim)
        BY <2>2, SleepEffect
      <3>2. SleepFlags(where) \in {{"sleep"}, {"io", "sleep"}, {"pend"}}
        BY DEF SleepFlags
      <3> QED BY <2>2, <3>1, <3>2, BlockRefines DEF Abs!ANext
    <2>3. CASE st_sleep(c)
      <3>1. PICK ms \in Timeout : Sleeps(c, ms, "sleep")
        BY <2>3 DEF st_sleep, Sleeps
      <3> QED BY <2>2, <2>3, <3>1 DEF st_sleep, Running
    <2>4. CASE NotifyWait(c)
      <3>1. PICK ms \in (Timeout \cup {IntMax}) \ {0} : Sleeps(c, ms, "nwait")
        BY <2>4 DEF NotifyWait, Sleeps
      <3> QED BY <2>2, <2>4, <3>1 DEF NotifyWait, Running
    <2>5. CASE WaitFdReady(c)
      <3>1. PICK ms \in Timeout \cup {IntMax} : Sleeps(c, ms, "io")
        BY <2>5 DEF WaitFdReady, Sleeps
      <3> QED BY <2>2, <2>5, <3>1 DEF WaitFdReady, Running
    <2>6. CASE st_wait(c)
      <3>1. PICK ms \in Timeout \cup {IntMax} : Sleeps(c, ms, "wait")
        BY <2>6 DEF st_wait, Sleeps
      <3> QED BY <2>2, <2>6, <3>1 DEF st_wait, Running
    <2>7. CASE Finish(c)
      BY <2>7, FinishRefines DEF Abs!ANext
    <2>8. CASE FrameLoop
      <3>1. Abs!Loop
        BY <2>8 DEF FrameLoop, Running, Abs!Loop
      <3> QED BY <3>1 DEF Abs!ANext
    <2> QED BY <1>1, <2>1, <2>3, <2>4, <2>5, <2>6, <2>7, <2>8 DEF Suspend
  <1>2. ASSUME NEW c \in Worker, Call(c) PROVE Step
    <2>1. CASE CreateThread(c) \/ CreateSub(c)
      BY <2>1, CreateRefines DEF Abs!ANext
    <2>2. CASE NotifyWaitAtOnce(c) \/ WaitAtOnce(c)
      BY <2>2 DEF NotifyWaitAtOnce, WaitAtOnce, lists, Waiting
    <2>3. CASE \E t \in Worker : Notify(c, t)
      BY <2>3, NotifyRefines
    <2> QED BY <1>2, <2>1, <2>2, <2>3 DEF Call
  <1>3. CASE DaemonRound
    BY <1>3, DaemonRoundRefines
  <1>4. CASE PollReports
    BY <1>4, PollReportsRefines
  <1>5. CASE DaemonWait \/ PollTimesOut \/ Tick \/ (\E c \in Worker : Return(c)) \/ UNCHANGED vars
    <2>1. UNCHANGED lists
      BY <1>5 DEF DaemonWait, PollTimesOut, Tick, Return, vars
    <2> QED BY <2>1 DEF lists, Waiting
  <1> QED BY <1>1, <1>2, <1>3, <1>4, <1>5 DEF Next, DaemonStep

\* The scheduler is the abstract one of module Coroutines: with all its lists,
\* flags, sleep heap, pool and clock it does to a program what one FIFO queue of
\* ready coroutines and a set of waiting ones would do.
THEOREM Refinement == Spec => ImplementsCoroutines
  <1>1. Init => Abs!AInit
    BY DEF Init, Abs!AInit
  <1> QED BY <1>1, InvInit, InvStep, StepRefines, PTL DEF Spec, ImplementsCoroutines, Abs!ASpec
=============================================================================

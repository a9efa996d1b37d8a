------------------------------ MODULE StSys_proofs ------------------------------
(***************************************************************************)
(* What the timed calls owe their callers, for any lengths, time-outs,     *)
(* delays of the scheduler and capacity of the connection: each call is    *)
(* looked at alone (Fine), as the two ends meet only in the kernel.        *)
(***************************************************************************)
EXTENDS StSys, SequenceTheorems, TLAPS

Errno == {"none", "ETIME", "EINVAL", "EIO", "EINTR", "EAGAIN", "EINPROGRESS", "EALREADY",
          "ECONNREFUSED", "ECONNRESET", "EPIPE", "ENOTCONN", "EMFILE"}

Call == [op : Ops, at : Steps, start : Nat, timeout : Timeout \cup {0, IntMax}, want : Wants \cup {0},
         n : Int, errno : Errno, spent : Nat, put : Seq(Nat), poked : BOOLEAN]

\* A coroutine that can go on; the clock stands still until it has.
Going == {"try", "wait", "ready"}

\* The time the call c has taken, when it waits until w, and r says whether its item
\* has an event.
InTime(c, w, r) ==
    /\ c.start <= clock /\ c.spent <= clock
    /\ c.at = "back" => /\ c.spent <= 2 * c.timeout + Slack
                        /\ c.errno = "ETIME" => c.poked \/ c.spent >= c.timeout
    /\ c.at \in Going => clock - c.start <= 2 * c.timeout + Slack
    /\ c.at = "blocked" => /\ c.start + c.timeout <= w /\ w <= c.start + 2 * c.timeout
                           /\ clock <= w + Slack
    /\ c.at = "ready" /\ r = FALSE => c.poked \/ clock - c.start >= c.timeout

\* The first bytes of a buffer.
First(put) == put = [i \in 1..Len(put) |-> i]

\* The bytes it has handed to the kernel.
Counts(c) ==
    /\ First(c.put) /\ Len(c.put) <= c.want
    /\ c.op # "send" /\ c.at # "back" => c.put = <<>>
    /\ c.op = "send" /\ c.at \in {"wait", "blocked", "ready"} => Len(c.put) < c.want
    /\ c.op = "send" /\ c.at = "back" => IF c.n >= 0 THEN c.n = c.want /\ Len(c.put) = c.want
                                                     ELSE Len(c.put) < c.want
    /\ c.op = "sendto" /\ c.at = "back" /\ c.n >= 0 => Len(c.put) = c.n

Fine(c, w, r) == c \in Call /\ InTime(c, w, r) /\ Counts(c)

\* The client does not use what it has closed, and nobody resets it.
Closing == closed => link = "open" /\ call[Client].at \in {"idle", "back"}

Types ==
    /\ call \in [Thread -> Call]
    /\ wakeup \in [Thread -> Nat] /\ revents \in [Thread -> BOOLEAN]
    /\ item \in [Thread -> BOOLEAN] /\ link \in Links
    /\ wire \in Seq(Nat) /\ Len(wire) <= Cap /\ closed \in BOOLEAN
    /\ clock \in 0..MaxClock /\ calls \in [Thread -> 0..MaxCalls]

AllFine == \A t \in Thread : Fine(call[t], wakeup[t], revents[t])

SysInv == Types /\ AllFine /\ Closing /\ ZeroIsEnd

-----------------------------------------------------------------------------
(* One call.                                                               *)

LEMMA Numbers ==
    /\ Slack \in Nat /\ Cap \in Nat \ {0} /\ IntMax \in Nat /\ MaxClock \in Nat /\ MaxCalls \in Nat
    /\ \A ms \in Timeout \cup {0, IntMax} : ms \in Nat
    /\ \A want \in Wants \cup {0} : want \in Nat
  BY SysAssumption

LEMMA LeftIs ==
    ASSUME NEW c \in Call, NEW n \in Int, NEW e \in Errno, clock \in Nat, c.start <= clock
    PROVE  LET d == Left(c, n, e)
           IN  /\ d \in Call /\ d.op = c.op /\ d.at = "back" /\ d.start = 0 /\ d.timeout = c.timeout
               /\ d.want = c.want /\ d.n = n /\ d.errno = e /\ d.spent = clock - c.start
               /\ d.put = c.put /\ d.poked = c.poked
  <1> DEFINE lasted == clock - c.start
             d == [c EXCEPT !.at = "back", !.n = n, !.errno = e, !.spent = lasted, !.start = 0]
  <1>1. lasted \in Nat
    BY DEF Call
  <1> HIDE DEF lasted
  <1>2. d \in Call
    BY <1>1 DEF Call, Steps
  <1>3. /\ d.op = c.op /\ d.at = "back" /\ d.start = 0 /\ d.timeout = c.timeout
        /\ d.want = c.want /\ d.n = n
    BY DEF Call
  <1>4. d.errno = e /\ d.spent = lasted /\ d.put = c.put /\ d.poked = c.poked
    BY DEF Call
  <1> QED BY <1>2, <1>3, <1>4 DEF Left, lasted

LEMMA AtIs ==
    ASSUME NEW c \in Call, NEW s \in Steps
    PROVE  LET d == [c EXCEPT !.at = s]
           IN  /\ d \in Call /\ d.op = c.op /\ d.at = s /\ d.start = c.start /\ d.timeout = c.timeout
               /\ d.want = c.want /\ d.n = c.n /\ d.errno = c.errno /\ d.spent = c.spent
               /\ d.put = c.put /\ d.poked = c.poked
  BY DEF Call

\* A call that can go on returns.
LEMMA LeftFine ==
    ASSUME NEW c, NEW w0, NEW r0, Fine(c, w0, r0), c.at \in Going, clock \in Nat,
           NEW n \in Int, NEW e \in Errno, NEW w, NEW r,
           e = "ETIME" => c.poked \/ clock - c.start >= c.timeout,
           c.op = "send" => IF n >= 0 THEN n = c.want /\ Len(c.put) = c.want ELSE Len(c.put) < c.want,
           c.op = "sendto" /\ n >= 0 => Len(c.put) = n
    PROVE  Fine(Left(c, n, e), w, r)
  <1> DEFINE d == Left(c, n, e)
  <1>1. c \in Call /\ c.start \in Nat /\ c.timeout \in Nat /\ c.want \in Nat /\ c.start <= clock
    BY Numbers DEF Fine, InTime, Call
  <1>2. /\ d \in Call /\ d.op = c.op /\ d.at = "back" /\ d.start = 0 /\ d.timeout = c.timeout
        /\ d.want = c.want /\ d.n = n /\ d.errno = e /\ d.spent = clock - c.start
        /\ d.put = c.put /\ d.poked = c.poked
    BY <1>1, LeftIs
  <1> HIDE DEF d
  <1>3. InTime(d, w, r)
    BY <1>1, <1>2, Numbers DEF Fine, InTime, Going
  <1>4. Counts(d)
    BY <1>1, <1>2 DEF Fine, Counts
  <1> QED BY <1>2, <1>3, <1>4 DEF Fine, d

\* It goes on to its system call, or to a wait.
LEMMA AtFine ==
    ASSUME NEW c, NEW w0, NEW r0, Fine(c, w0, r0), c.at \in Going, clock \in Nat,
           NEW s \in {"try", "wait"}, NEW w, NEW r,
           c.op = "send" /\ s = "wait" => Len(c.put) < c.want
    PROVE  Fine([c EXCEPT !.at = s], w, r)
  <1> DEFINE d == [c EXCEPT !.at = s]
  <1>1. c \in Call /\ s \in Steps
    BY DEF Fine, Steps
  <1>2. /\ d \in Call /\ d.op = c.op /\ d.at = s /\ d.start = c.start /\ d.timeout = c.timeout
        /\ d.want = c.want /\ d.n = c.n /\ d.errno = c.errno /\ d.spent = c.spent
        /\ d.put = c.put /\ d.poked = c.poked
    BY <1>1, AtIs
  <1> HIDE DEF d
  <1>3. InTime(d, w, r)
    BY <1>2 DEF Fine, InTime, Going
  <1>4. Counts(d)
    <2>1. First(c.put) /\ Len(c.put) <= c.want
      BY DEF Fine, Counts
    <2>2. c.op # "send" => c.put = <<>>
      BY DEF Fine, Counts, Going
    <2> QED BY <1>2, <2>1, <2>2 DEF Counts
  <1> QED BY <1>2, <1>3, <1>4 DEF Fine, d

\* It waits, for as long as its time-out lasts.
LEMMA BlockedFine ==
    ASSUME NEW c, NEW w0, NEW r0, Fine(c, w0, r0), c.at = "wait", clock \in Nat,
           clock - c.start <= c.timeout, NEW r
    PROVE  Fine([c EXCEPT !.at = "blocked"], clock + c.timeout, r)
  <1> DEFINE d == [c EXCEPT !.at = "blocked"]
  <1>1. c \in Call /\ c.start \in Nat /\ c.timeout \in Nat
    BY Numbers DEF Fine, Call
  <1>2. /\ d \in Call /\ d.op = c.op /\ d.at = "blocked" /\ d.start = c.start /\ d.timeout = c.timeout
        /\ d.want = c.want /\ d.n = c.n /\ d.errno = c.errno /\ d.spent = c.spent
        /\ d.put = c.put /\ d.poked = c.poked
    BY <1>1, AtIs DEF Steps
  <1> HIDE DEF d
  <1>3. InTime(d, clock + c.timeout, r)
    BY <1>1, <1>2, Numbers DEF Fine, InTime, Going
  <1>4. Counts(d)
    BY <1>2 DEF Fine, Counts
  <1> QED BY <1>2, <1>3, <1>4 DEF Fine, d

\* Its wait ends: with an event, after its time, or because it is notified.
LEMMA ReadyFine ==
    ASSUME NEW c, NEW w, NEW r0, Fine(c, w, r0), w \in Nat, c.at = "blocked", clock \in Nat,
           NEW poked \in BOOLEAN, NEW w1, NEW r, r = TRUE \/ poked \/ w <= clock
    PROVE  Fine([c EXCEPT !.at = "ready", !.poked = @ \/ poked], w1, r)
  <1> DEFINE d == [c EXCEPT !.at = "ready", !.poked = @ \/ poked]
  <1>1. c \in Call /\ c.start \in Nat /\ c.timeout \in Nat
    BY Numbers DEF Fine, Call
  <1>2. /\ d \in Call /\ d.op = c.op /\ d.at = "ready" /\ d.start = c.start /\ d.timeout = c.timeout
        /\ d.want = c.want /\ d.n = c.n /\ d.errno = c.errno /\ d.spent = c.spent
        /\ d.put = c.put /\ (d.poked <=> c.poked \/ poked)
    BY <1>1 DEF Call, Steps
  <1> HIDE DEF d
  <1>3. InTime(d, w1, r)
    BY <1>1, <1>2, Numbers DEF Fine, InTime, Going
  <1>4. Counts(d)
    BY <1>2 DEF Fine, Counts
  <1> QED BY <1>2, <1>3, <1>4 DEF Fine, d
-----------------------------------------------------------------------------
(* One coroutine at a time.                                                *)

LEMMA OneCall ==
    ASSUME SysInv, NEW t \in Thread, NEW c, NEW w \in Nat, NEW r \in BOOLEAN, Fine(c, w, r),
           call' = [call EXCEPT ![t] = c], wakeup' = [wakeup EXCEPT ![t] = w],
           revents' = [revents EXCEPT ![t] = r], item' \in [Thread -> BOOLEAN],
           link' \in Links, wire' \in Seq(Nat), Len(wire') <= Cap, closed' \in BOOLEAN,
           clock' = clock, calls' \in [Thread -> 0..MaxCalls]
    PROVE  Types' /\ AllFine'
  <1>1. /\ call'[t] = c /\ wakeup'[t] = w /\ revents'[t] = r
        /\ \A u \in Thread \ {t} : call'[u] = call[u] /\ wakeup'[u] = wakeup[u] /\ revents'[u] = revents[u]
    BY DEF SysInv, Types
  <1>2. Types'
    BY DEF SysInv, Types, Fine
  <1>3. \A u \in Thread : Fine(call'[u], wakeup'[u], revents'[u])
    BY <1>1 DEF SysInv, AllFine
  <1>4. AllFine'
    <2> SUFFICES ASSUME NEW u \in Thread PROVE Fine(call[u], wakeup[u], revents[u])'
      BY DEF AllFine
    <2>1. Fine(call'[u], wakeup'[u], revents'[u])
      BY <1>3
    <2>2. InTime(call[u], wakeup[u], revents[u])'
      BY <2>1 DEF Fine, InTime
    <2>3. call'[u] \in Call /\ Counts(call'[u])
      BY <2>1 DEF Fine
    <2>4. Counts(call[u])'
      BY <2>3 DEF Counts
    <2> QED BY <2>2, <2>3, <2>4 DEF Fine
  <1> QED BY <1>2, <1>4

\* A step of t alone, which sees nothing new of the connection.
LEMMA AloneStep ==
    ASSUME SysInv, NEW t \in Thread, NEW c, NEW w \in Nat, NEW r \in BOOLEAN, Fine(c, w, r),
           call' = [call EXCEPT ![t] = c], wakeup' = [wakeup EXCEPT ![t] = w],
           revents' = [revents EXCEPT ![t] = r], item' \in [Thread -> BOOLEAN],
           UNCHANGED <<kernel, clock>>, calls' \in [Thread -> 0..MaxCalls],
           c.at = "back" => c.n # 0, t = Client /\ closed => c.at \in {"idle", "back"}
    PROVE  SysInv'
  <1>1. link' = link /\ wire' = wire /\ closed' = closed /\ clock' = clock
    BY DEF kernel
  <1>2. link' \in Links /\ wire' \in Seq(Nat) /\ Len(wire') <= Cap /\ closed' \in BOOLEAN
    BY <1>1 DEF SysInv, Types
  <1>3. call'[t] = c /\ \A u \in Thread \ {t} : call'[u] = call[u]
    BY DEF SysInv, Types
  <1>4. Types' /\ AllFine'
    BY <1>1, <1>2, OneCall
  <1>5. Closing'
    BY <1>1, <1>3, SysAssumption DEF SysInv, Closing, Thread
  <1>6. ZeroIsEnd'
    BY <1>1, <1>3, SysAssumption DEF SysInv, ZeroIsEnd, Returned, In, AtEnd, Thread
  <1> QED BY <1>4, <1>5, <1>6 DEF SysInv

LEMMA Same ==
    ASSUME SysInv, NEW t \in Thread
    PROVE  /\ wakeup = [wakeup EXCEPT ![t] = wakeup[t]] /\ wakeup[t] \in Nat
           /\ revents = [revents EXCEPT ![t] = revents[t]] /\ revents[t] \in BOOLEAN
           /\ Fine(call[t], wakeup[t], revents[t]) /\ clock \in Nat /\ call[t] \in Call
           /\ calls \in [Thread -> 0..MaxCalls] /\ item \in [Thread -> BOOLEAN]
  BY Numbers DEF SysInv, Types, AllFine

\* A call gives up.
LEMMA GiveUpStep ==
    ASSUME SysInv, NEW t \in Thread, call[t].at \in Going, NEW n \in Int, n < 0, NEW e \in Errno,
           Return(t, n, e), UNCHANGED <<waiting, kernel, clock, calls>>,
           e = "ETIME" => call[t].poked \/ clock - call[t].start >= call[t].timeout,
           call[t].op = "send" => Len(call[t].put) < call[t].want
    PROVE  SysInv'
  <1> DEFINE c == Left(call[t], n, e)
  <1>1. call' = [call EXCEPT ![t] = c]
    BY DEF Return
  <1>2. Fine(c, wakeup[t], revents[t])
    BY Same, LeftFine
  <1>3. c.at = "back" /\ c.n = n
    <2>1. call[t] \in Call /\ clock \in Nat /\ call[t].start <= clock
      BY Same DEF Fine, InTime
    <2> QED BY <2>1, LeftIs
  <1> HIDE DEF c
  <1>4. wakeup' = [wakeup EXCEPT ![t] = wakeup[t]] /\ revents' = [revents EXCEPT ![t] = revents[t]] /\ item' = item
    BY Same DEF waiting
  <1>5. UNCHANGED <<kernel, clock>> /\ item' \in [Thread -> BOOLEAN] /\ calls' \in [Thread -> 0..MaxCalls]
    BY <1>4, Same
  <1>6. c.at = "back" => c.n # 0
    BY <1>3
  <1>7. wakeup[t] \in Nat /\ revents[t] \in BOOLEAN
    BY Same
  <1> QED BY <1>1, <1>2, <1>3, <1>4, <1>5, <1>6, <1>7, AloneStep

\* It goes on.
LEMMA GoOnStep ==
    ASSUME SysInv, NEW t \in Thread, call[t].at \in Going, NEW s \in {"try", "wait"}, GoOn(t, s),
           UNCHANGED <<waiting, kernel, clock, calls>>,
           call[t].op = "send" /\ s = "wait" => Len(call[t].put) < call[t].want
    PROVE  SysInv'
  <1> DEFINE c == [call[t] EXCEPT !.at = s]
  <1>1. call' = [call EXCEPT ![t] = c]
    BY DEF GoOn
  <1>2. Fine(c, wakeup[t], revents[t])
    BY Same, AtFine
  <1>3. c.at = s
    <2>1. s \in Steps
      BY DEF Steps
    <2> QED BY <2>1, Same, AtIs
  <1> HIDE DEF c
  <1>4. wakeup' = [wakeup EXCEPT ![t] = wakeup[t]] /\ revents' = [revents EXCEPT ![t] = revents[t]] /\ item' = item
    BY Same DEF waiting
  <1>5. t = Client => ~closed
    BY DEF SysInv, Closing, Going
  <1>6. UNCHANGED <<kernel, clock>> /\ item' \in [Thread -> BOOLEAN] /\ calls' \in [Thread -> 0..MaxCalls]
    BY <1>4, Same
  <1>7. wakeup[t] \in Nat /\ revents[t] \in BOOLEAN
    BY Same
  <1> QED BY <1>1, <1>2, <1>3, <1>4, <1>5, <1>6, <1>7, AloneStep
-----------------------------------------------------------------------------
(* Waiting.                                                                *)

LEMMA WaitFdReadyStep ==
    ASSUME SysInv, NEW t \in Thread, WaitFdReady(t)
    PROVE  SysInv'
  <1>1. /\ call[t].at = "wait" /\ call[t].at \in Going
        /\ UNCHANGED <<revents, item, kernel, clock, calls>>
    BY DEF WaitFdReady, Going
  <1>2. call[t].op = "send" => Len(call[t].put) < call[t].want
    BY <1>1, Same DEF Fine, Counts
  <1>3. call[t].start \in Nat /\ call[t].timeout \in Nat /\ clock \in Nat
    BY Same, Numbers DEF Call
  <1>4. CASE TimeIsUp(t) /\ Return(t, -1, "ETIME") /\ UNCHANGED wakeup
    BY <1>1, <1>2, <1>3, <1>4, GiveUpStep DEF TimeIsUp, waiting, Errno
  <1>5. CASE Return(t, -2, "EINVAL") /\ UNCHANGED wakeup
    BY <1>1, <1>2, <1>5, GiveUpStep DEF waiting, Errno
  <1>6. CASE Return(t, -3, "EIO") /\ UNCHANGED wakeup
    BY <1>1, <1>2, <1>6, GiveUpStep DEF waiting, Errno
  <1>7. CASE /\ ~TimeIsUp(t) /\ GoOn(t, "blocked")
             /\ wakeup' = [wakeup EXCEPT ![t] = clock + call[t].timeout]
    <2> DEFINE c == [call[t] EXCEPT !.at = "blocked"]
               w == clock + call[t].timeout
    <2>1. Fine(c, w, revents[t])
      BY <1>1, <1>3, <1>7, Same, BlockedFine DEF TimeIsUp
    <2>2. c.at = "blocked"
      BY Same, AtIs DEF Steps
    <2>3. w \in Nat
      BY <1>3
    <2>4. call' = [call EXCEPT ![t] = c]
      BY <1>7 DEF GoOn
    <2>5. wakeup' = [wakeup EXCEPT ![t] = w]
      BY <1>7
    <2> HIDE DEF c, w
    <2>6. /\ revents[t] \in BOOLEAN /\ revents' = [revents EXCEPT ![t] = revents[t]]
          /\ item' \in [Thread -> BOOLEAN] /\ calls' \in [Thread -> 0..MaxCalls]
          /\ UNCHANGED <<kernel, clock>>
      BY <1>1, Same
    <2>7. t = Client => ~closed
      BY <1>1 DEF SysInv, Closing
    <2>8. c.at = "back" => c.n # 0
      BY <2>2
    <2> QED BY <2>1, <2>3, <2>4, <2>5, <2>6, <2>7, <2>8, AloneStep
  <1> QED BY <1>4, <1>5, <1>6, <1>7 DEF WaitFdReady, Until

LEMMA ResumeStep ==
    ASSUME SysInv, NEW t \in Thread, Resume(t)
    PROVE  SysInv'
  <1>1. /\ call[t].at = "ready" /\ call[t].at \in Going
        /\ UNCHANGED <<waiting, kernel, clock, calls>>
    BY DEF Resume, Going
  <1>2. call[t].op = "send" => Len(call[t].put) < call[t].want
    BY <1>1, Same DEF Fine, Counts
  <1>3. CASE revents[t]
    <2>1. GoOn(t, "try")
      BY <1>3 DEF Resume
    <2> QED BY <1>1, <1>2, <2>1, GoOnStep
  <1>4. CASE ~revents[t]
    <2>1. Return(t, -1, "ETIME")
      BY <1>4 DEF Resume
    <2>2. revents[t] = FALSE
      BY <1>4, Same
    <2>3. call[t].poked \/ clock - call[t].start >= call[t].timeout
      BY <1>1, <2>2, Same DEF Fine, InTime
    <2> QED BY <1>1, <1>2, <2>1, <2>3, GiveUpStep DEF Errno
  <1> QED BY <1>3, <1>4

LEMMA LeaveStep ==
    ASSUME SysInv, NEW t \in Thread, call[t].at = "blocked", NEW poked \in BOOLEAN, Leave(t, poked),
           NEW r \in BOOLEAN, revents' = [revents EXCEPT ![t] = r],
           r = TRUE \/ poked = TRUE \/ wakeup[t] <= clock,
           item' \in [Thread -> BOOLEAN], UNCHANGED <<kernel, clock, calls>>
    PROVE  SysInv'
  <1> DEFINE c == [call[t] EXCEPT !.at = "ready", !.poked = @ \/ poked]
  <1>1. call' = [call EXCEPT ![t] = c] /\ wakeup' = [wakeup EXCEPT ![t] = 0] /\ 0 \in Nat
    <2>1. call' = [call EXCEPT ![t].at = "ready", ![t].poked = @ \/ poked]
      BY DEF Leave
    <2>2. call \in [Thread -> Call]
      BY DEF SysInv, Types
    <2> QED BY <2>1, <2>2 DEF Leave
  <1>2. Fine(c, 0, r)
    BY Same, ReadyFine
  <1>3. c.at = "ready"
    BY Same DEF Call, Steps
  <1> HIDE DEF c
  <1>4. t = Client => ~closed
    BY DEF SysInv, Closing
  <1>5. UNCHANGED <<kernel, clock>> /\ calls' \in [Thread -> 0..MaxCalls]
    BY Same
  <1> QED BY <1>1, <1>2, <1>3, <1>4, <1>5, AloneStep

LEMMA WakeStep ==
    ASSUME SysInv, NEW t \in Thread, Dispatch(t) \/ Expire(t) \/ st_notify(t)
    PROVE  SysInv'
  <1>1. CASE Dispatch(t)
    <2> DEFINE live == link \notin {"refused", "reset"}
    <2>1. /\ call[t].at = "blocked" /\ Leave(t, FALSE) /\ revents' = [revents EXCEPT ![t] = TRUE]
          /\ UNCHANGED <<kernel, clock, calls>>
      BY <1>1 DEF Dispatch
    <2>2. item' = [item EXCEPT ![t] = live] /\ live \in BOOLEAN
      BY <1>1 DEF Dispatch
    <2> HIDE DEF live
    <2>3. item' \in [Thread -> BOOLEAN]
      BY <2>2, Same
    <2> QED BY <2>1, <2>3, LeaveStep
  <1>2. CASE Expire(t)
    <2>1. /\ call[t].at = "blocked" /\ Leave(t, FALSE) /\ wakeup[t] <= clock
          /\ revents' = [revents EXCEPT ![t] = revents[t]] /\ revents[t] \in BOOLEAN
          /\ item' \in [Thread -> BOOLEAN] /\ UNCHANGED <<kernel, clock, calls>>
      BY <1>2, Same DEF Expire
    <2> QED BY <2>1, LeaveStep
  <1>3. CASE st_notify(t)
    <2>1. /\ call[t].at = "blocked" /\ Leave(t, TRUE)
          /\ revents' = [revents EXCEPT ![t] = revents[t]] /\ revents[t] \in BOOLEAN
          /\ item' \in [Thread -> BOOLEAN] /\ UNCHANGED <<kernel, clock, calls>>
      BY <1>3, Same DEF st_notify
    <2> QED BY <2>1, LeaveStep
  <1> QED BY <1>1, <1>2, <1>3

\* A call begins.  The client does not call what it has closed.
LEMMA StartStep ==
    ASSUME SysInv, NEW t \in Thread, NEW op \in Ops, NEW want \in Wants \cup {0},
           NEW ms \in Timeout \cup {-1}, Start(t, op, want, ms), t = Client => closed = FALSE
    PROVE  SysInv'
  <1> DEFINE c == [NoCall EXCEPT !.op = op, !.at = IF op = "recv" THEN "wait" ELSE "try",
                                 !.start = clock, !.want = want,
                                 !.timeout = NormalizeTimeoutMs(ms)]
  <1>1. call' = [call EXCEPT ![t] = c] /\ UNCHANGED <<waiting, kernel, clock>>
    BY DEF Start
  <1>2. calls' \in [Thread -> 0..MaxCalls]
    <2>1. calls[t] < MaxCalls /\ calls' = [calls EXCEPT ![t] = @ + 1]
      BY DEF Start
    <2>2. calls[t] \in 0..MaxCalls /\ MaxCalls \in Nat
      BY Same, Numbers
    <2>3. calls[t] + 1 \in 0..MaxCalls
      BY <2>1, <2>2
    <2> QED BY <2>1, <2>3, Same
  <1>3. /\ c.op = op /\ c.at \in {"try", "wait"} /\ c.start = clock /\ c.want = want
        /\ c.timeout = NormalizeTimeoutMs(ms) /\ c.n = 0 /\ c.errno = "none" /\ c.spent = 0
        /\ c.put = <<>> /\ c.poked = FALSE /\ (op = "send" => c.at = "try")
    BY DEF NoCall
  <1>4. c.timeout \in Timeout \cup {0, IntMax} /\ c.timeout \in Nat /\ want \in Nat /\ clock \in Nat
    BY <1>3, Numbers, SysAssumption, Same DEF NormalizeTimeoutMs
  <1>5. c \in Call
    <2>1. NormalizeTimeoutMs(ms) \in Timeout \cup {0, IntMax}
      BY <1>3, <1>4
    <2>2. <<>> \in Seq(Nat)
      BY EmptySeq
    <2> DEFINE at == IF op = "recv" THEN "wait" ELSE "try"
               ms1 == NormalizeTimeoutMs(ms)
    <2>3. at \in Steps /\ ms1 \in Timeout \cup {0, IntMax}
      BY <2>1 DEF Steps
    <2> HIDE DEF at, ms1
    <2>4. NoCall \in Call
      BY <2>2 DEF Call, NoCall, Ops, Receiving, Sending, Steps, Errno
    <2>5. \A q \in Call : [q EXCEPT !.op = op, !.at = at, !.start = clock, !.want = want, !.timeout = ms1] \in Call
      BY <2>3, <1>4 DEF Call
    <2> QED BY <2>4, <2>5 DEF at, ms1
  <1> HIDE DEF c
  <1>6. Fine(c, wakeup[t], revents[t])
    <2>1. InTime(c, wakeup[t], revents[t])
      BY <1>3, <1>4, Numbers DEF InTime, Going
    <2>2. Counts(c)
      <3>1. Len(c.put) = 0 /\ First(c.put)
        BY <1>3 DEF First
      <3> QED BY <1>3, <1>4, <3>1 DEF Counts
    <2> QED BY <1>5, <2>1, <2>2 DEF Fine
  <1>7. /\ wakeup' = [wakeup EXCEPT ![t] = wakeup[t]] /\ revents' = [revents EXCEPT ![t] = revents[t]]
        /\ item' \in [Thread -> BOOLEAN] /\ wakeup[t] \in Nat /\ revents[t] \in BOOLEAN
    BY <1>1, Same DEF waiting
  <1>8. UNCHANGED <<kernel, clock>> /\ c.at # "back" /\ ~(t = Client /\ closed)
    BY <1>1, <1>3
  <1> QED BY <1>1, <1>2, <1>6, <1>7, <1>8, AloneStep
-----------------------------------------------------------------------------
(* The two ends.                                                           *)

LEMMA ClientStep ==
    ASSUME SysInv, NEW c, Fine(c, wakeup[Client], revents[Client]),
           call' = [call EXCEPT ![Client] = c], UNCHANGED <<waiting, closed, clock, calls>>,
           call[Client].at \in Going, link' \in Links, wire' \in Seq(Nat), Len(wire') <= Cap
    PROVE  SysInv'
  <1>1. closed = FALSE /\ closed' = FALSE
    BY DEF SysInv, Closing, Going, Types
  <1>2. Client \in Thread /\ Server # Client
    BY SysAssumption DEF Thread
  <1>3. /\ wakeup' = [wakeup EXCEPT ![Client] = wakeup[Client]] /\ wakeup[Client] \in Nat
        /\ revents' = [revents EXCEPT ![Client] = revents[Client]] /\ revents[Client] \in BOOLEAN
        /\ item' \in [Thread -> BOOLEAN] /\ calls' \in [Thread -> 0..MaxCalls] /\ clock' = clock
    BY <1>2, Same DEF waiting
  <1>4. Types' /\ AllFine'
    BY <1>1, <1>2, <1>3, OneCall
  <1>5. Closing'
    BY <1>1 DEF Closing
  <1>6. call'[Server] = call[Server]
    BY <1>2 DEF SysInv, Types, Thread
  <1>7. ZeroIsEnd'
    BY <1>1, <1>6 DEF SysInv, ZeroIsEnd, Returned, In, AtEnd
  <1> QED BY <1>4, <1>5, <1>7 DEF SysInv

LEMMA ServerStep ==
    ASSUME SysInv, NEW c, NEW w \in Nat, NEW r \in BOOLEAN, Fine(c, w, r),
           call' = [call EXCEPT ![Server] = c], wakeup' = [wakeup EXCEPT ![Server] = w],
           revents' = [revents EXCEPT ![Server] = r],
           item' \in [Thread -> BOOLEAN], UNCHANGED <<closed, clock, calls>>,
           link' \in Links, closed => link' = link, wire' \in Seq(Nat), Len(wire') <= Cap,
           c.op \in Receiving /\ c.at = "back" /\ c.n = 0 => c.want = 0 \/ (wire' = <<>> /\ closed)
    PROVE  SysInv'
  <1>1. Server \in Thread /\ Client # Server /\ Client \in Thread
    BY SysAssumption DEF Thread
  <1>2. /\ calls' \in [Thread -> 0..MaxCalls] /\ clock' = clock /\ closed' \in BOOLEAN
    BY <1>1, Same DEF SysInv, Types
  <1>3. Types' /\ AllFine'
    BY <1>1, <1>2, OneCall
  <1>4. call'[Client] = call[Client] /\ call'[Server] = c
    BY <1>1 DEF SysInv, Types
  <1>5. Closing'
    BY <1>4 DEF SysInv, Closing
  <1>6. ZeroIsEnd'
    BY <1>4 DEF ZeroIsEnd, Returned, In, AtEnd
  <1> QED BY <1>3, <1>5, <1>6 DEF SysInv

\* What becomes of a call whose system call has failed.
LEMMA FailedFine ==
    ASSUME SysInv, NEW t \in Thread, call[t].at = "try", call[t].op # "send",
           NEW e \in Errno \ {"ETIME"}, NEW again, Failed(t, e, again) \/ Refused(t, e)
    PROVE  \E c : /\ call' = [call EXCEPT ![t] = c] /\ Fine(c, wakeup[t], revents[t])
                  /\ c.at = "back" => c.n = -1
  <1>1. call[t].at \in Going /\ call[t] \in Call /\ clock \in Nat /\ call[t].start <= clock
        /\ Fine(call[t], wakeup[t], revents[t])
    BY Same DEF Going, Fine, InTime
  <1>2. call[t].start \in Nat /\ call[t].timeout \in Nat
    BY <1>1, Numbers DEF Call
  <1>3. ASSUME NEW n \in Int, n = -1, NEW f \in Errno, Return(t, n, f),
               f = "ETIME" => clock - call[t].start >= call[t].timeout
        PROVE  \E c : /\ call' = [call EXCEPT ![t] = c] /\ Fine(c, wakeup[t], revents[t])
                      /\ c.at = "back" => c.n = -1
    <2> DEFINE d == Left(call[t], n, f)
    <2>1. call' = [call EXCEPT ![t] = d]
      BY <1>3 DEF Return
    <2>2. Fine(d, wakeup[t], revents[t])
      BY <1>1, <1>3, LeftFine
    <2>3. d.n = -1
      BY <1>1, <1>3, LeftIs
    <2> HIDE DEF d
    <2> QED BY <2>1, <2>2, <2>3
  <1>4. ASSUME NEW s \in {"try", "wait"}, GoOn(t, s)
        PROVE  \E c : /\ call' = [call EXCEPT ![t] = c] /\ Fine(c, wakeup[t], revents[t])
                      /\ c.at = "back" => c.n = -1
    <2> DEFINE d == [call[t] EXCEPT !.at = s]
    <2>1. call' = [call EXCEPT ![t] = d]
      BY <1>4 DEF GoOn
    <2>2. Fine(d, wakeup[t], revents[t])
      BY <1>1, AtFine
    <2>3. d.at # "back"
      <3>1. s \in Steps
        BY DEF Steps
      <3> QED BY <1>1, <3>1, AtIs
    <2> HIDE DEF d
    <2> QED BY <2>1, <2>2, <2>3
  <1>5. CASE TimeIsUp(t) /\ Failed(t, e, again)
    <2>1. Return(t, -1, "ETIME") /\ clock - call[t].start >= call[t].timeout
      BY <1>2, <1>5, <1>1 DEF Failed, TimeIsUp
    <2> QED BY <2>1, <1>3 DEF Errno
  <1>6. CASE (~TimeIsUp(t) /\ Failed(t, e, again)) \/ Refused(t, e)
    <2>1. GoOn(t, "try") \/ GoOn(t, "wait") \/ Return(t, -1, e)
      BY <1>6 DEF Failed, Refused
    <2> QED BY <2>1, <1>3, <1>4
  <1> QED BY <1>5, <1>6
-----------------------------------------------------------------------------
(* The system calls.                                                       *)

LEMMA ConnectStep ==
    ASSUME SysInv, st_connect
    PROVE  SysInv'
  <1>1. /\ Client \in Thread /\ call[Client].at = "try" /\ call[Client].op = "connect"
        /\ call[Client].at \in Going /\ UNCHANGED <<waiting, closed, clock, calls>> /\ wire' = wire
        /\ wire' \in Seq(Nat) /\ Len(wire') <= Cap
    BY DEF SysInv, Types, st_connect, In, Going, Thread
  <1>2. call[Client].start \in Nat /\ call[Client].timeout \in Nat /\ clock \in Nat
    BY <1>1, Same, Numbers DEF Call
  <1>3. ASSUME NEW n \in Int, NEW e \in Errno, Return(Client, n, e), link' \in Links,
               e = "ETIME" => TimeIsUp(Client)
        PROVE  SysInv'
    <2> DEFINE c == Left(call[Client], n, e)
    <2>1. Fine(c, wakeup[Client], revents[Client])
      BY <1>1, <1>2, <1>3, Same, LeftFine DEF TimeIsUp
    <2>2. call' = [call EXCEPT ![Client] = c]
      BY <1>3 DEF Return
    <2> HIDE DEF c
    <2> QED BY <1>1, <1>3, <2>1, <2>2, ClientStep
  <1>4. CASE link = "none" /\ link' = "backlog" /\ Return(Client, 0, "none")
    BY <1>3, <1>4 DEF Links, Errno
  <1>5. CASE UNCHANGED link /\ (Return(Client, 0, "none") \/ (TimeIsUp(Client) /\ Return(Client, -1, "ETIME")))
    <2>1. link' \in Links
      BY <1>5 DEF SysInv, Types
    <2> QED BY <1>3, <1>5, <2>1 DEF Errno
  <1>6. CASE \E errno \in ConnectErrno :
                /\ Failed(Client, errno, {"EAGAIN", "EINPROGRESS"})
                /\ link' = IF errno \in {"EINPROGRESS", "EINTR"} THEN "syn" ELSE link
    <2>1. PICK errno \in ConnectErrno :
                /\ Failed(Client, errno, {"EAGAIN", "EINPROGRESS"})
                /\ link' = IF errno \in {"EINPROGRESS", "EINTR"} THEN "syn" ELSE link
      BY <1>6
    <2>2. errno \in Errno \ {"ETIME"}
      BY DEF ConnectErrno, Errno
    <2>3. link' \in Links
      BY <2>1 DEF SysInv, Types, Links
    <2>4. PICK c : call' = [call EXCEPT ![Client] = c] /\ Fine(c, wakeup[Client], revents[Client])
      BY <1>1, <2>1, <2>2, FailedFine
    <2> QED BY <1>1, <2>3, <2>4, ClientStep
  <1> QED BY <1>4, <1>5, <1>6 DEF st_connect

LEMMA AcceptStep ==
    ASSUME SysInv, st_accept
    PROVE  SysInv'
  <1>1. /\ Server \in Thread /\ call[Server].at = "try" /\ call[Server].op = "accept"
        /\ call[Server].at \in Going /\ UNCHANGED <<wakeup, closed, clock, calls>> /\ wire' = wire
        /\ wire' \in Seq(Nat) /\ Len(wire') <= Cap
    BY DEF SysInv, Types, st_accept, In, Going, Thread
  <1>2. /\ wakeup[Server] \in Nat /\ wakeup' = [wakeup EXCEPT ![Server] = wakeup[Server]]
    BY <1>1, Same
  <1>3. CASE /\ link = "backlog" /\ link' = "open" /\ Return(Server, 1, "none")
             /\ revents' = [revents EXCEPT ![Server] = FALSE]
             /\ item' = [item EXCEPT ![Server] = TRUE]
    <2>1. PICK n \in Int : n = 1
      OBVIOUS
    <2> DEFINE c == Left(call[Server], n, "none")
    <2>2. /\ call[Server] \in Call /\ Fine(call[Server], wakeup[Server], revents[Server])
          /\ call[Server].start <= clock /\ clock \in Nat /\ "none" \in Errno
      BY <1>1, Same DEF Fine, InTime, Errno
    <2>3. Fine(c, wakeup[Server], FALSE)
      BY <1>1, <2>1, <2>2, LeftFine
    <2>4. /\ call' = [call EXCEPT ![Server] = c] /\ revents' = [revents EXCEPT ![Server] = FALSE]
          /\ item' \in [Thread -> BOOLEAN] /\ link' \in Links
      BY <1>1, <1>3, <2>1, Same DEF SysInv, Types, Return, Links
    <2>5. closed => link' = link
      BY <1>3 DEF SysInv, Closing
    <2>6. c.n = 1
      BY <2>1, <2>2, LeftIs
    <2> HIDE DEF c
    <2>7. c.op \in Receiving /\ c.at = "back" /\ c.n = 0 => c.want = 0 \/ (wire' = <<>> /\ closed)
      BY <2>6
    <2> QED BY <1>1, <1>2, <2>3, <2>4, <2>5, <2>7, ServerStep
  <1>4. ASSUME NEW errno \in AcceptErrno, Refused(Server, errno), UNCHANGED <<link, revents, item>>
        PROVE  SysInv'
    <2>1. errno \in Errno \ {"ETIME"} /\ UNCHANGED <<link, revents, item>>
      BY <1>4 DEF AcceptErrno, Errno
    <2>2. PICK c : /\ call' = [call EXCEPT ![Server] = c] /\ Fine(c, wakeup[Server], revents[Server])
                   /\ c.at = "back" => c.n = -1
      BY <1>1, <1>4, <2>1, FailedFine
    <2>3. /\ revents[Server] \in BOOLEAN /\ revents' = [revents EXCEPT ![Server] = revents[Server]]
          /\ item' \in [Thread -> BOOLEAN] /\ link' \in Links
      BY <1>1, <2>1, Same DEF SysInv, Types
    <2>4. c.op \in Receiving /\ c.at = "back" /\ c.n = 0 => c.want = 0 \/ (wire' = <<>> /\ closed)
      BY <2>2
    <2>5. UNCHANGED <<closed, clock, calls>> /\ (closed => link' = link)
      BY <1>1, <2>1
    <2> QED BY <1>1, <1>2, <2>2, <2>3, <2>4, <2>5, ServerStep
  <1> QED BY <1>3, <1>4 DEF st_accept

\* A receiving call returns what it has found.
LEMMA TakenStep ==
    ASSUME SysInv, Taken(Server), call[Server].at = "try", call[Server].op \in Receiving,
           UNCHANGED <<waiting, link, closed, clock, calls>>
    PROVE  SysInv'
  <1>1. /\ Server \in Thread /\ call[Server].at \in Going /\ call[Server] \in Call
        /\ call[Server].want \in Nat /\ wire \in Seq(Nat) /\ Len(wire) <= Cap /\ Cap \in Nat
        /\ call[Server].op # "send" /\ call[Server].op # "sendto" /\ clock \in Nat
        /\ call[Server].start <= clock
    BY Same, Numbers DEF SysInv, Types, Going, Thread, Call, Receiving, Fine, InTime
  <1>2. /\ wakeup[Server] \in Nat /\ wakeup' = [wakeup EXCEPT ![Server] = wakeup[Server]]
        /\ revents[Server] \in BOOLEAN /\ revents' = [revents EXCEPT ![Server] = revents[Server]]
        /\ item' \in [Thread -> BOOLEAN] /\ link' \in Links /\ link' = link
        /\ UNCHANGED <<closed, clock, calls>>
    BY <1>1, Same DEF waiting, SysInv, Types
  <1>3. ASSUME NEW n \in Int, Return(Server, n, "none"), wire' \in Seq(Nat), Len(wire') <= Cap,
               n = 0 => call[Server].want = 0 \/ (wire' = <<>> /\ closed)
        PROVE  SysInv'
    <2> DEFINE c == Left(call[Server], n, "none")
    <2>1. Fine(c, wakeup[Server], revents[Server])
      BY <1>1, <1>3, Same, LeftFine DEF Errno
    <2>2. call' = [call EXCEPT ![Server] = c]
      BY <1>3 DEF Return
    <2>3. c.n = n /\ c.want = call[Server].want
      BY <1>1, LeftIs DEF Errno
    <2> HIDE DEF c
    <2> QED BY <1>1, <1>2, <1>3, <2>1, <2>2, <2>3, ServerStep
  <1>4. ASSUME NEW k \in 1..Least(Len(wire), call[Server].want),
               wire' = SubSeq(wire, k + 1, Len(wire)), Return(Server, k, "none")
        PROVE  SysInv'
    <2>1. k \in 1..Len(wire) /\ k # 0
      BY <1>1, LenProperties DEF Least
    <2>2. wire' \in Seq(Nat) /\ Len(wire') = Len(wire) - k
      BY <1>1, <1>4, <2>1, SubSeqProperties
    <2>3. k \in Int /\ Len(wire') <= Cap
      BY <1>1, <2>1, <2>2
    <2> QED BY <1>3, <1>4, <2>1, <2>2, <2>3
  <1>5. CASE /\ AtEnd \/ (call[Server].want = 0 /\ wire # <<>>)
             /\ Return(Server, 0, "none") /\ UNCHANGED wire
    BY <1>1, <1>3, <1>5 DEF AtEnd
  <1> QED BY <1>4, <1>5 DEF Taken

LEMMA ReceiveStep ==
    ASSUME SysInv, st_recv \/ st_read
    PROVE  SysInv'
  <1>1. /\ Server \in Thread /\ call[Server].at = "try" /\ call[Server].op \in Receiving
        /\ UNCHANGED <<waiting, link, closed, clock, calls>>
        /\ call[Server].at \in Going /\ call[Server].op # "send"
    BY DEF st_recv, st_read, In, Receiving, Thread, Going
  <1>2. \A errno \in ReadErrno : errno \in Errno \ {"ETIME"}
    BY DEF ReadErrno, Errno
  <1>3. CASE Taken(Server)
    BY <1>1, <1>3, TakenStep
  <1>4. ASSUME NEW errno \in ReadErrno, RecvErrno(Server, errno), UNCHANGED wire
        PROVE  SysInv'
    <2>1. UNCHANGED <<waiting, kernel, clock, calls>>
      BY <1>1, <1>4 DEF kernel
    <2>2. CASE GoOn(Server, "wait")
      BY <1>1, <2>1, <2>2, GoOnStep
    <2>3. CASE Return(Server, -1, errno)
      BY <1>1, <1>2, <2>1, <2>3, GiveUpStep
    <2> QED BY <1>4, <2>2, <2>3 DEF RecvErrno
  <1>5. ASSUME NEW errno \in ReadErrno, Failed(Server, errno, {"EAGAIN"}), UNCHANGED wire
        PROVE  SysInv'
    <2>1. PICK c : /\ call' = [call EXCEPT ![Server] = c] /\ Fine(c, wakeup[Server], revents[Server])
                   /\ c.at = "back" => c.n = -1
      BY <1>1, <1>2, <1>5, FailedFine
    <2>2. /\ wakeup[Server] \in Nat /\ wakeup' = [wakeup EXCEPT ![Server] = wakeup[Server]]
          /\ revents[Server] \in BOOLEAN /\ revents' = [revents EXCEPT ![Server] = revents[Server]]
          /\ item' \in [Thread -> BOOLEAN] /\ link' \in Links /\ link' = link
          /\ UNCHANGED <<closed, clock, calls>> /\ wire' \in Seq(Nat) /\ Len(wire') <= Cap
      BY <1>1, <1>5, Same DEF waiting, SysInv, Types
    <2>3. c.op \in Receiving /\ c.at = "back" /\ c.n = 0 => c.want = 0 \/ (wire' = <<>> /\ closed)
      BY <2>1
    <2> QED BY <2>1, <2>2, <2>3, ServerStep
  <1> QED BY <1>3, <1>4, <1>5 DEF st_recv, st_read

\* The next k bytes of the buffer.
LEMMA Numbered ==
    ASSUME NEW n \in Nat, NEW k \in Nat, NEW s \in Seq(Nat), s = [i \in 1..n |-> i]
    PROVE  LET more == [i \in 1..k |-> n + i]
           IN  /\ more \in Seq(Nat) /\ Len(more) = k /\ s \o more \in Seq(Nat)
               /\ Len(s) = n /\ Len(s \o more) = n + k /\ s \o more = [i \in 1..(n + k) |-> i]
  <1> DEFINE more == [i \in 1..k |-> n + i]
             all == [i \in 1..(n + k) |-> i]
  <1>1. more \in Seq(Nat) /\ Len(more) = k /\ \A i \in 1..k : more[i] = n + i
    <2>1. \A i \in 1..k : n + i \in Nat
      OBVIOUS
    <2>2. more \in [1..k -> Nat]
      BY <2>1
    <2>3. more \in Seq(Nat)
      BY <2>2
    <2> QED BY <2>3, LenProperties
  <1>2. Len(s) = n /\ \A i \in 1..n : s[i] = i
    BY LenProperties
  <1> HIDE DEF more
  <1>3. /\ s \o more \in Seq(Nat) /\ Len(s \o more) = n + k
        /\ \A i \in 1..(n + k) : (s \o more)[i] = i
    <2>1. s \o more \in Seq(Nat) /\ Len(s \o more) = n + k
      BY <1>1, <1>2, ConcatProperties
    <2>2. \A i \in 1..(n + k) : (s \o more)[i] = IF i <= n THEN s[i] ELSE more[i - n]
      BY <1>1, <1>2, ConcatProperties
    <2> QED BY <1>1, <1>2, <2>1, <2>2
  <1>4. s \o more = [i \in 1..Len(s \o more) |-> (s \o more)[i]]
    BY <1>3, LenProperties
  <1> QED BY <1>1, <1>2, <1>3, <1>4 DEF more

\* What a partial write leaves of the call, and of the connection.
LEMMA PutIs ==
    ASSUME SysInv, call[Client].at = "try", call[Client].op = "send" \/ call[Client].put = <<>>,
           NEW k \in 1..Least(Room, Remaining(Client))
    PROVE  LET put == call[Client].put \o PutBytes(Client, k)
           IN  /\ put \in Seq(Nat) /\ Len(put) = Len(call[Client].put) + k /\ k \in Nat
               /\ First(put) /\ Len(put) <= call[Client].want
               /\ wire \o PutBytes(Client, k) \in Seq(Nat)
               /\ Len(wire \o PutBytes(Client, k)) <= Cap
  <1> DEFINE n == Len(call[Client].put)
             more == [i \in 1..k |-> n + i]
  <1>1. /\ Client \in Thread /\ call[Client].put \in Seq(Nat) /\ call[Client].want \in Nat
        /\ wire \in Seq(Nat) /\ Len(wire) \in Nat /\ Len(wire) <= Cap /\ Cap \in Nat /\ n \in Nat
        /\ call[Client].put = [i \in 1..n |-> i] /\ n <= call[Client].want
    <2>1. Client \in Thread
      BY DEF Thread
    <2>2. call[Client].put \in Seq(Nat) /\ call[Client].want \in Nat
      BY <2>1, Same, Numbers DEF Call
    <2> QED BY <2>1, <2>2, Same, Numbers, LenProperties DEF Fine, Counts, First, SysInv, Types
  <1>2. k \in Nat /\ k <= Room /\ k <= call[Client].want - n
    BY <1>1 DEF Least, Room, Remaining, Done
  <1>3. k <= Cap - Len(wire)
    BY <1>1, <1>2 DEF Room
  <1> DEFINE s == call[Client].put
  <1> HIDE DEF n
  <1>4. s \in Seq(Nat) /\ s = [i \in 1..n |-> i] /\ n \in Nat
    BY <1>1
  <1> HIDE DEF s
  <1>5. /\ more \in Seq(Nat) /\ Len(more) = k /\ s \o more \in Seq(Nat)
        /\ Len(s \o more) = n + k /\ s \o more = [i \in 1..(n + k) |-> i]
    BY <1>2, <1>4, Numbered
  <1>6. PutBytes(Client, k) = more
    BY DEF PutBytes, Done, n
  <1> HIDE DEF more
  <1>7. wire \o more \in Seq(Nat) /\ Len(wire \o more) = Len(wire) + k
    <2>1. wire \in Seq(Nat) /\ more \in Seq(Nat) /\ Len(more) = k
      BY <1>1, <1>5
    <2> QED BY <2>1, ConcatProperties
  <1>8. Len(wire \o more) <= Cap /\ Len(s \o more) <= call[Client].want
    <2>1. Len(wire \o more) <= Cap
      <3>1. Len(wire) \in Nat /\ Cap \in Nat
        BY <1>1
      <3> QED BY ONLY <1>2, <1>3, <1>7, <3>1
    <2>2. Len(s \o more) <= call[Client].want
      <3>1. call[Client].want \in Nat
        BY <1>1
      <3> QED BY ONLY <1>2, <1>4, <1>5, <3>1
    <2> QED BY <2>1, <2>2
  <1> QED BY <1>2, <1>5, <1>6, <1>7, <1>8 DEF s, n, First

LEMMA PutFine ==
    ASSUME NEW c, NEW w, NEW r, Fine(c, w, r), c.at = "try", c.op = "send",
           NEW put \in Seq(Nat), First(put), Len(put) <= c.want
    PROVE  LET d == [c EXCEPT !.put = put]
           IN  Fine(d, w, r) /\ d.op = "send" /\ d.at = "try" /\ d.want = c.want /\ d.put = put
  <1> DEFINE d == [c EXCEPT !.put = put]
  <1>1. c \in Call
    BY DEF Fine
  <1>2. /\ d \in Call /\ d.op = c.op /\ d.at = c.at /\ d.start = c.start /\ d.timeout = c.timeout
        /\ d.want = c.want /\ d.n = c.n /\ d.errno = c.errno /\ d.spent = c.spent
        /\ d.put = put /\ d.poked = c.poked
    BY <1>1 DEF Call
  <1> HIDE DEF d
  <1>3. InTime(d, w, r)
    BY <1>2 DEF Fine, InTime, Going
  <1>4. Counts(d)
    BY <1>2 DEF Counts
  <1> QED BY <1>2, <1>3, <1>4 DEF Fine, d

LEMMA SendStep ==
    ASSUME SysInv, st_send
    PROVE  SysInv'
  <1>1. /\ Client \in Thread /\ call[Client].at = "try" /\ call[Client].op = "send"
        /\ call[Client].at \in Going /\ UNCHANGED <<waiting, link, closed, clock, calls>>
    BY DEF st_send, In, Thread, Going
  <1>2. /\ Fine(call[Client], wakeup[Client], revents[Client]) /\ call[Client] \in Call
        /\ call[Client].want \in Nat /\ call[Client].start \in Nat /\ call[Client].timeout \in Nat
        /\ clock \in Nat /\ Len(call[Client].put) \in Nat /\ Len(call[Client].put) <= call[Client].want
    <2>1. call[Client].put \in Seq(Nat)
      BY <1>1, Same DEF Call
    <2> QED BY <1>1, <2>1, Same, Numbers, LenProperties DEF Call, Fine, Counts
  <1>3. link' \in Links /\ (UNCHANGED wire => wire' \in Seq(Nat) /\ Len(wire') <= Cap)
    BY <1>1 DEF SysInv, Types
  <1>4. CASE Done(Client) >= call[Client].want /\ Return(Client, call[Client].want, "none") /\ UNCHANGED wire
    <2> DEFINE c == Left(call[Client], call[Client].want, "none")
    <2>1. call[Client].want \in Int /\ "none" \in Errno /\ Len(call[Client].put) = call[Client].want
      BY <1>2, <1>4 DEF Errno, Done
    <2>2. Fine(c, wakeup[Client], revents[Client])
      BY <1>1, <1>2, <2>1, LeftFine
    <2>3. call' = [call EXCEPT ![Client] = c]
      BY <1>4 DEF Return
    <2> HIDE DEF c
    <2> QED BY <1>1, <1>3, <1>4, <2>2, <2>3, ClientStep
  <1>5. ASSUME NEW e \in Errno, Return(Client, -1, e), UNCHANGED wire, ~(Done(Client) >= call[Client].want),
               e = "ETIME" => TimeIsUp(Client)
        PROVE  SysInv'
    <2>1. Len(call[Client].put) < call[Client].want
      BY <1>2, <1>5 DEF Done
    <2>2. UNCHANGED <<waiting, kernel, clock, calls>>
      BY <1>1, <1>5 DEF kernel
    <2> QED BY <1>1, <1>2, <1>5, <2>1, <2>2, GiveUpStep DEF TimeIsUp
  <1>6. ASSUME NEW st \in {"try", "wait"}, GoOn(Client, st), UNCHANGED wire, ~(Done(Client) >= call[Client].want)
        PROVE  SysInv'
    <2>1. Len(call[Client].put) < call[Client].want
      BY <1>2, <1>6 DEF Done
    <2>2. UNCHANGED <<waiting, kernel, clock, calls>>
      BY <1>1, <1>6 DEF kernel
    <2> QED BY <1>1, <1>6, <2>1, <2>2, GoOnStep
  <1>7. \A errno \in WriteErrno : errno \in Errno \ {"ETIME"}
    BY DEF WriteErrno, Errno
  <1>8. ASSUME NEW k \in 1..Least(Room, Remaining(Client)), wire' = wire \o PutBytes(Client, k),
               LET all == Done(Client) + k >= call[Client].want
                   c == [call[Client] EXCEPT !.put = @ \o PutBytes(Client, k)]
               IN  call' = [call EXCEPT ![Client] = IF all THEN Left(c, c.want, "none")
                                                           ELSE [c EXCEPT !.at = "wait"]]
        PROVE  SysInv'
    <2> DEFINE put == call[Client].put \o PutBytes(Client, k)
               c == [call[Client] EXCEPT !.put = put]
               d == IF Done(Client) + k >= call[Client].want THEN Left(c, c.want, "none")
                                                             ELSE [c EXCEPT !.at = "wait"]
    <2>1. /\ put \in Seq(Nat) /\ Len(put) = Len(call[Client].put) + k /\ k \in Nat
          /\ First(put) /\ Len(put) <= call[Client].want
          /\ wire' \in Seq(Nat) /\ Len(wire') <= Cap
      BY <1>1, <1>8, PutIs
    <2>2. call' = [call EXCEPT ![Client] = d]
      BY <1>8
    <2> HIDE DEF put
    <2>3. /\ Fine(c, wakeup[Client], revents[Client]) /\ c.op = "send" /\ c.at = "try"
          /\ c.want = call[Client].want /\ c.put = put
      <3> DEFINE b == call[Client]
      <3>1. Fine(b, wakeup[Client], revents[Client]) /\ b.at = "try" /\ b.op = "send" /\ Len(put) <= b.want
        BY <1>1, <1>2, <2>1
      <3> HIDE DEF b
      <3>2. LET e == [b EXCEPT !.put = put]
            IN  /\ Fine(e, wakeup[Client], revents[Client]) /\ e.op = "send" /\ e.at = "try"
                /\ e.want = b.want /\ e.put = put
        BY <2>1, <3>1, PutFine
      <3> QED BY <3>2 DEF b
    <2> HIDE DEF c
    <2>4. c.at \in Going /\ c.want \in Int /\ c.want >= 0 /\ "none" \in Errno
      BY <1>2, <2>3 DEF Going, Errno
    <2>5. ASSUME Done(Client) + k >= call[Client].want
          PROVE  Fine(d, wakeup[Client], revents[Client])
      <3>1. Len(c.put) = c.want
        BY <1>2, <2>1, <2>3, <2>5 DEF Done
      <3>2. Fine(Left(c, c.want, "none"), wakeup[Client], revents[Client])
        BY <1>2, <2>3, <2>4, <3>1, LeftFine
      <3> QED BY <2>5, <3>2
    <2>6. ASSUME ~(Done(Client) + k >= call[Client].want)
          PROVE  Fine(d, wakeup[Client], revents[Client])
      <3>1. Len(c.put) < c.want
        BY <1>2, <2>1, <2>3, <2>6 DEF Done
      <3>2. Fine([c EXCEPT !.at = "wait"], wakeup[Client], revents[Client])
        BY <1>2, <2>3, <2>4, <3>1, AtFine
      <3> QED BY <2>6, <3>2
    <2>7. Fine(d, wakeup[Client], revents[Client])
      BY <2>5, <2>6
    <2> HIDE DEF d
    <2> QED BY <1>1, <1>3, <2>1, <2>2, <2>7, ClientStep
  <1>9. CASE Done(Client) >= call[Client].want
    BY <1>4, <1>9 DEF st_send
  <1>10. CASE ~(Done(Client) >= call[Client].want)
    <2>1. CASE TimeIsUp(Client) /\ Return(Client, -1, "ETIME") /\ UNCHANGED wire
      BY <1>5, <1>10, <2>1 DEF Errno
    <2>2. ASSUME NEW errno \in WriteErrno, UNCHANGED wire, Refused(Client, errno)
          PROVE  SysInv'
      <3>1. GoOn(Client, "try") \/ GoOn(Client, "wait") \/ Return(Client, -1, errno)
        BY <2>2 DEF Refused
      <3> QED BY <1>5, <1>6, <1>7, <1>10, <2>2, <3>1
    <2> QED BY <1>8, <1>10, <2>1, <2>2 DEF st_send
  <1> QED BY <1>9, <1>10

\* st_sendto returns what its first successful write has taken.
LEMMA SentFine ==
    ASSUME NEW c, NEW w, NEW r, Fine(c, w, r), c.at = "try", c.op = "sendto", clock \in Nat,
           NEW put \in Seq(Nat), First(put), Len(put) <= c.want
    PROVE  Fine(Left([c EXCEPT !.put = put], Len(put), "none"), w, r)
  <1> DEFINE b == [c EXCEPT !.put = put]
             n == Len(put)
             d == Left(b, n, "none")
  <1>1. c \in Call /\ c.start <= clock /\ c.start \in Nat /\ c.timeout \in Nat
    BY Numbers DEF Fine, InTime, Call
  <1>2. /\ b \in Call /\ b.op = "sendto" /\ b.start = c.start /\ b.timeout = c.timeout
        /\ b.want = c.want /\ b.put = put /\ b.poked = c.poked
    BY <1>1 DEF Call
  <1>3. n \in Int /\ "none" \in Errno
    BY LenProperties DEF Errno
  <1> HIDE DEF b, n
  <1>4. /\ d \in Call /\ d.op = b.op /\ d.at = "back" /\ d.start = 0 /\ d.timeout = b.timeout
        /\ d.want = b.want /\ d.n = n /\ d.errno = "none" /\ d.spent = clock - b.start
        /\ d.put = b.put /\ d.poked = b.poked
    BY <1>1, <1>2, <1>3, LeftIs
  <1> HIDE DEF d
  <1>5. InTime(d, w, r)
    BY <1>1, <1>2, <1>4, Numbers DEF Fine, InTime, Going
  <1>6. Counts(d)
    BY <1>2, <1>4 DEF Counts, n
  <1> QED BY <1>4, <1>5, <1>6 DEF Fine, b, n, d

LEMMA SendtoStep ==
    ASSUME SysInv, st_sendto
    PROVE  SysInv'
  <1>1. /\ Client \in Thread /\ call[Client].at = "try" /\ call[Client].op = "sendto"
        /\ call[Client].at \in Going /\ UNCHANGED <<waiting, link, closed, clock, calls>>
    BY DEF st_sendto, In, Thread, Going
  <1>2. link' \in Links /\ (UNCHANGED wire => wire' \in Seq(Nat) /\ Len(wire') <= Cap)
    BY <1>1 DEF SysInv, Types
  <1>3. ASSUME NEW errno \in WriteErrno, Failed(Client, errno, {"EAGAIN"}), UNCHANGED wire
        PROVE  SysInv'
    <2>1. errno \in Errno \ {"ETIME"}
      BY DEF WriteErrno, Errno
    <2>2. PICK c : call' = [call EXCEPT ![Client] = c] /\ Fine(c, wakeup[Client], revents[Client])
      BY <1>1, <1>3, <2>1, FailedFine
    <2> QED BY <1>1, <1>2, <1>3, <2>2, ClientStep
  <1>4. ASSUME NEW k \in 1..Least(Room, Remaining(Client)), wire' = wire \o PutBytes(Client, k),
               call' = [call EXCEPT ![Client] = Left([@ EXCEPT !.put = PutBytes(Client, k)], k, "none")]
        PROVE  SysInv'
    <2> DEFINE b == call[Client]
               put == PutBytes(Client, k)
               d == Left([b EXCEPT !.put = put], k, "none")
    <2>1. call' = [call EXCEPT ![Client] = d]
      BY <1>4
    <2>2. Fine(b, wakeup[Client], revents[Client]) /\ b.at = "try" /\ b.op = "sendto" /\ clock \in Nat
      BY <1>1, Same
    <2>3. b.put = <<>>
      BY <2>2 DEF Fine, Counts
    <2>4. b.put \o put = put
      <3>1. put \in Seq(Nat)
        <4>1. k \in Nat /\ \A i \in 1..k : 0 + i \in Nat
          BY <1>1, <1>4, <2>3, PutIs
        <4>2. Done(Client) = 0
          BY <2>3 DEF Done
        <4>3. put = [i \in 1..k |-> 0 + i]
          BY <4>2 DEF PutBytes
        <4>4. [i \in 1..k |-> 0 + i] \in [1..k -> Nat]
          BY <4>1
        <4> QED BY <4>1, <4>3, <4>4
      <3> HIDE DEF put
      <3> QED BY <2>3, <3>1, ConcatEmptySeq
    <2>5. /\ put \in Seq(Nat) /\ Len(put) = k /\ First(put) /\ Len(put) <= b.want
          /\ wire' \in Seq(Nat) /\ Len(wire') <= Cap
      <3>1. LET all == b.put \o put
            IN  /\ all \in Seq(Nat) /\ Len(all) = Len(b.put) + k /\ k \in Nat
                /\ First(all) /\ Len(all) <= b.want /\ wire' \in Seq(Nat) /\ Len(wire') <= Cap
        BY <1>1, <1>4, <2>3, PutIs
      <3>2. Len(b.put) = 0
        BY <2>3
      <3> QED BY <2>4, <3>1, <3>2
    <2> HIDE DEF b, put
    <2>6. Fine(Left([b EXCEPT !.put = put], Len(put), "none"), wakeup[Client], revents[Client])
      BY <2>2, <2>5, SentFine
    <2>7. Fine(d, wakeup[Client], revents[Client])
      BY <2>5, <2>6
    <2> HIDE DEF d
    <2> QED BY <1>1, <1>2, <2>1, <2>5, <2>7, ClientStep
  <1> QED BY <1>3, <1>4 DEF st_sendto
-----------------------------------------------------------------------------
(* The rest of the program.                                                *)

LEMMA KernelStep ==
    ASSUME SysInv, Connection \/ CloseClient
    PROVE  SysInv'
  <1>1. UNCHANGED <<call, wakeup, revents, item, wire, clock, calls>>
    BY DEF Connection, CloseClient, waiting
  <1>2. Types'
    BY <1>1 DEF SysInv, Types, Connection, CloseClient, Links
  <1>3. AllFine'
    BY <1>1 DEF SysInv, AllFine, Fine, InTime, Counts
  <1>4. Closing'
    BY <1>1 DEF SysInv, Closing, Connection, CloseClient
  <1>5. ZeroIsEnd'
    BY <1>1 DEF SysInv, ZeroIsEnd, Returned, In, AtEnd, Connection, CloseClient
  <1> QED BY <1>2, <1>3, <1>4, <1>5 DEF SysInv

LEMMA TickStep ==
    ASSUME SysInv, Tick
    PROVE  SysInv'
  <1>1. /\ UNCHANGED <<call, wakeup, revents, item, link, wire, closed, calls>>
        /\ clock' = clock + 1 /\ clock < MaxClock
    BY DEF Tick, waiting, kernel
  <1>2. Types'
    <2>1. clock' \in 0..MaxClock
      BY <1>1, Numbers DEF SysInv, Types
    <2> QED BY <1>1, <2>1 DEF SysInv, Types
  <1>3. AllFine'
    <2> SUFFICES ASSUME NEW t \in Thread PROVE Fine(call[t], wakeup[t], revents[t])'
      BY DEF AllFine
    <2>1. /\ Fine(call[t], wakeup[t], revents[t]) /\ wakeup[t] \in Nat /\ clock \in Nat
          /\ call[t].start \in Nat /\ call[t].spent \in Nat
      BY Same DEF Fine, Call
    <2>2. /\ call[t].at \in {"idle", "blocked", "back"}
          /\ call[t].at = "blocked" => clock < wakeup[t] + Slack
      BY DEF Tick
    <2>3. InTime(call[t], wakeup[t], revents[t])'
      BY <1>1, <2>1, <2>2, Numbers DEF Fine, InTime, Going
    <2> QED BY <1>1, <2>1, <2>3 DEF Fine, Counts
  <1>4. Closing' /\ ZeroIsEnd'
    BY <1>1 DEF SysInv, Closing, ZeroIsEnd, Returned, In, AtEnd
  <1> QED BY <1>2, <1>3, <1>4 DEF SysInv

LEMMA CallsStep ==
    ASSUME SysInv, ClientCalls \/ ServerCalls
    PROVE  SysInv'
  <1>1. Client \in Thread /\ Server \in Thread /\ Client # Server
    BY SysAssumption DEF Thread
  <1>2. CASE ClientCalls
    <2>1. PICK ms \in Timeout \cup {-1}, want \in Wants :
            \/ link \in {"none", "syn"} /\ Start(Client, "connect", 0, ms)
            \/ \E op \in Sending : link \notin {"none", "syn"} /\ ~closed /\ Start(Client, op, want, ms)
      BY <1>2 DEF ClientCalls
    <2>2. CASE link \in {"none", "syn"} /\ Start(Client, "connect", 0, ms)
      <3>1. closed = FALSE
        BY <2>2 DEF SysInv, Closing, Types
      <3>2. "connect" \in Ops /\ 0 \in Wants \cup {0}
        BY DEF Ops
      <3> QED BY <1>1, <2>2, <3>1, <3>2, StartStep
    <2>3. CASE \E op \in Sending : link \notin {"none", "syn"} /\ ~closed /\ Start(Client, op, want, ms)
      <3>1. PICK op \in Sending : ~closed /\ Start(Client, op, want, ms)
        BY <2>3
      <3>2. closed = FALSE /\ op \in Ops /\ want \in Wants \cup {0}
        BY <3>1 DEF SysInv, Types, Ops
      <3> QED BY <1>1, <3>1, <3>2, StartStep
    <2> QED BY <2>1, <2>2, <2>3
  <1>3. CASE Start(Server, "accept", 0, -1)
    <2>1. "accept" \in Ops /\ 0 \in Wants \cup {0} /\ -1 \in Timeout \cup {-1}
      BY DEF Ops
    <2> QED BY <1>1, <1>3, <2>1, StartStep
  <1>4. ASSUME NEW ms \in Timeout \cup {-1}, NEW want \in Wants, NEW op \in Receiving,
               Start(Server, op, want, ms)
        PROVE  SysInv'
    <2>1. op \in Ops /\ want \in Wants \cup {0}
      BY DEF Ops
    <2> QED BY <1>1, <1>4, <2>1, StartStep
  <1> QED BY <1>2, <1>3, <1>4 DEF ServerCalls
-----------------------------------------------------------------------------
(* The theorems.                                                           *)

LEMMA SysInit == Init => SysInv
  <1> SUFFICES ASSUME Init PROVE SysInv
    OBVIOUS
  <1>1. NoCall \in Call
    <2>1. <<>> \in Seq(Nat)
      BY EmptySeq
    <2> QED BY <2>1 DEF Call, NoCall, Ops, Receiving, Sending, Steps, Errno
  <1>2. <<>> \in Seq(Nat) /\ Len(<<>>) = 0
    BY EmptySeq
  <1>3. Types
    <2>1. clock \in 0..MaxClock /\ link \in Links /\ closed \in BOOLEAN
      <3>1. clock = 0 /\ link \in Links /\ closed = FALSE
        BY DEF Init, Links
      <3>2. 0 \in 0..MaxClock
        BY Numbers
      <3> QED BY <3>1, <3>2
    <2>2. wire \in Seq(Nat) /\ Len(wire) <= Cap
      BY <1>2, Numbers DEF Init
    <2>3. call \in [Thread -> Call]
      BY <1>1 DEF Init
    <2>4. wakeup \in [Thread -> Nat] /\ revents \in [Thread -> BOOLEAN] /\ item \in [Thread -> BOOLEAN]
      BY DEF Init
    <2>5. calls \in [Thread -> 0..MaxCalls]
      BY Numbers DEF Init
    <2> QED BY <2>1, <2>2, <2>3, <2>4, <2>5 DEF Types
  <1>4. ASSUME NEW t \in Thread
        PROVE  Fine(call[t], wakeup[t], revents[t])
    <2>1. /\ call[t] = NoCall /\ NoCall.at = "idle" /\ NoCall.op = "recv" /\ NoCall.start = 0
          /\ NoCall.put = <<>> /\ NoCall.want = 0 /\ NoCall.spent = 0 /\ clock = 0
      BY DEF Init, NoCall
    <2>2. First(<<>>)
      BY <1>2 DEF First
    <2> QED BY <1>1, <1>2, <2>1, <2>2 DEF Fine, InTime, Counts, Going
  <1>5. Closing
    BY DEF Init, Closing
  <1>6. ZeroIsEnd
    <2>1. call[Server].at = "idle"
      BY DEF Init, NoCall, Thread
    <2> QED BY <2>1 DEF ZeroIsEnd, Returned, In
  <1> QED BY <1>3, <1>4, <1>5, <1>6 DEF SysInv, AllFine

LEMMA SysNext == SysInv /\ [Next]_vars => SysInv'
  <1> SUFFICES ASSUME SysInv, [Next]_vars PROVE SysInv'
    OBVIOUS
  <1>1. CASE ClientCalls \/ ServerCalls
    BY <1>1, CallsStep
  <1>2. CASE st_connect \/ st_accept
    BY <1>2, ConnectStep, AcceptStep
  <1>3. CASE st_send \/ st_sendto
    BY <1>3, SendStep, SendtoStep
  <1>4. CASE st_recv \/ st_read
    BY <1>4, ReceiveStep
  <1>5. ASSUME NEW t \in Thread, WaitFdReady(t) \/ Resume(t) \/ Dispatch(t) \/ Expire(t) \/ st_notify(t)
        PROVE  SysInv'
    BY <1>5, WaitFdReadyStep, ResumeStep, WakeStep
  <1>6. CASE Connection \/ CloseClient
    BY <1>6, KernelStep
  <1>7. CASE Tick
    BY <1>7, TickStep
  <1>8. CASE UNCHANGED vars
    <2>1. UNCHANGED <<call, wakeup, revents, item, link, wire, closed, clock, calls>>
      BY <1>8 DEF vars
    <2>2. Types'
      BY <2>1 DEF SysInv, Types
    <2>3. AllFine'
      BY <2>1 DEF SysInv, AllFine, Fine, InTime, Counts
    <2>4. Closing' /\ ZeroIsEnd'
      BY <2>1 DEF SysInv, Closing, ZeroIsEnd, Returned, In, AtEnd
    <2> QED BY <2>2, <2>3, <2>4 DEF SysInv
  <1> QED BY <1>1, <1>2, <1>3, <1>4, <1>5, <1>6, <1>7, <1>8 DEF Next

\* What the theorems below rest on holds in every reachable state.
THEOREM SysInvariant == Spec => []SysInv
  BY SysInit, SysNext, PTL DEF Spec

\* st_send and st_write (src/src/st_sys.cc) hand every byte of the buffer to the kernel
\* once and in order, whatever is refused, interrupted or written in part; they return
\* the length when all of it has gone, and an error before that.
THEOREM SendsAllAlways == Spec => []SendsAll
  <1>1. SysInv => SendsAll
    <2> SUFFICES ASSUME SysInv PROVE SendsAll
      OBVIOUS
    <2>1. \A t \in Thread : /\ call[t] \in Call /\ call[t].start <= clock
                            /\ call[t].put \in Seq(Nat) /\ call[t].want \in Nat
                            /\ First(call[t].put) /\ Len(call[t].put) <= call[t].want
      BY Same, Numbers DEF Fine, InTime, Counts, Call
    <2>2. TypeOK
      <3>1. ASSUME NEW t \in Thread
            PROVE  /\ call[t].op \in Ops /\ call[t].at \in Steps
                   /\ call[t].timeout \in Timeout \cup {0, IntMax} /\ call[t].n \in Int
                   /\ call[t].start <= clock /\ call[t].spent <= clock
                   /\ call[t].want \in Wants \cup {0} /\ Len(call[t].put) <= call[t].want
        <4>1. call[t].spent <= clock
          BY Same DEF Fine, InTime
        <4> QED BY <2>1, <4>1 DEF Call
      <3> QED BY <3>1 DEF SysInv, Types, TypeOK
    <2>3. Client \in Thread
      BY DEF Thread
    <2>4. call[Client].put = [i \in 1..Done(Client) |-> i]
      BY <2>1, <2>3 DEF First, Done
    <2>5. Returned(Client, {"send"}) =>
            IF call[Client].n >= 0
              THEN call[Client].n = call[Client].want /\ Done(Client) = call[Client].want
              ELSE Done(Client) < call[Client].want
      BY <2>3, Same DEF Fine, Counts, Returned, In, Done
    <2>6. Returned(Client, {"sendto"}) /\ call[Client].n >= 0 => Done(Client) = call[Client].n
      BY <2>3, Same DEF Fine, Counts, Returned, In, Done
    <2> QED BY <2>2, <2>4, <2>5, <2>6 DEF SendsAll
  <1> QED BY <1>1, SysInvariant, PTL

\* st_recv, st_recvfrom and st_read return 0, which their callers take for the end of
\* the stream, at the end or when nothing was asked for, and leave no byte behind.
THEOREM ZeroIsEndAlways == Spec => []ZeroIsEnd
  <1>1. SysInv => ZeroIsEnd
    BY DEF SysInv
  <1> QED BY <1>1, SysInvariant, PTL

\* No call reports ETIME before its time-out has passed, unless it was notified.
THEOREM NoEarlyTimeoutAlways == Spec => []NoEarlyTimeout
  <1>1. SysInv => NoEarlyTimeout
    BY Same DEF Fine, InTime, NoEarlyTimeout
  <1> QED BY <1>1, SysInvariant, PTL

\* A call lasts twice its time-out at most, and as much longer as the scheduler is late:
\* WaitFdReady waits the full time-out again, but only before it has passed.
THEOREM CallBoundedAlways == Spec => []CallBounded
  <1>1. SysInv => CallBounded
    <2> SUFFICES ASSUME SysInv, NEW t \in Thread, call[t].at # "idle"
                 PROVE  (IF call[t].at = "back" THEN call[t].spent ELSE clock - call[t].start)
                           <= 2 * call[t].timeout + Slack
      BY DEF CallBounded
    <2>1. /\ InTime(call[t], wakeup[t], revents[t]) /\ call[t].at \in Steps /\ wakeup[t] \in Nat
          /\ call[t].start \in Nat /\ call[t].timeout \in Nat /\ clock \in Nat
      BY Same, Numbers DEF Fine, Call
    <2>2. CASE call[t].at = "back"
      BY <2>1, <2>2 DEF InTime
    <2>3. CASE call[t].at = "blocked"
      BY <2>1, <2>3, Numbers DEF InTime
    <2>4. CASE call[t].at \in Going
      BY <2>1, <2>4 DEF InTime, Going
    <2> QED BY <2>1, <2>2, <2>3, <2>4 DEF Steps, Going
  <1> QED BY <1>1, SysInvariant, PTL
=============================================================================

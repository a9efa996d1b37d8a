------------------------------- MODULE StHeapTimer -------------------------------
(***************************************************************************)
(* The binary heap of src/stlib/st_heap.h, as an array with the position   *)
(* of every entry kept in the entry itself, and the timers on top of it    *)
(* (src/stlib/st_heap_timer.h), which the daemon's loop checks once per    *)
(* round (src/src/st_sys.h).  The scheduler keeps its sleepers in the same *)
(* heap.  The callbacks of timers start and stop timers.                   *)
(***************************************************************************)
EXTENDS Integers, Sequences

CONSTANTS
    Timer,      \* the timers
    Interval,   \* what they are started with
    Capacity,        \* m_max_, 512 or more in the code
    Restart,    \* whether a timer may be started while it is in the heap
    MaxTime     \* bound of the clock

ASSUME TimerAssumption ==
    Interval \subseteq Nat /\ {Capacity, MaxTime} \subseteq Nat \ {0} /\ Restart \in BOOLEAN

VARIABLES
    list,     \* m_list_ from 1 to m_count_
    index,    \* m_index_ of every timer, 0 outside the heap
    expired,  \* m_time_expired_; nobody reads it outside the heap, where it is 0 here
    now,      \* Util::TimeMs
    round     \* the now of the CheckExpired that is going on, or Off

HTvars == <<list, index, expired, now, round>>

Off == -1

HTInit ==
    /\ list = <<>> /\ index = [t \in Timer |-> 0] /\ expired = [t \in Timer |-> 0]
    /\ now = 1 /\ round = Off

-----------------------------------------------------------------------------
(* The heap: h has the list and the index, key is HeapValue.               *)

Put(h, pos, t) == [list |-> [h.list EXCEPT ![pos] = t], index |-> [h.index EXCEPT ![t] = pos]]
Swap(h, i, j) == Put(Put(h, i, h.list[j]), j, h.list[i])
Below(h, key, i, j) == key[h.list[i]] < key[h.list[j]]

\* Where the entry at pos goes next, or pos: the parent if it is larger; the left child
\* before the right one, if neither is larger.
Up(h, key, pos) == IF pos > 1 /\ Below(h, key, pos, pos \div 2) THEN pos \div 2 ELSE pos
Down(h, key, pos) ==
    LET left == 2 * pos
        best == IF left <= Len(h.list) /\ Below(h, key, left, pos) THEN left ELSE pos
    IN  IF left + 1 <= Len(h.list) /\ Below(h, key, left + 1, best) THEN left + 1 ELSE best

\* The loops: one that has ended stays where it is, and all end in Len(list) rounds.
Sift(h, key, pos, up) ==
    LET sifted[n \in 0..Len(h.list)] ==
            IF n = 0 THEN [heap |-> h, pos |-> pos]
            ELSE LET s == sifted[n - 1]
                     to == IF up THEN Up(s.heap, key, s.pos) ELSE Down(s.heap, key, s.pos)
                 IN  [heap |-> Swap(s.heap, s.pos, to), pos |-> to]
    IN  sifted[Len(h.list)].heap
SiftUp(h, key, pos) == Sift(h, key, pos, TRUE)
SiftDown(h, key, pos) == Sift(h, key, pos, FALSE)

\* Refuses when the heap is full or the entry has a position.
HeapPush(h, key, t) ==
    IF Len(h.list) >= Capacity \/ h.index[t] # 0 THEN h
    ELSE LET pos == Len(h.list) + 1
         IN  SiftUp([list |-> Append(h.list, t), index |-> [h.index EXCEPT ![t] = pos]], key, pos)

\* The last entry takes the place of the one that leaves.
Shortened(h, pos) ==
    LET n == Len(h.list)
        left == [list |-> SubSeq(h.list, 1, n - 1), index |-> [h.index EXCEPT ![h.list[pos]] = 0]]
    IN  IF pos = n THEN left ELSE Put(left, pos, h.list[n])
MutantHeapDelete(h, key, t) ==  \* sifts down only
    LET pos == h.index[t]
        moved == Shortened(h, pos)
    IN  IF pos \notin 1..Len(h.list) THEN h
        ELSE IF pos > Len(moved.list) THEN moved ELSE SiftDown(moved, key, pos)
HeapDelete(h, key, t) ==
    LET pos == h.index[t]
        moved == Shortened(h, pos)
    IN  IF pos \notin 1..Len(h.list) THEN h
        ELSE IF pos > Len(moved.list) THEN moved
        ELSE IF pos > 1 /\ Below(moved, key, pos, pos \div 2) THEN SiftUp(moved, key, pos)
        ELSE SiftDown(moved, key, pos)

-----------------------------------------------------------------------------
(* The timers.                                                             *)

Heap == [list |-> list, index |-> index]
Becomes(h) == list' = h.list /\ index' = h.index

\* Sets the deadline first, and then pushes.
Startup(t, interval) ==
    /\ Restart \/ index[t] = 0
    /\ LET set == [expired EXCEPT ![t] = now + interval]
           h == HeapPush(Heap, set, t)
       IN  Becomes(h) /\ expired' = [set EXCEPT ![t] = IF h.index[t] = 0 THEN 0 ELSE @]
    /\ UNCHANGED <<now, round>>

Gone(t) == Becomes(HeapDelete(Heap, expired, t)) /\ expired' = [expired EXCEPT ![t] = 0]

Stop(t) == Gone(t) /\ UNCHANGED <<now, round>>

\* HeapTop, when it is due at that time.
Due(time) == list # <<>> /\ expired[list[1]] > 0 /\ expired[list[1]] <= time

\* A round takes the time once.  Between two timers of a round only the callback
\* of the first one runs: Startup and Stop, and time, while round is not Off.
CheckExpired ==
    /\ round = Off /\ Due(now)
    /\ Gone(list[1]) /\ round' = now /\ UNCHANGED now
CheckNext ==
    /\ round # Off
    /\ IF Due(round) THEN Gone(list[1]) /\ UNCHANGED round
                     ELSE round' = Off /\ UNCHANGED <<list, index, expired>>
    /\ UNCHANGED now

Tick == now < MaxTime /\ now' = now + 1 /\ UNCHANGED <<list, index, expired, round>>

HTNext ==
    \/ \E t \in Timer : Stop(t) \/ \E d \in Interval : Startup(t, d)
    \/ CheckExpired \/ CheckNext \/ Tick

HTSpec == HTInit /\ [][HTNext]_HTvars

-----------------------------------------------------------------------------

Promise == INSTANCE Timers
    WITH due <- [t \in Timer |-> IF index[t] # 0 THEN expired[t] ELSE Off]

\* The heap and the timers implement Timers, whatever positions entries are deleted
\* from: a timer that is started fires, once, in the order of the deadlines, in the
\* first round after its own, and one that is stopped or refused does not.
ImplementsTimers == Promise!Spec
=============================================================================

--------------------------------- MODULE Timers ---------------------------------
(***************************************************************************)
(* What StHeapTimer promises: timers that were started fire in the order   *)
(* of their deadlines, none before its deadline, and a round of the daemon *)
(* (CheckExpired) ends only when none is left that was due when it began,  *)
(* even though the callbacks start and stop timers meanwhile.              *)
(***************************************************************************)
EXTENDS Integers

CONSTANTS
    Timer,     \* the timers
    Interval   \* what they are started with

VARIABLES
    due,    \* the deadline of every timer, or Off
    now,    \* the clock
    round   \* the time at which the round that is going on began, or Off

vars == <<due, now, round>>

Off == -1

Init == due = [t \in Timer |-> Off] /\ now = 1 /\ round = Off

Start(t, d) == due[t] = Off /\ due' = [due EXCEPT ![t] = now + d] /\ UNCHANGED <<now, round>>
Stop(t) == due' = [due EXCEPT ![t] = Off] /\ UNCHANGED <<now, round>>

\* The first timer of a round, or the next one: none other is due before it.
Fire(t, time) ==
    /\ due[t] # Off /\ due[t] <= time
    /\ \A u \in Timer : due[u] # Off => due[t] <= due[u]
    /\ due' = [due EXCEPT ![t] = Off]
    /\ round' = time /\ UNCHANGED now
Fires(t) == IF round = Off THEN Fire(t, now) ELSE Fire(t, round)
EndRound ==
    /\ round # Off /\ \A t \in Timer : due[t] # Off => due[t] > round
    /\ round' = Off /\ UNCHANGED <<due, now>>

Tick == now' = now + 1 /\ UNCHANGED <<due, round>>

Next ==
    \/ \E t \in Timer : Stop(t) \/ Fires(t) \/ \E d \in Interval : Start(t, d)
    \/ EndRound \/ Tick

Spec == Init /\ [][Next]_vars
=============================================================================

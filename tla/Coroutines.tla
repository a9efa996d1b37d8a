------------------------------ MODULE Coroutines ------------------------------
(***************************************************************************)
(* What the scheduler of src/src/st_thread.h promises to a program, with   *)
(* no lists, flags, heap, pool or clock: one coroutine runs; the others    *)
(* are ready, in the order in which they became ready, or waiting, or not  *)
(* there.  Leaving the processor passes it to the first ready one, and to  *)
(* the daemon when there is none; only waiting ones are ever woken.        *)
(***************************************************************************)
EXTENDS Integers, Sequences, FiniteSets, Functions

CONSTANTS Thread, Main, Idle

VARIABLES running, ready, waiting

avars == <<running, ready, waiting>>

Scheduled == {running} \cup Range(ready) \cup waiting

AInit == running = Main /\ ready = <<>> /\ waiting = {}

\* The processor goes to the first of the ready queue q.
PassTo(q) ==
    IF q = <<>> THEN running' = Idle /\ ready' = <<>>
                ELSE running' = Head(q) /\ ready' = Tail(q)

Spawn ==
    /\ running # Idle
    /\ \E t \in Thread \ (Scheduled \cup {Idle}) : ready' = Append(ready, t)
    /\ UNCHANGED <<running, waiting>>

\* Waiting threads become ready behind those that already are.
Wake(q) ==
    /\ ready' = ready \o q
    /\ UNCHANGED running

Block ==
    /\ running # Idle
    /\ waiting' = waiting \cup {running}
    /\ PassTo(ready)

\* A coroutine ends, and may be the one its parent waited for.
Exit ==
    /\ running # Idle
    /\ \/ waiting' = waiting /\ PassTo(ready)
       \/ \E t \in waiting : waiting' = waiting \ {t} /\ PassTo(Append(ready, t))

IdleTurn(q) == running = Idle /\ PassTo(ready \o q)

\* The main thread turns into the daemon, whoever is ready.
Loop == running = Main /\ running' = Idle /\ UNCHANGED <<ready, waiting>>

ANext ==
    \/ Spawn \/ Block \/ Exit \/ Loop
    \/ \E S \in SUBSET waiting : \E q \in Bijection(1..Cardinality(S), S) :
         waiting' = waiting \ S /\ (Wake(q) \/ IdleTurn(q))

ASpec == AInit /\ [][ANext]_avars
=============================================================================

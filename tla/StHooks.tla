-------------------------------- MODULE StHooks --------------------------------
(***************************************************************************)
(* The hooked system calls of src/app/st_sys.cc: the table of hooked       *)
(* descriptors (sys_fd), the items the hooks register in the event table,  *)
(* and the choice between the real system call and the timed call of       *)
(* src/src/st_sys.cc, whose outcome StSys models.  A connection            *)
(* (st_connection.h) that registers an item of its own for a descriptor it *)
(* got from sys_socket is the other user of the event table.               *)
(*                                                                         *)
(* Contract of the application: a descriptor is closed, shut down or given *)
(* another item by the coroutine that uses it, not under one that waits.   *)
(***************************************************************************)
EXTENDS Integers, FiniteSets

CONSTANTS
    Thread,   \* the coroutines
    Fd,       \* descriptor numbers
    Item,     \* the addresses at which a StEventItem can be constructed
    None,     \* NULL
    Default,  \* the 512 ms of sys_new_fd
    Timeout,  \* what setsockopt sets
    Wants     \* what fcntl and ioctl ask for: TRUE is non-blocking

ASSUME HookAssumption ==
    /\ None \notin Item /\ Default \in Nat /\ Timeout \subseteq Nat
    /\ Wants \subseteq BOOLEAN

VARIABLES
    info,     \* g_sys_fdlist: INUSE, UNBLOCK, the timeouts and hook_item
    table,    \* the event table's item for each descriptor
    own,      \* the item a connection has registered for its descriptor
    used,     \* the items out of the pool
    kernel,   \* each descriptor in the kernel: closed, block or nonblock
    hooked,   \* g_hook_flag
    call,     \* the timed call a coroutine is suspended in
    result,   \* how its last call ended: EAGAIN, EINVAL for want of an item, the same
              \* of an item that was refused, a stop of the thread, or otherwise ("over")
    asked,    \* history: what the user wanted of the open descriptor; nothing yet is
              \* "accepted" of one from sys_accept and "none" of others
    set,      \* history: the timeouts the user set for it
    lost      \* history: items the hooks have dropped without freeing them

records == <<info, table, own, used>>
history == <<asked, set, lost>>
vars == <<records, kernel, hooked, call, result, history>>

NotInUse == [inuse |-> FALSE, unblock |-> FALSE, read |-> 0, write |-> 0, item |-> None]
MutantNewFd ==  \* marked through sys_fcntl
    [NotInUse EXCEPT !.inuse = TRUE, !.unblock = TRUE, !.read = Default, !.write = Default]
NewFd == [NotInUse EXCEPT !.inuse = TRUE, !.read = Default, !.write = Default]
NoSet == [read |-> Default, write |-> Default]
NoCall == [fd |-> None, op |-> "none", res |-> "none"]

Reads  == {"read", "recvfrom"}      \* "read" is sys_read and sys_recv
Writes == {"write", "sendto"}       \* "write" is sys_write and sys_send
Ops    == Reads \cup Writes \cup {"connect"}

Init ==
    /\ info = [fd \in Fd |-> NotInUse]
    /\ table = [fd \in Fd |-> None] /\ own = [fd \in Fd |-> None] /\ used = {}
    /\ kernel = [fd \in Fd |-> "closed"]
    /\ hooked \in BOOLEAN
    /\ call = [t \in Thread |-> NoCall] /\ result = [t \in Thread |-> NoCall]
    /\ asked = [fd \in Fd |-> "none"] /\ set = [fd \in Fd |-> NoSet] /\ lost = {}

Runs(t) == call[t] = NoCall
Idle(fd) == \A t \in Thread : call[t].fd # fd
Open(fd) == kernel[fd] # "closed"

-----------------------------------------------------------------------------
(* Opening, closing and options.                                           *)

\* socket() by sys_socket, by somebody who does not go through the hooks, or accept
\* by sys_accept, whose sys_fcntl marks the new descriptor though no user has asked.
sys_socket(fd) ==
    /\ ~Open(fd)
    /\ \/ info' = [info EXCEPT ![fd] = NewFd] /\ kernel' = [kernel EXCEPT ![fd] = "nonblock"]
       \/ UNCHANGED info /\ kernel' = [kernel EXCEPT ![fd] = "block"]
    /\ UNCHANGED <<table, own, used, hooked, call, result, history>>

sys_accept(fd) ==
    /\ ~Open(fd) /\ \E listening \in Fd : Open(listening) /\ info[listening].inuse
    /\ info' = [info EXCEPT ![fd] = [NewFd EXCEPT !.unblock = TRUE]]
    /\ kernel' = [kernel EXCEPT ![fd] = "nonblock"]
    /\ asked' = [asked EXCEPT ![fd] = "accepted"]
    /\ UNCHANGED <<table, own, used, hooked, call, result, set, lost>>

\* hook_release_item: out of the table, if it is there, and into the pool.
MutantReleasedTable(fd) == table  \* straight into the pool
ReleasedTable(fd) == IF table[fd] = info[fd].item THEN [table EXCEPT ![fd] = None] ELSE table

MutantFreedInfo(fd) == [info EXCEPT ![fd].item = None]  \* the rest stays
FreedInfo(fd) == [info EXCEPT ![fd] = NotInUse]

\* sys_close.  A connection that closes releases its own item first.
sys_close(fd) ==
    /\ Open(fd) /\ Idle(fd) /\ own[fd] = None
    /\ IF info[fd].inuse
         THEN /\ info' = FreedInfo(fd)
              /\ table' = IF info[fd].item = None THEN table ELSE ReleasedTable(fd)
              /\ used' = used \ {info[fd].item}
         ELSE UNCHANGED <<info, table, used>>
    /\ kernel' = [kernel EXCEPT ![fd] = "closed"]
    /\ asked' = [asked EXCEPT ![fd] = "none"] /\ set' = [set EXCEPT ![fd] = NoSet]
    /\ UNCHANGED <<own, hooked, call, result, lost>>

\* sys_shutdown forgets the record without looking at its item.
sys_shutdown(fd) ==
    /\ Open(fd) /\ Idle(fd) /\ info[fd].inuse
    /\ info' = FreedInfo(fd)
    /\ lost' = lost \cup ({info[fd].item} \ {None})
    /\ UNCHANGED <<table, own, used, kernel, hooked, call, result, asked, set>>

\* sys_fcntl(F_SETFL) and sys_ioctl(FIONBIO): the flag is set, and never cleared.
Mark(fd, on) == IF info[fd].inuse /\ on THEN [info EXCEPT ![fd].unblock = TRUE] ELSE info

sys_fcntl(fd, on) ==
    /\ Open(fd)
    /\ info' = Mark(fd, on)
    /\ kernel' = [kernel EXCEPT ![fd] = IF on THEN "nonblock" ELSE "block"]
    /\ asked' = [asked EXCEPT ![fd] = IF on THEN "nonblock" ELSE "block"]
    /\ UNCHANGED <<table, own, used, hooked, call, result, set, lost>>

\* SO_RCVTIMEO and SO_SNDTIMEO.
sys_setsockopt(fd, which, ms) ==
    /\ Open(fd) /\ info[fd].inuse /\ hooked
    /\ info' = [info EXCEPT ![fd][which] = ms]
    /\ set' = [set EXCEPT ![fd][which] = ms]
    /\ UNCHANGED <<table, own, used, kernel, hooked, call, result, asked, lost>>

st_set_hook_flag ==
    /\ ~hooked /\ hooked' = TRUE
    /\ UNCHANGED <<records, kernel, call, result, history>>

-----------------------------------------------------------------------------
(* The other users of the event table.                                     *)

\* StClientConnection::Create and StEventSchedule::AddFd: the new item takes the
\* place of whatever the table has.
OwnItem(fd) ==
    /\ Open(fd) /\ Idle(fd) /\ own[fd] = None
    /\ \E i \in Item \ used :
         /\ used' = used \cup {i}
         /\ own' = [own EXCEPT ![fd] = i]
         /\ table' = [table EXCEPT ![fd] = i]
    /\ UNCHANGED <<info, kernel, hooked, call, result, history>>

\* StClientConnection::ReleaseItem.
ReleaseItem(fd) ==
    /\ Idle(fd) /\ own[fd] # None
    /\ table' = IF table[fd] = own[fd] THEN [table EXCEPT ![fd] = None] ELSE table
    /\ used' = used \ {own[fd]}
    /\ own' = [own EXCEPT ![fd] = None]
    /\ UNCHANGED <<info, kernel, hooked, call, result, history>>

-----------------------------------------------------------------------------
(* Reading, writing and connecting.                                        *)

End(t, op, fd, res) == result' = [result EXCEPT ![t] = [fd |-> fd, op |-> op, res |-> res]]

\* The real system call: over with whatever came of it, refused with EAGAIN, or, of
\* a descriptor that blocks, a stop of the whole operating-system thread.
RealCall(t, op, fd) ==
    /\ \E res \in {"over", IF kernel[fd] = "block" THEN "stopped" ELSE "EAGAIN"} :
         End(t, op, fd, res)
    /\ UNCHANGED <<records, kernel, hooked, call, history>>

\* hook_ensure_item.  The record of an item that a hangup took out of the table is
\* overwritten.
MutantEnsures(op) == op \in {"read", "connect"}  \* not for writes
Ensures(op) == op \in {"read", "write", "connect"}
Needs(op, fd) == Ensures(op) /\ table[fd] = None /\ hooked /\ ~info[fd].unblock

EnsureItem(op, fd) ==
    IF Needs(op, fd)
      THEN \E i \in Item \ used :
             /\ used' = used \cup {i}
             /\ table' = [table EXCEPT ![fd] = i]
             /\ info' = [info EXCEPT ![fd].item = i]
             /\ lost' = lost \cup ({info[fd].item} \ {None})
      ELSE UNCHANGED <<used, table, info, lost>>

\* A timed call that does not wait.  hook_like_libc turns the -2 of a missing item
\* into -1 with EINVAL, which is "refused" when Add has failed.
AtOnce(t, op, fd, failure) ==
    /\ \E res \in {"over"} \cup (IF table'[fd] = None THEN {failure} ELSE {})
                   \cup (IF kernel[fd] = "block" THEN {"stopped"} ELSE {}) : End(t, op, fd, res)
    /\ UNCHANGED call

\* The timed call: it is over at once, or it waits, which takes an item.
TimedCall(t, op, fd) ==
    /\ \/ /\ EnsureItem(op, fd)
          /\ \/ /\ table'[fd] # None
                /\ call' = [call EXCEPT ![t] = [fd |-> fd, op |-> op, res |-> table'[fd]]]
                /\ result' = [result EXCEPT ![t] = NoCall]
             \/ AtOnce(t, op, fd, "EINVAL")
       \/ /\ Needs(op, fd)  \* the item goes back to the pool
          /\ UNCHANGED <<used, table, info, lost>>
          /\ AtOnce(t, op, fd, "refused")
    /\ UNCHANGED <<own, kernel, hooked, asked, set>>

\* sys_connect looks at neither the hook flag nor the user's wish.
Real(op, fd) ==
    ~info[fd].inuse \/ (op # "connect" /\ (~hooked \/ info[fd].unblock))

Io(t, op, fd) ==
    /\ Runs(t) /\ Open(fd) /\ Idle(fd)
    /\ IF Real(op, fd) THEN RealCall(t, op, fd) ELSE TimedCall(t, op, fd)

\* The end of a timed call; a hangup has its item dropped from the table.
EndIo(t) ==
    /\ ~Runs(t)
    /\ call' = [call EXCEPT ![t] = NoCall]
    /\ End(t, call[t].op, call[t].fd, "over")
    /\ \E hangup \in BOOLEAN :
           table' = IF hangup THEN [table EXCEPT ![call[t].fd] = None] ELSE table
    /\ UNCHANGED <<info, own, used, kernel, hooked, history>>

Next ==
    \/ \E fd \in Fd :
         \/ sys_socket(fd) \/ sys_accept(fd) \/ sys_close(fd) \/ sys_shutdown(fd)
         \/ OwnItem(fd) \/ ReleaseItem(fd)
         \/ \E on \in Wants : sys_fcntl(fd, on)
         \/ \E which \in {"read", "write"}, ms \in Timeout : sys_setsockopt(fd, which, ms)
    \/ st_set_hook_flag
    \/ \E t \in Thread : EndIo(t) \/ \E op \in Ops, fd \in Fd : Io(t, op, fd)

Spec == Init /\ [][Next]_vars
-----------------------------------------------------------------------------
(* What the hooks owe.                                                     *)

\* The types of the variables.
TypeOK ==
    /\ info \in [Fd -> [inuse : BOOLEAN, unblock : BOOLEAN, read : Nat, write : Nat,
                        item : Item \cup {None}]]
    /\ table \in [Fd -> Item \cup {None}] /\ own \in [Fd -> Item \cup {None}]
    /\ used \subseteq Item /\ lost \subseteq Item
    /\ kernel \in [Fd -> {"closed", "block", "nonblock"}] /\ hooked \in BOOLEAN
    /\ \A t \in Thread : call[t].fd \in Fd \cup {None} /\ result[t].fd \in Fd \cup {None}

\* Besides the types: an item in the event table, in the record of a descriptor or
\* under a coroutine that waits is out of the pool; it has one owner, the hooks or
\* a connection, and what has no owner was dropped by a shutdown or after a hangup.
ItemsOwned ==
    /\ TypeOK
    /\ \A fd \in Fd : {table[fd], info[fd].item, own[fd]} \ {None} \subseteq used
    /\ \A t \in Thread : ~Runs(t) => call[t].res \in used
    /\ \A fd, gd \in Fd : info[fd].item # None =>
         info[fd].item # own[gd] /\ (info[fd].item = info[gd].item => fd = gd)
    /\ used = ((UNION {{info[fd].item, own[fd]} : fd \in Fd}) \ {None}) \cup lost

Returns(t) == result'[t] \notin {result[t], NoCall} /\ hooked

\* app/st_sys.cc:67, sys_socket: the library's own O_NONBLOCK does not count as a wish of
\* the user.  With the hooks on, a call on a descriptor of sys_socket returns
\* EAGAIN to a user who asked for that only.  This is not so of sys_accept, which goes
\* through sys_fcntl: what it returns says EAGAIN unasked.  A call stops the thread for
\* a user who asked for a blocking descriptor only, wherever it comes from.
AsAsked ==
    [][\A t \in Thread : Returns(t) /\ info[result'[t].fd].inuse =>
         /\ result'[t].res = "EAGAIN" => asked[result'[t].fd] \in {"nonblock", "accepted"}
         /\ result'[t].res = "stopped" => asked[result'[t].fd] = "block"]_vars

\* A hooked read or write of a descriptor the user left as it was always finds an
\* item to wait with, unless the event table refuses it.  The calls that do not
\* register one are the datagram calls.
WaitsWithItem ==
    [][\A t \in Thread : Returns(t) /\ result'[t].res = "EINVAL" =>
         result'[t].op \in {"recvfrom", "sendto"} \/ info[result'[t].fd].unblock]_vars

\* A hooked descriptor has the timeouts its user set since it was opened, and the
\* defaults before that: nothing is left over from an earlier descriptor of the
\* same number.
TimeoutsAreItsOwn ==
    \A fd \in Fd : Open(fd) /\ info[fd].inuse =>
        /\ info[fd].read = set[fd].read /\ info[fd].write = set[fd].write
        /\ info[fd].unblock => asked[fd] # "none"
=============================================================================

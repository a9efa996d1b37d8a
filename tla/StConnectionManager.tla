--------------------------- MODULE StConnectionManager ---------------------------
(***************************************************************************)
(* The pool of connections: StConnectionManager and the parts of           *)
(* StConnection and StClientConnection that own a socket                   *)
(* (src/src/st_connection.h), over StHashList and StNetAddrKey             *)
(* (src/stlib/st_hash_list.h), StNetAddr (st_netaddr.h) and UtilPtrPool    *)
(* (st_util.h).  Its users are tcp_sendrecv and udp_sendrecv               *)
(* (src/app/st_c.cc) and StServer (src/src/st_server.h).                   *)
(*                                                                         *)
(* A connection of a keepalive kind has an entry in the hash, found by the *)
(* pair of its addresses.  An address nobody has set is whatever was in    *)
(* memory: StNetAddr's constructor does not initialize it.                 *)
(*                                                                         *)
(* Nothing keeps two coroutines from one such connection at a time, nor    *)
(* the keys on the stack and in the heap from having different values.     *)
(*                                                                         *)
(* A coroutine asks for a connection, uses it, which suspends it, and      *)
(* gives it back.  Each action is what it does between two switches.  What *)
(* the use of a deleted connection does is undefined: a coroutine that     *)
(* holds one, or would be given one, has no step.                          *)
(***************************************************************************)
EXTENDS Integers, Sequences, FiniteSets, SequencesExt

CONSTANTS
    User,     \* the coroutines that use connections
    Conn,     \* the addresses at which a connection can be constructed
    Fd,       \* the descriptor numbers
    Addr,     \* network addresses
    None,     \* no connection, no descriptor (-1), no address given
    Asked,    \* the kinds of connection that clients ask for
    Served,   \* the kinds that servers put what they accept into (ServerT)
    Sources,  \* the source addresses asked for; None when none is
    Unset,    \* the values an address that nobody has set can have
    MaxFree,  \* UtilPtrPool's m_max_free_
    MaxEntries  \* bound: the entries of the hash

AllKinds == {"tcp", "udp", "tcp_keeplive", "udp_session"}

ASSUME ManagerAssumption ==
    /\ None \notin User \cup Conn \cup Fd \cup Addr
    /\ Asked \subseteq AllKinds /\ Served \subseteq {"tcp", "tcp_keeplive"}
    /\ Sources \subseteq Addr \cup {None}
    /\ Unset \subseteq Addr /\ Unset # {}
    /\ MaxFree \in Nat /\ MaxEntries \in Nat

VARIABLES
    conn,   \* the fields of each connection: type, dest, addr, osfd
    alive,  \* the connections that have not been deleted
    idle,   \* UtilPtrPool's m_ptr_list_
    hash,   \* m_hashlist_, the newest entry first: [dest, src, conn]
    open,   \* the open descriptors
    held,   \* the connection each coroutine uses
    found,  \* history: the hash has led AllocPtr to a connection
    lost    \* history: the sockets that Accept has put another one over

history == <<found, lost>>
vars == <<conn, alive, idle, hash, open, held, history>>

Keeplive(kind) == kind \in {"tcp_keeplive", "udp_session"}
Udp(kind) == kind \in {"udp", "udp_session"}

Init ==
    /\ conn \in [Conn -> [type : {"undef"}, dest : Unset, addr : Unset, osfd : {None}]]
    /\ alive = {} /\ idle = <<>> /\ hash = <<>> /\ open = {}
    /\ held = [u \in User |-> None]
    /\ found = FALSE /\ lost = {}

-----------------------------------------------------------------------------
(* The hash.  The entries of one bucket that have equal addresses come out *)
(* newest first; the bucket itself follows from the addresses.             *)

Matches(h, dest, src) == {i \in DOMAIN h : h[i].dest = dest /\ h[i].src = src}
FirstMatch(h, dest, src) ==
    CHOOSE i \in Matches(h, dest, src) : \A j \in Matches(h, dest, src) : i <= j

HashFindData(h, dest, src) ==
    IF Matches(h, dest, src) = {} THEN None ELSE h[FirstMatch(h, dest, src)].conn

HashInsert(h, dest, src, c) == <<[dest |-> dest, src |-> src, conn |-> c]>> \o h

HashRemove(h, dest, src) ==
    IF Matches(h, dest, src) = {} THEN h ELSE RemoveAt(h, FirstMatch(h, dest, src))

-----------------------------------------------------------------------------
(* AllocPtr and FreePtr.                                                   *)

\* The addresses a key can hold for the source s.
SrcOf(s) == IF s = None THEN Unset ELSE {s}

\* What AllocPtr(k, a, s) can return and leave behind: the connection c and its
\* fields r, the hash h and the pool q.  A connection that is found is left as
\* it is, whoever uses it.
Reused(k, a, s) ==
    {[c |-> c, r |-> conn[c], h |-> hash, q |-> idle] :
        c \in {HashFindData(hash, a, src) : src \in IF Keeplive(k) THEN SrcOf(s) ELSE {}} \cap alive}

\* Where a connection that is not found comes from, and its fields there.
Sourced == IF idle = <<>> THEN Conn \ alive ELSE {Head(idle)} \cap alive
Before(c) ==
    IF idle # <<>> THEN {conn[c]}
    ELSE [type : {"undef"}, dest : Unset, addr : Unset, osfd : {None}]

\* The key of a new entry, like the one that was looked for, has the source src;
\* the connection's own source is set with it when one was asked for, or stays.
Made(c, r, k, a, s, src) ==
    [c |-> c,
     r |-> [r EXCEPT !.type = k, !.dest = a, !.addr = IF s = None THEN @ ELSE s],
     h |-> IF Keeplive(k) THEN HashInsert(hash, a, src, c) ELSE hash,
     q |-> IF idle = <<>> THEN idle ELSE Tail(idle)]

Fresh(k, a, s) ==
    IF Keeplive(k) /\ \A src \in SrcOf(s) : HashFindData(hash, a, src) # None THEN {}
    ELSE UNION {{Made(c, r, k, a, s, src) : r \in Before(c), src \in SrcOf(s)} : c \in Sourced}

MutantAllocPtr(k, a, s) ==  \* the pool keeps what it hands out
    {[g EXCEPT !.q = idle] : g \in Reused(k, a, s) \cup Fresh(k, a, s)}
AllocPtr(k, a, s) == Reused(k, a, s) \cup Fresh(k, a, s)

Close(o, r) == o \ {r.osfd}

\* Reset leaves the two addresses as they are.
Reset(r) == [r EXCEPT !.type = "undef", !.osfd = None]

\* FreePtr of c with the fields r, when the hash is h, the pool is q and the open
\* descriptors are o.  A full pool deletes the connection, which closes it too.
FreePtr(c, r, h, q, o) ==
    /\ hash' = IF Keeplive(r.type) THEN HashRemove(h, r.dest, r.addr) ELSE h
    /\ open' = Close(o, r)
    /\ conn' = [conn EXCEPT ![c] = Reset(r)]
    /\ IF Len(q) >= MaxFree THEN idle' = q /\ alive' = alive \ {c}
                            ELSE idle' = Append(q, c) /\ alive' = alive \cup {c}

-----------------------------------------------------------------------------
(* The users.                                                              *)

Hold(u, g, r, o) ==
    /\ held' = [held EXCEPT ![u] = g.c]
    /\ conn' = [conn EXCEPT ![g.c] = r]
    /\ alive' = alive \cup {g.c}
    /\ hash' = g.h /\ idle' = g.q /\ open' = o

\* Create closes what the connection has open, whoever opened it.
MutantCleared(r) == open  \* the new socket takes its place
Cleared(r) == Close(open, r)

\* Create and StServer::Loop give the connection its address and its socket.
Placed(r, a, fd) == [r EXCEPT !.dest = a, !.osfd = fd]

\* tcp_sendrecv or udp_sendrecv: AllocPtr, and Create up to the connect, where it
\* can suspend.  If there is no socket to be had the connection is freed at once.
GetConn(u, k, a, s) ==
    /\ held[u] = None
    /\ \E g \in AllocPtr(k, a, s) :
         /\ Len(g.h) <= MaxEntries
         /\ \/ \E fd \in Fd \ Cleared(g.r) :
                 Hold(u, g, Placed(g.r, a, fd), Cleared(g.r) \cup {fd})
            \/ FreePtr(g.c, Placed(g.r, a, None), g.h, g.q, Cleared(g.r)) /\ UNCHANGED held
         /\ found' = (found \/ g \in Reused(k, a, s)) /\ UNCHANGED lost

\* StServer::Loop: the accepted socket goes into a connection, over whatever it
\* had, and a new coroutine runs CallBack.
Accept(u, k, a) ==
    /\ held[u] = None
    /\ \E g \in AllocPtr(k, a, None), fd \in Fd \ open :
         /\ Len(g.h) <= MaxEntries
         /\ Hold(u, g, Placed(g.r, a, fd), open \cup {fd})
         /\ found' = (found \/ g \in Reused(k, a, None))
         /\ lost' = lost \cup ({g.r.osfd} \ {None})

\* RecvData of a UDP connection takes over the address of the sender, or the
\* zeroed one when nothing came.
RecvUdp(u) ==
    /\ held[u] \in alive /\ Udp(conn[held[u]].type)
    /\ \E a \in Addr : conn' = [conn EXCEPT ![held[u]].dest = a]
    /\ UNCHANGED <<alive, idle, hash, open, held, history>>

\* The end of tcp_sendrecv, udp_sendrecv (a failed connect included) or CallBack.
Release(u) ==
    /\ held[u] \in alive
    /\ FreePtr(held[u], conn[held[u]], hash, idle, open)
    /\ held' = [held EXCEPT ![u] = None]
    /\ UNCHANGED history

Next ==
    \E u \in User :
        \/ \E k \in Asked, a \in Addr, s \in Sources : GetConn(u, k, a, s)
        \/ \E k \in Served, a \in Addr : Accept(u, k, a)
        \/ RecvUdp(u)
        \/ Release(u)

Spec == Init /\ [][Next]_vars
-----------------------------------------------------------------------------
(* What the pool of connections owes.                                      *)

\* The types of the variables.
TypeOK ==
    /\ conn \in [Conn -> [type : AllKinds \cup {"undef"}, dest : Addr, addr : Addr,
                          osfd : Fd \cup {None}]]
    /\ alive \subseteq Conn /\ idle \in Seq(Conn)
    /\ hash \in Seq([dest : Addr, src : Addr, conn : Conn])
    /\ open \subseteq Fd /\ held \in [User -> Conn \cup {None}]
    /\ found \in BOOLEAN /\ lost \subseteq Fd

InUse == {u \in User : held[u] # None}

\* Besides the types: a connection that is handed out is in nobody else's hands, and
\* the pool has each connection once.  AllocPtr and FreePtr owe this until the hash
\* leads AllocPtr to a connection: that one has a user already, or is pooled, as an
\* entry can stay behind when its connection goes back.
OneUser ==
    /\ TypeOK
    /\ ~found =>
         /\ \A u, v \in InUse : held[u] = held[v] => u = v
         /\ \A u \in InUse : held[u] \in alive \ Range(idle)
         /\ IsInjective(idle) /\ Range(idle) \subseteq alive

\* Reset, Create and the destructor: every open socket is the one of one connection,
\* which somebody uses, or a server has put another one over it.  None leaks otherwise
\* and none is closed twice when connections are pooled, reused or deleted, also when
\* coroutines share a connection or the pool has it twice.
SocketsOwned ==
    /\ open = ({conn[c].osfd : c \in Conn} \ {None}) \cup lost
    /\ \A c, d \in Conn : conn[c].osfd = conn[d].osfd => c = d \/ conn[c].osfd = None
    /\ \A c \in Conn : conn[c].osfd # None =>
         /\ c \in alive /\ conn[c].osfd \notin lost
         /\ \E u \in InUse : held[u] = c
=============================================================================

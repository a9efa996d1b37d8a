------------------------------ MODULE StLib_proofs ------------------------------
(***************************************************************************)
(* Two components that the library's threads keep their objects in.        *)
(*                                                                         *)
(* That the pool of connections hands each of them to one coroutine until  *)
(* the hash leads it to one, and keeps no socket and closes none twice     *)
(* even then, for any numbers of coroutines, connections, descriptors and  *)
(* addresses, any size of the pool and whatever the addresses hold that    *)
(* nobody has set.                                                         *)
(*                                                                         *)
(* And that the array heap with the timers on it implements the timers of  *)
(* Timers, for any number of timers and any size of the heap: sifting the  *)
(* one entry that is out of order puts all in order, so that pushing and   *)
(* deleting keep the order, and the first entry has the least deadline.    *)
(***************************************************************************)
EXTENDS StConnectionManager, StHeapTimer, SequenceTheorems, WellFoundedInduction, TLAPS

-----------------------------------------------------------------------------
(* Sequences without repetitions, and without one element.                 *)

LEMMA EmptyRange == Range(<<>>) = {} /\ IsInjective(<<>>)
  BY DEF Range, IsInjective

LEMMA Appended ==
    ASSUME NEW S, NEW q \in Seq(S), NEW x \in S
    PROVE  /\ Append(q, x) \in Seq(S)
           /\ Range(Append(q, x)) = Range(q) \cup {x}
           /\ IsInjective(q) /\ x \notin Range(q) => IsInjective(Append(q, x))
  <1> DEFINE r == Append(q, x)
             n == Len(q)
  <1>1. /\ r \in Seq(S) /\ Len(r) = n + 1 /\ r[n + 1] = x /\ \A k \in 1 .. n : r[k] = q[k]
        /\ n \in Nat /\ DOMAIN q = 1 .. n
    OBVIOUS
  <1>2. DOMAIN r = 1 .. (n + 1)
    BY <1>1
  <1> HIDE DEF r, n
  <1>3. \A k \in 1 .. (n + 1) : k = n + 1 \/ k \in 1 .. n
    BY <1>1
  <1>4. n + 1 \in 1 .. (n + 1) /\ \A k \in 1 .. n : k \in 1 .. (n + 1) /\ k # n + 1
    BY <1>1
  <1>5. Range(r) = Range(q) \cup {x}
    BY <1>1, <1>2, <1>3, <1>4 DEF Range
  <1>6. ASSUME IsInjective(q), x \notin Range(q) PROVE IsInjective(r)
    BY <1>1, <1>2, <1>3, <1>4, <1>6 DEF IsInjective, Range
  <1> QED BY <1>1, <1>5, <1>6 DEF r

\* The first element of a sequence without repetitions, and the others.
LEMMA TailOf ==
    ASSUME NEW S, NEW q \in Seq(S), q # <<>>, IsInjective(q)
    PROVE  /\ Head(q) \in Range(q) /\ Tail(q) \in Seq(S)
           /\ Range(Tail(q)) = Range(q) \ {Head(q)} /\ IsInjective(Tail(q))
  <1> DEFINE r == Tail(q)
             n == Len(q)
  <1>1. /\ r \in Seq(S) /\ Len(r) = n - 1 /\ Head(q) = q[1] /\ \A k \in 1 .. (n - 1) : r[k] = q[k + 1]
        /\ n \in Nat /\ n # 0 /\ DOMAIN q = 1 .. n
    OBVIOUS
  <1>2. DOMAIN r = 1 .. (n - 1)
    BY <1>1
  <1> HIDE DEF r, n
  <1>3. \A k \in 1 .. (n - 1) : k + 1 \in 1 .. n /\ k + 1 # 1
    BY <1>1
  <1>4. \A k \in 1 .. n : k = 1 \/ \E l \in 1 .. (n - 1) : k = l + 1
    <2> SUFFICES ASSUME NEW k \in 1 .. n, k # 1 PROVE \E l \in 1 .. (n - 1) : k = l + 1
      OBVIOUS
    <2>1. k - 1 \in 1 .. (n - 1) /\ k = (k - 1) + 1
      BY <1>1
    <2> QED BY <2>1
  <1>5. 1 \in 1 .. n
    BY <1>1
  <1>6. Range(r) = Range(q) \ {q[1]}
    <2>1. \A k \in 1 .. n : q[k] = q[1] => k = 1
      BY <1>1, <1>5 DEF IsInjective
    <2>2. \A y : y \in Range(r) <=> \E k \in 1 .. (n - 1) : y = q[k + 1]
      BY <1>1, <1>2 DEF Range
    <2>3. \A y : y \in Range(q) <=> \E k \in 1 .. n : y = q[k]
      BY <1>1 DEF Range
    <2> QED BY <1>3, <1>4, <1>5, <2>1, <2>2, <2>3
  <1>7. IsInjective(r)
    <2> SUFFICES ASSUME NEW k \in 1 .. (n - 1), NEW l \in 1 .. (n - 1), r[k] = r[l] PROVE k = l
      BY <1>2 DEF IsInjective
    <2>1. k + 1 \in DOMAIN q /\ l + 1 \in DOMAIN q /\ q[k + 1] = q[l + 1]
      BY <1>1, <1>3
    <2>2. k + 1 = l + 1
      BY <2>1 DEF IsInjective
    <2> QED BY <1>1, <2>2
  <1>8. Head(q) \in Range(q)
    BY <1>1, <1>5 DEF Range
  <1> QED BY <1>1, <1>6, <1>7, <1>8 DEF r

LEMMA LeastOf ==
    ASSUME NEW S \in SUBSET Nat, S # {}
    PROVE  \E x \in S : \A y \in S : x <= y
  <1> DEFINE R == OpToRel(<, Nat)
  <1>1. IsWellFoundedOn(R, Nat)
    BY NatLessThanWellFounded
  <1>2. R = {p \in Nat \X Nat : p[1] < p[2]}
    BY DEF OpToRel
  <1> HIDE DEF R
  <1>3. PICK x \in S : \A y \in S : <<y, x>> \notin R
    BY <1>1, WFMin
  <1>4. \A y \in S : ~(y < x)
    BY <1>2, <1>3
  <1> QED BY <1>4

LEMMA RemovedAt ==
    ASSUME NEW S, NEW q \in Seq(S), NEW j \in 1 .. Len(q)
    PROVE  RemoveAt(q, j) \in Seq(S)
  <1> DEFINE n == Len(q)
             a == SubSeq(q, 1, j - 1)
             b == SubSeq(q, j + 1, n)
  <1>1. n \in Nat /\ j \in 1 .. n /\ \A k \in 1 .. n : q[k] \in S
    BY LenProperties, ElementOfSeq
  <1>2. RemoveAt(q, j) = a \o b
    BY DEF RemoveAt
  <1> HIDE DEF n
  <1>3. a \in Seq(S)
    <2>1. 1 \in Int /\ j - 1 \in Int /\ \A k \in 1 .. (j - 1) : q[k] \in S
      BY <1>1
    <2> QED BY ONLY <2>1, SubSeqProperties
  <1>4. b \in Seq(S)
    <2>1. j + 1 \in Int /\ n \in Int /\ \A k \in (j + 1) .. n : q[k] \in S
      BY <1>1
    <2> QED BY ONLY <2>1, SubSeqProperties
  <1> HIDE DEF a, b
  <1> QED BY <1>2, <1>3, <1>4, ConcatProperties
-----------------------------------------------------------------------------
(* The pool of connections.                                                *)

Cell == [type : AllKinds \cup {"undef"}, dest : Addr, addr : Addr, osfd : Fd \cup {None}]
Row == [dest : Addr, src : Addr, conn : Conn]

\* What HashFindData finds, and what HashRemove leaves.
LEMMA Found ==
    ASSUME NEW h \in Seq(Row), NEW dest, NEW src, Matches(h, dest, src) # {}
    PROVE  FirstMatch(h, dest, src) \in 1 .. Len(h)
  <1> DEFINE M == Matches(h, dest, src)
  <1>1. M \subseteq 1 .. Len(h) /\ Len(h) \in Nat
    BY DEF Matches
  <1>2. M \in SUBSET Nat /\ M # {}
    BY <1>1
  <1> HIDE DEF M
  <1>3. \E i \in M : \A j \in M : i <= j
    BY <1>2, LeastOf
  <1> QED BY <1>1, <1>3 DEF FirstMatch, M

LEMMA FoundData ==
    ASSUME NEW h \in Seq(Row), NEW dest, NEW src
    PROVE  HashFindData(h, dest, src) \in Conn \cup {None}
  <1>1. ASSUME Matches(h, dest, src) # {} PROVE h[FirstMatch(h, dest, src)] \in Row
    BY <1>1, Found, ElementOfSeq
  <1> QED BY <1>1 DEF HashFindData, Row

LEMMA HashRemoved ==
    ASSUME NEW h \in Seq(Row), NEW dest, NEW src
    PROVE  HashRemove(h, dest, src) \in Seq(Row)
  BY Found, RemovedAt DEF HashRemove

LEMMA HashInserted ==
    ASSUME NEW h \in Seq(Row), NEW dest \in Addr, NEW src \in Addr, NEW c \in Conn
    PROVE  HashInsert(h, dest, src, c) \in Seq(Row)
  <1>1. [dest |-> dest, src |-> src, conn |-> c] \in Row
    BY DEF Row
  <1> QED BY <1>1 DEF HashInsert

\* The fields of a connection with its address and its socket, or without both.
LEMMA PlacedCell ==
    ASSUME NEW r \in Cell, NEW a \in Addr, NEW f \in Fd \cup {None}
    PROVE  Placed(r, a, f) \in Cell /\ Placed(r, a, f).osfd = f
  BY DEF Cell, Placed

LEMMA ResetCell ==
    ASSUME NEW r \in Cell
    PROVE  Reset(r) \in Cell /\ Reset(r).osfd = None
  BY DEF Cell, Reset

-----------------------------------------------------------------------------
(* What AllocPtr hands out.                                                *)

\* It leaves the socket in the connection as it was, and none is in a new one.
Handed(g) ==
    /\ g.c \in Conn /\ g.r \in Cell /\ g.r.osfd = conn[g.c].osfd
    /\ g.h \in Seq(Row) /\ g.q \in Seq(Conn)

LEMMA Allocated ==
    ASSUME TypeOK, SocketsOwned, NEW k \in AllKinds, NEW a \in Addr, NEW s \in Addr \cup {None},
           NEW g \in AllocPtr(k, a, s)
    PROVE  Handed(g)
  <1>1. /\ conn \in [Conn -> Cell] /\ hash \in Seq(Row) /\ idle \in Seq(Conn) /\ alive \subseteq Conn
        /\ Unset \subseteq Addr /\ None \notin Conn
    BY ManagerAssumption DEF TypeOK, Cell, Row
  <1>2. SrcOf(s) \subseteq Addr
    BY <1>1 DEF SrcOf
  <1>3. CASE g \in Reused(k, a, s)
    <2>1. PICK c \in alive : g = [c |-> c, r |-> conn[c], h |-> hash, q |-> idle]
      BY <1>3 DEF Reused
    <2> QED BY <1>1, <2>1 DEF Handed
  <1>4. CASE g \in Fresh(k, a, s)
    <2>0. PICK c \in Sourced : g \in {Made(c, r, k, a, s, src) : r \in Before(c), src \in SrcOf(s)}
      BY <1>4 DEF Fresh
    <2>1. PICK r \in Before(c), src \in SrcOf(s) : g = Made(c, r, k, a, s, src)
      BY <2>0
    <2>2. c \in Conn /\ r \in Cell /\ r.osfd = conn[c].osfd
      <3>1. CASE idle = <<>>
        <4>1. c \in Conn /\ c \notin alive /\ r \in [type : {"undef"}, dest : Unset, addr : Unset, osfd : {None}]
          BY <2>1, <3>1 DEF Sourced, Before
        <4>2. r \in Cell /\ r.osfd = None
          BY <1>1, <4>1 DEF Cell
        <4> QED BY <3>1, <4>1, <4>2 DEF SocketsOwned
      <3>2. CASE idle # <<>>
        <4>1. c \in alive /\ r = conn[c]
          BY <2>1, <3>2 DEF Sourced, Before
        <4> QED BY <1>1, <3>2, <4>1
      <3> QED BY <3>1, <3>2
    <2>3. g.r \in Cell /\ g.r.osfd = r.osfd
      <3>1. g.r = [r EXCEPT !.type = k, !.dest = a, !.addr = IF s = None THEN @ ELSE s]
        BY <2>1 DEF Made
      <3> QED BY <2>2, <3>1 DEF Cell
    <2>4. HashInsert(hash, a, src, c) \in Seq(Row)
      BY <1>1, <1>2, <2>2, HashInserted
    <2>5. g.c = c /\ g.h \in Seq(Row) /\ g.q \in Seq(Conn)
      <3>1. g.h = (IF Keeplive(k) THEN HashInsert(hash, a, src, c) ELSE hash)
            /\ g.q = (IF idle = <<>> THEN idle ELSE Tail(idle)) /\ g.c = c
        BY <2>1 DEF Made
      <3>2. idle # <<>> => Tail(idle) \in Seq(Conn)
        BY <1>1
      <3> QED BY <1>1, <2>4, <3>1, <3>2
    <2> QED BY <2>2, <2>3, <2>5 DEF Handed
  <1> QED BY <1>3, <1>4 DEF AllocPtr

\* One that the hash has not led to is in nobody's hands and out of the pool that is left.
Spare(g) ==
    /\ \A v \in InUse : held[v] # g.c
    /\ IsInjective(g.q) /\ Range(g.q) \subseteq alive \ {g.c} /\ Range(g.q) \subseteq Range(idle)

LEMMA AllocatedFresh ==
    ASSUME OneUser, ~found, NEW k, NEW a, NEW s, NEW g \in Fresh(k, a, s)
    PROVE  Spare(g)
  <1>1. idle \in Seq(Conn) /\ IsInjective(idle) /\ Range(idle) \subseteq alive
    BY DEF OneUser, TypeOK
  <1>0. PICK c \in Sourced : g \in {Made(c, r, k, a, s, src) : r \in Before(c), src \in SrcOf(s)}
    BY DEF Fresh
  <1>2. PICK r \in Before(c), src \in SrcOf(s) : g = Made(c, r, k, a, s, src)
    BY <1>0
  <1>3. g.c = c /\ g.q = IF idle = <<>> THEN idle ELSE Tail(idle)
    BY <1>2 DEF Made
  <1>4. CASE idle = <<>>
    <2>1. c \in Conn \ alive /\ g.q = <<>>
      BY <1>2, <1>3, <1>4 DEF Sourced
    <2> QED BY <1>3, <2>1, EmptyRange DEF OneUser, Spare
  <1>5. CASE idle # <<>>
    <2>1. c = Head(idle) /\ g.q = Tail(idle)
      BY <1>2, <1>3, <1>5 DEF Sourced
    <2>2. c \in Range(idle) /\ Range(g.q) = Range(idle) \ {c} /\ IsInjective(g.q)
      BY <1>1, <1>5, <2>1, TailOf
    <2>3. \A v \in InUse : held[v] # c
      BY <2>2 DEF OneUser
    <2> QED BY <1>1, <1>3, <2>2, <2>3 DEF Spare
  <1> QED BY <1>4, <1>5

-----------------------------------------------------------------------------
(* The sockets.                                                            *)

\* A connection gets a new descriptor; the one it had is closed, or lost.
LEMMA HoldStep ==
    ASSUME TypeOK, SocketsOwned, NEW u \in User, held[u] = None, NEW g, Handed(g),
           NEW o, o = ({conn[d].osfd : d \in Conn \ {g.c}} \ {None}) \cup lost',
           lost' \subseteq lost \cup {conn[g.c].osfd}, lost' \subseteq Fd, found' \in BOOLEAN,
           NEW fd \in Fd \ o, NEW r \in Cell, r.osfd = fd, Hold(u, g, r, o \cup {fd})
    PROVE  TypeOK' /\ SocketsOwned'
  <1> DEFINE c == g.c
  <1>1. c \in Conn /\ g.h \in Seq(Row) /\ g.q \in Seq(Conn)
    BY DEF Handed
  <1>2. /\ held' = [held EXCEPT ![u] = c] /\ conn' = [conn EXCEPT ![c] = r]
        /\ alive' = alive \cup {c} /\ hash' = g.h /\ idle' = g.q /\ open' = o \cup {fd}
    BY DEF Hold
  <1>3. conn \in [Conn -> Cell] /\ alive \subseteq Conn /\ held \in [User -> Conn \cup {None}]
    BY DEF TypeOK, Cell
  <1>4. o = ({conn[d].osfd : d \in Conn \ {c}} \ {None}) \cup lost' /\ lost' \subseteq lost \cup {conn[c].osfd}
    OBVIOUS
  <1> HIDE DEF c
  <1>5. conn' \in [Conn -> Cell] /\ conn'[c] = r /\ \A d \in Conn \ {c} : conn'[d] = conn[d]
    BY <1>1, <1>2, <1>3
  <1>6. /\ held' \in [User -> Conn \cup {None}] /\ held'[u] = c /\ u \in InUse'
        /\ \A v \in InUse : v \in InUse' /\ held'[v] = held[v]
    BY <1>1, <1>2, <1>3, ManagerAssumption DEF InUse
  <1>7. TypeOK'
    <2>1. \A d \in Conn : conn[d].osfd \in Fd \cup {None}
      BY <1>3 DEF Cell
    <2>2. o \cup {fd} \subseteq Fd
      BY <1>4, <2>1
    <2> QED BY <1>1, <1>2, <1>3, <1>5, <1>6, <2>2 DEF TypeOK, Cell, Row
  <1>8. /\ \A d, e \in Conn : conn[d].osfd = conn[e].osfd => d = e \/ conn[d].osfd = None
        /\ \A d \in Conn : conn[d].osfd # None => d \in alive /\ conn[d].osfd \notin lost /\ \E v \in InUse : held[v] = d
    BY DEF SocketsOwned
  <1>9. \A d \in Conn \ {c} : /\ conn'[d].osfd = conn[d].osfd
                              /\ (conn[d].osfd # None => conn[d].osfd \in o /\ conn[d].osfd \notin lost')
    BY <1>1, <1>4, <1>5, <1>8
  <1>10. conn'[c].osfd = fd /\ fd \notin o /\ fd # None /\ fd \notin lost'
    BY <1>4, <1>5, ManagerAssumption
  <1>11. open' = ({conn'[d].osfd : d \in Conn} \ {None}) \cup lost'
    <2>1. \A f \in o : f \in lost' \/ \E d \in Conn \ {c} : conn'[d].osfd = f /\ f # None
      BY <1>4, <1>9
    <2>2. \A d \in Conn : conn'[d].osfd # None => conn'[d].osfd \in o \cup {fd}
      BY <1>9, <1>10
    <2>3. lost' \subseteq o
      BY <1>4
    <2> QED BY <1>1, <1>2, <1>10, <2>1, <2>2, <2>3
  <1>12. \A d, e \in Conn : conn'[d].osfd = conn'[e].osfd => d = e \/ conn'[d].osfd = None
    BY <1>8, <1>9, <1>10
  <1>13. \A d \in Conn : conn'[d].osfd # None =>
             d \in alive' /\ conn'[d].osfd \notin lost' /\ \E v \in InUse' : held'[v] = d
    BY <1>2, <1>6, <1>8, <1>9, <1>10
  <1> QED BY <1>7, <1>11, <1>12, <1>13 DEF SocketsOwned

\* FreePtr closes the socket of the connection, and the coroutines that hold others
\* go on holding them.
LEMMA FreeStep ==
    ASSUME TypeOK, SocketsOwned, NEW c \in Conn, NEW r \in Cell, NEW h \in Seq(Row),
           NEW q \in Seq(Conn), NEW o, Close(o, r) = open \ {conn[c].osfd},
           FreePtr(c, r, h, q, o), held' \in [User -> Conn \cup {None}],
           found' \in BOOLEAN, lost' = lost, \A v \in InUse : held[v] # c => held'[v] = held[v]
    PROVE  TypeOK' /\ SocketsOwned'
  <1>1. conn \in [Conn -> Cell] /\ alive \subseteq Conn /\ open \subseteq Fd /\ held \in [User -> Conn \cup {None}]
    BY DEF TypeOK, Cell
  <1>2. /\ open' = open \ {conn[c].osfd} /\ conn' = [conn EXCEPT ![c] = Reset(r)]
        /\ alive \ {c} \subseteq alive' /\ alive' \subseteq Conn /\ idle' \in Seq(Conn)
    <2>1. idle' \in {q, Append(q, c)} /\ alive' \in {alive \ {c}, alive \cup {c}}
      BY DEF FreePtr
    <2>2. Append(q, c) \in Seq(Conn)
      OBVIOUS
    <2>3. open' = open \ {conn[c].osfd} /\ conn' = [conn EXCEPT ![c] = Reset(r)]
      BY DEF FreePtr
    <2> QED BY <1>1, <2>1, <2>2, <2>3
  <1>3. hash' \in Seq(Row)
    BY HashRemoved DEF FreePtr
  <1>4. Reset(r) \in Cell /\ Reset(r).osfd = None
    BY ResetCell
  <1>5. conn' \in [Conn -> Cell] /\ conn'[c].osfd = None /\ \A d \in Conn \ {c} : conn'[d] = conn[d]
    BY <1>1, <1>2, <1>4
  <1>6. TypeOK'
    BY <1>1, <1>2, <1>3, <1>5 DEF TypeOK, Cell, Row
  <1>7. /\ open = ({conn[d].osfd : d \in Conn} \ {None}) \cup lost /\ None \notin lost
        /\ \A d, e \in Conn : conn[d].osfd = conn[e].osfd => d = e \/ conn[d].osfd = None
        /\ \A d \in Conn : conn[d].osfd # None =>
               d \in alive /\ conn[d].osfd \notin lost /\ \E v \in InUse : held[v] = d
    BY ManagerAssumption DEF SocketsOwned, TypeOK
  <1>8. open' = ({conn'[d].osfd : d \in Conn} \ {None}) \cup lost'
    <2>1. \A f \in open' : f \in lost' \/ \E d \in Conn \ {c} : conn'[d].osfd = f /\ f # None
      BY <1>2, <1>5, <1>7
    <2>3. lost' \subseteq open'
      BY <1>2, <1>7
    <2>2. \A d \in Conn : conn'[d].osfd # None => conn'[d].osfd \in open'
      <3> SUFFICES ASSUME NEW d \in Conn, conn'[d].osfd # None PROVE conn'[d].osfd \in open'
        OBVIOUS
      <3>1. d # c /\ conn'[d].osfd = conn[d].osfd
        BY <1>5
      <3> QED BY <1>2, <1>7, <3>1
    <2> QED BY <2>1, <2>2, <2>3
  <1>9. \A d, e \in Conn : conn'[d].osfd = conn'[e].osfd => d = e \/ conn'[d].osfd = None
    <2> SUFFICES ASSUME NEW d \in Conn, NEW e \in Conn, conn'[d].osfd = conn'[e].osfd, conn'[d].osfd # None
                 PROVE  d = e
      OBVIOUS
    <2>1. d # c /\ e # c
      BY <1>5
    <2> QED BY <1>5, <1>7, <2>1
  <1>10. \A d \in Conn : conn'[d].osfd # None =>
             d \in alive' /\ conn'[d].osfd \notin lost' /\ \E v \in InUse' : held'[v] = d
    <2> SUFFICES ASSUME NEW d \in Conn, conn'[d].osfd # None
                 PROVE  d \in alive' /\ conn'[d].osfd \notin lost' /\ \E v \in InUse' : held'[v] = d
      OBVIOUS
    <2>1. d # c /\ conn[d].osfd # None /\ conn'[d].osfd = conn[d].osfd
      BY <1>5
    <2>2. d \in alive /\ conn[d].osfd \notin lost /\ \E v \in InUse : held[v] = d
      BY <1>7, <2>1
    <2>3. PICK v \in InUse : held[v] = d
      BY <2>2
    <2>4. held'[v] = d /\ v \in InUse'
      BY <2>1, <2>3 DEF InUse
    <2> QED BY <1>2, <2>1, <2>2, <2>4
  <1> QED BY <1>6, <1>8, <1>9, <1>10 DEF SocketsOwned

\* What is left open when the connection c closes its socket.
LEMMA ClosedIs ==
    ASSUME TypeOK, SocketsOwned, NEW c \in Conn
    PROVE  open \ {conn[c].osfd} = ({conn[d].osfd : d \in Conn \ {c}} \ {None}) \cup lost
  <1>1. /\ open = ({conn[d].osfd : d \in Conn} \ {None}) \cup lost /\ None \notin lost
        /\ \A d, e \in Conn : conn[d].osfd = conn[e].osfd => d = e \/ conn[d].osfd = None
        /\ \A d \in Conn : conn[d].osfd # None => conn[d].osfd \notin lost
    BY ManagerAssumption DEF SocketsOwned, TypeOK
  <1> DEFINE M == {conn[d].osfd : d \in Conn \ {c}}
  <1>2. ASSUME NEW f \in open \ {conn[c].osfd} PROVE f \in (M \ {None}) \cup lost
    BY <1>1
  <1>3. ASSUME NEW f \in (M \ {None}) \cup lost PROVE f \in open \ {conn[c].osfd}
    <2>1. CASE f \in lost
      BY <1>1, <2>1
    <2>2. CASE f \in M \ {None}
      BY <1>1, <2>2
    <2> QED BY <1>3, <2>1, <2>2
  <1> QED BY <1>2, <1>3

LEMMA GetConnStep ==
    ASSUME TypeOK, SocketsOwned, NEW u \in User, NEW k \in Asked, NEW a \in Addr, NEW s \in Sources,
           GetConn(u, k, a, s)
    PROVE  TypeOK' /\ SocketsOwned'
  <1>1. k \in AllKinds /\ s \in Addr \cup {None} /\ held[u] = None
    <2>1. held[u] = None
      BY DEF GetConn
    <2> QED BY <2>1, ManagerAssumption
  <1>2. PICK g \in AllocPtr(k, a, s) :
              /\ \/ \E fd \in Fd \ Cleared(g.r) : Hold(u, g, Placed(g.r, a, fd), Cleared(g.r) \cup {fd})
                 \/ (FreePtr(g.c, Placed(g.r, a, None), g.h, g.q, Cleared(g.r)) /\ UNCHANGED held)
              /\ found' = (found \/ g \in Reused(k, a, s)) /\ lost' = lost
    BY DEF GetConn
  <1>3. Handed(g)
    BY <1>1, Allocated
  <1>4. /\ Cleared(g.r) = open \ {conn[g.c].osfd}
        /\ g.c \in Conn /\ g.r \in Cell /\ g.h \in Seq(Row) /\ g.q \in Seq(Conn)
    BY <1>3 DEF Cleared, Close, Handed
  <1>7. found' \in BOOLEAN /\ lost' = lost /\ lost \subseteq Fd
    BY <1>2 DEF TypeOK
  <1>5. ASSUME NEW fd \in Fd \ Cleared(g.r), Hold(u, g, Placed(g.r, a, fd), Cleared(g.r) \cup {fd})
        PROVE  TypeOK' /\ SocketsOwned'
    <2>1. Placed(g.r, a, fd) \in Cell /\ Placed(g.r, a, fd).osfd = fd
      BY <1>4, PlacedCell
    <2>2. Cleared(g.r) = ({conn[d].osfd : d \in Conn \ {g.c}} \ {None}) \cup lost'
      BY <1>4, <1>7, ClosedIs
    <2> QED BY <1>1, <1>3, <1>4, <1>5, <1>7, <2>1, <2>2, HoldStep
  <1>6. ASSUME FreePtr(g.c, Placed(g.r, a, None), g.h, g.q, Cleared(g.r)), UNCHANGED held
        PROVE  TypeOK' /\ SocketsOwned'
    <2>1. Placed(g.r, a, None) \in Cell /\ Placed(g.r, a, None).osfd = None
      BY <1>4, PlacedCell
    <2>2. Close(Cleared(g.r), Placed(g.r, a, None)) = open \ {conn[g.c].osfd}
      BY <1>4, <2>1, ManagerAssumption DEF Close, TypeOK
    <2>3. held' \in [User -> Conn \cup {None}]
      BY <1>6 DEF TypeOK
    <2> QED BY <1>4, <1>6, <1>7, <2>1, <2>2, <2>3, FreeStep
  <1> QED BY <1>2, <1>5, <1>6

\* An accepted socket is put over the one the connection has, which nobody closes.
LEMMA AcceptStep ==
    ASSUME TypeOK, SocketsOwned, NEW u \in User, NEW k \in Served, NEW a \in Addr, Accept(u, k, a)
    PROVE  TypeOK' /\ SocketsOwned'
  <1>1. k \in AllKinds /\ held[u] = None
    BY ManagerAssumption DEF Accept, AllKinds
  <1>2. PICK g \in AllocPtr(k, a, None), fd \in Fd \ open :
              /\ Hold(u, g, Placed(g.r, a, fd), open \cup {fd})
              /\ found' = (found \/ g \in Reused(k, a, None))
              /\ lost' = lost \cup ({g.r.osfd} \ {None})
    BY DEF Accept
  <1>3. Handed(g) /\ g.c \in Conn /\ g.r \in Cell /\ g.r.osfd = conn[g.c].osfd
    BY <1>1, Allocated DEF Handed
  <1>4. Placed(g.r, a, fd) \in Cell /\ Placed(g.r, a, fd).osfd = fd
    BY <1>3, PlacedCell
  <1>5. lost' = lost \cup ({conn[g.c].osfd} \ {None}) /\ found' \in BOOLEAN
    BY <1>2, <1>3 DEF TypeOK
  <1>6. lost' \subseteq Fd /\ lost' \subseteq lost \cup {conn[g.c].osfd}
    <2>1. conn[g.c].osfd \in Fd \cup {None} /\ lost \subseteq Fd
      BY <1>3 DEF Cell, TypeOK
    <2> QED BY <1>5, <2>1
  <1>7. open = ({conn[d].osfd : d \in Conn \ {g.c}} \ {None}) \cup lost'
    <2>1. open = ({conn[d].osfd : d \in Conn} \ {None}) \cup lost
      BY DEF SocketsOwned
    <2>2. {conn[d].osfd : d \in Conn} = {conn[d].osfd : d \in Conn \ {g.c}} \cup {conn[g.c].osfd}
      BY <1>3
    <2> QED BY <1>5, <2>1, <2>2
  <1> QED BY <1>1, <1>2, <1>3, <1>4, <1>5, <1>6, <1>7, HoldStep

LEMMA RecvUdpStep ==
    ASSUME TypeOK, SocketsOwned, NEW u \in User, RecvUdp(u)
    PROVE  TypeOK' /\ SocketsOwned'
  <1> DEFINE c == held[u]
  <1>1. conn \in [Conn -> Cell] /\ c \in Conn /\ InUse' = InUse
        /\ UNCHANGED <<alive, idle, hash, open, held, found, lost>>
    BY DEF TypeOK, RecvUdp, InUse, Cell, history
  <1>2. PICK a \in Addr : conn' = [conn EXCEPT ![c].dest = a]
    BY DEF RecvUdp
  <1> HIDE DEF c
  <1>3. conn' \in [Conn -> Cell] /\ \A d \in Conn : conn'[d].osfd = conn[d].osfd
    BY <1>1, <1>2 DEF Cell
  <1>4. TypeOK'
    BY <1>1, <1>3 DEF TypeOK, Cell
  <1>5. {conn'[d].osfd : d \in Conn} = {conn[d].osfd : d \in Conn}
    BY <1>3
  <1> QED BY <1>1, <1>3, <1>4, <1>5 DEF SocketsOwned

LEMMA ReleaseStep ==
    ASSUME TypeOK, SocketsOwned, NEW u \in User, Release(u)
    PROVE  TypeOK' /\ SocketsOwned'
  <1> DEFINE c == held[u]
             r == conn[c]
  <1>1. /\ c \in Conn /\ r \in Cell /\ hash \in Seq(Row) /\ idle \in Seq(Conn)
        /\ held \in [User -> Conn \cup {None}]
    BY DEF TypeOK, Release, Cell, Row
  <1>2. /\ FreePtr(c, r, hash, idle, open) /\ held' = [held EXCEPT ![u] = None]
        /\ lost' = lost /\ found' \in BOOLEAN
    BY DEF Release, history, TypeOK
  <1>3. Close(open, r) = open \ {conn[c].osfd}
    BY DEF Close
  <1>4. \A v \in InUse : held[v] # c => held'[v] = held[v]
    BY <1>1, <1>2 DEF InUse
  <1>5. held' \in [User -> Conn \cup {None}]
    BY <1>1, <1>2
  <1> HIDE DEF c, r
  <1> QED BY <1>1, <1>2, <1>3, <1>4, <1>5, FreeStep

-----------------------------------------------------------------------------
(* One user: until the hash leads AllocPtr to a connection.                 *)

LEMMA OneHold ==
    ASSUME OneUser, ~found, NEW u \in User, held[u] = None, NEW g, g.c \in Conn, Spare(g),
           NEW r, NEW o, Hold(u, g, r, o), TypeOK'
    PROVE  OneUser'
  <1> DEFINE c == g.c
  <1>1. /\ c \in Conn /\ \A v \in InUse : held[v] # c
        /\ held' = [held EXCEPT ![u] = c] /\ alive' = alive \cup {c} /\ idle' = g.q
        /\ IsInjective(g.q) /\ Range(g.q) \subseteq alive \ {c} /\ Range(g.q) \subseteq Range(idle)
    BY DEF Hold, Spare
  <1>2. /\ \A v \in InUse : held[v] \in alive \ Range(idle)
        /\ \A v, w \in InUse : held[v] = held[w] => v = w
    BY DEF OneUser
  <1> HIDE DEF c
  <1>3. InUse' = InUse \cup {u} /\ held'[u] = c /\ u \notin InUse /\ \A v \in InUse : held'[v] = held[v]
    BY <1>1, ManagerAssumption DEF InUse, OneUser, TypeOK
  <1>4. \A v, w \in InUse' : held'[v] = held'[w] => v = w
    BY <1>1, <1>2, <1>3
  <1>5. \A v \in InUse' : held'[v] \in alive' \ Range(idle')
    BY <1>1, <1>2, <1>3
  <1> QED BY <1>1, <1>4, <1>5 DEF OneUser

\* What FreePtr does with the pool.
LEMMA OneFree ==
    ASSUME OneUser, ~found, NEW c \in Conn, NEW r, NEW h, NEW q \in Seq(Conn), NEW o,
           IsInjective(q), Range(q) \subseteq alive \ {c}, Range(q) \subseteq Range(idle),
           FreePtr(c, r, h, q, o), TypeOK',
           InUse' \subseteq InUse, \A v \in InUse' : held'[v] = held[v] /\ held[v] # c
    PROVE  OneUser'
  <1>1. /\ IsInjective(idle') /\ Range(idle') \subseteq alive'
        /\ Range(idle') \subseteq Range(q) \cup {c} /\ alive \ {c} \subseteq alive'
    <2>1. CASE idle' = q /\ alive' = alive \ {c}
      BY <2>1
    <2>2. CASE idle' = Append(q, c) /\ alive' = alive \cup {c}
      <3>1. c \notin Range(q)
        OBVIOUS
      <3>2. Range(Append(q, c)) = Range(q) \cup {c} /\ IsInjective(Append(q, c))
        BY <3>1, Appended
      <3> QED BY <2>2, <3>2
    <2> QED BY <2>1, <2>2 DEF FreePtr
  <1>2. /\ \A v \in InUse : held[v] \in alive \ Range(idle)
        /\ \A v, w \in InUse : held[v] = held[w] => v = w
    BY DEF OneUser
  <1>3. \A v \in InUse' : held'[v] \in alive' \ Range(idle')
    BY <1>1, <1>2
  <1> QED BY <1>1, <1>2, <1>3 DEF OneUser

LEMMA OneUserStep ==
    ASSUME OneUser, SocketsOwned, [Next]_vars
    PROVE  OneUser' /\ SocketsOwned'
  <1>1. TypeOK /\ InUse \subseteq User /\ found \in BOOLEAN
    BY DEF OneUser, InUse, TypeOK
  <1>0. ASSUME TypeOK', found' PROVE OneUser'
    BY <1>0 DEF OneUser
  <1>2. ASSUME NEW u \in User, NEW k \in Asked, NEW a \in Addr, NEW s \in Sources, GetConn(u, k, a, s)
        PROVE  OneUser' /\ SocketsOwned'
    <2>1. k \in AllKinds /\ s \in Addr \cup {None} /\ held[u] = None
      <3>1. held[u] = None
        BY <1>2 DEF GetConn
      <3> QED BY <3>1, ManagerAssumption
    <2>2. PICK g \in AllocPtr(k, a, s) :
                /\ \E o, r : \/ Hold(u, g, r, o)
                             \/ (FreePtr(g.c, r, g.h, g.q, o) /\ UNCHANGED held)
                /\ found' = (found \/ g \in Reused(k, a, s))
      BY <1>2 DEF GetConn
    <2>0. PICK o, r : Hold(u, g, r, o) \/ (FreePtr(g.c, r, g.h, g.q, o) /\ UNCHANGED held)
      BY <2>2
    <2>3. Handed(g)
      BY <1>1, <2>1, Allocated
    <2>4. TypeOK' /\ SocketsOwned'
      BY <1>1, <1>2, GetConnStep
    <2>7. CASE found'
      BY <1>0, <2>4, <2>7
    <2>8. CASE ~found'
      <3>0. ~found /\ Spare(g)
        <4>1. ~found /\ g \in Fresh(k, a, s)
          BY <2>2, <2>8 DEF AllocPtr
        <4> QED BY <4>1, AllocatedFresh
      <3>1. CASE Hold(u, g, r, o)
        BY <2>1, <2>3, <2>4, <3>0, <3>1, OneHold DEF Handed
      <3>2. CASE FreePtr(g.c, r, g.h, g.q, o) /\ UNCHANGED held
        <4>1. InUse' = InUse /\ \A v \in InUse : held'[v] = held[v] /\ held[v] # g.c
          BY <3>0, <3>2 DEF InUse, Spare
        <4>2. g.c \in Conn /\ g.q \in Seq(Conn)
          BY <2>3 DEF Handed
        <4> QED BY <2>4, <3>0, <3>2, <4>1, <4>2, OneFree DEF Spare
      <3> QED BY <2>0, <2>4, <3>1, <3>2
    <2> QED BY <2>7, <2>8, <2>4
  <1>3. ASSUME NEW u \in User, NEW k \in Served, NEW a \in Addr, Accept(u, k, a)
        PROVE  OneUser' /\ SocketsOwned'
    <2>1. k \in AllKinds /\ held[u] = None
      BY <1>3, ManagerAssumption DEF Accept, AllKinds
    <2>2. PICK g \in AllocPtr(k, a, None) :
                (\E o, r : Hold(u, g, r, o)) /\ found' = (found \/ g \in Reused(k, a, None))
      BY <1>3 DEF Accept
    <2>0. PICK o, r : Hold(u, g, r, o)
      BY <2>2
    <2>3. Handed(g)
      BY <1>1, <2>1, Allocated
    <2>4. TypeOK' /\ SocketsOwned'
      BY <1>1, <1>3, <2>1, AcceptStep
    <2>5. CASE found'
      BY <1>0, <2>4, <2>5
    <2>6. CASE ~found'
      <3>1. ~found /\ g \in Fresh(k, a, None)
        BY <2>2, <2>6 DEF AllocPtr
      <3>2. Spare(g)
        BY <3>1, AllocatedFresh
      <3> QED BY <2>0, <2>1, <2>3, <2>4, <3>1, <3>2, OneHold DEF Handed
    <2> QED BY <2>4, <2>5, <2>6
  <1>4. ASSUME NEW u \in User, RecvUdp(u)
        PROVE  OneUser' /\ SocketsOwned'
    <2>1. TypeOK' /\ SocketsOwned'
      BY <1>1, <1>4, RecvUdpStep
    <2>2. UNCHANGED <<alive, idle, held, found>>
      BY <1>4 DEF RecvUdp, history
    <2> QED BY <2>1, <2>2 DEF OneUser, InUse
  <1>5. ASSUME NEW u \in User, Release(u)
        PROVE  OneUser' /\ SocketsOwned'
    <2>1. TypeOK' /\ SocketsOwned'
      BY <1>1, <1>5, ReleaseStep
    <2>0. found' = found
      BY <1>5 DEF Release, history
    <2>6. CASE found'
      BY <1>0, <2>1, <2>6
    <2>7. CASE ~found'
      <3>1. /\ u \in InUse /\ held[u] \in Conn /\ held' = [held EXCEPT ![u] = None]
            /\ FreePtr(held[u], conn[held[u]], hash, idle, open)
        BY <1>1, <1>5, ManagerAssumption DEF Release, InUse, TypeOK
      <3>2. /\ IsInjective(idle) /\ Range(idle) \subseteq alive \ {held[u]} /\ idle \in Seq(Conn)
            /\ \A v, w \in InUse : held[v] = held[w] => v = w
        BY <2>0, <2>7, <3>1 DEF OneUser, TypeOK
      <3>3. InUse' = InUse \ {u} /\ \A v \in InUse' : held'[v] = held[v] /\ held[v] # held[u]
        BY <1>1, <3>1, <3>2 DEF InUse, TypeOK
      <3> DEFINE c == held[u]
                 r == conn[c]
      <3>4. /\ c \in Conn /\ Range(idle) \subseteq alive \ {c} /\ FreePtr(c, r, hash, idle, open)
            /\ \A v \in InUse' : held'[v] = held[v] /\ held[v] # c
            /\ InUse' \subseteq InUse /\ ~found
        BY <2>0, <2>7, <3>1, <3>2, <3>3
      <3> HIDE DEF c, r
      <3> QED BY <2>1, <3>2, <3>4, OneFree
    <2> QED BY <2>1, <2>6, <2>7
  <1>6. CASE UNCHANGED vars
    BY <1>6 DEF vars, history, OneUser, SocketsOwned, TypeOK, InUse
  <1> QED BY <1>2, <1>3, <1>4, <1>5, <1>6 DEF Next

LEMMA PoolInit == Init => OneUser /\ SocketsOwned
  <1> SUFFICES ASSUME Init PROVE OneUser /\ SocketsOwned
    OBVIOUS
  <1>1. \A c \in Conn : /\ conn[c] \in [type : {"undef"}, dest : Unset, addr : Unset, osfd : {None}]
                        /\ conn[c] \in Cell /\ conn[c].osfd = None
    BY ManagerAssumption DEF Init, Cell
  <1>2. conn \in [Conn -> Cell]
    BY <1>1 DEF Init
  <1>6. found \in BOOLEAN /\ lost \subseteq Fd /\ alive \subseteq Conn /\ open \subseteq Fd
    BY DEF Init
  <1>7. idle \in Seq(Conn) /\ hash \in Seq(Row) /\ held \in [User -> Conn \cup {None}]
    BY DEF Init
  <1>3. TypeOK
    BY <1>2, <1>6, <1>7 DEF TypeOK, Cell, Row
  <1>4. InUse = {} /\ Range(idle) = {} /\ IsInjective(idle)
    BY EmptyRange DEF Init, InUse
  <1>5. {conn[c].osfd : c \in Conn} \ {None} = {}
    BY <1>1
  <1> QED BY <1>1, <1>3, <1>4, <1>5 DEF OneUser, SocketsOwned, Init

-----------------------------------------------------------------------------
(* The theorems.                                                           *)

\* However coroutines ask for connections of any kinds, use and return them, and
\* whatever the addresses hold that nobody has set: until the hash leads AllocPtr to a
\* connection, no two coroutines have the same one, and none is in the pool twice or
\* while it is used (AllocPtr, FreePtr).
THEOREM OneUserAlways == Spec => []OneUser
  <1>1. Init => OneUser /\ SocketsOwned
    BY PoolInit
  <1>2. OneUser /\ SocketsOwned /\ [Next]_vars => OneUser' /\ SocketsOwned'
    BY OneUserStep
  <1> QED BY <1>1, <1>2, PTL DEF Spec

\* No socket stays open when its connection goes back to the pool or is deleted, and
\* each is the one of a single connection that somebody uses (Create, Close, Reset), also
\* when coroutines share a connection.  Only a server that puts an accepted socket
\* over another one leaves that open.
THEOREM SocketsOwnedAlways == Spec => []SocketsOwned
  <1>1. Init => OneUser /\ SocketsOwned
    BY PoolInit
  <1>2. OneUser /\ SocketsOwned /\ [Next]_vars => OneUser' /\ SocketsOwned'
    BY OneUserStep
  <1> QED BY <1>1, <1>2, PTL DEF Spec

-----------------------------------------------------------------------------
(* The heap.                                                               *)

Heaps == [list : Seq(Timer), index : [Timer -> Nat]]
Keys == [Timer -> Nat]

\* The positions of the entries are the ones the entries have.
Linked(h) ==
    /\ \A i \in 1..Len(h.list) : h.list[i] \in Timer /\ h.index[h.list[i]] = i
    /\ \A t \in Timer : h.index[t] # 0 => h.index[t] \in 1..Len(h.list) /\ h.list[h.index[t]] = t

\* Nobody is below its parent; but for the entry at pos, whose children are not below
\* its parent either; but for the children of the entry at pos, the same.
Order(h, key, i, j) == key[h.list[i]] <= key[h.list[j]]
Ordered(h, key) == \A i \in 2..Len(h.list) : Order(h, key, i \div 2, i)
Grand(h, key, pos) ==
    \A i \in 2..Len(h.list) : i \div 2 = pos /\ pos > 1 => Order(h, key, pos \div 2, i)
OrderedUp(h, key, pos) ==
    /\ \A i \in 2..Len(h.list) : i # pos => Order(h, key, i \div 2, i)
    /\ Grand(h, key, pos)
OrderedDown(h, key, pos) ==
    /\ \A i \in 2..Len(h.list) : i \div 2 # pos => Order(h, key, i \div 2, i)
    /\ Grand(h, key, pos)

\* The same entries are in both.
SameIn(h, g) == \A t \in Timer : h.index[t] = 0 <=> g.index[t] = 0

LEMMA Halves ==
    ASSUME NEW i \in Nat, i >= 2
    PROVE  /\ i \div 2 \in Nat /\ 1 <= i \div 2 /\ i \div 2 < i
           /\ i = 2 * (i \div 2) \/ i = 2 * (i \div 2) + 1
  OBVIOUS

LEMMA Doubles ==
    ASSUME NEW p \in Nat, p >= 1
    PROVE  /\ (2 * p) \div 2 = p /\ (2 * p + 1) \div 2 = p /\ 2 * p \in Nat /\ 2 * p + 1 \in Nat
           /\ p < 2 * p
  OBVIOUS

LEMMA HeapIs ==
    ASSUME NEW h \in Heaps
    PROVE  /\ h.list \in Seq(Timer) /\ h.index \in [Timer -> Nat] /\ Len(h.list) \in Nat
           /\ \A i \in 1..Len(h.list) : h.list[i] \in Timer
  <1>1. h.list \in Seq(Timer) /\ h.index \in [Timer -> Nat]
    BY DEF Heaps
  <1> QED BY <1>1, LenProperties, ElementOfSeq

\* The least entry is the first one.
LEMMA FirstIsLeast ==
    ASSUME NEW h \in Heaps, NEW key \in Keys, Ordered(h, key), NEW j \in 1..Len(h.list)
    PROVE  key[h.list[1]] <= key[h.list[j]]
  <1> DEFINE B == {i \in 1..Len(h.list) : ~(key[h.list[1]] <= key[h.list[i]])}
  <1>1. Len(h.list) \in Nat /\ \A i \in 1..Len(h.list) : h.list[i] \in Timer /\ key[h.list[i]] \in Nat
    BY HeapIs DEF Keys
  <1>2. ASSUME B # {} PROVE FALSE
    <2>1. B \in SUBSET Nat
      BY <1>1
    <2>2. PICK i \in B : \A k \in B : i <= k
      <3> HIDE DEF B
      <3> QED BY <1>2, <2>1, LeastOf
    <2>3. i \in 1..Len(h.list) /\ ~(key[h.list[1]] <= key[h.list[i]])
      OBVIOUS
    <2>4. i # 1
      BY <1>1, <2>3
    <2>5. i \in Nat /\ i >= 2 /\ i \in 2..Len(h.list)
      BY <1>1, <2>3, <2>4
    <2>6. /\ i \div 2 \in 1..Len(h.list) /\ ~(i <= i \div 2)
      BY <1>1, <2>5, Halves
    <2>7. i \div 2 \notin B
      <3> HIDE DEF B
      <3> QED BY <2>2, <2>6
    <2>8. key[h.list[1]] <= key[h.list[i \div 2]]
      BY <2>6, <2>7
    <2>9. key[h.list[i \div 2]] <= key[h.list[i]]
      BY <2>5 DEF Ordered, Order
    <2>10. 1 \in 1..Len(h.list)
      BY <1>1, <2>3
    <2> QED BY <1>1, <2>3, <2>6, <2>8, <2>9, <2>10
  <1> QED BY <1>2
-----------------------------------------------------------------------------
(* One round of sifting.                                                   *)

LEMMA SwapIs ==
    ASSUME NEW h \in Heaps, Linked(h), NEW p \in 1..Len(h.list), NEW q \in 1..Len(h.list)
    PROVE  /\ Swap(h, p, q) \in Heaps /\ Linked(Swap(h, p, q)) /\ SameIn(h, Swap(h, p, q))
           /\ Len(Swap(h, p, q).list) = Len(h.list)
           /\ \A i \in 1..Len(h.list) :
                 Swap(h, p, q).list[i] = IF i = p THEN h.list[q] ELSE IF i = q THEN h.list[p] ELSE h.list[i]
  <1> DEFINE a == h.list[p]
             b == h.list[q]
             l2 == [[h.list EXCEPT ![p] = b] EXCEPT ![q] = a]
             x2 == [[h.index EXCEPT ![b] = p] EXCEPT ![a] = q]
             g == [list |-> l2, index |-> x2]
  <1>1. /\ h.list \in Seq(Timer) /\ h.index \in [Timer -> Nat] /\ Len(h.list) \in Nat
        /\ \A i \in 1..Len(h.list) : h.list[i] \in Timer
    BY HeapIs
  <1>2. Swap(h, p, q) = g
    BY DEF Swap, Put
  <1>3. /\ l2 \in Seq(Timer) /\ Len(l2) = Len(h.list)
        /\ \A i \in 1..Len(h.list) : l2[i] = IF i = p THEN b ELSE IF i = q THEN a ELSE h.list[i]
    <2> DEFINE l == [h.list EXCEPT ![p] = b]
    <2>1. l \in Seq(Timer) /\ Len(l) = Len(h.list) /\ \A i \in 1..Len(h.list) : l[i] = IF i = p THEN b ELSE h.list[i]
      BY <1>1, ExceptSeq
    <2> HIDE DEF l
    <2>2. /\ [l EXCEPT ![q] = a] \in Seq(Timer) /\ Len([l EXCEPT ![q] = a]) = Len(l)
          /\ \A i \in 1..Len(l) : [l EXCEPT ![q] = a][i] = IF i = q THEN a ELSE l[i]
      BY <1>1, <2>1, ExceptSeq
    <2> QED BY <2>1, <2>2 DEF l
  <1>4. /\ x2 \in [Timer -> Nat]
        /\ \A t \in Timer : x2[t] = IF t = a THEN q ELSE IF t = b THEN p ELSE h.index[t]
    <2> DEFINE x == [h.index EXCEPT ![b] = p]
    <2>1. a \in Timer /\ b \in Timer /\ p \in Nat /\ q \in Nat
      BY <1>1
    <2> HIDE DEF a, b
    <2>2. x \in [Timer -> Nat] /\ \A t \in Timer : x[t] = IF t = b THEN p ELSE h.index[t]
      BY <1>1, <2>1
    <2> HIDE DEF x
    <2>3. /\ [x EXCEPT ![a] = q] \in [Timer -> Nat]
          /\ \A t \in Timer : [x EXCEPT ![a] = q][t] = IF t = a THEN q ELSE x[t]
      BY <2>1, <2>2
    <2> QED BY <2>2, <2>3 DEF x
  <1> HIDE DEF l2, x2
  <1>5. g \in Heaps
    BY <1>3, <1>4 DEF Heaps
  <1>6. /\ h.index[a] = p /\ h.index[b] = q /\ (a = b <=> p = q)
        /\ \A i \in 1..Len(h.list) : h.index[h.list[i]] = i
    BY DEF Linked
  <1>7. Linked(g)
    <2>1. ASSUME NEW i \in 1..Len(h.list) PROVE l2[i] \in Timer /\ x2[l2[i]] = i
      <3>1. CASE i = p
        <4>1. l2[i] = b /\ b \in Timer /\ x2[b] = IF b = a THEN q ELSE p
          BY <1>1, <1>3, <1>4, <3>1
        <4> QED BY <1>6, <3>1, <4>1
      <3>2. CASE i = q /\ i # p
        BY <1>1, <1>3, <1>4, <3>2
      <3>3. CASE i # p /\ i # q
        <4>1. l2[i] = h.list[i] /\ h.list[i] \in Timer /\ h.index[h.list[i]] = i
          BY <1>1, <1>3, <1>6, <3>3
        <4> QED BY <1>4, <1>6, <3>3, <4>1
      <3> QED BY <3>1, <3>2, <3>3
    <2>2. ASSUME NEW t \in Timer, x2[t] # 0 PROVE x2[t] \in 1..Len(h.list) /\ l2[x2[t]] = t
      <3>1. CASE t = a
        BY <1>3, <1>4, <1>6, <3>1
      <3>2. CASE t = b /\ t # a
        BY <1>3, <1>4, <1>6, <3>2
      <3>3. CASE t # a /\ t # b
        <4>1. x2[t] = h.index[t] /\ h.index[t] \in 1..Len(h.list) /\ h.list[h.index[t]] = t
          BY <1>4, <2>2, <3>3 DEF Linked
        <4> QED BY <1>3, <3>3, <4>1
      <3> QED BY <3>1, <3>2, <3>3
    <2> QED BY <1>3, <2>1, <2>2 DEF Linked
  <1>8. SameIn(h, g)
    <2>1. p # 0 /\ q # 0
      BY <1>1
    <2>2. ASSUME NEW t \in Timer PROVE h.index[t] = 0 <=> x2[t] = 0
      BY <1>4, <1>6, <2>1
    <2> QED BY <2>2 DEF SameIn
  <1> QED BY <1>2, <1>3, <1>5, <1>7, <1>8

\* What is known of the keys after a swap.
LEMMA KeysSwapped ==
    ASSUME NEW h \in Heaps, Linked(h), NEW key \in Keys,
           NEW p \in 1..Len(h.list), NEW q \in 1..Len(h.list), NEW g, g = Swap(h, p, q)
    PROVE  /\ g \in Heaps /\ Len(g.list) = Len(h.list)
           /\ \A i \in 1..Len(h.list) : key[h.list[i]] \in Nat /\ key[g.list[i]] \in Nat
           /\ key[g.list[p]] = key[h.list[q]] /\ key[g.list[q]] = key[h.list[p]]
           /\ \A i \in 1..Len(h.list) : i # p /\ i # q => key[g.list[i]] = key[h.list[i]]
  <1>1. /\ g \in Heaps /\ Len(g.list) = Len(h.list)
        /\ \A i \in 1..Len(h.list) :
              g.list[i] = IF i = p THEN h.list[q] ELSE IF i = q THEN h.list[p] ELSE h.list[i]
    BY SwapIs
  <1>2. /\ \A i \in 1..Len(h.list) : h.list[i] \in Timer
        /\ \A i \in 1..Len(g.list) : g.list[i] \in Timer
    BY <1>1, HeapIs
  <1>3. \A i \in 1..Len(h.list) : key[h.list[i]] \in Nat /\ key[g.list[i]] \in Nat
    BY <1>1, <1>2 DEF Keys
  <1>4. g.list[p] = h.list[q] /\ g.list[q] = h.list[p]
    BY <1>1
  <1>5. \A i \in 1..Len(h.list) : i # p /\ i # q => g.list[i] = h.list[i]
    BY <1>1
  <1> QED BY <1>1, <1>3, <1>4, <1>5

\* An entry that stays moves nothing.
LEMMA StaysOrdered ==
    ASSUME NEW h \in Heaps, Linked(h), NEW key \in Keys, NEW p \in 1..Len(h.list), Ordered(h, key),
           NEW g, g = Swap(h, p, p)
    PROVE  Ordered(g, key)
  <1>1. /\ Len(g.list) = Len(h.list) /\ Len(h.list) \in Nat
        /\ \A i \in 1..Len(h.list) : i # p => key[g.list[i]] = key[h.list[i]]
        /\ key[g.list[p]] = key[h.list[p]]
    BY KeysSwapped, HeapIs
  <1>2. ASSUME NEW i \in 2..Len(g.list) PROVE Order(g, key, i \div 2, i)
    <2>1. i \in 1..Len(h.list) /\ i \div 2 \in 1..Len(h.list) /\ i \in 2..Len(h.list)
      BY <1>1, Halves
    <2>2. key[h.list[i \div 2]] <= key[h.list[i]]
      BY <2>1 DEF Ordered, Order
    <2> QED BY <1>1, <2>1, <2>2 DEF Order
  <1> QED BY <1>2 DEF Ordered

LEMMA UpRound ==
    ASSUME NEW h \in Heaps, Linked(h), NEW key \in Keys, NEW p \in 1..Len(h.list),
           OrderedUp(h, key, p), NEW q, q = Up(h, key, p), NEW g, g = Swap(h, p, q)
    PROVE  /\ q \in 1..Len(h.list) /\ OrderedUp(g, key, q)
           /\ q < p \/ (q = p /\ Ordered(g, key))
           /\ Ordered(h, key) => q = p
  <1>1. Len(h.list) \in Nat /\ \A i \in 1..Len(h.list) : h.list[i] \in Timer /\ key[h.list[i]] \in Nat
    BY HeapIs DEF Keys
  <1>2. ASSUME NEW i \in 2..Len(h.list)
        PROVE  /\ i \in 1..Len(h.list) /\ i \div 2 \in 1..Len(h.list) /\ i \div 2 < i
    BY <1>1, Halves
  <1>3. ASSUME NEW i \in 2..Len(h.list), i # p PROVE key[h.list[i \div 2]] <= key[h.list[i]]
    BY <1>3 DEF OrderedUp, Order
  <1>4. ASSUME NEW i \in 2..Len(h.list), i \div 2 = p, p > 1 PROVE key[h.list[p \div 2]] <= key[h.list[i]]
    BY <1>4 DEF OrderedUp, Grand, Order
  <1>5. CASE p > 1 /\ Below(h, key, p, p \div 2)
    <2>1. q = p \div 2 /\ p \in 2..Len(h.list) /\ q \in 1..Len(h.list) /\ q < p
      BY <1>1, <1>2, <1>5 DEF Up
    <2>2. key[h.list[p]] < key[h.list[q]]
      BY <1>5, <2>1 DEF Below
    <2>3. /\ Len(g.list) = Len(h.list)
          /\ key[g.list[p]] = key[h.list[q]] /\ key[g.list[q]] = key[h.list[p]]
          /\ \A i \in 1..Len(h.list) : i # p /\ i # q => key[g.list[i]] = key[h.list[i]]
      BY <2>1, KeysSwapped
    <2>4. ASSUME NEW i \in 2..Len(h.list), i # q PROVE key[g.list[i \div 2]] <= key[g.list[i]]
      <3>1. i \in 1..Len(h.list) /\ i \div 2 \in 1..Len(h.list) /\ i \div 2 < i
        BY <1>2
      <3>2. CASE i = p
        BY <1>1, <2>1, <2>2, <2>3, <3>2
      <3>3. CASE i # p /\ i \div 2 = p
        <4>1. key[h.list[q]] <= key[h.list[i]]
          BY <1>4, <2>1, <3>3
        <4> QED BY <2>3, <2>4, <3>1, <3>3, <4>1
      <3>4. CASE i # p /\ i \div 2 = q
        <4>1. key[h.list[q]] <= key[h.list[i]]
          BY <1>3, <3>4
        <4>2. key[g.list[i \div 2]] = key[h.list[p]] /\ key[g.list[i]] = key[h.list[i]]
          BY <2>3, <2>4, <3>1, <3>4
        <4>3. key[h.list[q]] \in Nat /\ key[h.list[p]] \in Nat /\ key[h.list[i]] \in Nat
          BY <1>1, <2>1, <3>1
        <4> QED BY <2>2, <4>1, <4>2, <4>3
      <3>5. CASE i # p /\ i \div 2 # p /\ i \div 2 # q
        <4>1. key[h.list[i \div 2]] <= key[h.list[i]]
          BY <1>3, <3>5
        <4> QED BY <2>3, <2>4, <3>1, <3>5, <4>1
      <3> QED BY <3>2, <3>3, <3>4, <3>5
    <2>5. ASSUME NEW i \in 2..Len(h.list), i \div 2 = q, q > 1 PROVE key[g.list[q \div 2]] <= key[g.list[i]]
      <3>1. q \in 2..Len(h.list) /\ q \div 2 \in 1..Len(h.list) /\ q \div 2 < q /\ q # p
            /\ i \in 1..Len(h.list) /\ i # q
        BY <1>1, <1>2, <2>1, <2>5
      <3>2. key[h.list[q \div 2]] <= key[h.list[q]] /\ key[g.list[q \div 2]] = key[h.list[q \div 2]]
        <4>1. q # p /\ q \div 2 # p /\ q \div 2 # q
          BY <1>1, <2>1, <3>1
        <4> QED BY <1>3, <2>3, <3>1, <4>1
      <3>3. CASE i = p
        BY <2>3, <3>2, <3>3
      <3>4. CASE i # p
        <4>1. key[h.list[q]] <= key[h.list[i]]
          BY <1>3, <2>5, <3>4
        <4>2. key[g.list[i]] = key[h.list[i]]
          BY <2>3, <3>1, <3>4
        <4>3. key[h.list[q]] \in Nat /\ key[h.list[q \div 2]] \in Nat /\ key[h.list[i]] \in Nat
          BY <1>1, <2>1, <3>1
        <4> QED BY <3>2, <4>1, <4>2, <4>3
      <3> QED BY <3>3, <3>4
    <2>6. OrderedUp(g, key, q)
      BY <2>3, <2>4, <2>5 DEF OrderedUp, Grand, Order
    <2>7. ~Ordered(h, key)
      <3>1. Ordered(h, key) => key[h.list[q]] <= key[h.list[p]]
        BY <2>1 DEF Ordered, Order
      <3>2. key[h.list[q]] \in Nat /\ key[h.list[p]] \in Nat
        BY <1>1, <2>1
      <3> QED BY <2>2, <3>1, <3>2
    <2> QED BY <2>1, <2>6, <2>7
  <1>6. CASE ~(p > 1 /\ Below(h, key, p, p \div 2))
    <2>1. q = p
      BY <1>6 DEF Up
    <2>2. ASSUME NEW i \in 2..Len(h.list), i = p PROVE key[h.list[i \div 2]] <= key[h.list[i]]
      <3>1. p > 1 /\ p \in 2..Len(h.list) /\ p \div 2 \in 1..Len(h.list)
        BY <1>1, <1>2, <2>2
      <3>2. ~(key[h.list[p]] < key[h.list[p \div 2]])
        BY <1>6, <3>1 DEF Below
      <3> QED BY <1>1, <2>2, <3>1, <3>2
    <2>3. Ordered(h, key)
      BY <1>3, <2>2 DEF Ordered, Order
    <2>4. Ordered(g, key)
      BY <2>1, <2>3, StaysOrdered
    <2>5. OrderedUp(g, key, p)
      <3>1. /\ Len(g.list) = Len(h.list) /\ key[g.list[p]] = key[h.list[p]]
            /\ \A i \in 1..Len(h.list) : i # p => key[g.list[i]] = key[h.list[i]]
        BY <2>1, KeysSwapped
      <3>2. ASSUME NEW i \in 2..Len(h.list), i \div 2 = p, p > 1 PROVE key[g.list[p \div 2]] <= key[g.list[i]]
        <4>1. p \in 2..Len(h.list)
          BY <1>1, <3>2
        <4>2. p \div 2 \in 1..Len(h.list) /\ i \in 1..Len(h.list)
          BY <1>2, <4>1
        <4> QED BY <1>4, <3>1, <3>2, <4>2
      <3> QED BY <2>4, <3>1, <3>2 DEF Ordered, OrderedUp, Grand, Order
    <2> QED BY <2>1, <2>4, <2>5
  <1> QED BY <1>5, <1>6

\* Down goes to a child that is below, and not above the other one; or neither is below.
LEMMA DownIs ==
    ASSUME NEW h \in Heaps, NEW key \in Keys, NEW p \in 1..Len(h.list), NEW q, q = Down(h, key, p)
    PROVE  \/ /\ q = p
              /\ \A i \in 2..Len(h.list) : i = 2 * p \/ i = 2 * p + 1 => key[h.list[p]] <= key[h.list[i]]
           \/ /\ q \in 2..Len(h.list) /\ (q = 2 * p \/ q = 2 * p + 1)
              /\ key[h.list[q]] < key[h.list[p]]
              /\ \A i \in 2..Len(h.list) : i = 2 * p \/ i = 2 * p + 1 => key[h.list[q]] <= key[h.list[i]]
  <1> DEFINE n == Len(h.list)
             l == 2 * p
             k == key[h.list[p]]
             a == key[h.list[l]]
             b == key[h.list[l + 1]]
             goal(x, y) == /\ q = x /\ key[h.list[x]] = y
                           /\ (l <= n => y <= a) /\ (l + 1 <= n => y <= b)
  <1>1. n \in Nat /\ p \in Nat /\ p >= 1 /\ \A i \in 1..n : key[h.list[i]] \in Nat
    BY HeapIs DEF Keys
  <1>2. l \in Nat /\ l >= 2
    BY <1>1
  <1>3. q = LET best == IF l <= n /\ a < k THEN l ELSE p
            IN  IF l + 1 <= n /\ b < key[h.list[best]] THEN l + 1 ELSE best
    BY DEF Down, Below
  <1> HIDE DEF l, n
  <1>4. l <= n => l \in 1..n /\ a \in Nat
    BY <1>1, <1>2
  <1>5. l + 1 <= n => l + 1 \in 1..n /\ b \in Nat /\ l <= n
    BY <1>1, <1>2
  <1>6. k \in Nat
    BY <1>1 DEF n
  <1>7. \/ goal(p, k)
        \/ l <= n /\ a < k /\ goal(l, a)
        \/ l + 1 <= n /\ b < k /\ goal(l + 1, b)
    <2>1. CASE l <= n /\ a < k
      <3>1. q = IF l + 1 <= n /\ b < a THEN l + 1 ELSE l
        BY <1>3, <2>1
      <3>2. CASE l + 1 <= n /\ b < a
        <4>1. q = l + 1 /\ key[h.list[l + 1]] = b
          BY <3>1, <3>2
        <4> HIDE DEF a, b, k
        <4>2. b < k /\ b <= a /\ b <= b
          BY <1>4, <1>5, <1>6, <2>1, <3>2
        <4> QED BY <3>2, <4>1, <4>2
      <3>3. CASE ~(l + 1 <= n /\ b < a)
        <4>1. q = l /\ key[h.list[l]] = a
          BY <3>1, <3>3
        <4> HIDE DEF a, b, k
        <4>2. a <= a /\ (l + 1 <= n => a <= b)
          BY <1>4, <1>5, <2>1, <3>3
        <4> QED BY <2>1, <4>1, <4>2
      <3> QED BY <3>2, <3>3
    <2>2. CASE ~(l <= n /\ a < k)
      <3>1. q = IF l + 1 <= n /\ b < k THEN l + 1 ELSE p
        BY <1>3, <2>2
      <3>2. CASE l + 1 <= n /\ b < k
        <4>1. q = l + 1 /\ key[h.list[l + 1]] = b
          BY <3>1, <3>2
        <4> HIDE DEF a, b, k
        <4>2. b <= a /\ b <= b
          BY <1>4, <1>5, <1>6, <2>2, <3>2
        <4> QED BY <3>2, <4>1, <4>2
      <3>3. CASE ~(l + 1 <= n /\ b < k)
        <4>1. q = p /\ key[h.list[p]] = k
          BY <3>1, <3>3
        <4> HIDE DEF a, b, k
        <4>2. (l <= n => k <= a) /\ (l + 1 <= n => k <= b)
          BY <1>4, <1>5, <1>6, <2>2, <3>3
        <4> QED BY <4>1, <4>2
      <3> QED BY <3>2, <3>3
    <2> QED BY <2>1, <2>2
  <1> HIDE DEF a, b, k, goal
  <1>8. ASSUME NEW x, NEW y, goal(x, y)
        PROVE  /\ q = x /\ key[h.list[x]] = y
               /\ \A i \in 2..Len(h.list) : i = 2 * p \/ i = 2 * p + 1 => key[h.list[x]] <= key[h.list[i]]
    BY <1>8 DEF goal, a, b, l, n
  <1>9. CASE goal(p, k)
    BY <1>8, <1>9
  <1>10. CASE l <= n /\ a < k /\ goal(l, a)
    <2>1. l \in 2..Len(h.list) /\ l = 2 * p
      BY <1>1, <1>2, <1>10 DEF n, l
    <2>2. key[h.list[l]] < key[h.list[p]]
      BY <1>10 DEF a, k
    <2> QED BY <1>8, <1>10, <2>1, <2>2
  <1>11. CASE l + 1 <= n /\ b < k /\ goal(l + 1, b)
    <2>1. l + 1 \in 2..Len(h.list) /\ l + 1 = 2 * p + 1
      BY <1>1, <1>2, <1>11 DEF n, l
    <2>2. key[h.list[l + 1]] < key[h.list[p]]
      BY <1>11 DEF b, k
    <2> QED BY <1>8, <1>11, <2>1, <2>2
  <1> QED BY <1>7, <1>9, <1>10, <1>11

LEMMA DownRound ==
    ASSUME NEW h \in Heaps, Linked(h), NEW key \in Keys, NEW p \in 1..Len(h.list),
           OrderedDown(h, key, p), NEW q, q = Down(h, key, p), NEW g, g = Swap(h, p, q)
    PROVE  /\ q \in 1..Len(h.list) /\ OrderedDown(g, key, q)
           /\ p < q \/ (q = p /\ Ordered(g, key))
           /\ Ordered(h, key) => q = p
  <1>1. Len(h.list) \in Nat /\ \A i \in 1..Len(h.list) : h.list[i] \in Timer /\ key[h.list[i]] \in Nat
    BY HeapIs DEF Keys
  <1>2. ASSUME NEW i \in 2..Len(h.list)
        PROVE  /\ i \in 1..Len(h.list) /\ i \div 2 \in 1..Len(h.list) /\ i \div 2 < i
               /\ i = 2 * (i \div 2) \/ i = 2 * (i \div 2) + 1
    BY <1>1, Halves
  <1>3. ASSUME NEW i \in 2..Len(h.list), i \div 2 # p PROVE key[h.list[i \div 2]] <= key[h.list[i]]
    BY <1>3 DEF OrderedDown, Order
  <1>4. ASSUME NEW i \in 2..Len(h.list), i \div 2 = p, p > 1 PROVE key[h.list[p \div 2]] <= key[h.list[i]]
    BY <1>4 DEF OrderedDown, Grand, Order
  <1>5. /\ p \in Nat /\ (2 * p) \div 2 = p /\ (2 * p + 1) \div 2 = p /\ p < 2 * p
        /\ 2 * p <= Len(h.list) => 2 * p \in 2..Len(h.list)
        /\ 2 * p + 1 <= Len(h.list) => 2 * p + 1 \in 2..Len(h.list) /\ 2 * p \in 2..Len(h.list)
    BY <1>1, Doubles
  <1>6. CASE q = p
    <2>1. ASSUME NEW i \in 2..Len(h.list), i \div 2 = p PROVE key[h.list[p]] <= key[h.list[i]]
      <3>1. i \in 1..Len(h.list) /\ (i = 2 * p \/ i = 2 * p + 1)
        BY <1>2, <2>1
      <3>2. q # 2 * p /\ q # 2 * p + 1
        BY <1>5, <1>6
      <3> QED BY <3>1, <3>2, DownIs
    <2>2. Ordered(h, key)
      BY <1>3, <2>1 DEF Ordered, Order
    <2>3. Ordered(g, key)
      BY <1>6, <2>2, StaysOrdered
    <2>4. OrderedDown(g, key, p)
      <3>1. /\ Len(g.list) = Len(h.list) /\ key[g.list[p]] = key[h.list[p]]
            /\ \A i \in 1..Len(h.list) : i # p => key[g.list[i]] = key[h.list[i]]
        BY <1>6, KeysSwapped
      <3>2. ASSUME NEW i \in 2..Len(h.list), i \div 2 = p, p > 1 PROVE key[g.list[p \div 2]] <= key[g.list[i]]
        <4>1. p \in 2..Len(h.list)
          BY <1>1, <3>2
        <4>2. p \div 2 \in 1..Len(h.list) /\ i \in 1..Len(h.list)
          BY <1>2, <4>1
        <4> QED BY <1>4, <3>1, <3>2, <4>2
      <3> QED BY <2>3, <3>1, <3>2 DEF Ordered, OrderedDown, Grand, Order
    <2> QED BY <1>6, <2>3, <2>4
  <1>7. CASE q # p
    <2>1. /\ q \in 2..Len(h.list) /\ (q = 2 * p \/ q = 2 * p + 1)
          /\ key[h.list[q]] < key[h.list[p]]
          /\ \A i \in 2..Len(h.list) : i = 2 * p \/ i = 2 * p + 1 => key[h.list[q]] <= key[h.list[i]]
      <3> DEFINE least(x) == \A i \in 2..Len(h.list) :
                                i = 2 * p \/ i = 2 * p + 1 => key[h.list[x]] <= key[h.list[i]]
      <3>1. \/ q = p /\ least(p)
            \/ /\ q \in 2..Len(h.list) /\ (q = 2 * p \/ q = 2 * p + 1)
               /\ key[h.list[q]] < key[h.list[p]] /\ least(q)
        BY DownIs
      <3> HIDE DEF least
      <3>2. /\ q \in 2..Len(h.list) /\ (q = 2 * p \/ q = 2 * p + 1)
            /\ key[h.list[q]] < key[h.list[p]] /\ least(q)
        BY <1>7, <3>1
      <3> QED BY <3>2 DEF least
    <2>2. q \in 1..Len(h.list) /\ q \div 2 = p /\ p < q /\ p # q
      <3>1. q = 2 * p \/ q = 2 * p + 1
        BY <2>1
      <3>2. q \in 1..Len(h.list)
        BY <1>1, <2>1
      <3>3. q \div 2 = p
        BY <1>5, <3>1
      <3>4. p < q
        BY <1>5, <3>1
      <3> QED BY <1>5, <3>2, <3>3, <3>4
    <2>3. /\ Len(g.list) = Len(h.list)
          /\ key[g.list[p]] = key[h.list[q]] /\ key[g.list[q]] = key[h.list[p]]
          /\ \A i \in 1..Len(h.list) : i # p /\ i # q => key[g.list[i]] = key[h.list[i]]
      BY <2>2, KeysSwapped
    <2>4. ASSUME NEW i \in 2..Len(h.list), i \div 2 # q PROVE key[g.list[i \div 2]] <= key[g.list[i]]
      <3>1. /\ i \in 1..Len(h.list) /\ i \div 2 \in 1..Len(h.list) /\ i \div 2 < i
            /\ i = 2 * (i \div 2) \/ i = 2 * (i \div 2) + 1
        BY <1>2
      <3>2. CASE i = q
        BY <1>1, <2>1, <2>2, <2>3, <3>2
      <3>3. CASE i # q /\ i \div 2 = p
        <4>1. key[h.list[q]] <= key[h.list[i]]
          BY <2>1, <3>1, <3>3
        <4>2. i # p
          BY <3>1, <3>3
        <4> QED BY <2>3, <3>1, <3>3, <4>1, <4>2
      <3>4. CASE i = p
        <4>1. p > 1 /\ q \div 2 = p /\ q \in 2..Len(h.list)
          BY <1>1, <2>1, <2>2, <3>4
        <4>2. key[h.list[p \div 2]] <= key[h.list[q]]
          BY <1>4, <4>1
        <4>3. p \div 2 # p /\ p \div 2 # q /\ p \div 2 \in 1..Len(h.list)
          BY <2>4, <3>1, <3>4
        <4> QED BY <2>3, <3>4, <4>2, <4>3
      <3>5. CASE i # q /\ i # p /\ i \div 2 # p
        <4>1. key[h.list[i \div 2]] <= key[h.list[i]]
          BY <1>3, <3>5
        <4> QED BY <2>3, <2>4, <3>1, <3>5, <4>1
      <3> QED BY <3>2, <3>3, <3>4, <3>5
    <2>5. ASSUME NEW i \in 2..Len(h.list), i \div 2 = q PROVE key[g.list[q \div 2]] <= key[g.list[i]]
      <3>1. i \in 1..Len(h.list) /\ i # q /\ i # p /\ i \div 2 # p
        BY <1>1, <1>2, <2>2, <2>5
      <3>2. key[h.list[q]] <= key[h.list[i]]
        BY <1>3, <2>5, <3>1
      <3> QED BY <2>2, <2>3, <3>1, <3>2
    <2>6. OrderedDown(g, key, q)
      BY <2>3, <2>4, <2>5 DEF OrderedDown, Grand, Order
    <2>7. ~Ordered(h, key)
      <3>1. Ordered(h, key) => key[h.list[p]] <= key[h.list[q]]
        BY <2>1, <2>2 DEF Ordered, Order
      <3>2. key[h.list[q]] \in Nat /\ key[h.list[p]] \in Nat
        BY <1>1, <2>2
      <3> QED BY <2>1, <3>1, <3>2
    <2> QED BY <2>2, <2>6, <2>7
  <1> QED BY <1>6, <1>7
-----------------------------------------------------------------------------
(* The whole loop.                                                         *)

OrderedAt(h, key, pos, up) == IF up THEN OrderedUp(h, key, pos) ELSE OrderedDown(h, key, pos)
Round(s, key, up) ==
    LET to == IF up THEN Up(s.heap, key, s.pos) ELSE Down(s.heap, key, s.pos)
    IN  [heap |-> Swap(s.heap, s.pos, to), pos |-> to]
Rounds(f, h, key, pos, up, m) ==
    f = [n \in 0..m |-> IF n = 0 THEN [heap |-> h, pos |-> pos] ELSE Round(f[n - 1], key, up)]

LEMMA RoundsExist ==
    ASSUME NEW h, NEW key, NEW pos, NEW up \in BOOLEAN, NEW m \in Nat
    PROVE  \E f : Rounds(f, h, key, pos, up, m)
  <1> DEFINE B == {k \in Nat : ~\E f : Rounds(f, h, key, pos, up, k)}
  <1>1. ASSUME B # {} PROVE FALSE
    <2>1. PICK k \in B : \A j \in B : k <= j
      <3>1. B \in SUBSET Nat
        OBVIOUS
      <3> HIDE DEF B
      <3> QED BY <1>1, <3>1, LeastOf
    <2>2. k \in Nat /\ ~\E f : Rounds(f, h, key, pos, up, k)
      OBVIOUS
    <2>3. CASE k = 0
      <3> DEFINE f == [n \in 0..0 |-> [heap |-> h, pos |-> pos]]
      <3>1. Rounds(f, h, key, pos, up, 0)
        BY DEF Rounds
      <3> QED BY <2>2, <2>3, <3>1
    <2>4. CASE k # 0
      <3>1. k - 1 \in Nat /\ ~(k <= k - 1)
        BY <2>2, <2>4
      <3>2. k - 1 \notin B
        <4> HIDE DEF B
        <4> QED BY <2>1, <3>1
      <3>3. PICK f : Rounds(f, h, key, pos, up, k - 1)
        BY <3>1, <3>2
      <3> DEFINE e == [n \in 0..k |-> IF n = k THEN Round(f[k - 1], key, up) ELSE f[n]]
      <3>4. /\ f[0] = [heap |-> h, pos |-> pos]
            /\ \A n \in 1..(k - 1) : f[n] = Round(f[n - 1], key, up)
        <4>1. f = [n \in 0..(k - 1) |-> IF n = 0 THEN [heap |-> h, pos |-> pos] ELSE Round(f[n - 1], key, up)]
          BY <3>3 DEF Rounds
        <4>2. 0 \in 0..(k - 1) /\ \A n \in 1..(k - 1) : n \in 0..(k - 1) /\ n # 0
          BY <3>1
        <4> QED BY <4>1, <4>2
      <3>5. ASSUME NEW n \in 0..k
            PROVE  e[n] = IF n = 0 THEN [heap |-> h, pos |-> pos] ELSE Round(e[n - 1], key, up)
        <4>1. CASE n = 0
          BY <2>2, <2>4, <3>4, <4>1
        <4>2. CASE n # 0
          <5>1. n - 1 \in 0..k /\ n - 1 # k /\ e[n - 1] = f[n - 1]
            BY <2>2, <4>2
          <5>2. e[n] = IF n = k THEN Round(f[k - 1], key, up) ELSE f[n]
            OBVIOUS
          <5>3. n # k => n \in 1..(k - 1)
            BY <2>2, <4>2
          <5> HIDE DEF e
          <5> QED BY <3>4, <4>2, <5>1, <5>2, <5>3
        <4> QED BY <4>1, <4>2
      <3>6. Rounds(e, h, key, pos, up, k)
        <4>1. e = [n \in 0..k |-> e[n]]
          OBVIOUS
        <4> HIDE DEF e
        <4> QED BY <3>5, <4>1 DEF Rounds
      <3> QED BY <2>2, <3>6
    <2> QED BY <2>3, <2>4
  <1> QED BY <1>1

Sifts(f, h, key, pos, up) ==
    /\ f[0] = [heap |-> h, pos |-> pos]
    /\ \A n \in 1..Len(h.list) : f[n] = Round(f[n - 1], key, up)
    /\ Sift(h, key, pos, up) = f[Len(h.list)].heap

LEMMA SiftIs ==
    ASSUME NEW h, NEW key, NEW pos, NEW up \in BOOLEAN, Len(h.list) \in Nat
    PROVE  \E f : Sifts(f, h, key, pos, up)
  <1> DEFINE f == CHOOSE f : Rounds(f, h, key, pos, up, Len(h.list))
  <1>1. Sift(h, key, pos, up) = f[Len(h.list)].heap
    BY DEF Sift, Rounds, Round
  <1>2. Rounds(f, h, key, pos, up, Len(h.list))
    BY RoundsExist
  <1> HIDE DEF f
  <1>3. f = [n \in 0..Len(h.list) |-> IF n = 0 THEN [heap |-> h, pos |-> pos] ELSE Round(f[n - 1], key, up)]
    BY <1>2 DEF Rounds
  <1>4. 0 \in 0..Len(h.list) /\ \A n \in 1..Len(h.list) : n \in 0..Len(h.list) /\ n # 0
    OBVIOUS
  <1>5. f[0] = [heap |-> h, pos |-> pos] /\ \A n \in 1..Len(h.list) : f[n] = Round(f[n - 1], key, up)
    BY <1>3, <1>4
  <1> QED BY <1>1, <1>5 DEF Sifts

\* What a round of the loop keeps, and that the loop is further or has ended.
Sifting(s, h, key, n, pos, up) ==
    /\ s.heap \in Heaps /\ Linked(s.heap) /\ SameIn(h, s.heap) /\ Len(s.heap.list) = Len(h.list)
    /\ s.pos \in 1..Len(h.list) /\ OrderedAt(s.heap, key, s.pos, up)
    /\ \/ Ordered(s.heap, key)
       \/ IF up THEN s.pos + n <= pos ELSE pos + n <= s.pos

LEMMA SiftingRound ==
    ASSUME NEW s, NEW h \in Heaps, NEW key \in Keys, NEW n \in Nat, NEW pos \in 1..Len(h.list),
           NEW up \in BOOLEAN, Sifting(s, h, key, n, pos, up), NEW r, r = Round(s, key, up)
    PROVE  Sifting(r, h, key, n + 1, pos, up)
  <1> DEFINE g == s.heap
             p == s.pos
             q == IF up THEN Up(g, key, p) ELSE Down(g, key, p)
  <1>1. r.heap = Swap(g, p, q) /\ r.pos = q
    BY DEF Round
  <1>2. /\ g \in Heaps /\ Linked(g) /\ Len(g.list) = Len(h.list) /\ p \in 1..Len(g.list)
        /\ OrderedAt(g, key, p, up) /\ SameIn(h, g) /\ Len(h.list) \in Nat
    BY HeapIs DEF Sifting
  <1>3. \/ Ordered(g, key)
        \/ IF up THEN p + n <= pos ELSE pos + n <= p
    BY DEF Sifting
  <1> HIDE DEF g, p
  <1>4. /\ q \in 1..Len(g.list) /\ OrderedAt(r.heap, key, q, up)
        /\ Ordered(g, key) => q = p
        /\ (q = p /\ Ordered(r.heap, key)) \/ IF up THEN q < p ELSE p < q
    <2>1. CASE up
      <3>1. OrderedUp(g, key, p) /\ q = Up(g, key, p)
        BY <1>2, <2>1 DEF OrderedAt
      <3> HIDE DEF q
      <3>2. /\ q \in 1..Len(g.list) /\ OrderedUp(r.heap, key, q)
            /\ q < p \/ (q = p /\ Ordered(r.heap, key))
        BY <1>1, <1>2, <3>1, UpRound
      <3>3. Ordered(g, key) => q = p
        BY <1>1, <1>2, <3>1, UpRound
      <3> QED BY <2>1, <3>2, <3>3 DEF OrderedAt
    <2>2. CASE ~up
      <3>1. OrderedDown(g, key, p) /\ q = Down(g, key, p)
        BY <1>2, <2>2 DEF OrderedAt
      <3> HIDE DEF q
      <3>2. /\ q \in 1..Len(g.list) /\ OrderedDown(r.heap, key, q)
            /\ p < q \/ (q = p /\ Ordered(r.heap, key))
        BY <1>1, <1>2, <3>1, DownRound
      <3>3. Ordered(g, key) => q = p
        BY <1>1, <1>2, <3>1, DownRound
      <3> QED BY <2>2, <3>2, <3>3 DEF OrderedAt
    <2> QED BY <2>1, <2>2
  <1> HIDE DEF q
  <1>5. /\ r.heap \in Heaps /\ Linked(r.heap) /\ SameIn(g, r.heap) /\ Len(r.heap.list) = Len(g.list)
    BY <1>1, <1>2, <1>4, SwapIs
  <1>6. SameIn(h, r.heap)
    BY <1>2, <1>5 DEF SameIn
  <1>7. Ordered(g, key) => Ordered(r.heap, key)
    BY <1>1, <1>2, <1>4, StaysOrdered
  <1>8. \/ Ordered(r.heap, key)
        \/ IF up THEN q + (n + 1) <= pos ELSE pos + (n + 1) <= q
    <2>1. p \in Int /\ q \in Int /\ n \in Int /\ pos \in Int
      BY <1>2, <1>4
    <2> QED BY <1>3, <1>4, <1>7, <2>1
  <1> QED BY <1>1, <1>2, <1>4, <1>5, <1>6, <1>8 DEF Sifting

\* Sifting an entry that is the only one out of order puts all in order.
LEMMA Sifted ==
    ASSUME NEW h \in Heaps, Linked(h), NEW key \in Keys, NEW pos \in 1..Len(h.list), NEW up \in BOOLEAN,
           OrderedAt(h, key, pos, up), NEW g, g = Sift(h, key, pos, up)
    PROVE  g \in Heaps /\ Linked(g) /\ SameIn(h, g) /\ Ordered(g, key)
  <1> DEFINE L == Len(h.list)
  <1>1. L \in Nat
    BY HeapIs
  <1>2. PICK f : /\ f[0] = [heap |-> h, pos |-> pos]
                 /\ \A n \in 1..L : f[n] = Round(f[n - 1], key, up)
                 /\ g = f[L].heap
    <2>1. PICK f : Sifts(f, h, key, pos, up)
      BY <1>1, SiftIs
    <2> QED BY <2>1 DEF Sifts
  <1> DEFINE B == {n \in 0..L : ~Sifting(f[n], h, key, n, pos, up)}
  <1>3. Sifting(f[0], h, key, 0, pos, up)
    <2>1. SameIn(h, h) /\ pos + 0 <= pos
      BY <1>1 DEF SameIn
    <2>2. f[0].heap = h /\ f[0].pos = pos
      BY <1>2
    <2> QED BY <2>1, <2>2 DEF Sifting
  <1>4. ASSUME B # {} PROVE FALSE
    <2>1. PICK k \in B : \A j \in B : k <= j
      <3>1. B \in SUBSET Nat
        BY <1>1
      <3> HIDE DEF B
      <3> QED BY <1>4, <3>1, LeastOf
    <2>2. k \in 0..L /\ ~Sifting(f[k], h, key, k, pos, up)
      OBVIOUS
    <2>3. k \in 1..L /\ k - 1 \in 0..L /\ k - 1 \in Nat /\ ~(k <= k - 1) /\ (k - 1) + 1 = k
      BY <1>1, <1>3, <2>2
    <2>4. k - 1 \notin B
      <3> HIDE DEF B
      <3> QED BY <2>1, <2>3
    <2>5. Sifting(f[k - 1], h, key, k - 1, pos, up)
      BY <2>3, <2>4
    <2>6. f[k] = Round(f[k - 1], key, up)
      BY <1>2, <2>3
    <2>7. Sifting(f[k], h, key, (k - 1) + 1, pos, up)
      BY <2>3, <2>5, <2>6, SiftingRound
    <2> QED BY <2>2, <2>3, <2>7
  <1>5. Sifting(f[L], h, key, L, pos, up)
    BY <1>1, <1>4
  <1>6. /\ g \in Heaps /\ Linked(g) /\ SameIn(h, g) /\ f[L].pos \in 1..L
        /\ Ordered(g, key) \/ IF up THEN f[L].pos + L <= pos ELSE pos + L <= f[L].pos
    BY <1>2, <1>5 DEF Sifting
  <1> QED BY <1>1, <1>6

LEMMA SiftedUp ==
    ASSUME NEW h \in Heaps, Linked(h), NEW key \in Keys, NEW pos \in 1..Len(h.list),
           OrderedUp(h, key, pos), NEW g, g = SiftUp(h, key, pos)
    PROVE  g \in Heaps /\ Linked(g) /\ SameIn(h, g) /\ Ordered(g, key)
  BY Sifted DEF SiftUp, OrderedAt

LEMMA SiftedDown ==
    ASSUME NEW h \in Heaps, Linked(h), NEW key \in Keys, NEW pos \in 1..Len(h.list),
           OrderedDown(h, key, pos), NEW g, g = SiftDown(h, key, pos)
    PROVE  g \in Heaps /\ Linked(g) /\ SameIn(h, g) /\ Ordered(g, key)
  BY Sifted DEF SiftDown, OrderedAt
-----------------------------------------------------------------------------
(* Push and delete.                                                        *)

LEMMA LinkedIs ==
    ASSUME NEW h \in Heaps, Linked(h)
    PROVE  /\ \A i \in 1..Len(h.list) : h.index[h.list[i]] = i
           /\ \A i \in 1..Len(h.list) : \A j \in 1..Len(h.list) : h.list[i] = h.list[j] => i = j
           /\ \A t \in Timer : h.index[t] # 0 => h.index[t] \in 1..Len(h.list) /\ h.list[h.index[t]] = t
           /\ \A t \in Timer : h.index[t] = 0 => \A i \in 1..Len(h.list) : h.list[i] # t
  <1>1. \A i \in 1..Len(h.list) : h.index[h.list[i]] = i
    BY DEF Linked
  <1>2. \A t \in Timer : h.index[t] # 0 => h.index[t] \in 1..Len(h.list) /\ h.list[h.index[t]] = t
    BY DEF Linked
  <1>3. \A i \in 1..Len(h.list) : i # 0
    BY HeapIs
  <1>4. \A i \in 1..Len(h.list) : \A j \in 1..Len(h.list) : h.list[i] = h.list[j] => i = j
    BY <1>1
  <1>5. \A t \in Timer : h.index[t] = 0 => \A i \in 1..Len(h.list) : h.list[i] # t
    BY <1>1, <1>3
  <1> QED BY <1>1, <1>2, <1>4, <1>5

LEMMA PushIs ==
    ASSUME NEW h \in Heaps, Linked(h), NEW key \in Keys, Ordered(h, key), NEW t \in Timer,
           ~(Len(h.list) >= Capacity), h.index[t] = 0, NEW g, g = HeapPush(h, key, t)
    PROVE  /\ g \in Heaps /\ Linked(g) /\ Ordered(g, key)
           /\ g.index[t] # 0 /\ \A u \in Timer : u # t => (g.index[u] = 0 <=> h.index[u] = 0)
  <1> DEFINE n == Len(h.list)
             l2 == Append(h.list, t)
             x2 == [h.index EXCEPT ![t] = n + 1]
             m == [list |-> l2, index |-> x2]
  <1>1. /\ h.list \in Seq(Timer) /\ h.index \in [Timer -> Nat] /\ n \in Nat
        /\ \A i \in 1..n : h.list[i] \in Timer
    BY HeapIs
  <1>2. g = SiftUp(m, key, n + 1)
    BY DEF HeapPush
  <1>3. /\ l2 \in Seq(Timer) /\ Len(l2) = n + 1
        /\ (\A i \in 1..n : l2[i] = h.list[i]) /\ l2[n + 1] = t
    BY <1>1, AppendProperties
  <1>4. /\ x2 \in [Timer -> Nat] /\ x2[t] = n + 1
        /\ \A u \in Timer : u # t => x2[u] = h.index[u]
    BY <1>1
  <1>5. m.list = l2 /\ m.index = x2
    OBVIOUS
  <1> HIDE DEF l2, x2, m
  <1>6. m \in Heaps
    BY <1>3, <1>4 DEF Heaps, m
  <1>7. Linked(m)
    <2>1. ASSUME NEW i \in 1..(n + 1) PROVE l2[i] \in Timer /\ x2[l2[i]] = i
      <3>1. CASE i = n + 1
        BY <1>3, <1>4, <3>1
      <3>2. CASE i # n + 1
        <4>1. i \in 1..n
          BY <1>1, <3>2
        <4>2. l2[i] = h.list[i] /\ h.list[i] \in Timer /\ h.list[i] # t /\ h.index[h.list[i]] = i
          <5>1. h.index[h.list[i]] = i /\ h.list[i] # t
            BY <4>1, LinkedIs
          <5> QED BY <1>1, <1>3, <4>1, <5>1
        <4>3. x2[h.list[i]] = i
          BY <1>4, <4>2
        <4> QED BY <4>2, <4>3
      <3> QED BY <3>1, <3>2
    <2>2. ASSUME NEW u \in Timer, x2[u] # 0 PROVE x2[u] \in 1..(n + 1) /\ l2[x2[u]] = u
      <3>1. CASE u = t
        BY <1>1, <1>3, <1>4, <3>1
      <3>2. CASE u # t
        <4>1. x2[u] = h.index[u] /\ h.index[u] \in 1..n /\ h.list[h.index[u]] = u
          BY <1>4, <2>2, <3>2, LinkedIs
        <4>2. h.index[u] \in 1..(n + 1)
          BY <1>1, <4>1
        <4>3. l2[h.index[u]] = u
          BY <1>3, <4>1
        <4> QED BY <4>1, <4>2, <4>3
      <3> QED BY <3>1, <3>2
    <2> QED BY <1>3, <1>5, <2>1, <2>2 DEF Linked
  <1>8. OrderedUp(m, key, n + 1)
    <2>1. ASSUME NEW i \in 2..(n + 1), i # n + 1 PROVE key[l2[i \div 2]] <= key[l2[i]]
      <3>1. i \in 2..n /\ i \in 1..n /\ i \div 2 \in 1..n
        BY <1>1, <2>1, Halves
      <3>2. key[h.list[i \div 2]] <= key[h.list[i]]
        BY <3>1 DEF Ordered, Order
      <3> QED BY <1>3, <3>1, <3>2
    <2>2. \A i \in 2..(n + 1) : i \div 2 # n + 1
      BY <1>1, Halves
    <2> QED BY <1>3, <1>5, <2>1, <2>2 DEF OrderedUp, Grand, Order
  <1>9. n + 1 \in 1..Len(m.list)
    BY <1>1, <1>3, <1>5
  <1>10. g \in Heaps /\ Linked(g) /\ SameIn(m, g) /\ Ordered(g, key)
    BY <1>2, <1>6, <1>7, <1>8, <1>9, SiftedUp
  <1>11. x2[t] # 0 /\ \A u \in Timer : u # t => (x2[u] = 0 <=> h.index[u] = 0)
    BY <1>1, <1>4
  <1> QED BY <1>5, <1>10, <1>11 DEF SameIn

LEMMA ShortenedIs ==
    ASSUME NEW h \in Heaps, Linked(h), NEW pos \in 1..Len(h.list), NEW m, m = Shortened(h, pos)
    PROVE  /\ m \in Heaps /\ Linked(m) /\ Len(m.list) = Len(h.list) - 1
           /\ m.index[h.list[pos]] = 0
           /\ \A u \in Timer : u # h.list[pos] => (m.index[u] = 0 <=> h.index[u] = 0)
           /\ \A i \in 1..(Len(h.list) - 1) : i # pos => m.list[i] = h.list[i]
           /\ pos < Len(h.list) => m.list[pos] = h.list[Len(h.list)]
  <1> DEFINE n == Len(h.list)
             t == h.list[pos]
             z == h.list[n]
             l1 == SubSeq(h.list, 1, n - 1)
             x1 == [h.index EXCEPT ![t] = 0]
             l2 == [l1 EXCEPT ![pos] = z]
             x2 == [x1 EXCEPT ![z] = pos]
  <1>1. /\ h.list \in Seq(Timer) /\ h.index \in [Timer -> Nat] /\ n \in Nat /\ n >= 1 /\ n \in 1..n
        /\ \A i \in 1..n : h.list[i] \in Timer
    BY HeapIs
  <1>3. m = IF pos = n THEN [list |-> l1, index |-> x1] ELSE [list |-> l2, index |-> x2]
    BY DEF Shortened, Put
  <1>4. /\ l1 \in Seq(Timer) /\ Len(l1) = n - 1 /\ \A i \in 1..(n - 1) : l1[i] = h.list[i]
    <2>1. 1 \in Int /\ n - 1 \in Int /\ \A i \in 1..(n - 1) : h.list[i] \in Timer
      BY <1>1
    <2>2. /\ l1 \in Seq(Timer) /\ Len(l1) = IF 1 <= n - 1 THEN (n - 1) - 1 + 1 ELSE 0
          /\ \A i \in 1..((n - 1) - 1 + 1) : l1[i] = h.list[1 + i - 1]
      BY <2>1, SubSeqProperties
    <2>3. (n - 1) - 1 + 1 = n - 1 /\ \A i \in 1..(n - 1) : 1 + i - 1 = i
      BY <1>1
    <2> HIDE DEF l1
    <2> QED BY <1>1, <2>2, <2>3
  <1>5. x1 \in [Timer -> Nat] /\ x1[t] = 0 /\ \A u \in Timer : u # t => x1[u] = h.index[u]
    BY <1>1
  <1>6. /\ t \in Timer /\ h.index[t] = pos /\ z \in Timer /\ h.index[z] = n /\ (t = z <=> pos = n)
    BY <1>1, LinkedIs
  <1> HIDE DEF l1, x1
  <1>7. CASE pos = n
    <2>1. m = [list |-> l1, index |-> x1]
      BY <1>3, <1>7
    <2>2. m.list = l1 /\ m.index = x1 /\ m \in Heaps
      BY <1>4, <1>5, <2>1 DEF Heaps
    <2>3. ASSUME NEW i \in 1..(n - 1) PROVE l1[i] \in Timer /\ x1[l1[i]] = i
      <3>1. i \in 1..n /\ i # pos
        BY <1>1, <1>7
      <3>2. h.list[i] \in Timer /\ h.list[i] # t /\ h.index[h.list[i]] = i
        BY <1>1, <3>1, LinkedIs
      <3> QED BY <1>4, <1>5, <3>2
    <2>4. ASSUME NEW u \in Timer, x1[u] # 0 PROVE x1[u] \in 1..(n - 1) /\ l1[x1[u]] = u
      <3>1. u # t /\ x1[u] = h.index[u]
        BY <1>5, <2>4
      <3>2. h.index[u] \in 1..n /\ h.list[h.index[u]] = u /\ h.index[u] # n
        BY <1>6, <1>7, <2>4, <3>1, LinkedIs
      <3>3. h.index[u] \in 1..(n - 1)
        BY <1>1, <3>2
      <3> QED BY <1>4, <3>1, <3>2, <3>3
    <2>5. Linked(m)
      BY <1>4, <2>2, <2>3, <2>4 DEF Linked
    <2> QED BY <1>4, <1>5, <1>7, <2>2, <2>5
  <1>8. CASE pos # n
    <2>1. m = [list |-> l2, index |-> x2]
      BY <1>3, <1>8
    <2>2. pos \in 1..Len(l1) /\ pos \in 1..(n - 1) /\ pos # 0
      BY <1>1, <1>4, <1>8
    <2>3. /\ l2 \in Seq(Timer) /\ Len(l2) = n - 1 /\ l2[pos] = z
          /\ \A i \in 1..(n - 1) : i # pos => l2[i] = h.list[i]
      <3>1. /\ l2 \in Seq(Timer) /\ Len(l2) = Len(l1)
            /\ \A i \in 1..Len(l1) : l2[i] = IF i = pos THEN z ELSE l1[i]
        BY <1>4, <1>6, <2>2, ExceptSeq
      <3> HIDE DEF l2
      <3> QED BY <1>4, <2>2, <3>1
    <2>4. /\ x2 \in [Timer -> Nat] /\ x2[t] = 0 /\ x2[z] = pos
          /\ \A u \in Timer : u # t /\ u # z => x2[u] = h.index[u]
      BY <1>5, <1>6, <1>8, <2>2
    <2> HIDE DEF l2, x2
    <2>5. m.list = l2 /\ m.index = x2 /\ m \in Heaps
      BY <2>1, <2>3, <2>4 DEF Heaps
    <2>6. ASSUME NEW i \in 1..(n - 1) PROVE l2[i] \in Timer /\ x2[l2[i]] = i
      <3>1. CASE i = pos
        BY <1>6, <2>3, <2>4, <3>1
      <3>2. CASE i # pos
        <4>1. i \in 1..n /\ i # n
          BY <1>1
        <4>2. h.list[i] \in Timer /\ h.list[i] # t /\ h.list[i] # z /\ h.index[h.list[i]] = i
          BY <1>1, <3>2, <4>1, LinkedIs
        <4> QED BY <2>3, <2>4, <3>2, <4>2
      <3> QED BY <3>1, <3>2
    <2>7. ASSUME NEW u \in Timer, x2[u] # 0 PROVE x2[u] \in 1..(n - 1) /\ l2[x2[u]] = u
      <3>1. u # t
        BY <2>4, <2>7
      <3>2. CASE u = z
        BY <2>2, <2>3, <2>4, <3>2
      <3>3. CASE u # z
        <4>1. x2[u] = h.index[u]
          BY <2>4, <3>1, <3>3
        <4>2. h.index[u] \in 1..n /\ h.list[h.index[u]] = u
          BY <2>7, <4>1, LinkedIs
        <4>3. h.index[u] # n /\ h.index[u] # pos
          BY <3>1, <3>3, <4>2
        <4>4. h.index[u] \in 1..(n - 1)
          BY <1>1, <4>2, <4>3
        <4> QED BY <2>3, <4>1, <4>2, <4>3, <4>4
      <3> QED BY <3>2, <3>3
    <2>8. Linked(m)
      BY <2>3, <2>5, <2>6, <2>7 DEF Linked
    <2>9. ASSUME NEW u \in Timer, u # t PROVE m.index[u] = 0 <=> h.index[u] = 0
      <3>1. CASE u = z
        <4>1. h.index[u] = n /\ n # 0
          BY <1>1, <1>6, <3>1
        <4>2. m.index[u] = pos /\ pos # 0
          BY <2>2, <2>4, <2>5, <3>1
        <4> QED BY <4>1, <4>2
      <3>2. CASE u # z
        BY <2>4, <2>5, <2>9, <3>2
      <3> QED BY <3>1, <3>2
    <2>10. m.index[t] = 0 /\ Len(m.list) = n - 1 /\ m.list[pos] = z
           /\ \A i \in 1..(n - 1) : i # pos => m.list[i] = h.list[i]
      BY <2>3, <2>4, <2>5
    <2> QED BY <2>5, <2>8, <2>9, <2>10
  <1> QED BY <1>7, <1>8

LEMMA DeleteIs ==
    ASSUME NEW h \in Heaps, Linked(h), NEW key \in Keys, Ordered(h, key), NEW t \in Timer,
           NEW g, g = HeapDelete(h, key, t)
    PROVE  /\ g \in Heaps /\ Linked(g) /\ Ordered(g, key)
           /\ g.index[t] = 0 /\ \A u \in Timer : u # t => (g.index[u] = 0 <=> h.index[u] = 0)
  <1> DEFINE n == Len(h.list)
             pos == h.index[t]
             m == Shortened(h, pos)
  <1>1. n \in Nat /\ \A i \in 1..n : h.list[i] \in Timer /\ key[h.list[i]] \in Nat
    BY HeapIs DEF Keys
  <1>2. CASE pos \notin 1..n
    <2>1. g = h /\ h.index[t] = 0
      BY <1>2, LinkedIs DEF HeapDelete
    <2> QED BY <2>1
  <1>3. CASE pos \in 1..n
    <2>1. h.list[pos] = t
      <3>1. h.index[t] # 0
        BY <1>1, <1>3
      <3> QED BY <3>1, LinkedIs
    <2>2. /\ m \in Heaps /\ Linked(m) /\ Len(m.list) = n - 1 /\ m.index[t] = 0
          /\ \A u \in Timer : u # t => (m.index[u] = 0 <=> h.index[u] = 0)
          /\ \A i \in 1..(n - 1) : i # pos => m.list[i] = h.list[i]
      <3>1. m = Shortened(h, pos) /\ pos \in 1..Len(h.list)
        BY <1>3
      <3> HIDE DEF m, pos
      <3>2. /\ m \in Heaps /\ Linked(m) /\ Len(m.list) = Len(h.list) - 1
            /\ m.index[h.list[pos]] = 0
            /\ \A u \in Timer : u # h.list[pos] => (m.index[u] = 0 <=> h.index[u] = 0)
            /\ \A i \in 1..(Len(h.list) - 1) : i # pos => m.list[i] = h.list[i]
        BY <3>1, ShortenedIs
      <3> QED BY <2>1, <3>2
    <2>3. ASSUME NEW i \in 2..n
          PROVE  /\ i \in 1..n /\ i \div 2 \in 1..n /\ i \div 2 < i
                 /\ i <= n - 1 => i \in 1..(n - 1) /\ i \div 2 \in 1..(n - 1)
                 /\ key[h.list[i \div 2]] <= key[h.list[i]]
      BY <1>1, Halves DEF Ordered, Order
    <2>4. g = IF pos > Len(m.list) THEN m
              ELSE IF pos > 1 /\ Below(m, key, pos, pos \div 2) THEN SiftUp(m, key, pos)
              ELSE SiftDown(m, key, pos)
      BY <1>3 DEF HeapDelete
    <2>5. \A i \in 1..(n - 1) : m.list[i] \in Timer /\ key[m.list[i]] \in Nat
      BY <2>2, HeapIs DEF Keys
    <2> HIDE DEF m
    <2>6. CASE pos > n - 1
      <3>1. g = m
        BY <2>2, <2>4, <2>6
      <3>2. ASSUME NEW i \in 2..(n - 1) PROVE key[m.list[i \div 2]] <= key[m.list[i]]
        <4>1. i \in 2..n /\ i <= n - 1 /\ i # pos /\ i \div 2 # pos
          BY <1>1, <1>3, <2>3, <2>6
        <4> QED BY <2>2, <2>3, <4>1
      <3>3. Ordered(m, key)
        BY <2>2, <3>2 DEF Ordered, Order
      <3> QED BY <2>2, <3>1, <3>3
    <2>7. CASE ~(pos > n - 1)
      <3>1. pos \in 1..(n - 1) /\ pos \in 1..Len(m.list) /\ pos \in Nat
        BY <1>1, <1>3, <2>2, <2>7
      <3> HIDE DEF pos
      <3>2. ASSUME NEW i \in 2..(n - 1)
            PROVE  /\ i \in 2..n /\ i \in 1..(n - 1) /\ i \div 2 \in 1..(n - 1) /\ i \div 2 < i
                   /\ key[h.list[i \div 2]] <= key[h.list[i]]
                   /\ i # pos => key[m.list[i]] = key[h.list[i]]
                   /\ i \div 2 # pos => key[m.list[i \div 2]] = key[h.list[i \div 2]]
        <4>1. i \in 2..n /\ i <= n - 1
          BY <1>1
        <4> QED BY <2>2, <2>3, <4>1
      <3>3. ASSUME NEW i \in 2..(n - 1), i # pos, i \div 2 # pos PROVE key[m.list[i \div 2]] <= key[m.list[i]]
        BY <3>2, <3>3
      <3>4. ASSUME NEW i \in 2..(n - 1), i \div 2 = pos, pos > 1
            PROVE  key[m.list[pos \div 2]] <= key[m.list[i]]
        <4>1. pos \in 2..(n - 1) /\ i # pos
          BY <1>1, <3>1, <3>2, <3>4
        <4>2. pos \div 2 \in 1..n /\ pos \div 2 # pos /\ i \in 1..n /\ pos \in 1..n
          BY <1>1, <3>2, <4>1
        <4>3. /\ key[m.list[pos \div 2]] = key[h.list[pos \div 2]]
              /\ key[h.list[pos \div 2]] <= key[h.list[pos]]
          BY <3>2, <4>1, <4>2
        <4>4. key[h.list[pos]] <= key[h.list[i]] /\ key[m.list[i]] = key[h.list[i]]
          BY <3>2, <3>4, <4>1
        <4>5. key[h.list[pos \div 2]] \in Nat /\ key[h.list[pos]] \in Nat /\ key[h.list[i]] \in Nat
          BY <1>1, <4>2
        <4> QED BY <4>3, <4>4, <4>5
      <3>5. CASE pos > 1 /\ Below(m, key, pos, pos \div 2)
        <4>1. g = SiftUp(m, key, pos)
          BY <2>2, <2>4, <2>7, <3>5
        <4>2. ASSUME NEW i \in 2..(n - 1), i # pos, i \div 2 = pos PROVE key[m.list[i \div 2]] <= key[m.list[i]]
          <5>1. key[m.list[pos]] < key[m.list[pos \div 2]]
            BY <3>5 DEF Below
          <5>2. key[m.list[pos \div 2]] <= key[m.list[i]]
            BY <3>4, <3>5, <4>2
          <5>3. pos \div 2 \in 1..(n - 1)
            BY <1>1, <3>1, <3>2, <3>5
          <5>4. key[m.list[pos]] \in Nat /\ key[m.list[pos \div 2]] \in Nat /\ key[m.list[i]] \in Nat
            BY <2>5, <3>1, <3>2, <5>3
          <5> QED BY <4>2, <5>1, <5>2, <5>4
        <4>3. OrderedUp(m, key, pos)
          BY <2>2, <3>3, <3>4, <4>2 DEF OrderedUp, Grand, Order
        <4>4. g \in Heaps /\ Linked(g) /\ SameIn(m, g) /\ Ordered(g, key)
          BY <2>2, <3>1, <4>1, <4>3, SiftedUp
        <4> QED BY <2>2, <4>4 DEF SameIn
      <3>6. CASE ~(pos > 1 /\ Below(m, key, pos, pos \div 2))
        <4>1. g = SiftDown(m, key, pos)
          BY <2>2, <2>4, <2>7, <3>6
        <4>2. ASSUME NEW i \in 2..(n - 1), i = pos PROVE key[m.list[i \div 2]] <= key[m.list[i]]
          <5>1. ~(key[m.list[pos]] < key[m.list[pos \div 2]])
            BY <1>1, <3>6, <4>2 DEF Below
          <5>2. key[m.list[pos]] \in Nat /\ key[m.list[pos \div 2]] \in Nat
            BY <2>5, <3>2, <4>2
          <5> QED BY <4>2, <5>1, <5>2
        <4>3. OrderedDown(m, key, pos)
          BY <2>2, <3>3, <3>4, <4>2 DEF OrderedDown, Grand, Order
        <4>4. g \in Heaps /\ Linked(g) /\ SameIn(m, g) /\ Ordered(g, key)
          BY <2>2, <3>1, <4>1, <4>3, SiftedDown
        <4> QED BY <2>2, <4>4 DEF SameIn
      <3> QED BY <3>5, <3>6
    <2> QED BY <2>6, <2>7
  <1> QED BY <1>2, <1>3
-----------------------------------------------------------------------------
(* The timers.                                                             *)

\* What holds between two steps: the heap is linked and in the order of the deadlines,
\* and a timer has a deadline exactly while it is in the heap.
HTTyped ==
    /\ list \in Seq(Timer) /\ index \in [Timer -> Nat] /\ expired \in Keys
    /\ now \in Nat /\ now >= 1 /\ round \in Nat \cup {Off}
Timed == \A t \in Timer : index[t] = 0 <=> expired[t] = 0
HTInv == HTTyped /\ Linked(Heap) /\ Ordered(Heap, expired) /\ Timed

dues == [t \in Timer |-> IF index[t] # 0 THEN expired[t] ELSE Off]

LEMMA HTInvFacts ==
    ASSUME HTInv
    PROVE  /\ Heap \in Heaps /\ Heap.list = list /\ Heap.index = index /\ expired \in Keys
           /\ Linked(Heap) /\ Ordered(Heap, expired)
           /\ \A t \in Timer : index[t] \in Nat /\ expired[t] \in Nat /\ (index[t] = 0 <=> expired[t] = 0)
           /\ now \in Nat /\ now >= 1 /\ round \in Nat \cup {Off} /\ Off \notin Nat
  BY DEF HTInv, HTTyped, Timed, Heap, Heaps, Keys, Off

\* Only the keys of the entries count.
LEMMA OrderedOther ==
    ASSUME NEW h \in Heaps, NEW key \in Keys, Ordered(h, key), NEW key2 \in Keys,
           \A i \in 1..Len(h.list) : key2[h.list[i]] = key[h.list[i]]
    PROVE  Ordered(h, key2)
  <1>1. ASSUME NEW i \in 2..Len(h.list) PROVE Order(h, key2, i \div 2, i)
    <2>1. Len(h.list) \in Nat
      BY HeapIs
    <2>2. i \in 1..Len(h.list) /\ i \div 2 \in 1..Len(h.list)
      BY <2>1, Halves
    <2> QED BY <2>2 DEF Ordered, Order
  <1> QED BY <1>1 DEF Ordered

LEMMA InitHT == HTInit => HTInv
  <1> SUFFICES ASSUME HTInit PROVE HTInv
    OBVIOUS
  <1>1. <<>> \in Seq(Timer) /\ Len(<<>>) = 0 /\ 1..0 = {} /\ 2..0 = {}
    OBVIOUS
  <1>2. /\ list = <<>> /\ index = [t \in Timer |-> 0] /\ expired = [t \in Timer |-> 0]
        /\ now = 1 /\ round = Off
    BY DEF HTInit
  <1>3. HTTyped /\ Timed
    BY <1>1, <1>2 DEF HTTyped, Timed, Keys
  <1>4. Heap.list = <<>> /\ Heap.index = index
    BY <1>2 DEF Heap
  <1>5. Linked(Heap) /\ Ordered(Heap, expired)
    BY <1>1, <1>2, <1>4 DEF Linked, Ordered
  <1> QED BY <1>3, <1>5 DEF HTInv

LEMMA BecomesIs ==
    ASSUME NEW g \in Heaps, Becomes(g)
    PROVE  /\ list' \in Seq(Timer) /\ index' \in [Timer -> Nat] /\ list' = g.list /\ index' = g.index
           /\ Heap' = g
  BY DEF Becomes, Heaps, Heap

\* A deadline is in the heap or not, and that is what the abstract timers see.
LEMMA DuesFrom ==
    ASSUME NEW t \in Timer, NEW d,
           (IF index'[t] # 0 THEN expired'[t] ELSE Off) = d,
           \A u \in Timer : u # t => (index'[u] # 0 <=> index[u] # 0) /\ expired'[u] = expired[u]
    PROVE  dues' = [dues EXCEPT ![t] = d]
  <1>1. dues' = [u \in Timer |-> IF index'[u] # 0 THEN expired'[u] ELSE Off]
    BY DEF dues, Off
  <1>2. [dues EXCEPT ![t] = d] = [u \in Timer |-> IF u = t THEN d ELSE IF index[u] # 0 THEN expired[u] ELSE Off]
    BY DEF dues
  <1>3. ASSUME NEW u \in Timer
        PROVE  (IF index'[u] # 0 THEN expired'[u] ELSE Off)
               = (IF u = t THEN d ELSE IF index[u] # 0 THEN expired[u] ELSE Off)
    OBVIOUS
  <1> QED BY <1>1, <1>2, <1>3

LEMMA GoneIs ==
    ASSUME HTInv, NEW t \in Timer, Gone(t), now' = now, round' \in Nat \cup {Off}
    PROVE  HTInv' /\ dues' = [dues EXCEPT ![t] = Off]
  <1> DEFINE g == HeapDelete(Heap, expired, t)
  <1>1. Becomes(g) /\ expired' = [expired EXCEPT ![t] = 0]
    BY DEF Gone
  <1>2. /\ g \in Heaps /\ Linked(g) /\ Ordered(g, expired)
        /\ g.index[t] = 0 /\ \A u \in Timer : u # t => (g.index[u] = 0 <=> index[u] = 0)
    <2>1. g = HeapDelete(Heap, expired, t)
      OBVIOUS
    <2> HIDE DEF g
    <2>2. /\ g \in Heaps /\ Linked(g) /\ Ordered(g, expired)
          /\ g.index[t] = 0 /\ \A u \in Timer : u # t => (g.index[u] = 0 <=> Heap.index[u] = 0)
      BY <2>1, HTInvFacts, DeleteIs
    <2> QED BY <2>2, HTInvFacts
  <1> HIDE DEF g
  <1>3. list' \in Seq(Timer) /\ index' \in [Timer -> Nat] /\ index' = g.index /\ Heap' = g
    BY <1>1, <1>2, BecomesIs
  <1>4. /\ expired' \in Keys /\ expired'[t] = 0
        /\ \A u \in Timer : u # t => expired'[u] = expired[u]
    BY <1>1, HTInvFacts DEF Keys
  <1>5. Ordered(g, expired')
    <2>1. \A i \in 1..Len(g.list) : g.list[i] \in Timer /\ g.list[i] # t
      BY <1>2, LinkedIs, HeapIs
    <2>2. \A i \in 1..Len(g.list) : expired'[g.list[i]] = expired[g.list[i]]
      BY <1>4, <2>1
    <2> QED BY <1>2, <1>4, <2>2, OrderedOther, HTInvFacts
  <1>6. Timed'
    <2>1. ASSUME NEW u \in Timer PROVE index'[u] = 0 <=> expired'[u] = 0
      <3>1. CASE u = t
        BY <1>2, <1>3, <1>4, <3>1
      <3>2. CASE u # t
        BY <1>2, <1>3, <1>4, <3>2, HTInvFacts
      <3> QED BY <3>1, <3>2
    <2> QED BY <2>1 DEF Timed
  <1>7. HTInv'
    <2>1. HTTyped'
      BY <1>3, <1>4, HTInvFacts DEF HTTyped, Keys, Off
    <2>2. Linked(Heap)' /\ Ordered(Heap, expired)'
      BY <1>2, <1>3, <1>5 DEF Linked, Ordered, Order
    <2> QED BY <1>6, <2>1, <2>2 DEF HTInv
  <1>8. dues' = [dues EXCEPT ![t] = Off]
    BY <1>2, <1>3, <1>4, DuesFrom
  <1> QED BY <1>7, <1>8

LEMMA StartupIs ==
    ASSUME HTInv, ~Restart, NEW t \in Timer, NEW d \in Interval, Startup(t, d)
    PROVE  HTInv' /\ (dues' = dues \/ (dues[t] = Off /\ dues' = [dues EXCEPT ![t] = now + d]))
  <1> DEFINE set == [expired EXCEPT ![t] = now + d]
             g == HeapPush(Heap, set, t)
  <1>1. /\ index[t] = 0 /\ Becomes(g) /\ now' = now /\ round' = round
        /\ expired' = [set EXCEPT ![t] = IF g.index[t] = 0 THEN 0 ELSE @]
    BY DEF Startup
  <1>2. /\ set \in Keys /\ set[t] = now + d /\ now + d \in Nat /\ now + d # 0
        /\ \A u \in Timer : u # t => set[u] = expired[u]
    <2>1. d \in Nat
      BY TimerAssumption
    <2>2. now + d \in Nat /\ now + d # 0
      BY <2>1, HTInvFacts
    <2> QED BY <2>2, HTInvFacts DEF Keys
  <1> HIDE DEF set
  <1>3. Ordered(Heap, set)
    <2>1. \A i \in 1..Len(list) : list[i] \in Timer /\ list[i] # t
      BY <1>1, LinkedIs, HeapIs, HTInvFacts
    <2>2. \A i \in 1..Len(Heap.list) : set[Heap.list[i]] = expired[Heap.list[i]]
      BY <1>2, <2>1, HTInvFacts
    <2> QED BY <1>2, <2>2, OrderedOther, HTInvFacts
  <1>4. CASE Len(list) >= Capacity
    <2>1. g = Heap
      BY <1>4, HTInvFacts DEF HeapPush
    <2>2. list' = list /\ index' = index
      BY <1>1, <2>1, HTInvFacts DEF Becomes
    <2>3. g.index[t] = 0
      BY <1>1, <2>1, HTInvFacts
    <2> HIDE DEF g
    <2>4. expired' = expired
      <3>1. expired' = [set EXCEPT ![t] = 0]
        BY <1>1, <2>3
      <3>2. \A u \in Timer : [set EXCEPT ![t] = 0][u] = expired[u]
        BY <1>1, <1>2, HTInvFacts DEF Keys
      <3>3. [set EXCEPT ![t] = 0] \in [Timer -> Nat] /\ expired \in [Timer -> Nat]
        BY <1>2, HTInvFacts DEF Keys
      <3> QED BY <3>1, <3>2, <3>3
    <2>5. HTInv'
      BY <1>1, <2>2, <2>4 DEF HTInv, HTTyped, Linked, Ordered, Order, Heap, Timed, Keys, Off
    <2>6. dues' = dues
      BY <2>2, <2>4 DEF dues, Off
    <2> QED BY <2>5, <2>6
  <1>5. CASE ~(Len(list) >= Capacity)
    <2>1. /\ g \in Heaps /\ Linked(g) /\ Ordered(g, set)
          /\ g.index[t] # 0 /\ \A u \in Timer : u # t => (g.index[u] = 0 <=> index[u] = 0)
      <3>1. g = HeapPush(Heap, set, t)
        OBVIOUS
      <3> HIDE DEF g
      <3>2. /\ g \in Heaps /\ Linked(g) /\ Ordered(g, set)
            /\ g.index[t] # 0 /\ \A u \in Timer : u # t => (g.index[u] = 0 <=> Heap.index[u] = 0)
        <4>1. Heap.index[t] = 0 /\ ~(Len(Heap.list) >= Capacity)
          BY <1>1, <1>5, HTInvFacts
        <4> QED BY <1>2, <1>3, <3>1, <4>1, HTInvFacts, PushIs
      <3> QED BY <3>2, HTInvFacts
    <2> HIDE DEF g
    <2>2. list' \in Seq(Timer) /\ index' \in [Timer -> Nat] /\ index' = g.index /\ Heap' = g
      BY <1>1, <2>1, BecomesIs
    <2>3. expired' = set
      <3>1. expired' = [set EXCEPT ![t] = set[t]]
        BY <1>1, <2>1
      <3> QED BY <1>2, <3>1 DEF Keys
    <2>4. Timed'
      <3>1. ASSUME NEW u \in Timer PROVE index'[u] = 0 <=> expired'[u] = 0
        <4>1. CASE u = t
          BY <1>2, <2>1, <2>2, <2>3, <4>1
        <4>2. CASE u # t
          BY <1>2, <2>1, <2>2, <2>3, <4>2, HTInvFacts
        <4> QED BY <4>1, <4>2
      <3> QED BY <3>1 DEF Timed
    <2>5. HTInv'
      <3>1. HTTyped'
        BY <1>1, <1>2, <2>2, <2>3, HTInvFacts DEF HTTyped, Keys, Off
      <3>2. Linked(Heap)' /\ Ordered(Heap, expired)'
        BY <2>1, <2>2, <2>3 DEF Linked, Ordered, Order
      <3> QED BY <2>4, <3>1, <3>2 DEF HTInv
    <2>6. dues' = [dues EXCEPT ![t] = now + d]
      BY <1>2, <2>1, <2>2, <2>3, DuesFrom
    <2>7. dues[t] = Off
      BY <1>1 DEF dues
    <2> QED BY <2>5, <2>6, <2>7
  <1> QED BY <1>4, <1>5

\* The first entry has the earliest deadline of all.
LEMMA FirstDue ==
    ASSUME HTInv, list # <<>>
    PROVE  /\ list[1] \in Timer /\ dues[list[1]] = expired[list[1]] /\ dues[list[1]] # Off
           /\ \A u \in Timer : dues[u] # Off => expired[list[1]] <= dues[u]
  <1>1. 1 \in 1..Len(list) /\ list[1] \in Timer
    <2>1. list \in Seq(Timer) /\ Len(list) \in Nat /\ Len(list) # 0
      BY HTInvFacts, HeapIs, EmptySeq DEF HTInv, HTTyped
    <2> QED BY <2>1, ElementOfSeq
  <1>2. index[list[1]] = 1
    BY <1>1, HTInvFacts DEF Linked
  <1>3. dues[list[1]] = expired[list[1]] /\ expired[list[1]] \in Nat /\ Off \notin Nat
    BY <1>1, <1>2, HTInvFacts DEF dues
  <1>4. ASSUME NEW u \in Timer, dues[u] # Off PROVE expired[list[1]] <= dues[u]
    <2>1. index[u] # 0 /\ dues[u] = expired[u]
      BY <1>4 DEF dues
    <2>2. index[u] \in 1..Len(list) /\ list[index[u]] = u
      BY <2>1, HTInvFacts DEF Linked
    <2>3. \A j \in 1..Len(Heap.list) : expired[Heap.list[1]] <= expired[Heap.list[j]]
      BY HTInvFacts, FirstIsLeast
    <2>4. expired[list[1]] <= expired[list[index[u]]]
      BY <2>2, <2>3, HTInvFacts
    <2> QED BY <2>1, <2>2, <2>4
  <1> QED BY <1>1, <1>3, <1>4

\* The abstract actions, in terms of the heap.
LEMMA Fired ==
    ASSUME HTInv, NEW time \in Nat, Due(time), Gone(list[1]), now' = now, round' = time
    PROVE  /\ HTInv' /\ list[1] \in Timer /\ dues[list[1]] # Off /\ dues[list[1]] <= time
           /\ \A u \in Timer : dues[u] # Off => dues[list[1]] <= dues[u]
           /\ dues' = [dues EXCEPT ![list[1]] = Off]
  <1>1. /\ list # <<>> /\ expired[list[1]] <= time
    BY DEF Due
  <1>2. /\ list[1] \in Timer /\ dues[list[1]] # Off /\ dues[list[1]] <= time
        /\ \A u \in Timer : dues[u] # Off => dues[list[1]] <= dues[u]
    BY <1>1, FirstDue
  <1>3. HTInv' /\ dues' = [dues EXCEPT ![list[1]] = Off]
    BY <1>2, GoneIs
  <1> QED BY <1>2, <1>3

LEMMA NextHT ==
    ASSUME HTInv, ~Restart, [HTNext]_HTvars
    PROVE  HTInv' /\ [Promise!Next]_(Promise!vars)
  <1>1. ASSUME NEW t \in Timer, Stop(t) PROVE HTInv' /\ Promise!Next
    <2>1. Gone(t) /\ now' = now /\ round' = round
      BY <1>1 DEF Stop
    <2>2. HTInv' /\ dues' = [dues EXCEPT ![t] = Off]
      BY <2>1, GoneIs, HTInvFacts
    <2>3. Promise!Stop(t)
      BY <2>1, <2>2 DEF Promise!Stop, Promise!Off, dues, Off
    <2> QED BY <2>2, <2>3 DEF Promise!Next
  <1>2. ASSUME NEW t \in Timer, NEW d \in Interval, Startup(t, d)
        PROVE  HTInv' /\ [Promise!Next]_(Promise!vars)
    <2>1. now' = now /\ round' = round
      BY <1>2 DEF Startup
    <2>2. HTInv' /\ (dues' = dues \/ (dues[t] = Off /\ dues' = [dues EXCEPT ![t] = now + d]))
      BY <1>2, StartupIs
    <2>3. CASE dues' = dues
      <3>1. UNCHANGED Promise!vars
        BY <2>1, <2>3 DEF Promise!vars, dues
      <3> QED BY <2>2, <3>1
    <2>4. CASE dues[t] = Off /\ dues' = [dues EXCEPT ![t] = now + d]
      <3>1. Promise!Start(t, d)
        BY <2>1, <2>4 DEF Promise!Start, Promise!Off, dues, Off
      <3> QED BY <2>2, <3>1 DEF Promise!Next
    <2> QED BY <2>2, <2>3, <2>4
  <1>3. ASSUME CheckExpired PROVE HTInv' /\ Promise!Next
    <2>1. round = Off /\ Due(now) /\ Gone(list[1]) /\ round' = now /\ now' = now /\ now \in Nat
      BY <1>3, HTInvFacts DEF CheckExpired
    <2>2. /\ HTInv' /\ list[1] \in Timer /\ dues[list[1]] # Off /\ dues[list[1]] <= now
         /\ \A u \in Timer : dues[u] # Off => dues[list[1]] <= dues[u]
         /\ dues' = [dues EXCEPT ![list[1]] = Off]
      BY <2>1, Fired
    <2>t. PICK t \in Timer : t = list[1]
      BY <2>2
    <2>3. Promise!Fires(t)
      BY <2>1, <2>2, <2>t DEF Promise!Fires, Promise!Fire, Promise!Off, dues, Off
    <2> QED BY <2>2, <2>3 DEF Promise!Next
  <1>4. ASSUME CheckNext PROVE HTInv' /\ Promise!Next
    <2>1. round # Off /\ now' = now /\ round \in Nat
      BY <1>4, HTInvFacts DEF CheckNext
    <2>2. CASE Due(round)
      <3>1. Gone(list[1]) /\ round' = round
        BY <1>4, <2>2 DEF CheckNext
      <3>2. /\ HTInv' /\ list[1] \in Timer /\ dues[list[1]] # Off /\ dues[list[1]] <= round
           /\ \A u \in Timer : dues[u] # Off => dues[list[1]] <= dues[u]
           /\ dues' = [dues EXCEPT ![list[1]] = Off]
        BY <2>1, <2>2, <3>1, Fired
      <3>t. PICK t \in Timer : t = list[1]
        BY <3>2
      <3>3. Promise!Fires(t)
        BY <2>1, <3>1, <3>2, <3>t DEF Promise!Fires, Promise!Fire, Promise!Off, dues, Off
      <3> QED BY <3>2, <3>3 DEF Promise!Next
    <2>3. CASE ~Due(round)
      <3>1. round' = Off /\ UNCHANGED <<list, index, expired>>
        BY <1>4, <2>3 DEF CheckNext
      <3>2. HTInv'
        BY <2>1, <3>1 DEF HTInv, HTTyped, Linked, Ordered, Order, Heap, Timed, Keys, Off
      <3>3. ASSUME NEW t \in Timer, dues[t] # Off PROVE dues[t] > round
        <4>1. list # <<>>
          <5>1. index[t] # 0
            BY <3>3 DEF dues
          <5>2. index[t] \in 1..Len(list)
            BY <5>1, HTInvFacts DEF Linked
          <5>3. Len(<<>>) = 0
            OBVIOUS
          <5> QED BY <5>2, <5>3
        <4>2. list[1] \in Timer /\ expired[list[1]] <= dues[t] /\ dues[list[1]] = expired[list[1]]
              /\ dues[list[1]] # Off
          BY <3>3, <4>1, FirstDue
        <4>3. expired[list[1]] \in Nat /\ expired[list[1]] > 0 /\ dues[t] \in Nat
          <5>1. index[list[1]] # 0 /\ dues[t] = expired[t]
            BY <3>3, <4>2 DEF dues
          <5> QED BY <4>2, <5>1, HTInvFacts
        <4>4. ~(expired[list[1]] <= round)
          BY <2>3, <4>1, <4>3 DEF Due
        <4> QED BY <2>1, <4>2, <4>3, <4>4
      <3>4. dues' = dues
        BY <3>1 DEF dues, Off
      <3>5. Promise!EndRound
        BY <2>1, <3>1, <3>3, <3>4 DEF Promise!EndRound, Promise!Off, dues, Off
      <3> QED BY <3>2, <3>5 DEF Promise!Next
    <2> QED BY <2>2, <2>3
  <1>5. ASSUME Tick PROVE HTInv' /\ Promise!Next
    <2>1. now' = now + 1 /\ UNCHANGED <<list, index, expired, round>>
      BY <1>5 DEF Tick
    <2>2. now' \in Nat /\ now' >= 1
      BY <2>1, HTInvFacts
    <2>3. HTInv'
      BY <2>1, <2>2 DEF HTInv, HTTyped, Linked, Ordered, Order, Heap, Timed, Keys, Off
    <2>4. Promise!Tick
      BY <2>1 DEF Promise!Tick, Off
    <2> QED BY <2>3, <2>4 DEF Promise!Next
  <1>6. ASSUME UNCHANGED HTvars PROVE HTInv' /\ UNCHANGED Promise!vars
    BY <1>6 DEF HTvars, HTInv, HTTyped, Linked, Ordered, Order, Heap, Timed, Keys, Off, Promise!vars
  <1> QED BY <1>1, <1>2, <1>3, <1>4, <1>5, <1>6 DEF HTNext

\* The heap and the timers on it implement the timers of Timers: of any number of
\* timers, at any size of the heap, whatever is started and stopped in whatever order,
\* during a round too, the ones that fire are due, fire in the order of their deadlines,
\* and a round leaves none that was due.  For callers that start no timer that is
\* already in the heap (Startup sets its deadline before HeapPush refuses it).
THEOREM HeapImplementsTimers == ~Restart => (HTSpec => ImplementsTimers)
  <1>1. HTInit => HTInv
    BY InitHT
  <1>2. HTInit => Promise!Init
    <2>1. ASSUME HTInit PROVE Promise!Init
      <3>1. index = [t \in Timer |-> 0] /\ now = 1 /\ round = Off
        BY <2>1 DEF HTInit
      <3>2. dues = [t \in Timer |-> Off]
        BY <3>1 DEF dues
      <3> QED BY <3>1, <3>2 DEF Promise!Init, Promise!Off, dues, Off
    <2> QED BY <2>1
  <1>3. ASSUME ~Restart PROVE HTInv /\ [HTNext]_HTvars => HTInv' /\ [Promise!Next]_(Promise!vars)
    BY <1>3, NextHT
  <1>4. ASSUME ~Restart PROVE HTSpec => ImplementsTimers
    <2>1. HTInv /\ [HTNext]_HTvars => HTInv' /\ [Promise!Next]_(Promise!vars)
      BY <1>3, <1>4
    <2> QED BY <1>1, <1>2, <2>1, PTL DEF HTSpec, ImplementsTimers, Promise!Spec
  <1> QED BY <1>4
=============================================================================

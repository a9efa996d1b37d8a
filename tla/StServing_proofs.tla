---------------------------- MODULE StServing_proofs ----------------------------
(***************************************************************************)
(* That a server keeps its clients apart and answers each with its own     *)
(* line, for any numbers of clients, connections and buffers and any sizes *)
(* of the pools, of the buffers and of the lines.                          *)
(***************************************************************************)
EXTENDS StServing, SequenceTheorems, FiniteSetTheorems, TLAPS

-----------------------------------------------------------------------------
(* Sequences without repetitions: the pools of connections and buffers.    *)

LEMMA EmptyRange == Range(<<>>) = {} /\ IsInjective(<<>>)
  BY DEF Range, IsInjective

LEMMA Appended ==
    ASSUME NEW S, NEW q \in Seq(S), NEW x \in S
    PROVE  /\ Append(q, x) \in Seq(S)
           /\ Range(Append(q, x)) = Range(q) \cup {x}
           /\ IsInjective(q) /\ x \notin Range(q) => IsInjective(Append(q, x))
  <1> DEFINE r == Append(q, x)
             n == Len(q)
  <1>1. /\ r \in Seq(S) /\ Len(r) = n + 1 /\ r[n + 1] = x /\ \A k \in 1 .. n : r[k] = q[k]
        /\ n \in Nat /\ DOMAIN q = 1 .. n
    OBVIOUS
  <1>2. DOMAIN r = 1 .. (n + 1)
    BY <1>1
  <1> HIDE DEF r, n
  <1>3. \A k \in 1 .. (n + 1) : k = n + 1 \/ k \in 1 .. n
    BY <1>1
  <1>4. n + 1 \in 1 .. (n + 1) /\ \A k \in 1 .. n : k \in 1 .. (n + 1) /\ k # n + 1
    BY <1>1
  <1>5. Range(r) = Range(q) \cup {x}
    BY <1>1, <1>2, <1>3, <1>4 DEF Range
  <1>6. ASSUME IsInjective(q), x \notin Range(q) PROVE IsInjective(r)
    BY <1>1, <1>2, <1>3, <1>4, <1>6 DEF IsInjective, Range
  <1> QED BY <1>1, <1>5, <1>6 DEF r

\* The first element of a sequence without repetitions, and the others.
LEMMA TailOf ==
    ASSUME NEW S, NEW q \in Seq(S), q # <<>>, IsInjective(q)
    PROVE  /\ Head(q) \in Range(q) /\ Tail(q) \in Seq(S)
           /\ Range(Tail(q)) = Range(q) \ {Head(q)} /\ IsInjective(Tail(q))
  <1> DEFINE r == Tail(q)
             n == Len(q)
  <1>1. /\ r \in Seq(S) /\ Len(r) = n - 1 /\ Head(q) = q[1] /\ \A k \in 1 .. (n - 1) : r[k] = q[k + 1]
        /\ n \in Nat /\ n # 0 /\ DOMAIN q = 1 .. n
    OBVIOUS
  <1>2. DOMAIN r = 1 .. (n - 1)
    BY <1>1
  <1> HIDE DEF r, n
  <1>3. \A k \in 1 .. (n - 1) : k + 1 \in 1 .. n /\ k + 1 # 1
    BY <1>1
  <1>4. \A k \in 1 .. n : k = 1 \/ \E l \in 1 .. (n - 1) : k = l + 1
    <2> SUFFICES ASSUME NEW k \in 1 .. n, k # 1 PROVE \E l \in 1 .. (n - 1) : k = l + 1
      OBVIOUS
    <2>1. k - 1 \in 1 .. (n - 1) /\ k = (k - 1) + 1
      BY <1>1
    <2> QED BY <2>1
  <1>5. 1 \in 1 .. n
    BY <1>1
  <1>6. Range(r) = Range(q) \ {q[1]}
    <2>1. \A k \in 1 .. n : q[k] = q[1] => k = 1
      BY <1>1, <1>5 DEF IsInjective
    <2>2. \A y : y \in Range(r) <=> \E k \in 1 .. (n - 1) : y = q[k + 1]
      BY <1>1, <1>2 DEF Range
    <2>3. \A y : y \in Range(q) <=> \E k \in 1 .. n : y = q[k]
      BY <1>1 DEF Range
    <2> QED BY <1>3, <1>4, <1>5, <2>1, <2>2, <2>3
  <1>7. IsInjective(r)
    <2> SUFFICES ASSUME NEW k \in 1 .. (n - 1), NEW l \in 1 .. (n - 1), r[k] = r[l] PROVE k = l
      BY <1>2 DEF IsInjective
    <2>1. k + 1 \in DOMAIN q /\ l + 1 \in DOMAIN q /\ q[k + 1] = q[l + 1]
      BY <1>1, <1>3
    <2>2. k + 1 = l + 1
      BY <2>1 DEF IsInjective
    <2> QED BY <1>1, <2>2
  <1>8. Head(q) \in Range(q)
    BY <1>1, <1>5 DEF Range
  <1> QED BY <1>1, <1>6, <1>7, <1>8 DEF r
-----------------------------------------------------------------------------

\* Memory lasts: with two buffers for each connection but one, there is another one.
Enough ==
    /\ IsFiniteSet(Obj)
    /\ \A S \in SUBSET Buf : IsFiniteSet(S) /\ Cardinality(S) < 2 * Cardinality(Obj) => S # Buf

Sym == Client \cup {NL}
Buffer == [recv : Seq(Sym), msg : Seq(Sym), sent : Nat]
Pools == [made : SUBSET Buf, buf : [Buf -> Buffer], free : Seq(Buf)]

\* Between two actions a connection keeps no line of its application.
Conn(fd, a, b) == [fd |-> fd, recvbuf |-> a, sendbuf |-> b, line |-> <<>>, have |-> FALSE]
Conns == [fd : Client \cup {None}, recvbuf : Buf \cup {None}, sendbuf : Buf \cup {None},
          line : {<<>>}, have : {FALSE}]

Sockets == [state : {"closed", "backlog", "open", "left"}, in : Seq(Sym)]
Peers == [line : Seq(Sym), todo : Seq(Sym), got : Seq(Sym)]

\* The pool when the buffers S are in somebody's hands.
PoolOk(p, S) ==
    /\ p \in Pools /\ S \subseteq Buf
    /\ IsInjective(p.free) /\ Len(p.free) <= MaxFree
    /\ p.made = S \cup Range(p.free) /\ S \cap Range(p.free) = {}
    /\ \A b \in Range(p.free) : p.buf[b] = Fresh

Hands(o) == {conn[o].recvbuf, conn[o].sendbuf}
InHand == UNION {Hands(o) : o \in alive}

Types ==
    /\ conn \in [Obj -> Conns] /\ idle \in Seq(Obj) /\ alive \in SUBSET Obj
    /\ pc \in [Obj -> {"none", "recv", "send"}]
    /\ net \in [Client -> Sockets] /\ peer \in [Client -> Peers]

Buffers ==
    /\ PoolOk(pool, InHand)
    /\ \A o \in alive : conn[o].recvbuf # conn[o].sendbuf /\ Hands(o) \subseteq Buf
    /\ \A o, q \in alive : o # q => Hands(o) \cap Hands(q) = {}

Connections ==
    /\ IsInjective(idle) /\ alive = Running \cup Range(idle) /\ Running \cap Range(idle) = {}
    /\ \A o \in Range(idle) : pool.buf[conn[o].recvbuf] = Fresh
    /\ \A o \in Running : conn[o].fd \in Client /\ net[conn[o].fd].state \in {"open", "left"}
    /\ \A o, q \in Running : conn[o].fd = conn[q].fd => o = q

\* What comes after the first a symbols of a line, up to the b-th.
Part(line, a, b) == SubSeq(line, a + 1, b)

\* A line has its newline at the end, and nowhere else.
ALine(line) == \A i \in 1..Len(line) : line[i] = NL <=> i = Len(line)

\* How the line of a client stands, with recv in the receive buffer of its connection,
\* s its send buffer, n its socket, and the connection's coroutine in at.  Nothing has
\* been asked, or it was answered;
Answered(recv, n, p, at) ==
    at = "recv" /\ p.got = p.line /\ recv = <<>> /\ n.in = <<>> /\ (n.state # "left" => p.todo = <<>>)
\* it is on its way, in the buffer, the socket and at the client;
Coming(recv, n, p, at) ==
    LET a == Len(recv)
        b == Len(recv) + Len(n.in)
    IN  /\ at = "recv" /\ p.got = <<>> /\ a < Len(p.line) /\ b <= Len(p.line)
        /\ recv = Part(p.line, 0, a) /\ n.in = Part(p.line, a, b)
        /\ n.state # "left" => p.todo = Part(p.line, b, Len(p.line))
\* or it has been read and is sent.
Sending(recv, s, n, p, at) ==
    /\ at = "send" /\ p.got = <<>> /\ recv = <<>> /\ n.in = <<>> /\ (n.state # "left" => p.todo = <<>>)
    /\ s.msg = p.line /\ s.sent = 0 /\ p.line # <<>>
Flow(recv, s, n, p, at) ==
    /\ ALine(p.line)
    /\ Answered(recv, n, p, at) \/ Coming(recv, n, p, at) \/ Sending(recv, s, n, p, at)

RunningFlows ==
    \A o \in Running :
        Flow(pool.buf[conn[o].recvbuf].recv, pool.buf[conn[o].sendbuf], net[conn[o].fd],
             peer[conn[o].fd], pc[o])
ClientFlows ==
    \A c \in Client :
        /\ net[c].state = "backlog" => Flow(<<>>, Fresh, net[c], peer[c], "recv")
        /\ net[c].state = "closed" => net[c].in = <<>> /\ IsPrefix(peer[c].got, peer[c].line)
        /\ net[c].state \in {"open", "left"} => \E o \in Running : conn[o].fd = c

ServInv == Types /\ Buffers /\ Connections /\ RunningFlows /\ ClientFlows
-----------------------------------------------------------------------------
(* Parts of a line.                                                        *)

LEMMA SubSeqOf ==
    ASSUME NEW S, NEW line \in Seq(S), NEW a \in Nat, NEW b \in Nat, a <= b, b <= Len(line)
    PROVE  LET x == SubSeq(line, a + 1, b)
           IN  x \in Seq(S) /\ Len(x) = b - a /\ \A i \in 1..(b - a) : x[i] = line[a + i]
  <1> DEFINE x == SubSeq(line, a + 1, b)
  <1>1. a + 1 \in Int /\ b \in Int /\ Len(line) \in Nat /\ DOMAIN line = 1..Len(line)
    BY LenProperties
  <1>2. \A i \in (a + 1)..b : line[i] \in S
    <2>1. \A i \in (a + 1)..b : i \in 1..Len(line)
      BY <1>1
    <2> QED BY <2>1, ElementOfSeq
  <1>3. /\ x \in Seq(S) /\ Len(x) = (IF a + 1 <= b THEN b - (a + 1) + 1 ELSE 0)
        /\ \A i \in 1..(b - (a + 1) + 1) : x[i] = line[(a + 1) + i - 1]
    BY <1>1, <1>2, SubSeqProperties
  <1> HIDE DEF x
  <1>4. Len(x) = b - a
    BY <1>3
  <1>5. \A i \in 1..(b - a) : i \in 1..(b - (a + 1) + 1) /\ (a + 1) + i - 1 = a + i
    OBVIOUS
  <1> QED BY <1>3, <1>4, <1>5 DEF x

LEMMA PartOf ==
    ASSUME NEW S, NEW line \in Seq(S), NEW a \in Nat, NEW b \in Nat, a <= b, b <= Len(line),
           NEW x, x = Part(line, a, b)
    PROVE  x \in Seq(S) /\ Len(x) = b - a /\ \A i \in 1..(b - a) : x[i] = line[a + i]
  BY SubSeqOf DEF Part

\* The part of a part, and two parts in a row.
LEMMA PartOfPart ==
    ASSUME NEW S, NEW line \in Seq(S), NEW a \in Nat, NEW b \in Nat, a <= b, b <= Len(line),
           NEW x, x = Part(line, a, b), NEW n \in 0..(b - a)
    PROVE  /\ Part(x, 0, n) = Part(line, a, a + n)
           /\ Part(x, n, Len(x)) = Part(line, a + n, b)
  <1>1. x \in Seq(S) /\ Len(x) = b - a /\ \A i \in 1..(b - a) : x[i] = line[a + i]
    BY SubSeqOf DEF Part
  <1> DEFINE y == SubSeq(x, 0 + 1, n)
             z == SubSeq(line, a + 1, a + n)
             v == SubSeq(x, n + 1, b - a)
             w == SubSeq(line, (a + n) + 1, b)
  <1>2. y \in Seq(S) /\ Len(y) = n - 0 /\ \A i \in 1..(n - 0) : y[i] = x[0 + i]
    <2>1. 0 \in Nat /\ n \in Nat /\ 0 <= n /\ n <= Len(x)
      BY <1>1
    <2> QED BY <1>1, <2>1, SubSeqOf
  <1>3. z \in Seq(S) /\ Len(z) = (a + n) - a /\ \A i \in 1..((a + n) - a) : z[i] = line[a + i]
    <2>1. a + n \in Nat /\ a <= a + n /\ a + n <= Len(line) /\ Len(line) \in Nat
      BY LenProperties
    <2> QED BY <2>1, SubSeqOf
  <1>4. v \in Seq(S) /\ Len(v) = (b - a) - n /\ \A i \in 1..((b - a) - n) : v[i] = x[n + i]
    <2>1. n \in Nat /\ b - a \in Nat /\ n <= b - a /\ b - a <= Len(x)
      BY <1>1
    <2> QED BY <1>1, <2>1, SubSeqOf
  <1>5. w \in Seq(S) /\ Len(w) = b - (a + n) /\ \A i \in 1..(b - (a + n)) : w[i] = line[(a + n) + i]
    <2>1. a + n \in Nat /\ a + n <= b
      OBVIOUS
    <2> QED BY <2>1, SubSeqOf
  <1>6. /\ y = Part(x, 0, n) /\ v = Part(x, n, Len(x))
        /\ z = Part(line, a, a + n) /\ w = Part(line, a + n, b)
    BY <1>1 DEF Part
  <1>7. n \in Nat /\ n <= b - a /\ \A i \in 1..n : i \in 1..(b - a) /\ 0 + i = i
    OBVIOUS
  <1> HIDE DEF y, z, v, w
  <1>8. y = z
    <2>1. Len(y) = n /\ Len(z) = n
      BY <1>2, <1>3
    <2>2. \A i \in 1..n : y[i] = x[i] /\ z[i] = line[a + i] /\ x[i] = line[a + i]
      BY ONLY <1>1, <1>2, <1>3, <1>7, a \in Nat, b \in Nat
    <2> QED BY <1>2, <1>3, <2>1, <2>2, SeqEqual
  <1>9. v = w
    <2>1. Len(v) = Len(w)
      BY <1>4, <1>5
    <2>2. \A i \in 1..Len(v) : n + i \in 1..(b - a) /\ a + (n + i) = (a + n) + i
      BY <1>4
    <2>3. \A i \in 1..Len(v) : v[i] = w[i]
      BY <1>1, <1>4, <1>5, <2>2
    <2> QED BY <1>4, <1>5, <2>1, <2>3, SeqEqual
  <1> QED BY <1>6, <1>8, <1>9, Zenon

LEMMA PartsJoin ==
    ASSUME NEW S, NEW line \in Seq(S), NEW a \in Nat, NEW m \in Nat, NEW b \in Nat,
           a <= m, m <= b, b <= Len(line)
    PROVE  Part(line, a, m) \o Part(line, m, b) = Part(line, a, b)
  <1>1. Len(line) \in Nat
    BY LenProperties
  <1>2. a + 1 \in 1..(Len(line) + 1) /\ m \in ((a + 1) - 1)..Len(line) /\ b \in m..Len(line)
    BY <1>1
  <1> QED BY <1>2, ConcatAdjacentSubSeq DEF Part

\* The next k symbols, x, leave todo, what comes up to the e-th, for what is there, in.
Moved(S, line, a, b, e, in, todo, k, x, y) ==
    /\ b + k \in Nat /\ b + k <= e
    /\ in \o x = Part(line, a, b + k) /\ in \o x \in Seq(S) /\ Len(in \o x) = (b + k) - a
    /\ y = Part(line, b + k, e) /\ y \in Seq(S) /\ Len(y) = e - (b + k)

LEMMA PartsMove ==
    ASSUME NEW S, NEW line \in Seq(S), NEW a \in Nat, NEW b \in Nat, NEW e \in Nat,
           a <= b, b <= e, e <= Len(line),
           NEW in, in = Part(line, a, b), NEW todo, todo = Part(line, b, e), NEW k \in 1..Len(todo),
           NEW x, x = Part(todo, 0, k), NEW y, y = Part(todo, k, Len(todo))
    PROVE  Moved(S, line, a, b, e, in, todo, k, x, y)
  <1>1. Len(line) \in Nat
    BY LenProperties
  <1>2. Len(todo) = e - b
    BY <1>1, SubSeqOf DEF Part
  <1>3. k \in 0..(e - b) /\ b + k \in Nat /\ b + k <= e /\ a <= b + k /\ b <= b + k /\ b + k <= Len(line)
    BY <1>1, <1>2
  <1>4. x = Part(line, b, b + k) /\ y = Part(line, b + k, e)
    BY <1>3, PartOfPart
  <1>5. in \o x = Part(line, a, b + k)
    <2>1. SubSeq(line, a + 1, b) \o SubSeq(line, b + 1, b + k) = SubSeq(line, a + 1, b + k)
      <3>1. a + 1 \in 1..(Len(line) + 1) /\ b \in ((a + 1) - 1)..Len(line) /\ b + k \in b..Len(line)
        BY <1>1, <1>3
      <3> QED BY <3>1, ConcatAdjacentSubSeq
    <2> QED BY <1>4, <2>1, Zenon DEF Part
  <1>6. in \o x \in Seq(S) /\ Len(in \o x) = (b + k) - a
    <2> DEFINE z == in \o x
    <2>1. z = Part(line, a, b + k) /\ a <= b + k /\ b + k <= Len(line) /\ b + k \in Nat
      BY <1>3, <1>5
    <2> HIDE DEF z
    <2>2. z \in Seq(S) /\ Len(z) = (b + k) - a
      BY <2>1, SubSeqOf DEF Part
    <2> QED BY <2>2 DEF z
  <1>7. y \in Seq(S) /\ Len(y) = e - (b + k)
    <2> DEFINE m == b + k
    <2>1. y = Part(line, m, e) /\ m <= e /\ m \in Nat
      BY <1>3, <1>4
    <2> HIDE DEF m
    <2>2. y \in Seq(S) /\ Len(y) = e - m
      BY <2>1, SubSeqOf DEF Part
    <2> QED BY <2>2 DEF m
  <1> QED BY <1>3, <1>4, <1>5, <1>6, <1>7 DEF Moved

LEMMA PartIs ==
    ASSUME NEW x, NEW n \in Int, NEW m
    PROVE  SubSeq(x, 1, m) = Part(x, 0, m) /\ SubSeq(x, n + 1, m) = Part(x, n, m)
  <1>1. 0 + 1 = 1
    OBVIOUS
  <1> QED BY <1>1 DEF Part

LEMMA Whole ==
    ASSUME NEW S, NEW line \in Seq(S)
    PROVE  /\ Part(line, 0, Len(line)) = line /\ Len(line) \in Nat
           /\ Part(line, Len(line), Len(line)) = <<>> /\ Part(line, 0, 0) = <<>>
           /\ Len(line) = 0 <=> line = <<>>
  <1>1. SubSeq(line, 1, Len(line)) = line /\ Len(line) \in Nat /\ (Len(line) = 0 <=> line = <<>>)
    BY SubSeqFull, LenProperties, EmptySeq
  <1>2. Part(line, Len(line), Len(line)) = <<>> /\ Part(line, 0, 0) = <<>>
    BY <1>1, SubSeqEmpty DEF Part
  <1>3. Part(line, 0, Len(line)) = line
    BY <1>1, PartIs
  <1> QED BY <1>1, <1>2, <1>3

LEMMA PrefixOf ==
    ASSUME NEW S, NEW line \in Seq(S), NEW n \in 0..Len(line)
    PROVE  IsPrefix(Part(line, 0, n), line)
  <1> DEFINE x == Part(line, 0, n)
  <1>1. 0 \in Nat /\ n \in Nat /\ n <= Len(line) /\ Len(line) \in Nat
    BY LenProperties
  <1>2. x \in Seq(S) /\ Len(x) = n - 0
    BY <1>1, PartOf
  <1>3. SubSeq(x, 1, Len(x)) = x
    <2> HIDE DEF x
    <2> QED BY <1>2, SubSeqFull
  <1>4. x = SubSeq(line, 1, n) /\ Len(x) = n
    BY <1>1, <1>2, PartIs
  <1> HIDE DEF x
  <1>5. IsPrefix(x, line)
    BY <1>1, <1>3, <1>4 DEF IsPrefix
  <1> QED BY <1>5 DEF x
-----------------------------------------------------------------------------
(* The pool of buffers.                                                    *)

LEMMA FreshIs == Fresh \in Buffer /\ Fresh.recv = <<>> /\ Fresh.msg = <<>> /\ Fresh.sent = 0
  BY EmptySeq DEF Fresh, Buffer

LEMMA BufferGot ==
    ASSUME NEW p, NEW S, PoolOk(p, S), S # Buf
    PROVE  LET b == Got(p)
               q == GetBuffer(p)
           IN  /\ b \in Buf \ S /\ PoolOk(q, S \cup {b}) /\ q.buf[b] = Fresh
               /\ \A x \in S : q.buf[x] = p.buf[x]
  <1> DEFINE b == Got(p)
             q == GetBuffer(p)
  <1>1. /\ p \in Pools /\ S \subseteq Buf /\ IsInjective(p.free) /\ Len(p.free) <= MaxFree
        /\ p.made = S \cup Range(p.free) /\ S \cap Range(p.free) = {}
        /\ (\A x \in Range(p.free) : p.buf[x] = Fresh) /\ p.free \in Seq(Buf)
    BY DEF PoolOk, Pools
  <1>2. Range(p.free) \subseteq Buf
    BY <1>1, LenProperties DEF Range
  <1>3. CASE p.free # <<>>
    <2> DEFINE rest == Tail(p.free)
    <2>1. b = Head(p.free) /\ q = [p EXCEPT !.free = rest]
      BY <1>3 DEF Got, GetBuffer
    <2>2. /\ Head(p.free) \in Range(p.free) /\ rest \in Seq(Buf)
          /\ Range(rest) = Range(p.free) \ {Head(p.free)} /\ IsInjective(rest)
      BY <1>1, <1>3, TailOf
    <2>3. Len(rest) <= MaxFree
      <3>1. Len(rest) = Len(p.free) - 1 /\ Len(p.free) \in Nat
        BY <1>1, <1>3, HeadTailProperties, LenProperties
      <3> QED BY <1>1, <3>1, ServingAssumption
    <2> HIDE DEF b, rest
    <2>4. q \in Pools /\ q.free = rest /\ q.made = p.made /\ q.buf = p.buf
      BY <1>1, <2>1, <2>2 DEF Pools
    <2> HIDE DEF q
    <2>5. b \in Buf \ S /\ q.buf[b] = Fresh
      BY <1>1, <1>2, <2>1, <2>2, <2>4
    <2>6. q.made = (S \cup {b}) \cup Range(q.free) /\ (S \cup {b}) \cap Range(q.free) = {}
      BY <1>1, <2>1, <2>2, <2>4
    <2>7. PoolOk(q, S \cup {b})
      BY <1>1, <2>2, <2>3, <2>4, <2>5, <2>6 DEF PoolOk
    <2> QED BY <2>4, <2>5, <2>7 DEF b, q
  <1>4. CASE p.free = <<>>
    <2>1. b = (CHOOSE x \in Buf : x \notin p.made) /\ q = [p EXCEPT !.made = @ \cup {b}, !.buf[b] = Fresh]
      BY <1>4 DEF Got, GetBuffer
    <2>2. Range(p.free) = {} /\ p.made = S
      <3>1. Range(<<>>) = {}
        BY EmptyRange
      <3> QED BY <1>1, <1>4, <3>1
    <2>3. \E x \in Buf : x \notin p.made
      BY <1>1, <2>2
    <2>4. b \in Buf /\ b \notin S
      BY <2>1, <2>2, <2>3
    <2> HIDE DEF b
    <2>5. q.free = p.free /\ q.made = p.made \cup {b} /\ q.buf = [p.buf EXCEPT ![b] = Fresh] /\ q \in Pools
      <3> DEFINE new == [p.buf EXCEPT ![b] = Fresh]
                 made == p.made \cup {b}
      <3>1. new \in [Buf -> Buffer] /\ made \in SUBSET Buf
        BY <1>1, <2>4, FreshIs DEF Pools
      <3>2. q = [p EXCEPT !.made = made, !.buf = new]
        BY <2>1
      <3> HIDE DEF new, made
      <3>3. q.free = p.free /\ q.made = made /\ q.buf = new /\ q \in Pools
        BY <1>1, <3>1, <3>2 DEF Pools
      <3> QED BY <3>3 DEF new, made
    <2> HIDE DEF q
    <2>6. q.buf[b] = Fresh /\ \A x \in S : q.buf[x] = p.buf[x]
      BY <1>1, <2>4, <2>5 DEF Pools
    <2>7. PoolOk(q, S \cup {b})
      BY <1>1, <2>2, <2>4, <2>5 DEF PoolOk
    <2> QED BY <2>4, <2>6, <2>7 DEF b, q
  <1> QED BY <1>3, <1>4

LEMMA BufferFreed ==
    ASSUME NEW p, NEW S, PoolOk(p, S), NEW b \in S
    PROVE  LET q == FreeBuffer(p, b)
           IN  PoolOk(q, S \ {b}) /\ \A x \in S \ {b} : q.buf[x] = p.buf[x]
  <1> DEFINE q == FreeBuffer(p, b)
  <1>1. /\ p \in Pools /\ S \subseteq Buf /\ IsInjective(p.free) /\ Len(p.free) <= MaxFree
        /\ p.made = S \cup Range(p.free) /\ S \cap Range(p.free) = {} /\ b \in Buf
        /\ (\A x \in Range(p.free) : p.buf[x] = Fresh) /\ p.free \in Seq(Buf)
    BY DEF PoolOk, Pools
  <1>2. CASE Len(p.free) >= MaxFree
    <2>1. q = [p EXCEPT !.made = @ \ {b}]
      BY <1>2 DEF FreeBuffer
    <2>2. q \in Pools /\ q.free = p.free /\ q.buf = p.buf /\ q.made = p.made \ {b}
      BY <1>1, <2>1 DEF Pools
    <2> HIDE DEF q
    <2>3. PoolOk(q, S \ {b})
      BY <1>1, <2>2 DEF PoolOk
    <2> QED BY <2>2, <2>3 DEF q
  <1>3. CASE ~(Len(p.free) >= MaxFree)
    <2> DEFINE more == Append(p.free, b)
    <2>1. q = [p EXCEPT !.buf[b] = Fresh, !.free = more]
      BY <1>3 DEF FreeBuffer, ResetBuffer
    <2>2. more \in Seq(Buf) /\ Range(more) = Range(p.free) \cup {b} /\ IsInjective(more)
      BY <1>1, Appended
    <2>3. Len(more) <= MaxFree
      <3>1. Len(more) = Len(p.free) + 1 /\ Len(p.free) \in Nat
        BY <1>1, AppendProperties, LenProperties
      <3> QED BY <1>3, <3>1, ServingAssumption
    <2> HIDE DEF more
    <2>4. q.free = more /\ q.made = p.made /\ q.buf = [p.buf EXCEPT ![b] = Fresh] /\ q \in Pools
      <3> DEFINE new == [p.buf EXCEPT ![b] = Fresh]
      <3>1. new \in [Buf -> Buffer]
        BY <1>1, FreshIs DEF Pools
      <3>2. q = [p EXCEPT !.buf = new, !.free = more]
        BY <2>1
      <3> HIDE DEF new
      <3>3. q.free = more /\ q.made = p.made /\ q.buf = new /\ q \in Pools
        BY <1>1, <2>2, <3>1, <3>2 DEF Pools
      <3> QED BY <3>3 DEF new
    <2> HIDE DEF q
    <2>5. \A x \in Buf : q.buf[x] = IF x = b THEN Fresh ELSE p.buf[x]
      BY <1>1, <2>4 DEF Pools
    <2>6. Range(q.free) \subseteq Buf
      BY <2>2, <2>4, LenProperties DEF Range
    <2>7. \A x \in Range(q.free) : q.buf[x] = Fresh
      BY <1>1, <2>2, <2>4, <2>5, <2>6
    <2>8. PoolOk(q, S \ {b})
      BY <1>1, <2>2, <2>3, <2>4, <2>7 DEF PoolOk
    <2>9. \A x \in S \ {b} : q.buf[x] = p.buf[x]
      BY <1>1, <2>5
    <2> QED BY <2>8, <2>9 DEF q
  <1> QED BY <1>2, <1>3

LEMMA GivenBack ==
    ASSUME NEW p, NEW S, PoolOk(p, S), NEW r, r.sendbuf \in S, r.recvbuf \in S, r.recvbuf # r.sendbuf
    PROVE  LET q == GiveBack(p, r)
               T == S \ {r.recvbuf, r.sendbuf}
           IN  PoolOk(q, T) /\ \A x \in T : q.buf[x] = p.buf[x]
  <1> DEFINE a == r.sendbuf
             b == r.recvbuf
             m == FreeBuffer(p, a)
             q == FreeBuffer(m, b)
             U == S \ {a}
  <1>1. PoolOk(m, U) /\ \A x \in U : m.buf[x] = p.buf[x]
    BY BufferFreed
  <1>2. b \in U
    OBVIOUS
  <1> HIDE DEF m, U
  <1>3. PoolOk(q, U \ {b}) /\ \A x \in U \ {b} : q.buf[x] = m.buf[x]
    BY <1>1, <1>2, BufferFreed
  <1>4. U \ {b} = S \ {r.recvbuf, r.sendbuf}
    BY DEF U
  <1>5. GiveBack(p, r) = q
    BY DEF GiveBack, m
  <1> HIDE DEF q
  <1> QED BY <1>1, <1>3, <1>4, <1>5

\* Two buffers more, one after the other.
LEMMA TwoMore ==
    ASSUME NEW p, NEW S, PoolOk(p, S), \A x \in Buf : S \cup {x} # Buf, S # Buf
    PROVE  LET q == GetBuffer(p)
               a == Got(p)
               b == Got(q)
               m == GetBuffer(q)
           IN  /\ a \in Buf \ S /\ b \in Buf \ S /\ a # b
               /\ PoolOk(m, S \cup {a, b}) /\ m.buf[a] = Fresh /\ m.buf[b] = Fresh
               /\ \A x \in S : m.buf[x] = p.buf[x]
  <1> DEFINE q == GetBuffer(p)
             a == Got(p)
             b == Got(q)
             m == GetBuffer(q)
             U == S \cup {a}
  <1>1. a \in Buf \ S /\ PoolOk(q, U) /\ q.buf[a] = Fresh /\ \A x \in S : q.buf[x] = p.buf[x]
    BY BufferGot
  <1>2. U # Buf
    BY <1>1
  <1> HIDE DEF q, U
  <1>3. b \in Buf \ U /\ PoolOk(m, U \cup {b}) /\ m.buf[b] = Fresh /\ \A x \in U : m.buf[x] = q.buf[x]
    BY <1>1, <1>2, BufferGot
  <1>4. U \cup {b} = S \cup {a, b} /\ S \subseteq U /\ a \in U
    BY DEF U
  <1> HIDE DEF a, b, m
  <1>5. /\ a \in Buf \ S /\ b \in Buf \ S /\ a # b /\ PoolOk(m, S \cup {a, b})
        /\ m.buf[a] = Fresh /\ m.buf[b] = Fresh /\ \A x \in S : m.buf[x] = p.buf[x]
    BY <1>1, <1>3, <1>4
  <1> QED BY <1>5 DEF q, a, b, m

\* What was taken from the pool p besides S: two buffers for a connection with the socket fd.
Taken(new, S, p, fd) ==
    \E m, a, b :
        /\ new = [pool |-> m, conn |-> Conn(fd, a, b)]
        /\ a \in Buf \ S /\ b \in Buf \ S /\ a # b /\ PoolOk(m, S \cup {a, b})
        /\ m.buf[a] = Fresh /\ m.buf[b] = Fresh /\ \A x \in S : m.buf[x] = p.buf[x]

LEMMA TakenFirst ==
    ASSUME NEW p, NEW S, PoolOk(p, S), \A x \in Buf : S \cup {x} # Buf, S # Buf, NEW r \in Conns
    PROVE  Taken(TakeRecvFirst(p, r), S, p, r.fd) /\ Taken(TakeSendFirst(p, r), S, p, r.fd)
  <1> DEFINE q == GetBuffer(p)
             a == Got(p)
             b == Got(q)
             m == GetBuffer(q)
  <1>1. /\ a \in Buf \ S /\ b \in Buf \ S /\ a # b
        /\ PoolOk(m, S \cup {a, b}) /\ m.buf[a] = Fresh /\ m.buf[b] = Fresh
        /\ \A x \in S : m.buf[x] = p.buf[x]
    BY TwoMore
  <1>2. /\ TakeRecvFirst(p, r) = [pool |-> m, conn |-> [r EXCEPT !.recvbuf = a, !.sendbuf = b]]
        /\ TakeSendFirst(p, r) = [pool |-> m, conn |-> [r EXCEPT !.sendbuf = a, !.recvbuf = b]]
    BY DEF TakeRecvFirst, TakeSendFirst
  <1> HIDE DEF q, a, b, m
  <1>3. /\ [r EXCEPT !.recvbuf = a, !.sendbuf = b] = Conn(r.fd, a, b)
        /\ [r EXCEPT !.sendbuf = a, !.recvbuf = b] = Conn(r.fd, b, a)
    <2>1. PICK fd, c, d, e, h :
              /\ r = [fd |-> fd, recvbuf |-> c, sendbuf |-> d, line |-> e, have |-> h]
              /\ e = <<>> /\ h = FALSE
      BY DEF Conns
    <2>2. r.fd = fd /\ r = [fd |-> fd, recvbuf |-> c, sendbuf |-> d, line |-> e, have |-> h]
      BY <2>1
    <2>3. [r EXCEPT !.recvbuf = a, !.sendbuf = b]
            = [fd |-> fd, recvbuf |-> a, sendbuf |-> b, line |-> e, have |-> h]
      <3> DEFINE u == [r EXCEPT !.recvbuf = a]
      <3>1. u = [fd |-> fd, recvbuf |-> a, sendbuf |-> d, line |-> e, have |-> h]
        BY ONLY <2>2
      <3> HIDE DEF u
      <3>2. [u EXCEPT !.sendbuf = b] = [fd |-> fd, recvbuf |-> a, sendbuf |-> b, line |-> e, have |-> h]
        BY ONLY <3>1
      <3> QED BY <3>2 DEF u
    <2>4. [r EXCEPT !.sendbuf = a, !.recvbuf = b]
            = [fd |-> fd, recvbuf |-> b, sendbuf |-> a, line |-> e, have |-> h]
      <3> DEFINE u == [r EXCEPT !.sendbuf = a]
      <3>1. u = [fd |-> fd, recvbuf |-> c, sendbuf |-> a, line |-> e, have |-> h]
        BY ONLY <2>2
      <3> HIDE DEF u
      <3>2. [u EXCEPT !.recvbuf = b] = [fd |-> fd, recvbuf |-> b, sendbuf |-> a, line |-> e, have |-> h]
        BY ONLY <3>1
      <3> QED BY <3>2 DEF u
    <2>5. e = <<>> /\ h = FALSE
      BY <2>1
    <2> QED BY <2>2, <2>3, <2>4, <2>5 DEF Conn
  <1>4. S \cup {a, b} = S \cup {b, a}
    OBVIOUS
  <1>5. /\ TakeRecvFirst(p, r) = [pool |-> m, conn |-> Conn(r.fd, a, b)]
        /\ TakeSendFirst(p, r) = [pool |-> m, conn |-> Conn(r.fd, b, a)]
        /\ PoolOk(m, S \cup {b, a})
    BY <1>1, <1>2, <1>3, <1>4
  <1>6. \E n, c, d :
          /\ TakeRecvFirst(p, r) = [pool |-> n, conn |-> Conn(r.fd, c, d)]
          /\ c \in Buf \ S /\ d \in Buf \ S /\ c # d /\ PoolOk(n, S \cup {c, d})
          /\ n.buf[c] = Fresh /\ n.buf[d] = Fresh /\ \A x \in S : n.buf[x] = p.buf[x]
    BY <1>1, <1>5
  <1>7. \E n, c, d :
          /\ TakeSendFirst(p, r) = [pool |-> n, conn |-> Conn(r.fd, c, d)]
          /\ c \in Buf \ S /\ d \in Buf \ S /\ c # d /\ PoolOk(n, S \cup {c, d})
          /\ n.buf[c] = Fresh /\ n.buf[d] = Fresh /\ \A x \in S : n.buf[x] = p.buf[x]
    BY <1>1, <1>5
  <1> QED BY <1>6, <1>7 DEF Taken

\* The buffers of A.
OfAll(S, A, f, g) ==
    A \in SUBSET Obj /\ A # Obj /\ f \in [A -> Buf] /\ g \in [A -> Buf] /\ S = UNION {{f[o], g[o]} : o \in A}

\* There are buffers for one connection more than those of A.
LEMMA RoomFor ==
    ASSUME Enough, NEW S, NEW A, NEW f, NEW g, OfAll(S, A, f, g)
    PROVE  S # Buf /\ \A x \in Buf : S \cup {x} # Buf
  <1>10. A \in SUBSET Obj /\ A # Obj /\ f \in [A -> Buf] /\ g \in [A -> Buf] /\ S = UNION {{f[o], g[o]} : o \in A}
    BY DEF OfAll
  <1> DEFINE P == A \X {1, 2}
             h == [z \in P |-> IF z[2] = 1 THEN f[z[1]] ELSE g[z[1]]]
  <1>1. IsFiniteSet(Obj) /\ Cardinality(Obj) \in Nat /\ IsFiniteSet(A) /\ Cardinality(A) \in Nat
        /\ Cardinality(A) <= Cardinality(Obj) /\ Cardinality(A) # Cardinality(Obj)
    <2>1. IsFiniteSet(Obj)
      BY DEF Enough
    <2> QED BY <1>10, <2>1, FS_Subset, FS_CardinalityType
  <1>2. IsFiniteSet({1, 2}) /\ Cardinality({1, 2}) = 2
    <2>1. IsFiniteSet({1}) /\ Cardinality({1}) = 1
      BY FS_Singleton
    <2> DEFINE U == {1, 2}
               V == {1}
    <2>2. U = V \cup {2} /\ 2 \notin V
      OBVIOUS
    <2>3. IsFiniteSet(V) /\ Cardinality(V) = 1
      BY <2>1
    <2> HIDE DEF U, V
    <2>4. IsFiniteSet(U) /\ Cardinality(U) = Cardinality(V) + 1
      BY <2>2, <2>3, FS_AddElement
    <2>5. IsFiniteSet(U) /\ Cardinality(U) = 2
      BY <2>3, <2>4
    <2> QED BY <2>5 DEF U
  <1>3. IsFiniteSet(P) /\ Cardinality(P) = 2 * Cardinality(A)
    <2>1. IsFiniteSet(P) /\ Cardinality(P) = Cardinality(A) * Cardinality({1, 2})
      BY <1>1, <1>2, FS_Product
    <2> QED BY <1>1, <1>2, <2>1
  <1>4. h \in Surjection(P, S)
    <2>1. \A z \in P : h[z] \in S
      <3> SUFFICES ASSUME NEW o \in A, NEW i \in {1, 2} PROVE h[<<o, i>>] \in S
        OBVIOUS
      <3> QED BY <1>10
    <2>2. \A y \in S : \E z \in P : h[z] = y
      <3> SUFFICES ASSUME NEW y \in S PROVE \E z \in P : h[z] = y
        OBVIOUS
      <3>3. PICK o \in A : y = f[o] \/ y = g[o]
        BY <1>10
      <3>1. CASE y = f[o]
        <4>1. <<o, 1>> \in P /\ h[<<o, 1>>] = f[o]
          OBVIOUS
        <4> QED BY <3>1, <4>1
      <3>2. CASE y = g[o]
        <4>1. <<o, 2>> \in P /\ h[<<o, 2>>] = g[o]
          OBVIOUS
        <4> QED BY <3>2, <4>1
      <3> QED BY <3>3, <3>1, <3>2
    <2>3. h \in [P -> S]
      BY <2>1
    <2> HIDE DEF h, P
    <2> QED BY <2>2, <2>3 DEF Surjection
  <1> HIDE DEF h, P
  <1>5. IsFiniteSet(S) /\ Cardinality(S) <= 2 * Cardinality(A) /\ Cardinality(S) \in Nat
    <2>1. IsFiniteSet(S) /\ Cardinality(S) <= Cardinality(P)
      <3> QED BY <1>3, <1>4, FS_Surjection
    <2> QED BY <1>3, <2>1, FS_CardinalityType
  <1>6. S \in SUBSET Buf
    BY <1>10
  <1>9. IsFiniteSet(S) /\ Cardinality(S) < 2 * Cardinality(Obj)
    BY <1>1, <1>5
  <1>7. S # Buf
    BY <1>6, <1>9, Zenon DEF Enough
  <1>8. ASSUME NEW x \in Buf
        PROVE  S \cup {x} # Buf
    <2>1. /\ IsFiniteSet(S \cup {x})
          /\ Cardinality(S \cup {x}) = Cardinality(S) \/ Cardinality(S \cup {x}) = Cardinality(S) + 1
      BY <1>5, FS_AddElement
    <2>2. Cardinality(S \cup {x}) < 2 * Cardinality(Obj)
      BY <1>1, <1>5, <2>1
    <2> QED BY <1>6, <2>1, <2>2 DEF Enough
  <1> QED BY <1>7, <1>8
-----------------------------------------------------------------------------
(* A step at one connection, and at one client.                            *)

\* The buffers in hand but for those of o.
OtherHands(o) == UNION {Hands(q) : q \in alive \ {o}}

LEMMA HandsApart ==
    ASSUME ServInv, NEW o \in Obj
    PROVE  /\ InHand \subseteq Buf /\ PoolOk(pool, InHand) /\ conn[o] \in Conns
           /\ o \in alive => /\ conn[o].recvbuf \in InHand /\ conn[o].sendbuf \in InHand
                             /\ conn[o].recvbuf # conn[o].sendbuf
                             /\ OtherHands(o) = InHand \ {conn[o].recvbuf, conn[o].sendbuf}
           /\ o \notin alive => OtherHands(o) = InHand
  <1>1. InHand \subseteq Buf /\ PoolOk(pool, InHand) /\ conn[o] \in Conns
    BY DEF ServInv, Types, Buffers, PoolOk
  <1>2. ASSUME o \in alive
        PROVE  /\ conn[o].recvbuf \in InHand /\ conn[o].sendbuf \in InHand
               /\ conn[o].recvbuf # conn[o].sendbuf
               /\ OtherHands(o) = InHand \ {conn[o].recvbuf, conn[o].sendbuf}
    <2>1. conn[o].recvbuf # conn[o].sendbuf
      BY <1>2 DEF ServInv, Buffers
    <2>2. Hands(o) \subseteq InHand
      BY <1>2 DEF InHand
    <2>3. \A q \in alive \ {o} : Hands(q) \cap Hands(o) = {}
      BY <1>2 DEF ServInv, Buffers
    <2>4. \A x : x \in OtherHands(o) <=> \E q \in alive \ {o} : x \in Hands(q)
      BY DEF OtherHands
    <2>5. \A x : x \in InHand <=> \E q \in alive : x \in Hands(q)
      BY DEF InHand
    <2>6. OtherHands(o) = InHand \ Hands(o)
      BY <1>2, <2>3, <2>4, <2>5
    <2> QED BY <2>1, <2>2, <2>6 DEF Hands
  <1>3. o \notin alive => OtherHands(o) = InHand
    <2>1. o \notin alive => alive \ {o} = alive
      OBVIOUS
    <2> QED BY <2>1 DEF OtherHands, InHand
  <1> QED BY <1>1, <1>2, <1>3

LEMMA BuffersStep ==
    ASSUME ServInv, NEW o \in Obj, NEW r \in Conns, conn' = [conn EXCEPT ![o] = r],
           NEW p, pool' = p,
           \/ alive' = alive \ {o} /\ PoolOk(p, OtherHands(o))
           \/ /\ alive' = (alive \ {o}) \cup {o} /\ r.recvbuf \in Buf \ OtherHands(o) /\ r.sendbuf \in Buf \ OtherHands(o)
              /\ r.recvbuf # r.sendbuf /\ PoolOk(p, OtherHands(o) \cup {r.recvbuf, r.sendbuf})
    PROVE  Buffers'
  <1> DEFINE A == alive \ {o}
             R == OtherHands(o)
  <1>1. /\ conn'[o] = r /\ \A q \in A : conn'[q] = conn[q] /\ q \in Obj
    BY DEF ServInv, Types
  <1>2. /\ \A q \in A : conn[q].recvbuf # conn[q].sendbuf /\ Hands(q) \subseteq Buf
        /\ \A q, t \in A : q # t => Hands(q) \cap Hands(t) = {}
        /\ \A q \in A : Hands(q) \subseteq R
    BY DEF ServInv, Buffers, OtherHands
  <1>3. \A q \in A : {conn'[q].recvbuf, conn'[q].sendbuf} = Hands(q)
    BY <1>1 DEF Hands
  <1>4. CASE alive' = A /\ PoolOk(p, R)
    <2>1. UNION {{conn'[q].recvbuf, conn'[q].sendbuf} : q \in alive'} = R
      BY <1>3, <1>4 DEF OtherHands
    <2>2. PoolOk(p, UNION {{conn'[q].recvbuf, conn'[q].sendbuf} : q \in alive'})
      BY <1>4, <2>1
    <2> QED BY <1>1, <1>2, <1>3, <1>4, <2>2 DEF Buffers, PoolOk, InHand, Hands
  <1>5. CASE /\ alive' = A \cup {o} /\ r.recvbuf \in Buf \ R /\ r.sendbuf \in Buf \ R
             /\ r.recvbuf # r.sendbuf /\ PoolOk(p, R \cup {r.recvbuf, r.sendbuf})
    <2>1. UNION {{conn'[q].recvbuf, conn'[q].sendbuf} : q \in alive'} = R \cup {r.recvbuf, r.sendbuf}
      <3>1. \A x : x \in R <=> \E q \in A : x \in Hands(q)
        BY DEF OtherHands
      <3> HIDE DEF R, A
      <3> QED BY <1>1, <1>3, <1>5, <3>1
    <2>2. PoolOk(p, UNION {{conn'[q].recvbuf, conn'[q].sendbuf} : q \in alive'})
      BY <1>5, <2>1
    <2>3. \A q \in alive' : /\ conn'[q].recvbuf # conn'[q].sendbuf
                            /\ {conn'[q].recvbuf, conn'[q].sendbuf} \subseteq Buf
      BY <1>1, <1>2, <1>3, <1>5
    <2>4. \A q, t \in alive' : q # t =>
             {conn'[q].recvbuf, conn'[q].sendbuf} \cap {conn'[t].recvbuf, conn'[t].sendbuf} = {}
      <3> SUFFICES ASSUME NEW q \in alive', NEW t \in alive', q # t
                   PROVE  {conn'[q].recvbuf, conn'[q].sendbuf} \cap {conn'[t].recvbuf, conn'[t].sendbuf} = {}
        OBVIOUS
      <3>1. CASE q \in A /\ t \in A
        BY <1>2, <1>3, <3>1
      <3>2. CASE q \in A /\ t = o
        BY <1>1, <1>2, <1>3, <1>5, <3>2
      <3>3. CASE q = o /\ t \in A
        BY <1>1, <1>2, <1>3, <1>5, <3>3
      <3> QED BY <1>5, <3>1, <3>2, <3>3
    <2> HIDE DEF A, R
    <2> QED BY <2>2, <2>3, <2>4 DEF Buffers, PoolOk, InHand, Hands
  <1> QED BY <1>4, <1>5

\* What a step does to the connection o and its client c: the new connection is r, its
\* coroutine is in at, the socket is n, the client pp, the pool of buffers p, the pool of
\* connections free, and the connections live exist.
Stepped(o, r, c, at, n, pp, p, free, live) ==
    LET run == (Running \ {o}) \cup (IF at = "none" THEN {} ELSE {o})
    IN  /\ \/ live = alive \ {o} /\ PoolOk(p, OtherHands(o))
           \/ /\ live = (alive \ {o}) \cup {o}
              /\ r.recvbuf \in Buf \ OtherHands(o) /\ r.sendbuf \in Buf \ OtherHands(o)
              /\ r.recvbuf # r.sendbuf /\ PoolOk(p, OtherHands(o) \cup {r.recvbuf, r.sendbuf})
        /\ \A x \in OtherHands(o) : p.buf[x] = pool.buf[x]
        /\ free \in Seq(Obj) /\ IsInjective(free) /\ Range(free) \subseteq Range(idle) \cup {o}
        /\ live = run \cup Range(free) /\ run \cap Range(free) = {}
        /\ o \in Range(free) => p.buf[r.recvbuf] = Fresh
        /\ (pc[o] # "none" /\ conn[o].fd = c) \/ (pc[o] = "none" /\ net[c].state = "backlog")
        /\ at # "none" => /\ r.fd = c /\ n.state \in {"open", "left"}
                          /\ Flow(p.buf[r.recvbuf].recv, p.buf[r.sendbuf], n, pp, at)
        /\ at = "none" => n.state = "closed" /\ n.in = <<>> /\ IsPrefix(pp.got, pp.line)

LEMMA ConnStep ==
    ASSUME ServInv, NEW o \in Obj, NEW r \in Conns, NEW c \in Client, NEW at \in {"none", "recv", "send"},
           NEW n \in Sockets, NEW pp \in Peers, NEW p, NEW free, NEW live,
           Stepped(o, r, c, at, n, pp, p, free, live),
           conn' = [conn EXCEPT ![o] = r], pc' = [pc EXCEPT ![o] = at], pool' = p, idle' = free,
           alive' = live, net' = [net EXCEPT ![c] = n], peer' = [peer EXCEPT ![c] = pp]
    PROVE  ServInv'
  <1> DEFINE run == (Running \ {o}) \cup (IF at = "none" THEN {} ELSE {o})
  <1>b. \/ alive' = alive \ {o} /\ PoolOk(p, OtherHands(o))
        \/ /\ alive' = (alive \ {o}) \cup {o}
           /\ r.recvbuf \in Buf \ OtherHands(o) /\ r.sendbuf \in Buf \ OtherHands(o)
           /\ r.recvbuf # r.sendbuf /\ PoolOk(p, OtherHands(o) \cup {r.recvbuf, r.sendbuf})
    BY DEF Stepped
  <1>c. /\ \A x \in OtherHands(o) : p.buf[x] = pool.buf[x]
        /\ free \in Seq(Obj) /\ IsInjective(free) /\ Range(free) \subseteq Range(idle) \cup {o}
        /\ alive' = run \cup Range(free) /\ run \cap Range(free) = {}
        /\ o \in Range(free) => p.buf[r.recvbuf] = Fresh
    BY DEF Stepped
  <1>d. /\ (pc[o] # "none" /\ conn[o].fd = c) \/ (pc[o] = "none" /\ net[c].state = "backlog")
        /\ at # "none" => /\ r.fd = c /\ n.state \in {"open", "left"}
                          /\ Flow(p.buf[r.recvbuf].recv, p.buf[r.sendbuf], n, pp, at)
        /\ at = "none" => n.state = "closed" /\ n.in = <<>> /\ IsPrefix(pp.got, pp.line)
    BY DEF Stepped
  <1>1. /\ conn'[o] = r /\ pc'[o] = at /\ net'[c] = n /\ peer'[c] = pp
        /\ \A q \in Obj \ {o} : conn'[q] = conn[q] /\ pc'[q] = pc[q]
        /\ \A d \in Client \ {c} : net'[d] = net[d] /\ peer'[d] = peer[d]
    BY DEF ServInv, Types
  <1>2. Types'
    <2>1. alive' \in SUBSET Obj
      BY <1>b DEF ServInv, Types
    <2>2. conn' \in [Obj -> Conns] /\ pc' \in [Obj -> {"none", "recv", "send"}] /\ idle' \in Seq(Obj)
      BY <1>c DEF ServInv, Types
    <2>3. net' \in [Client -> Sockets] /\ peer' \in [Client -> Peers]
      BY DEF ServInv, Types
    <2> QED BY <2>1, <2>2, <2>3 DEF Types
  <1>3. Buffers'
    BY <1>b, BuffersStep
  <1>4. Running' = run
    BY <1>1 DEF Running
  <1>5. \A q \in Running \ {o} : /\ q \in Obj /\ q \in alive /\ conn[q].fd \in Client \ {c}
                                 /\ net[conn[q].fd].state \in {"open", "left"}
    <2> SUFFICES ASSUME NEW q \in Running \ {o}
                 PROVE  /\ q \in Obj /\ q \in alive /\ conn[q].fd \in Client \ {c}
                        /\ net[conn[q].fd].state \in {"open", "left"}
      OBVIOUS
    <2>1. /\ q \in Obj /\ q \in alive /\ conn[q].fd \in Client /\ net[conn[q].fd].state \in {"open", "left"}
          /\ o \in Running => conn[q].fd # conn[o].fd
      BY DEF ServInv, Connections, Running
    <2>2. pc[o] # "none" => o \in Running
      BY DEF Running
    <2> QED BY <1>d, <2>1, <2>2
  <1>6. \A q \in alive \ {o} : /\ conn[q].recvbuf \in OtherHands(o) /\ conn[q].sendbuf \in OtherHands(o)
                               /\ p.buf[conn[q].recvbuf] = pool.buf[conn[q].recvbuf]
                               /\ p.buf[conn[q].sendbuf] = pool.buf[conn[q].sendbuf]
    <2>1. \A q \in alive \ {o} : conn[q].recvbuf \in OtherHands(o) /\ conn[q].sendbuf \in OtherHands(o)
      BY DEF OtherHands, Hands
    <2> QED BY <1>c, <2>1
  <1>7. Connections'
    <2>1. IsInjective(idle') /\ alive' = Running' \cup Range(idle') /\ Running' \cap Range(idle') = {}
      BY <1>c, <1>4
    <2>2. ASSUME NEW q \in Range(free)
          PROVE  p.buf[conn'[q].recvbuf] = Fresh
      <3>1. CASE q = o
        BY <1>c, <1>1, <2>2, <3>1
      <3>2. CASE q # o
        <4>1. q \in Range(idle) /\ q \in alive /\ q \in Obj
          BY <1>c, <2>2, <3>2 DEF ServInv, Connections, Types
        <4> QED BY <1>1, <1>6, <3>2, <4>1 DEF ServInv, Connections
      <3> QED BY <3>1, <3>2
    <2>3. ASSUME NEW q \in run
          PROVE  conn'[q].fd \in Client /\ net'[conn'[q].fd].state \in {"open", "left"}
      <3>1. CASE q = o
        BY <1>d, <1>1, <2>3, <3>1
      <3>2. CASE q # o
        BY <1>1, <1>5, <2>3, <3>2
      <3> QED BY <3>1, <3>2
    <2>4. ASSUME NEW q \in run, NEW t \in run, conn'[q].fd = conn'[t].fd
          PROVE  q = t
      <3>1. \A x \in run : x = o \/ x \in Running \ {o}
        OBVIOUS
      <3>2. o \in run => conn'[o].fd = c
        BY <1>d, <1>1
      <3>3. \A x \in Running \ {o} : conn'[x].fd = conn[x].fd /\ conn[x].fd # c
        BY <1>1, <1>5
      <3>4. \A x, y \in Running \ {o} : conn[x].fd = conn[y].fd => x = y
        BY DEF ServInv, Connections
      <3> HIDE DEF run
      <3> QED BY <2>4, <3>1, <3>2, <3>3, <3>4
    <2> HIDE DEF run
    <2> QED BY <1>4, <2>1, <2>2, <2>3, <2>4 DEF Connections
  <1>8. RunningFlows'
    <2> SUFFICES ASSUME NEW q \in Running'
                 PROVE  Flow(pool'.buf[conn'[q].recvbuf].recv, pool'.buf[conn'[q].sendbuf],
                             net'[conn'[q].fd], peer'[conn'[q].fd], pc'[q])
      BY DEF RunningFlows, Flow, Answered, Coming, Sending, ALine
    <2>3. q \in run /\ pool' = p
      BY <1>4
    <2>1. CASE q = o
      BY <1>d, <1>1, <2>1, <2>3
    <2>2. CASE q # o
      <3>1. q \in Running \ {o}
        BY <2>2, <2>3
      <3>2. Flow(pool.buf[conn[q].recvbuf].recv, pool.buf[conn[q].sendbuf], net[conn[q].fd],
                 peer[conn[q].fd], pc[q])
        BY <3>1 DEF ServInv, RunningFlows
      <3>3. /\ conn'[q] = conn[q] /\ pc'[q] = pc[q] /\ net'[conn[q].fd] = net[conn[q].fd]
            /\ peer'[conn[q].fd] = peer[conn[q].fd]
            /\ p.buf[conn[q].recvbuf] = pool.buf[conn[q].recvbuf]
            /\ p.buf[conn[q].sendbuf] = pool.buf[conn[q].sendbuf]
        BY <1>1, <1>5, <1>6, <3>1
      <3> QED BY <2>3, <3>2, <3>3
    <2> QED BY <2>1, <2>2
  <1>9. ClientFlows'
    <2> SUFFICES ASSUME NEW d \in Client
                 PROVE  /\ net'[d].state = "backlog" => Flow(<<>>, Fresh, net'[d], peer'[d], "recv")
                        /\ net'[d].state = "closed" => net'[d].in = <<>> /\ IsPrefix(peer'[d].got, peer'[d].line)
                        /\ net'[d].state \in {"open", "left"} => \E q \in run : conn'[q].fd = d
      BY <1>4 DEF ClientFlows, Flow, Answered, Coming, Sending, ALine, IsPrefix
    <2>1. CASE d = c
      BY <1>d, <1>1, <2>1
    <2>2. CASE d # c
      <3>1. /\ net[d].state = "backlog" => Flow(<<>>, Fresh, net[d], peer[d], "recv")
            /\ net[d].state = "closed" => net[d].in = <<>> /\ IsPrefix(peer[d].got, peer[d].line)
            /\ net[d].state \in {"open", "left"} => \E q \in Running : conn[q].fd = d
        BY DEF ServInv, ClientFlows
      <3>2. ASSUME NEW q \in Running, conn[q].fd = d
            PROVE  q \in run /\ conn'[q].fd = d
        <4>1. q # o
          BY <1>d, <2>2, <3>2 DEF Running
        <4> QED BY <1>1, <1>5, <3>2, <4>1
      <3> HIDE DEF run
      <3> QED BY <1>1, <2>2, <3>1, <3>2
    <2> QED BY <2>1, <2>2
  <1> QED BY <1>2, <1>3, <1>7, <1>8, <1>9 DEF ServInv

ServerStays == UNCHANGED <<pool, conn, idle, alive, pc>>

LEMMA PeerStep ==
    ASSUME ServInv, NEW c \in Client, NEW n \in Sockets, NEW pp \in Peers, ServerStays,
           net' = [net EXCEPT ![c] = n], peer' = [peer EXCEPT ![c] = pp],
           \/ /\ n.state = "backlog" /\ net[c].state \in {"closed", "backlog"}
              /\ Flow(<<>>, Fresh, n, pp, "recv")
           \/ /\ n.state \in {"open", "left"} /\ net[c].state \in {"open", "left"}
              /\ \A o \in Running : conn[o].fd = c =>
                    Flow(pool.buf[conn[o].recvbuf].recv, pool.buf[conn[o].sendbuf], n, pp, pc[o])
    PROVE  ServInv'
  <1>1. /\ pool' = pool /\ conn' = conn /\ idle' = idle /\ alive' = alive /\ pc' = pc
        /\ Running' = Running /\ net'[c] = n /\ peer'[c] = pp
        /\ \A d \in Client \ {c} : net'[d] = net[d] /\ peer'[d] = peer[d]
    BY DEF ServInv, Types, ServerStays, Running
  <1>2. Types'
    BY <1>1 DEF ServInv, Types
  <1>3. Buffers'
    BY <1>1 DEF ServInv, Buffers, PoolOk, InHand, Hands
  <1>4. Connections'
    <2>1. \A o \in Running : /\ conn[o].fd \in Client /\ net[conn[o].fd].state \in {"open", "left"}
                             /\ net'[conn[o].fd].state \in {"open", "left"}
      BY <1>1 DEF ServInv, Connections
    <2> QED BY <1>1, <2>1 DEF ServInv, Connections
  <1>5. RunningFlows'
    <2> SUFFICES ASSUME NEW q \in Running'
                 PROVE  Flow(pool'.buf[conn'[q].recvbuf].recv, pool'.buf[conn'[q].sendbuf],
                             net'[conn'[q].fd], peer'[conn'[q].fd], pc'[q])
      BY DEF RunningFlows, Flow, Answered, Coming, Sending, ALine
    <2>4. q \in Running
      BY <1>1
    <2>1. /\ Flow(pool.buf[conn[q].recvbuf].recv, pool.buf[conn[q].sendbuf], net[conn[q].fd],
                  peer[conn[q].fd], pc[q])
          /\ conn[q].fd \in Client /\ net[conn[q].fd].state \in {"open", "left"}
      BY <2>4 DEF ServInv, RunningFlows, Connections
    <2>2. CASE conn[q].fd = c
      BY <1>1, <2>4, <2>1, <2>2
    <2>3. CASE conn[q].fd # c
      BY <1>1, <2>1, <2>3
    <2> QED BY <2>2, <2>3
  <1>6. ClientFlows'
    <2> SUFFICES ASSUME NEW d \in Client
                 PROVE  /\ net'[d].state = "backlog" => Flow(<<>>, Fresh, net'[d], peer'[d], "recv")
                        /\ net'[d].state = "closed" => net'[d].in = <<>> /\ IsPrefix(peer'[d].got, peer'[d].line)
                        /\ net'[d].state \in {"open", "left"} => \E q \in Running : conn[q].fd = d
      BY <1>1 DEF ClientFlows, Flow, Answered, Coming, Sending, ALine, IsPrefix
    <2>1. /\ net[d].state = "backlog" => Flow(<<>>, Fresh, net[d], peer[d], "recv")
          /\ net[d].state = "closed" => net[d].in = <<>> /\ IsPrefix(peer[d].got, peer[d].line)
          /\ net[d].state \in {"open", "left"} => \E q \in Running : conn[q].fd = d
      BY DEF ServInv, ClientFlows
    <2>2. CASE d = c
      BY <1>1, <2>1, <2>2
    <2>3. CASE d # c
      BY <1>1, <2>1, <2>3
    <2> QED BY <2>2, <2>3
  <1> QED BY <1>2, <1>3, <1>4, <1>5, <1>6 DEF ServInv
-----------------------------------------------------------------------------
(* How a line is asked for, written, cut off and read.                     *)

LEMMA LinePrefix ==
    ASSUME NEW recv, NEW s, NEW n, NEW p \in Peers, NEW at, Flow(recv, s, n, p, at)
    PROVE  IsPrefix(p.got, p.line)
  <1>1. p.got \in Seq(Sym) /\ p.line \in Seq(Sym)
    BY DEF Peers
  <1>2. CASE p.got = p.line
    BY <1>2 DEF IsPrefix
  <1>3. CASE p.got = <<>>
    <2>1. 0 \in 0..Len(p.line) /\ Part(p.line, 0, 0) = <<>>
      BY <1>1, Whole
    <2>2. IsPrefix(Part(p.line, 0, 0), p.line)
      BY <1>1, <2>1, PrefixOf
    <2> QED BY <1>3, <2>1, <2>2
  <1> QED BY <1>2, <1>3 DEF Flow, Answered, Coming, Sending

LEMMA LineAsked ==
    ASSUME NEW recv \in Seq(Sym), NEW s, NEW n \in Sockets, NEW p \in Peers, NEW at,
           Flow(recv, s, n, p, at), p.got = p.line, n.state # "left", NEW c \in Client, NEW k \in Nat,
           NEW pp, pp = [line |-> Line(c, k), todo |-> Line(c, k), got |-> <<>>]
    PROVE  pp \in Peers /\ Flow(recv, s, n, pp, at)
  <1> DEFINE line == Line(c, k)
  <1>1. line \in Seq(Sym) /\ Len(line) = k + 1 /\ \A i \in 1..(k + 1) : line[i] = IF i = k + 1 THEN NL ELSE c
    <2> DEFINE x == [i \in 1..k |-> c]
    <2>1. x \in Seq(Sym) /\ Len(x) = k
      BY DEF Sym
    <2>2. <<NL>> \in Seq(Sym) /\ Len(<<NL>>) = 1 /\ <<NL>>[1] = NL
      BY DEF Sym
    <2>3. \A i \in 1..k : x[i] = c
      OBVIOUS
    <2>4. line = x \o <<NL>>
      BY DEF Line
    <2> HIDE DEF x, line
    <2> QED BY <2>1, <2>2, <2>3, <2>4
  <1> HIDE DEF line
  <1>2. c # NL
    BY ServingAssumption
  <1>3. ALine(line)
    BY <1>1, <1>2 DEF ALine
  <1>4. Answered(recv, n, p, at)
    <2>1. CASE Coming(recv, n, p, at)
      <3>1. Len(recv) < Len(p.line) /\ p.line = <<>>
        BY <2>1 DEF Coming
      <3>2. Len(p.line) = 0 /\ Len(recv) \in Nat
        BY <3>1, EmptySeq, LenProperties
      <3> QED BY <3>1, <3>2
    <2>2. CASE Sending(recv, s, n, p, at)
      BY <2>2 DEF Sending
    <2> QED BY <2>1, <2>2 DEF Flow
  <1>5. pp.line = line /\ pp.todo = line /\ pp.got = <<>> /\ pp \in Peers
    BY <1>1, EmptySeq DEF line, Peers
  <1>6. Coming(recv, n, pp, at)
    <2>1. at = "recv" /\ recv = <<>> /\ n.in = <<>>
      BY <1>4 DEF Answered
    <2>2. Len(recv) = 0 /\ Len(n.in) = 0
      BY <2>1, EmptySeq
    <2>3. Part(line, 0, 0) = <<>> /\ Part(line, 0, Len(line)) = line
      BY <1>1, Whole
    <2> QED BY <1>1, <1>5, <2>1, <2>2, <2>3 DEF Coming
  <1> QED BY <1>3, <1>5, <1>6 DEF Flow

\* What the client wrote of a line and is on its way.
LEMMA ComingIs ==
    ASSUME NEW recv \in Seq(Sym), NEW n \in Sockets, NEW p \in Peers, NEW at, Coming(recv, n, p, at)
    PROVE  \E a, b \in Nat :
               /\ a = Len(recv) /\ a <= b /\ Len(n.in) = b - a /\ b <= Len(p.line) /\ a < Len(p.line)
               /\ p.line \in Seq(Sym) /\ Len(p.line) \in Nat /\ n.in \in Seq(Sym) /\ p.got = <<>> /\ at = "recv"
               /\ recv = Part(p.line, 0, a) /\ n.in = Part(p.line, a, b)
               /\ n.state # "left" => p.todo = Part(p.line, b, Len(p.line))
  <1>1. p.line \in Seq(Sym) /\ n.in \in Seq(Sym)
    BY DEF Sockets, Peers
  <1>2. Len(recv) \in Nat /\ Len(n.in) \in Nat /\ Len(p.line) \in Nat
    BY <1>1, LenProperties
  <1> DEFINE a == Len(recv)
             b == Len(recv) + Len(n.in)
  <1>3. a \in Nat /\ b \in Nat /\ a <= b /\ Len(n.in) = b - a /\ a = Len(recv)
    BY <1>2
  <1>4. /\ at = "recv" /\ p.got = <<>> /\ a < Len(p.line) /\ b <= Len(p.line)
        /\ recv = Part(p.line, 0, a) /\ n.in = Part(p.line, a, b)
        /\ n.state # "left" => p.todo = Part(p.line, b, Len(p.line))
    BY DEF Coming
  <1> HIDE DEF a, b
  <1> QED BY <1>1, <1>2, <1>3, <1>4

\* The converse.
LEMMA ComingFrom ==
    ASSUME NEW n, NEW p, NEW recv, NEW a \in Nat, NEW b \in Nat,
           Len(recv) = a, Len(n.in) = b - a, b <= Len(p.line), a < Len(p.line), p.got = <<>>,
           recv = Part(p.line, 0, a), n.in = Part(p.line, a, b),
           n.state # "left" => p.todo = Part(p.line, b, Len(p.line))
    PROVE  Coming(recv, n, p, "recv")
  <1>1. Len(recv) = a /\ Len(recv) + Len(n.in) = b
    OBVIOUS
  <1> QED BY <1>1, Zenon DEF Coming

\* The client writes k more symbols.
Written(n, p, k, nn, pp) ==
    /\ nn = [n EXCEPT !.in = @ \o SubSeq(p.todo, 1, k)]
    /\ pp = [p EXCEPT !.todo = SubSeq(@, k + 1, Len(@))]

LEMMA LineWritten ==
    ASSUME NEW recv \in Seq(Sym), NEW s, NEW n \in Sockets, NEW p \in Peers, NEW at, Flow(recv, s, n, p, at),
           n.state # "left", NEW k \in 1..Len(p.todo), NEW nn, NEW pp, Written(n, p, k, nn, pp)
    PROVE  nn \in Sockets /\ pp \in Peers /\ Flow(recv, s, nn, pp, at)
  <1> DEFINE x == Part(p.todo, 0, k)
             y == Part(p.todo, k, Len(p.todo))
             in == n.in \o x
  <1>1. Coming(recv, n, p, at)
    <2>1. p.todo # <<>>
      BY EmptySeq
    <2> QED BY <2>1 DEF Flow, Answered, Sending
  <1>2. ALine(p.line)
    BY DEF Flow
  <1>3. PICK a, b \in Nat :
          /\ a = Len(recv) /\ a <= b /\ Len(n.in) = b - a /\ b <= Len(p.line) /\ a < Len(p.line)
          /\ p.line \in Seq(Sym) /\ Len(p.line) \in Nat /\ n.in \in Seq(Sym) /\ p.got = <<>> /\ at = "recv"
          /\ recv = Part(p.line, 0, a) /\ n.in = Part(p.line, a, b)
          /\ p.todo = Part(p.line, b, Len(p.line))
    BY <1>1, ComingIs
  <1>7. nn = [n EXCEPT !.in = in] /\ pp = [p EXCEPT !.todo = y]
    <2>1. k \in Int
      BY <1>3, LenProperties
    <2> QED BY <2>1, PartIs DEF Written
  <1>8. /\ b + k \in Nat /\ b + k <= Len(p.line)
        /\ in = Part(p.line, a, b + k) /\ in \in Seq(Sym) /\ Len(in) = (b + k) - a
        /\ y = Part(p.line, b + k, Len(p.line)) /\ y \in Seq(Sym)
    <2> HIDE DEF x, y
    <2>1. x = Part(p.todo, 0, k) /\ y = Part(p.todo, k, Len(p.todo))
      BY DEF x, y
    <2> DEFINE line == p.line
               e == Len(line)
               u == n.in
               t == p.todo
    <2>2. /\ line \in Seq(Sym) /\ a <= b /\ b <= e /\ e <= Len(line) /\ e \in Nat /\ k \in 1..Len(t)
      <3>1. p.line \in Seq(Sym) /\ a <= b /\ b <= Len(p.line) /\ Len(p.line) \in Nat
        BY <1>3, Zenon
      <3> QED BY <3>1
    <2>4. u = Part(line, a, b) /\ t = Part(line, b, e) /\ x = Part(t, 0, k) /\ y = Part(t, k, Len(t))
      BY <1>3, <2>1, Zenon
    <2> HIDE DEF line, e, u, t
    <2>3. Moved(Sym, line, a, b, e, u, t, k, x, y)
      BY <2>2, <2>4, PartsMove
    <2> QED BY <2>3 DEF line, e, u, Moved
  <1> HIDE DEF x, y
  <1> HIDE DEF in
  <1>9. /\ nn \in Sockets /\ nn.in = in /\ nn.state = n.state
        /\ pp \in Peers /\ pp.line = p.line /\ pp.todo = y /\ pp.got = p.got
    BY <1>7, <1>8 DEF Sockets, Peers
  <1>10. Coming(recv, nn, pp, "recv")
    BY <1>3, <1>8, <1>9, ComingFrom
  <1> QED BY <1>2, <1>3, <1>9, <1>10 DEF Flow

\* The connection is lost, with all but the first k symbols.
CutTo(n, k, nn) == nn = [n EXCEPT !.state = "left", !.in = SubSeq(@, 1, k)]

LEMMA LineCut ==
    ASSUME NEW recv \in Seq(Sym), NEW s, NEW n \in Sockets, NEW p \in Peers, NEW at, Flow(recv, s, n, p, at),
           NEW k \in {0, Len(n.in)}, NEW nn, CutTo(n, k, nn)
    PROVE  nn \in Sockets /\ nn.state = "left" /\ Flow(recv, s, nn, p, at)
  <1> DEFINE in == Part(n.in, 0, k)
  <1>1. n.in \in Seq(Sym) /\ Len(n.in) \in Nat /\ k \in Nat /\ in \in Seq(Sym) /\ Len(in) = k
    <2>1. n.in \in Seq(Sym) /\ Len(n.in) \in Nat
      BY LenProperties DEF Sockets
    <2>2. 0 \in Nat /\ k \in Nat /\ 0 <= k /\ k <= Len(n.in)
      BY <2>1
    <2>3. in \in Seq(Sym) /\ Len(in) = k - 0
      <3> DEFINE u == n.in
      <3>1. u \in Seq(Sym) /\ k <= Len(u) /\ in = Part(u, 0, k)
        BY <2>1, <2>2
      <3> HIDE DEF u, in
      <3> QED BY <2>2, <3>1, PartOf
    <2> QED BY <2>1, <2>2, <2>3
  <1>2. nn = [n EXCEPT !.state = "left", !.in = in]
    <2>1. SubSeq(n.in, 1, k) = in
      BY PartIs DEF Part
    <2> QED BY <2>1 DEF CutTo
  <1>3. n.in = <<>> => in = <<>>
    <2> HAVE n.in = <<>>
    <2>1. k = 0
      BY EmptySeq
    <2> QED BY <1>1, <2>1, Whole
  <1> HIDE DEF in
  <1>4. nn \in Sockets /\ nn.in = in /\ nn.state = "left"
    BY <1>1, <1>2 DEF Sockets
  <1>5. CASE Coming(recv, n, p, at)
    <2>1. PICK a, b \in Nat :
            /\ a = Len(recv) /\ a <= b /\ Len(n.in) = b - a /\ b <= Len(p.line) /\ a < Len(p.line)
            /\ p.line \in Seq(Sym) /\ Len(p.line) \in Nat /\ n.in \in Seq(Sym) /\ p.got = <<>> /\ at = "recv"
            /\ recv = Part(p.line, 0, a) /\ n.in = Part(p.line, a, b)
      BY <1>5, ComingIs
    <2>2. k \in 0..(b - a) /\ a + k \in Nat /\ a + k <= Len(p.line) /\ (a + k) - a = k
      BY <1>1, <2>1
    <2>3. in = Part(p.line, a, a + k)
      <3> DEFINE line == p.line
                 u == n.in
      <3>1. line \in Seq(Sym) /\ a <= b /\ b <= Len(line) /\ u = Part(line, a, b) /\ in = Part(u, 0, k)
        BY <2>1 DEF in
      <3> HIDE DEF line, u
      <3>2. in = Part(line, a, a + k)
        BY <2>2, <3>1, PartOfPart
      <3> QED BY <3>2 DEF line
    <2>4. Coming(recv, nn, p, "recv")
      BY <1>1, <1>4, <2>1, <2>2, <2>3, ComingFrom
    <2> QED BY <1>4, <2>1, <2>4 DEF Flow
  <1>6. CASE Answered(recv, n, p, at) \/ Sending(recv, s, n, p, at)
    BY <1>3, <1>4, <1>6 DEF Flow, Answered, Sending
  <1> QED BY <1>5, <1>6 DEF Flow

\* DoInput finds a line when all of it is there.
LEMMA LineFound ==
    ASSUME NEW S, NEW line \in Seq(S), ALine(line), NEW m \in Nat, 1 <= m, m <= Len(line),
           NEW data, data = Part(line, 0, m)
    PROVE  /\ DoInput(data) = "line" => m = Len(line) /\ SubSeq(data, 1, FirstLine(data)) = line
           /\ DoInput(data) = "more" => m < Len(line)
           /\ DoInput(data) \in {"line", "more", "error"}
  <1>1. Len(line) \in Nat /\ 0 \in Nat /\ 0 <= m
    BY LenProperties
  <1>2. data \in Seq(S) /\ Len(data) = m - 0 /\ \A i \in 1..(m - 0) : data[i] = line[0 + i]
    BY <1>1, SubSeqOf DEF Part
  <1>3. Len(data) = m /\ \A i \in 1..m : data[i] = NL <=> i = Len(line)
    <2>1. \A i \in 1..m : i \in 1..Len(line) /\ 0 + i = i /\ i \in 1..(m - 0)
      BY <1>1
    <2> QED BY <1>2, <2>1 DEF ALine
  <1>4. DoInput(data) = "line" => Lines(data) # {}
    BY DEF DoInput
  <1>5. DoInput(data) = "more" => Lines(data) = {}
    BY DEF DoInput
  <1>6. CASE Lines(data) = {}
    <2>1. m # Len(line)
      <3>1. m \in 1..Len(data) => data[m] # NL
        BY <1>6 DEF Lines
      <3> QED BY <1>3, <3>1
    <2> QED BY <1>1, <1>4, <1>6, <2>1 DEF DoInput
  <1>7. CASE Lines(data) # {}
    <2>1. m = Len(line) /\ Lines(data) = {m}
      BY <1>1, <1>3, <1>7 DEF Lines
    <2>2. FirstLine(data) = m
      <3>1. FirstLine(data) = CHOOSE n \in {m} : \A l \in {m} : n <= l
        BY <2>1 DEF FirstLine
      <3> QED BY <3>1
    <2>3. data = line /\ SubSeq(data, 1, m) = data
      <3>1. data = line
        BY <2>1, Whole
      <3> QED BY <1>2, <1>3, <3>1, SubSeqFull
    <2> QED BY <1>5, <1>7, <2>1, <2>2, <2>3 DEF DoInput
  <1> QED BY <1>6, <1>7

\* The server reads k symbols.
ReadFrom(recv, n, k, data, nn) ==
    data = recv \o SubSeq(n.in, 1, k) /\ nn = [n EXCEPT !.in = SubSeq(@, k + 1, Len(@))]

Reading(data, n, nn, p, at) ==
    /\ data \in Seq(Sym) /\ nn \in Sockets /\ nn.state = n.state /\ at = "recv" /\ p.got = <<>>
    /\ DoInput(data) = "line" =>
          /\ SubSeq(data, 1, FirstLine(data)) = p.line /\ p.line # <<>>
          /\ ALine(p.line) /\ nn.in = <<>> /\ (nn.state # "left" => p.todo = <<>>)
    /\ DoInput(data) = "more" => \A any : Flow(data, any, nn, p, "recv")
    /\ DoInput(data) \in {"line", "more", "error"}

LEMMA LineRead ==
    ASSUME NEW recv \in Seq(Sym), NEW s, NEW n \in Sockets, NEW p \in Peers, NEW at, Flow(recv, s, n, p, at),
           NEW k \in 1..Len(n.in), NEW data, NEW nn, ReadFrom(recv, n, k, data, nn)
    PROVE  Reading(data, n, nn, p, at)
  <1> DEFINE x == Part(n.in, 0, k)
             y == Part(n.in, k, Len(n.in))
  <1>1. Coming(recv, n, p, at)
    <2>1. n.in # <<>>
      BY EmptySeq
    <2> QED BY <2>1 DEF Flow, Answered, Sending
  <1>2. ALine(p.line)
    BY DEF Flow
  <1>3. PICK a, b \in Nat :
          /\ a = Len(recv) /\ a <= b /\ Len(n.in) = b - a /\ b <= Len(p.line) /\ a < Len(p.line)
          /\ p.line \in Seq(Sym) /\ Len(p.line) \in Nat /\ n.in \in Seq(Sym) /\ p.got = <<>> /\ at = "recv"
          /\ recv = Part(p.line, 0, a) /\ n.in = Part(p.line, a, b)
          /\ n.state # "left" => p.todo = Part(p.line, b, Len(p.line))
    BY ONLY <1>1, ComingIs, recv \in Seq(Sym), n \in Sockets, p \in Peers
  <1>10. /\ a <= b /\ Len(n.in) = b - a /\ b <= Len(p.line) /\ a < Len(p.line) /\ a = Len(recv)
         /\ p.line \in Seq(Sym) /\ Len(p.line) \in Nat
    BY <1>3, Zenon
  <1>4. nn = [n EXCEPT !.in = y] /\ data = recv \o x
    <2>1. k \in Int
      BY <1>10
    <2> QED BY <2>1, PartIs DEF Part, ReadFrom
  <1>5. /\ a + k \in Nat /\ a + k <= b
        /\ data = Part(p.line, 0, a + k) /\ data \in Seq(Sym) /\ Len(data) = (a + k) - 0
        /\ y = Part(p.line, a + k, b) /\ y \in Seq(Sym) /\ Len(y) = b - (a + k)
    <2> HIDE DEF x, y
    <2>1. x = Part(n.in, 0, k) /\ y = Part(n.in, k, Len(n.in))
      BY DEF x, y
    <2> DEFINE line == p.line
               t == n.in
    <2>2. line \in Seq(Sym) /\ 0 \in Nat /\ 0 <= a /\ a <= b /\ b <= Len(line) /\ k \in 1..Len(t)
      BY <1>10
    <2>4. recv = Part(line, 0, a) /\ t = Part(line, a, b) /\ x = Part(t, 0, k) /\ y = Part(t, k, Len(t))
      BY <1>3, <2>1, Zenon
    <2> HIDE DEF line, t
    <2>3. Moved(Sym, line, 0, a, b, recv, t, k, x, y)
      BY <2>2, <2>4, PartsMove
    <2> QED BY <1>4, <2>3 DEF line, Moved
  <1>12. k \in Nat /\ 1 <= k
    <2>1. k \in 1..(b - a)
      BY <1>10
    <2> QED BY <2>1
  <1>11. a + k \in Nat /\ a + k <= b /\ Len(data) = a + k /\ Len(y) = b - (a + k)
    <2>1. a + k \in Nat /\ a + k <= b /\ Len(data) = (a + k) - 0 /\ Len(y) = b - (a + k)
      BY <1>5, Zenon
    <2> QED BY <2>1
  <1> HIDE DEF x, y
  <1>6. nn \in Sockets /\ nn.in = y /\ nn.state = n.state
    BY <1>4, <1>5 DEF Sockets
  <1>7. /\ DoInput(data) = "line" => a + k = Len(p.line) /\ SubSeq(data, 1, FirstLine(data)) = p.line
        /\ DoInput(data) = "more" => a + k < Len(p.line)
        /\ DoInput(data) \in {"line", "more", "error"}
    <2> DEFINE line == p.line
               m == a + k
    <2>1. line \in Seq(Sym) /\ m \in Nat /\ 1 <= m /\ m <= Len(line)
      <3>1. /\ p.line \in Seq(Sym) /\ Len(p.line) \in Nat /\ b <= Len(p.line) /\ a + k \in Nat /\ a + k <= b
            /\ k \in Nat /\ 1 <= k
        BY <1>10, <1>11, <1>12, Zenon
      <3> QED BY <3>1
    <2>3. ALine(line) /\ data = Part(line, 0, m)
      BY <1>2, <1>5, Zenon
    <2> HIDE DEF line, m
    <2>2. /\ DoInput(data) = "line" => m = Len(line) /\ SubSeq(data, 1, FirstLine(data)) = line
          /\ DoInput(data) = "more" => m < Len(line)
          /\ DoInput(data) \in {"line", "more", "error"}
      BY <2>1, <2>3, LineFound
    <2> QED BY <2>2 DEF line, m
  <1>8. ASSUME DoInput(data) = "line"
        PROVE  /\ SubSeq(data, 1, FirstLine(data)) = p.line /\ p.line # <<>>
               /\ ALine(p.line) /\ nn.in = <<>> /\ (nn.state # "left" => p.todo = <<>>)
    <2>1. a + k = Len(p.line) /\ b = Len(p.line) /\ Len(y) = 0 /\ Len(p.line) # 0
      <3>1. /\ Len(p.line) \in Nat /\ b <= Len(p.line) /\ a + k \in Nat /\ a + k <= b /\ Len(y) = b - (a + k)
            /\ k \in Nat /\ 1 <= k /\ a + k = Len(p.line)
        BY <1>7, <1>8, <1>10, <1>11, <1>12, Zenon
      <3> QED BY <3>1
    <2>2. y = <<>> /\ p.line # <<>> /\ Part(p.line, Len(p.line), Len(p.line)) = <<>>
      <3>1. y \in Seq(Sym)
        BY <1>5, Zenon
      <3> QED BY <1>10, <2>1, <3>1, Whole
    <2>3. nn.state # "left" => p.todo = Part(p.line, Len(p.line), Len(p.line))
      BY <1>3, <1>6, <2>1, Zenon
    <2> QED BY <1>2, <1>6, <1>7, <1>8, <2>2, <2>3, Zenon
  <1>9. ASSUME DoInput(data) = "more"
        PROVE  \A any : Flow(data, any, nn, p, "recv")
    <2> DEFINE m == a + k
    <2>1. m < Len(p.line) /\ Len(data) = m /\ m \in Nat /\ Len(nn.in) = b - m /\ b <= Len(p.line)
      BY <1>6, <1>7, <1>9, <1>10, <1>11
    <2>3. /\ p.got = <<>> /\ data = Part(p.line, 0, m) /\ nn.in = Part(p.line, m, b)
          /\ nn.state # "left" => p.todo = Part(p.line, b, Len(p.line))
      BY <1>3, <1>5, <1>6, Zenon
    <2> HIDE DEF m
    <2>2. Coming(data, nn, p, "recv")
      BY <2>1, <2>3, ComingFrom
    <2> QED BY <1>2, <2>2 DEF Flow
  <1> QED BY <1>3, <1>5, <1>6, <1>7, <1>8, <1>9, Zenon DEF Reading
-----------------------------------------------------------------------------
(* A coroutine that ends.                                                  *)

LEMMA AtWork ==
    ASSUME ServInv, NEW o \in Running
    PROVE  /\ o \in Obj /\ o \in alive /\ o \notin Range(idle) /\ pc[o] # "none" /\ pc[o] \in {"recv", "send"}
           /\ conn[o] \in Conns /\ conn[o].fd \in Client /\ net[conn[o].fd].state \in {"open", "left"}
           /\ net[conn[o].fd] \in Sockets /\ peer[conn[o].fd] \in Peers
           /\ conn[o].recvbuf \in Buf /\ conn[o].sendbuf \in Buf
           /\ pool.buf[conn[o].recvbuf] \in Buffer /\ pool.buf[conn[o].sendbuf] \in Buffer
           /\ pool.buf[conn[o].recvbuf].recv \in Seq(Sym)
           /\ Flow(pool.buf[conn[o].recvbuf].recv, pool.buf[conn[o].sendbuf], net[conn[o].fd],
                   peer[conn[o].fd], pc[o])
  <1>1. o \in Obj /\ pc[o] # "none"
    BY DEF Running
  <1>2. o \in alive /\ o \notin Range(idle)
    BY DEF ServInv, Connections
  <1>3. pc[o] \in {"recv", "send"} /\ conn[o] \in Conns
    BY <1>1 DEF ServInv, Types
  <1>4. conn[o].fd \in Client /\ net[conn[o].fd].state \in {"open", "left"}
    BY DEF ServInv, Connections
  <1>5. net[conn[o].fd] \in Sockets /\ peer[conn[o].fd] \in Peers
    BY <1>4 DEF ServInv, Types
  <1>6. conn[o].recvbuf \in Buf /\ conn[o].sendbuf \in Buf
    BY <1>2 DEF ServInv, Buffers, Hands
  <1>7. pool.buf[conn[o].recvbuf] \in Buffer /\ pool.buf[conn[o].sendbuf] \in Buffer
    <2>1. pool.buf \in [Buf -> Buffer]
      BY DEF ServInv, Buffers, PoolOk, Pools
    <2> QED BY <1>6, <2>1
  <1>8. pool.buf[conn[o].recvbuf].recv \in Seq(Sym)
    BY <1>7 DEF Buffer
  <1>9. Flow(pool.buf[conn[o].recvbuf].recv, pool.buf[conn[o].sendbuf], net[conn[o].fd],
             peer[conn[o].fd], pc[o])
    BY DEF ServInv, RunningFlows
  <1> QED BY <1>1, <1>2, <1>3, <1>4, <1>5, <1>6, <1>7, <1>8, <1>9

LEMMA Room ==
    ASSUME Enough, ServInv, NEW o \in Obj
    PROVE  OtherHands(o) # Buf /\ \A x \in Buf : OtherHands(o) \cup {x} # Buf
  <1> DEFINE A == alive \ {o}
             f == [q \in A |-> conn[q].recvbuf]
             g == [q \in A |-> conn[q].sendbuf]
  <1>1. A \in SUBSET Obj /\ A # Obj
    BY DEF ServInv, Types
  <1>2. \A q \in A : conn[q].recvbuf \in Buf /\ conn[q].sendbuf \in Buf
    BY DEF ServInv, Buffers, Hands
  <1>3. f \in [A -> Buf] /\ g \in [A -> Buf]
    BY <1>2
  <1>4. \A q \in A : {f[q], g[q]} = Hands(q)
    BY DEF Hands
  <1> HIDE DEF f, g
  <1>5. OtherHands(o) = UNION {{f[q], g[q]} : q \in A}
    BY <1>4 DEF OtherHands
  <1> HIDE DEF A
  <1>6. OfAll(OtherHands(o), A, f, g)
    BY <1>1, <1>3, <1>5 DEF OfAll
  <1> QED BY <1>6, RoomFor

LEMMA ClosedIs ==
    ASSUME ServInv, NEW c \in Client, NEW n \in Sockets, NEW m, m = [net EXCEPT ![c] = n]
    PROVE  Close(m, c) = [net EXCEPT ![c] = NoNet] /\ NoNet \in Sockets
  <1>1. net \in [Client -> Sockets]
    BY DEF ServInv, Types
  <1>2. m \in [Client -> Sockets] /\ m[c] = n /\ \A d \in Client \ {c} : m[d] = net[d]
    BY <1>1
  <1>3. NoNet \in Sockets
    BY EmptySeq DEF NoNet, Sockets
  <1> DEFINE new == [n EXCEPT !.state = "closed", !.in = <<>>]
  <1>4. new = NoNet
    <2>1. PICK st, in : n = [state |-> st, in |-> in]
      BY DEF Sockets
    <2> DEFINE u == [n EXCEPT !.state = "closed"]
    <2>2. u = [state |-> "closed", in |-> in]
      BY <2>1
    <2>3. new = [u EXCEPT !.in = <<>>]
      OBVIOUS
    <2> HIDE DEF u, new
    <2> QED BY <2>2, <2>3 DEF NoNet
  <1>5. Close(m, c) = [m EXCEPT ![c] = new]
    BY <1>1, <1>2 DEF Close
  <1> HIDE DEF new
  <1>6. Close(m, c) = [net EXCEPT ![c] = new]
    BY <1>1, <1>2, <1>5
  <1> QED BY <1>3, <1>4, <1>6

LEMMA Finished ==
    ASSUME Enough, ServInv, NEW o \in Running, NEW p, PoolOk(p, InHand),
           \A x \in OtherHands(o) : p.buf[x] = pool.buf[x],
           NEW n \in Sockets, NEW m, m = [net EXCEPT ![conn[o].fd] = n],
           NEW pp \in Peers, peer' = [peer EXCEPT ![conn[o].fd] = pp], IsPrefix(pp.got, pp.line),
           Finish(o, p, m)
    PROVE  ServInv'
  <1> DEFINE c == conn[o].fd
             S == InHand \ {conn[o].recvbuf, conn[o].sendbuf}
             q == GiveBack(p, conn[o])
  <1>1. /\ o \in Obj /\ o \in alive /\ o \notin Range(idle) /\ pc[o] # "none" /\ c \in Client /\ conn[o] \in Conns
        /\ conn[o].recvbuf \in InHand /\ conn[o].sendbuf \in InHand /\ conn[o].recvbuf # conn[o].sendbuf
        /\ OtherHands(o) = S
    BY AtWork, HandsApart
  <1>2. PoolOk(q, S) /\ \A x \in S : q.buf[x] = p.buf[x]
    BY <1>1, GivenBack
  <1>3. \A x \in S : q.buf[x] = pool.buf[x]
    BY <1>1, <1>2
  <1>4. net' = [net EXCEPT ![c] = NoNet] /\ NoNet \in Sockets /\ pc' = [pc EXCEPT ![o] = "none"]
    BY <1>1, ClosedIs DEF Finish
  <1>5. NoNet.state = "closed" /\ NoNet.in = <<>>
    BY DEF NoNet
  <1>6. /\ idle \in Seq(Obj) /\ IsInjective(idle) /\ alive = Running \cup Range(idle)
        /\ Running \cap Range(idle) = {}
    BY DEF ServInv, Types, Connections
  <1>7. CASE Len(idle) >= MaxIdle
    <2>1. /\ alive' = alive \ {o} /\ pool' = q /\ conn' = [conn EXCEPT ![o] = NoConn] /\ idle' = idle
      BY <1>7 DEF Finish
    <2>2. NoConn \in Conns
      BY DEF NoConn, Conns
    <2> HIDE DEF q, S
    <2>3. alive' = alive \ {o} /\ PoolOk(q, OtherHands(o))
      BY <1>1, <1>2, <2>1
    <2>4. /\ alive' = (Running \ {o}) \cup (IF "none" = "none" THEN {} ELSE {o}) \cup Range(idle)
          /\ ((Running \ {o}) \cup (IF "none" = "none" THEN {} ELSE {o})) \cap Range(idle) = {}
      BY <1>1, <1>6, <2>1
    <2> HIDE DEF c
    <2>5. peer' = [peer EXCEPT ![c] = pp] /\ conn[o].fd = c
      BY DEF c
    <2>6. (\A x \in OtherHands(o) : q.buf[x] = pool.buf[x])
      BY <1>1, <1>3
    <2>7. Stepped(o, NoConn, c, "none", NoNet, pp, q, idle, alive \ {o})
      BY <1>1, <1>4, <1>5, <1>6, <2>1, <2>2, <2>3, <2>4, <2>5, <2>6 DEF Stepped
    <2> QED BY <1>1, <1>4, <2>1, <2>2, <2>5, <2>7, ConnStep
  <1>8. CASE ~(Len(idle) >= MaxIdle)
    <2> DEFINE r == [conn[o] EXCEPT !.fd = None]
               new == TakeSendFirst(q, r)
               more == Append(idle, o)
    <2>1. /\ pool' = new.pool /\ conn' = [conn EXCEPT ![o] = new.conn] /\ idle' = more /\ alive' = alive
      BY <1>8 DEF Finish, Reset
    <2>2. r \in Conns /\ r.fd = None
      BY <1>1 DEF Conns
    <2> HIDE DEF q, S, r
    <2>3. S # Buf /\ \A x \in Buf : S \cup {x} # Buf
      BY <1>1, Room
    <2>13. Taken(new, S, q, r.fd)
      BY <1>2, <2>2, <2>3, TakenFirst
    <2>4. PICK k, a, b :
            /\ new = [pool |-> k, conn |-> Conn(r.fd, a, b)]
            /\ a \in Buf \ S /\ b \in Buf \ S /\ a # b /\ PoolOk(k, S \cup {a, b})
            /\ k.buf[a] = Fresh /\ k.buf[b] = Fresh /\ \A x \in S : k.buf[x] = q.buf[x]
      BY <2>13 DEF Taken
    <2> DEFINE rr == Conn(None, a, b)
    <2>5. rr \in Conns /\ rr.recvbuf = a /\ rr.sendbuf = b
      BY <2>4 DEF Conn, Conns
    <2>6. pool' = k /\ conn' = [conn EXCEPT ![o] = rr]
      BY <2>1, <2>2, <2>4
    <2>7. more \in Seq(Obj) /\ IsInjective(more) /\ Range(more) = Range(idle) \cup {o}
      BY <1>1, <1>6, Appended
    <2> HIDE DEF rr, new, more
    <2>8. /\ alive' = (Running \ {o}) \cup (IF "none" = "none" THEN {} ELSE {o}) \cup Range(more)
          /\ ((Running \ {o}) \cup (IF "none" = "none" THEN {} ELSE {o})) \cap Range(more) = {}
      BY <1>1, <1>6, <2>1, <2>7
    <2>9. /\ alive' = (alive \ {o}) \cup {o} /\ rr.recvbuf \in Buf \ OtherHands(o) /\ rr.sendbuf \in Buf \ OtherHands(o)
          /\ rr.recvbuf # rr.sendbuf /\ PoolOk(k, OtherHands(o) \cup {rr.recvbuf, rr.sendbuf})
      BY <1>1, <2>1, <2>4, <2>5
    <2>10. \A x \in OtherHands(o) : k.buf[x] = pool.buf[x]
      BY <1>1, <1>3, <2>4
    <2>11. k.buf[rr.recvbuf] = Fresh /\ idle' = more /\ Range(more) \subseteq Range(idle) \cup {o}
      BY <2>1, <2>4, <2>5, <2>7
    <2> HIDE DEF c
    <2>12. peer' = [peer EXCEPT ![c] = pp] /\ conn[o].fd = c
      BY DEF c
    <2>14. Stepped(o, rr, c, "none", NoNet, pp, k, more, alive)
      BY <1>1, <1>4, <1>5, <2>1, <2>5, <2>7, <2>8, <2>9, <2>10, <2>11, <2>12 DEF Stepped
    <2>15. idle' = more /\ alive' = alive
      BY <2>1
    <2> QED BY <1>1, <1>4, <2>5, <2>6, <2>12, <2>14, <2>15, ConnStep
  <1> QED BY <1>7, <1>8
-----------------------------------------------------------------------------
(* The steps of the server.                                                *)

LEMMA Accepts ==
    ASSUME Enough, ServInv, NEW c \in Client, Accept(c)
    PROVE  ServInv'
  <1> DEFINE n == [net[c] EXCEPT !.state = "open"]
  <1>1. /\ net \in [Client -> Sockets] /\ peer \in [Client -> Peers] /\ net[c] \in Sockets /\ peer[c] \in Peers
        /\ idle \in Seq(Obj) /\ alive \in SUBSET Obj /\ conn \in [Obj -> Conns]
    BY DEF ServInv, Types
  <1>2. net[c].state = "backlog" /\ Flow(<<>>, Fresh, net[c], peer[c], "recv")
    BY DEF Accept, ServInv, ClientFlows
  <1>3. n \in Sockets /\ n.state = "open" /\ n.in = net[c].in /\ net' = [net EXCEPT ![c] = n]
    BY <1>1 DEF Accept, Sockets
  <1> HIDE DEF n
  <1>4. \A any : Flow(<<>>, any, n, peer[c], "recv")
    BY <1>2, <1>3 DEF Flow, Answered, Coming, Sending
  <1>5. peer' = [peer EXCEPT ![c] = peer[c]]
    BY <1>1 DEF Accept
  <1>6. /\ IsInjective(idle) /\ alive = Running \cup Range(idle) /\ Running \cap Range(idle) = {}
        /\ \A o \in Range(idle) : pool.buf[conn[o].recvbuf] = Fresh
    BY DEF ServInv, Connections
  <1>7. CASE idle = <<>>
    <2>1. PICK o \in Obj \ alive :
            LET new == TakeRecvFirst(pool, NoConn)
            IN  /\ pool' = new.pool /\ conn' = [conn EXCEPT ![o] = [new.conn EXCEPT !.fd = c]]
                /\ alive' = alive \cup {o} /\ idle' = idle /\ pc' = [pc EXCEPT ![o] = "recv"]
      BY <1>7 DEF Accept
    <2> DEFINE new == TakeRecvFirst(pool, NoConn)
               S == OtherHands(o)
    <2>2. NoConn \in Conns /\ NoConn.fd = None
      BY DEF NoConn, Conns
    <2>3. S # Buf /\ (\A x \in Buf : S \cup {x} # Buf) /\ PoolOk(pool, S)
      BY <2>1, Room, HandsApart
    <2> HIDE DEF S
    <2>4. Taken(new, S, pool, NoConn.fd)
      BY <2>2, <2>3, TakenFirst
    <2>5. PICK k, a, b :
            /\ new = [pool |-> k, conn |-> Conn(None, a, b)]
            /\ a \in Buf \ S /\ b \in Buf \ S /\ a # b /\ PoolOk(k, S \cup {a, b})
            /\ k.buf[a] = Fresh /\ k.buf[b] = Fresh /\ \A x \in S : k.buf[x] = pool.buf[x]
      BY <2>2, <2>4 DEF Taken
    <2> DEFINE r == Conn(c, a, b)
    <2>6. r \in Conns /\ r.fd = c /\ r.recvbuf = a /\ r.sendbuf = b /\ [new.conn EXCEPT !.fd = c] = r
      <3> DEFINE u == new.conn
                 w == Conn(None, a, b)
      <3>1. u = w
        BY <2>5
      <3>2. [w EXCEPT !.fd = c] = r
        <4>1. PICK e, h : e = <<>> /\ h = FALSE
          OBVIOUS
        <4>2. w = [fd |-> None, recvbuf |-> a, sendbuf |-> b, line |-> e, have |-> h]
          BY <4>1, Zenon DEF Conn
        <4> HIDE DEF w
        <4>3. [w EXCEPT !.fd = c] = [fd |-> c, recvbuf |-> a, sendbuf |-> b, line |-> e, have |-> h]
          BY ONLY <4>2
        <4> QED BY <4>1, <4>3, Zenon DEF Conn
      <3>4. r \in Conns /\ r.fd = c /\ r.recvbuf = a /\ r.sendbuf = b
        BY <2>5 DEF Conn, Conns
      <3> HIDE DEF u, w, r
      <3>3. [u EXCEPT !.fd = c] = r
        BY <3>1, <3>2, Zenon
      <3> QED BY <3>3, <3>4, Zenon DEF u
    <2>7. /\ pool' = new.pool /\ conn' = [conn EXCEPT ![o] = [new.conn EXCEPT !.fd = c]]
          /\ alive' = alive \cup {o} /\ idle' = idle /\ pc' = [pc EXCEPT ![o] = "recv"]
      BY <2>1
    <2>8. new.pool = k
      BY <2>5
    <2> HIDE DEF new, r
    <2>9. pool' = k /\ conn' = [conn EXCEPT ![o] = r] /\ alive' = alive \cup {o} /\ idle' = idle
      BY <2>6, <2>7, <2>8
    <2>10. pc[o] = "none" /\ o \notin Running /\ o \notin Range(idle) /\ o \in Obj
      BY <1>6, <2>1 DEF Running
    <2>11. /\ alive \cup {o} = (alive \ {o}) \cup {o}
           /\ alive \cup {o} = ((Running \ {o}) \cup (IF "recv" = "none" THEN {} ELSE {o})) \cup Range(idle)
           /\ ((Running \ {o}) \cup (IF "recv" = "none" THEN {} ELSE {o})) \cap Range(idle) = {}
      BY <1>6, <2>10
    <2>12. Flow(k.buf[r.recvbuf].recv, k.buf[r.sendbuf], n, peer[c], "recv")
      BY <1>4, <2>5, <2>6, FreshIs
    <2>13. /\ r.recvbuf \in Buf \ OtherHands(o) /\ r.sendbuf \in Buf \ OtherHands(o)
           /\ r.recvbuf # r.sendbuf /\ PoolOk(k, OtherHands(o) \cup {r.recvbuf, r.sendbuf})
           /\ \A x \in OtherHands(o) : k.buf[x] = pool.buf[x]
      BY <2>5, <2>6 DEF S
    <2>14. Stepped(o, r, c, "recv", n, peer[c], k, idle, alive \cup {o})
      BY <1>1, <1>2, <1>3, <1>6, <2>6, <2>10, <2>11, <2>12, <2>13 DEF Stepped
    <2>15. pc' = [pc EXCEPT ![o] = "recv"]
      BY <2>7
    <2> QED BY <1>1, <1>3, <1>5, <2>6, <2>9, <2>10, <2>14, <2>15, ConnStep
  <1>8. CASE idle # <<>>
    <2> DEFINE o == Head(idle)
               rest == Tail(idle)
    <2>1. o \in Range(idle) /\ rest \in Seq(Obj) /\ Range(rest) = Range(idle) \ {o} /\ IsInjective(rest)
      BY <1>1, <1>6, <1>8, TailOf
    <2>2. /\ pool' = pool /\ conn' = [conn EXCEPT ![o] = [conn[o] EXCEPT !.fd = c]]
          /\ alive' = alive \cup {o} /\ idle' = rest /\ pc' = [pc EXCEPT ![o] = "recv"]
      <3>1. PICK q \in {Head(idle)} :
              LET new == [pool |-> pool, conn |-> conn[q]]
              IN  /\ pool' = new.pool /\ conn' = [conn EXCEPT ![q] = [new.conn EXCEPT !.fd = c]]
                  /\ alive' = alive \cup {q} /\ idle' = Tail(idle) /\ pc' = [pc EXCEPT ![q] = "recv"]
        BY <1>8 DEF Accept
      <3>2. q = o
        BY <3>1
      <3> QED BY <3>1, <3>2
    <2> HIDE DEF o, rest
    <2>3. o \in alive /\ o \in Obj /\ o \notin Running /\ pc[o] = "none"
      BY <1>1, <1>6, <2>1 DEF Running
    <2> DEFINE r == [conn[o] EXCEPT !.fd = c]
    <2>4. r \in Conns /\ r.fd = c /\ r.recvbuf = conn[o].recvbuf /\ r.sendbuf = conn[o].sendbuf
      BY <1>1, <2>3 DEF Conns
    <2>5. conn' = [conn EXCEPT ![o] = r]
      BY <2>2
    <2> HIDE DEF r
    <2>6. /\ InHand \subseteq Buf /\ PoolOk(pool, InHand)
          /\ conn[o].recvbuf \in InHand /\ conn[o].sendbuf \in InHand /\ conn[o].recvbuf # conn[o].sendbuf
          /\ OtherHands(o) = InHand \ {conn[o].recvbuf, conn[o].sendbuf}
      BY <2>3, HandsApart
    <2>7. OtherHands(o) \cup {r.recvbuf, r.sendbuf} = InHand
      BY <2>4, <2>6
    <2>8. /\ r.recvbuf \in Buf \ OtherHands(o) /\ r.sendbuf \in Buf \ OtherHands(o)
          /\ r.recvbuf # r.sendbuf /\ PoolOk(pool, OtherHands(o) \cup {r.recvbuf, r.sendbuf})
      BY <2>4, <2>6, <2>7
    <2>9. Flow(pool.buf[r.recvbuf].recv, pool.buf[r.sendbuf], n, peer[c], "recv")
      <3>1. pool.buf[r.recvbuf].recv = <<>>
        BY <1>6, <2>1, <2>4, FreshIs
      <3> QED BY <1>4, <3>1
    <2>10. /\ alive \cup {o} = (alive \ {o}) \cup {o} /\ o \notin Range(rest) /\ Range(rest) \subseteq Range(idle) \cup {o}
           /\ alive \cup {o} = ((Running \ {o}) \cup (IF "recv" = "none" THEN {} ELSE {o})) \cup Range(rest)
           /\ ((Running \ {o}) \cup (IF "recv" = "none" THEN {} ELSE {o})) \cap Range(rest) = {}
      BY <1>6, <2>1, <2>3
    <2>11. Stepped(o, r, c, "recv", n, peer[c], pool, rest, alive \cup {o})
      BY <1>1, <1>2, <1>3, <2>1, <2>3, <2>4, <2>8, <2>9, <2>10 DEF Stepped
    <2>12. pool' = pool /\ alive' = alive \cup {o} /\ idle' = rest /\ pc' = [pc EXCEPT ![o] = "recv"]
      BY <2>2
    <2> QED BY <1>1, <1>3, <1>5, <2>3, <2>4, <2>5, <2>11, <2>12, ConnStep
  <1> QED BY <1>7, <1>8

LEMMA EndsReceiving ==
    ASSUME Enough, ServInv, NEW o \in Obj, RecvEnds(o)
    PROVE  ServInv'
  <1>1. o \in Running
    BY DEF RecvEnds, Running
  <1> DEFINE c == conn[o].fd
  <1>2. /\ c \in Client /\ net[c] \in Sockets /\ peer[c] \in Peers /\ PoolOk(pool, InHand)
        /\ IsPrefix(peer[c].got, peer[c].line)
    BY <1>1, AtWork, HandsApart, LinePrefix
  <1>3. net \in [Client -> Sockets] /\ peer \in [Client -> Peers]
    BY DEF ServInv, Types
  <1>4. net = [net EXCEPT ![c] = net[c]] /\ peer' = [peer EXCEPT ![c] = peer[c]] /\ Finish(o, pool, net)
    BY <1>2, <1>3 DEF RecvEnds
  <1> QED BY <1>1, <1>2, <1>4, Finished

\* A byte more or less in the buffer b.
Put(p, b, v) == [p EXCEPT !.buf = [p.buf EXCEPT ![b] = v]]

LEMMA PutIs ==
    ASSUME NEW p \in Pools, NEW b \in Buf, NEW v
    PROVE  /\ [p EXCEPT !.buf[b] = v] = Put(p, b, v)
           /\ [p EXCEPT !.buf[b].recv = v] = Put(p, b, [p.buf[b] EXCEPT !.recv = v])
           /\ [p EXCEPT !.buf[b].sent = v] = Put(p, b, [p.buf[b] EXCEPT !.sent = v])
  <1>1. [p EXCEPT !.buf[b] = v] = Put(p, b, v)
    BY DEF Put
  <1>2. [p EXCEPT !.buf[b].recv = v] = Put(p, b, [p.buf[b] EXCEPT !.recv = v])
    BY DEF Put
  <1>3. [p EXCEPT !.buf[b].sent = v] = Put(p, b, [p.buf[b] EXCEPT !.sent = v])
    BY DEF Put
  <1> QED BY <1>1, <1>2, <1>3

LEMMA PutInHand ==
    ASSUME NEW p, NEW S, PoolOk(p, S), NEW b \in S, NEW v \in Buffer
    PROVE  /\ PoolOk(Put(p, b, v), S) /\ Put(p, b, v).buf[b] = v
           /\ \A x \in S \ {b} : Put(p, b, v).buf[x] = p.buf[x]
  <1> DEFINE q == Put(p, b, v)
             new == [p.buf EXCEPT ![b] = v]
  <1>1. /\ p \in Pools /\ S \subseteq Buf /\ b \in Buf /\ p.buf \in [Buf -> Buffer] /\ S \cap Range(p.free) = {}
        /\ Range(p.free) \subseteq Buf
    <2>1. p \in Pools /\ S \subseteq Buf /\ S \cap Range(p.free) = {} /\ p.free \in Seq(Buf)
      BY DEF PoolOk, Pools
    <2> QED BY <2>1, LenProperties DEF Pools, Range
  <1>2. new \in [Buf -> Buffer] /\ new[b] = v /\ \A x \in Buf \ {b} : new[x] = p.buf[x]
    BY <1>1
  <1>3. q = [p EXCEPT !.buf = new]
    BY DEF Put
  <1> HIDE DEF new, q
  <1>4. q \in Pools /\ q.buf = new /\ q.made = p.made /\ q.free = p.free
    BY <1>1, <1>2, <1>3 DEF Pools
  <1>5. \A x \in Range(q.free) : q.buf[x] = p.buf[x]
    BY <1>1, <1>2, <1>4
  <1>6. PoolOk(q, S)
    BY <1>4, <1>5 DEF PoolOk
  <1> QED BY <1>1, <1>2, <1>4, <1>6 DEF q

ConnectionsStay == UNCHANGED <<conn, idle, alive>>

\* The coroutine of o goes on with its connection as it is.
LEMMA GoesOn ==
    ASSUME ServInv, NEW o \in Running, NEW k, PoolOk(k, InHand),
           \A x \in OtherHands(o) : k.buf[x] = pool.buf[x],
           NEW n \in Sockets, n.state = net[conn[o].fd].state, NEW pp \in Peers, NEW at \in {"recv", "send"},
           Flow(k.buf[conn[o].recvbuf].recv, k.buf[conn[o].sendbuf], n, pp, at),
           pool' = k, ConnectionsStay, pc' = [pc EXCEPT ![o] = at],
           net' = [net EXCEPT ![conn[o].fd] = n], peer' = [peer EXCEPT ![conn[o].fd] = pp]
    PROVE  ServInv'
  <1> DEFINE c == conn[o].fd
             r == conn[o]
  <1>1. /\ o \in Obj /\ o \in alive /\ o \notin Range(idle) /\ pc[o] # "none" /\ c \in Client /\ r \in Conns
        /\ net[c].state \in {"open", "left"}
        /\ conn[o].recvbuf \in InHand /\ conn[o].sendbuf \in InHand /\ conn[o].recvbuf # conn[o].sendbuf
        /\ OtherHands(o) = InHand \ {conn[o].recvbuf, conn[o].sendbuf} /\ InHand \subseteq Buf
    BY AtWork, HandsApart
  <1>2. /\ idle \in Seq(Obj) /\ IsInjective(idle) /\ alive = Running \cup Range(idle)
        /\ Running \cap Range(idle) = {} /\ conn \in [Obj -> Conns]
    BY DEF ServInv, Types, Connections
  <1>3. /\ alive = (alive \ {o}) \cup {o} /\ Range(idle) \subseteq Range(idle) \cup {o}
        /\ alive = ((Running \ {o}) \cup (IF at = "none" THEN {} ELSE {o})) \cup Range(idle)
        /\ ((Running \ {o}) \cup (IF at = "none" THEN {} ELSE {o})) \cap Range(idle) = {}
    BY <1>1, <1>2
  <1>4. OtherHands(o) \cup {conn[o].recvbuf, conn[o].sendbuf} = InHand
    BY <1>1
  <1>5. /\ r.recvbuf \in Buf \ OtherHands(o) /\ r.sendbuf \in Buf \ OtherHands(o)
        /\ r.recvbuf # r.sendbuf /\ PoolOk(k, OtherHands(o) \cup {r.recvbuf, r.sendbuf})
    BY <1>1, <1>4
  <1>6. r.fd = c /\ n.state \in {"open", "left"} /\ Flow(k.buf[r.recvbuf].recv, k.buf[r.sendbuf], n, pp, at)
        /\ net' = [net EXCEPT ![c] = n] /\ peer' = [peer EXCEPT ![c] = pp]
        /\ conn[o].fd = c /\ at # "none" /\ at \in {"none", "recv", "send"}
    BY <1>1, <1>2
  <1>8. conn' = [conn EXCEPT ![o] = r] /\ idle' = idle /\ alive' = alive
    BY <1>1, <1>2 DEF ConnectionsStay
  <1> HIDE DEF c, r
  <1>7. Stepped(o, r, c, at, n, pp, k, idle, alive)
    BY <1>1, <1>2, <1>3, <1>5, <1>6 DEF Stepped
  <1>9. pool' = k /\ pc' = [pc EXCEPT ![o] = at]
    OBVIOUS
  <1> QED BY ONLY ServInv, n \in Sockets, pp \in Peers, <1>1, <1>6, <1>7, <1>8, <1>9, ConnStep

LEMMA Sends ==
    ASSUME Enough, ServInv, NEW o \in Obj, Send(o)
    PROVE  ServInv'
  <1>1. o \in Running
    BY DEF Send, Running
  <1> DEFINE c == conn[o].fd
             a == conn[o].recvbuf
             b == conn[o].sendbuf
             s == pool.buf[b]
             line == peer[c].line
             v == [s EXCEPT !.sent = @ + Len(Rest(o))]
             pp == [peer[c] EXCEPT !.got = line]
  <1>2. /\ c \in Client /\ net[c] \in Sockets /\ peer[c] \in Peers /\ PoolOk(pool, InHand) /\ s \in Buffer
        /\ a \in InHand /\ b \in InHand /\ a # b /\ OtherHands(o) = InHand \ {a, b} /\ InHand \subseteq Buf
        /\ Flow(pool.buf[a].recv, s, net[c], peer[c], pc[o])
    BY <1>1, AtWork, HandsApart
  <1>3. pc[o] = "send" /\ Sending(pool.buf[a].recv, s, net[c], peer[c], pc[o]) /\ ALine(line)
    BY <1>2 DEF Send, Flow, Answered, Coming
  <1>4. line \in Seq(Sym) /\ peer[c].got = <<>> /\ s.msg = line /\ s.sent = 0
    BY <1>2, <1>3 DEF Sending, Peers
  <1>5. Rest(o) = line /\ Len(line) \in Nat
    <2>1. Rest(o) = SubSeq(line, 0 + 1, Len(line))
      BY <1>4 DEF Rest
    <2>2. SubSeq(line, 1, Len(line)) = line
      BY <1>4, SubSeqFull
    <2> QED BY <1>4, <2>1, <2>2, LenProperties
  <1>6. net \in [Client -> Sockets] /\ peer \in [Client -> Peers] /\ pool \in Pools
    BY <1>2 DEF ServInv, Types, PoolOk
  <1>7. peer' = [peer EXCEPT ![c] = pp]
    <2>1. peer' = [peer EXCEPT ![c].got = @ \o SubSeq(Rest(o), 1, Len(Rest(o)))]
      BY DEF Send, Reply
    <2>2. SubSeq(Rest(o), 1, Len(Rest(o))) = line /\ <<>> \o line = line
      BY <1>4, <1>5, SubSeqFull, ConcatEmptySeq
    <2>3. peer' = [peer EXCEPT ![c] = [peer[c] EXCEPT !.got = peer[c].got \o line]]
      BY <2>1, <2>2
    <2> QED BY <1>4, <2>2, <2>3
  <1>8. pool' = Put(pool, b, v)
    <2> DEFINE w == s.sent + Len(Rest(o))
    <2>1. pool' = [pool EXCEPT !.buf[b].sent = w] /\ v = [pool.buf[b] EXCEPT !.sent = w]
      BY Zenon DEF Send
    <2> HIDE DEF w, v, b
    <2>2. [pool EXCEPT !.buf[b].sent = w] = Put(pool, b, [pool.buf[b] EXCEPT !.sent = w])
      BY DEF Put
    <2> QED BY <2>1, <2>2, Zenon
  <1>9. v \in Buffer
    <2>1. s.sent + Len(Rest(o)) \in Nat
      BY <1>4, <1>5
    <2> QED BY <1>2, <2>1 DEF Buffer
  <1>10. pp \in Peers /\ pp.got = line /\ pp.line = line /\ pp.todo = peer[c].todo
    BY <1>2, <1>4 DEF Peers
  <1> DEFINE k == Put(pool, b, v)
  <1> HIDE DEF v, pp
  <1>11. PoolOk(k, InHand) /\ \A x \in InHand \ {b} : k.buf[x] = pool.buf[x]
    BY <1>2, <1>9, PutInHand
  <1>12. k.buf[a] = pool.buf[a] /\ \A x \in OtherHands(o) : k.buf[x] = pool.buf[x]
    BY <1>2, <1>11
  <1> HIDE DEF k
  <1>13. Flow(k.buf[a].recv, k.buf[b], net[c], pp, "recv")
    BY <1>3, <1>10, <1>12 DEF Flow, Sending, Answered
  <1>14. pool' = k /\ ConnectionsStay /\ pc' = [pc EXCEPT ![o] = "recv"] /\ net' = [net EXCEPT ![c] = net[c]]
    BY <1>2, <1>6, <1>8 DEF Send, ConnectionsStay, k
  <1> QED BY <1>1, <1>2, <1>7, <1>10, <1>11, <1>12, <1>13, <1>14, GoesOn

LEMMA FailsSending ==
    ASSUME Enough, ServInv, NEW o \in Obj, SendFails(o)
    PROVE  ServInv'
  <1>1. o \in Running
    BY DEF SendFails, Running
  <1> DEFINE c == conn[o].fd
             a == conn[o].recvbuf
             b == conn[o].sendbuf
             s == pool.buf[b]
             line == peer[c].line
  <1>2. /\ c \in Client /\ net[c] \in Sockets /\ peer[c] \in Peers /\ PoolOk(pool, InHand)
        /\ Flow(pool.buf[a].recv, s, net[c], peer[c], pc[o]) /\ IsPrefix(peer[c].got, line)
    BY <1>1, AtWork, HandsApart, LinePrefix
  <1>3. pc[o] = "send" /\ Sending(pool.buf[a].recv, s, net[c], peer[c], pc[o])
    BY <1>2 DEF SendFails, Flow, Answered, Coming
  <1>4. line \in Seq(Sym) /\ peer[c].got = <<>> /\ s.msg = line /\ s.sent = 0
    BY <1>2, <1>3 DEF Sending, Peers
  <1>5. Rest(o) = line /\ Len(line) \in Nat
    <2>1. Rest(o) = SubSeq(line, 0 + 1, Len(line))
      BY <1>4 DEF Rest
    <2>2. SubSeq(line, 1, Len(line)) = line
      BY <1>4, SubSeqFull
    <2> QED BY <1>4, <2>1, <2>2, LenProperties
  <1>6. net \in [Client -> Sockets] /\ peer \in [Client -> Peers]
    BY DEF ServInv, Types
  <1>7. Finish(o, pool, net) /\ net = [net EXCEPT ![c] = net[c]]
    BY <1>2, <1>6 DEF SendFails
  <1>8. PICK n \in 0..(Len(line) - 1) : peer' = IF net[c].state = "open" THEN Reply(o, n) ELSE peer
    BY <1>5 DEF SendFails
  <1>9. CASE net[c].state = "open"
    <2> DEFINE got == Part(line, 0, n)
               pp == [peer[c] EXCEPT !.got = got]
    <2>1. n \in 0..Len(line) /\ n \in Nat /\ 0 \in Nat /\ 0 <= n /\ n <= Len(line)
      BY <1>5
    <2>2. got \in Seq(Sym)
      BY <1>4, <2>1, PartOf
    <2>3. SubSeq(Rest(o), 1, n) = got /\ <<>> \o got = got
      BY <1>5, <2>2, PartIs, ConcatEmptySeq DEF Part
    <2>4. peer' = [peer EXCEPT ![c].got = @ \o SubSeq(Rest(o), 1, n)]
      BY <1>8, <1>9 DEF Reply
    <2>5. IsPrefix(got, line)
      BY <1>4, <2>1, PrefixOf
    <2> HIDE DEF got
    <2>6. peer' = [peer EXCEPT ![c] = pp]
      <3>1. peer' = [peer EXCEPT ![c] = [peer[c] EXCEPT !.got = peer[c].got \o got]]
        BY <2>3, <2>4
      <3> QED BY <1>4, <2>3, <3>1
    <2>7. pp \in Peers /\ pp.got = got /\ pp.line = line
      BY <1>2, <2>2 DEF Peers
    <2> HIDE DEF pp
    <2>8. IsPrefix(pp.got, pp.line)
      BY <2>5, <2>7
    <2> QED BY <1>1, <1>2, <1>7, <2>6, <2>7, <2>8, Finished
  <1>10. CASE net[c].state # "open"
    <2>1. peer' = [peer EXCEPT ![c] = peer[c]]
      BY <1>2, <1>6, <1>8, <1>10
    <2> QED BY <1>1, <1>2, <1>7, <2>1, Finished
  <1> QED BY <1>9, <1>10
\* A connection that keeps a line of its application, until the line was handed over.
Keeping(x, l, r) ==
    /\ r.fd = x.fd /\ r.recvbuf = x.recvbuf /\ r.sendbuf = x.sendbuf /\ r.line = l /\ r.have = TRUE
    /\ [r EXCEPT !.line = <<>>, !.have = FALSE] = x /\ x.have = FALSE

LEMMA LineKept ==
    ASSUME NEW x \in Conns, NEW l, NEW r, r = [x EXCEPT !.line = l, !.have = TRUE]
    PROVE  Keeping(x, l, r)
  <1>1. PICK fd, a, b, e, h, t :
          /\ x = [fd |-> fd, recvbuf |-> a, sendbuf |-> b, line |-> e, have |-> h]
          /\ e = <<>> /\ h = FALSE /\ t = TRUE
    BY DEF Conns
  <1>2. x = [fd |-> fd, recvbuf |-> a, sendbuf |-> b, line |-> e, have |-> h]
    BY <1>1
  <1> DEFINE u == [x EXCEPT !.line = l]
             v == [r EXCEPT !.line = e]
  <1>3. u = [fd |-> fd, recvbuf |-> a, sendbuf |-> b, line |-> l, have |-> h]
    BY ONLY <1>2
  <1>4. r = [u EXCEPT !.have = t]
    BY <1>1, Zenon
  <1> HIDE DEF u
  <1>5. r = [fd |-> fd, recvbuf |-> a, sendbuf |-> b, line |-> l, have |-> t]
    BY ONLY <1>3, <1>4
  <1>6. v = [fd |-> fd, recvbuf |-> a, sendbuf |-> b, line |-> e, have |-> t]
    BY ONLY <1>5
  <1>7. [r EXCEPT !.line = <<>>, !.have = FALSE] = [v EXCEPT !.have = h]
    BY <1>1, Zenon
  <1> HIDE DEF v
  <1>8. [v EXCEPT !.have = h] = x
    BY ONLY <1>2, <1>6
  <1>9. r.fd = x.fd /\ r.recvbuf = x.recvbuf /\ r.sendbuf = x.sendbuf /\ r.line = l /\ r.have = t /\ x.have = h
    BY ONLY <1>2, <1>5
  <1> QED BY <1>1, <1>7, <1>8, <1>9, Zenon DEF Keeping

\* What a receive leaves in the two buffers of a connection.
Left(o, recv, msg) ==
    LET a == conn[o].recvbuf
        b == conn[o].sendbuf
    IN  Put(Put(pool, a, [pool.buf[a] EXCEPT !.recv = recv]), b,
            [[pool.buf[b] EXCEPT !.sent = 0] EXCEPT !.msg = msg])

\* What the server does with the data, n what it left in the socket of c.
Outcome(o, data, c, n) ==
    /\ DoInput(data) = "error" =>
          Finish(o, Put(pool, conn[o].recvbuf, [pool.buf[conn[o].recvbuf] EXCEPT !.recv = data]),
                 [net EXCEPT ![c] = n])
    /\ DoInput(data) = "line" =>
          /\ pool' = Left(o, <<>>, SubSeq(data, 1, FirstLine(data)))
          /\ ConnectionsStay /\ net' = [net EXCEPT ![c] = n]
          /\ pc' = [pc EXCEPT ![o] = IF 0 < Len(SubSeq(data, 1, FirstLine(data))) THEN "send" ELSE "recv"]
    /\ DoInput(data) = "more" =>
          /\ pool' = Left(o, data, <<>>)
          /\ ConnectionsStay /\ net' = [net EXCEPT ![c] = n] /\ pc' = [pc EXCEPT ![o] = "recv"]

LEMMA RecvIs ==
    ASSUME ServInv, NEW o \in Running, NEW k, Recv(o, k),
           NEW data, data = Data(o, k), NEW c, c = conn[o].fd,
           NEW n, n = [net[c] EXCEPT !.in = SubSeq(@, k + 1, Len(@))]
    PROVE  Outcome(o, data, c, n)
  <1> DEFINE a == conn[o].recvbuf
             b == conn[o].sendbuf
             left == [net EXCEPT ![c].in = SubSeq(@, k + 1, Len(@))]
  <1>1. /\ conn[o] \in Conns /\ c \in Client /\ a \in Buf /\ b \in Buf /\ o \in Obj
        /\ conn \in [Obj -> Conns] /\ pool \in Pools /\ net \in [Client -> Sockets]
        /\ pool.buf[b] \in Buffer /\ a # b
    BY AtWork, HandsApart DEF ServInv, Types, PoolOk
  <1>2. left = [net EXCEPT ![c] = n]
    BY Zenon
  <1>4. conn[o].have = FALSE
    BY <1>1 DEF Conns
  <1> DEFINE got == Received(o, k)
             r == got.conn
             p == [pool EXCEPT !.buf[r.recvbuf].recv = got.recv]
             out == DoOutput(DoProcess(pool.buf[r.sendbuf]), r)
             then == [conn EXCEPT ![o] = IF r.have THEN [r EXCEPT !.line = <<>>, !.have = FALSE] ELSE r]
             next == [pc EXCEPT ![o] = IF out.sent < Len(out.msg) THEN "send" ELSE "recv"]
             held == [p EXCEPT !.buf[r.sendbuf] = out]
  <1>5. IF DoInput(data) = "error" THEN Finish(o, p, left)
        ELSE pool' = held /\ conn' = then /\ pc' = next /\ net' = left /\ idle' = idle /\ alive' = alive
    BY DEF Recv
  <1> HIDE DEF left
  <1>6. CASE DoInput(data) = "error"
    <2>1. got = [conn |-> conn[o], recv |-> data]
      BY <1>6 DEF Received
    <2>2. Finish(o, p, left)
      BY <1>5, <1>6
    <2> HIDE DEF got
    <2>3. r = conn[o] /\ got.recv = data
      BY <2>1
    <2>4. p = [pool EXCEPT !.buf[a].recv = data]
      BY <2>3, Zenon
    <2>5. [pool EXCEPT !.buf[a].recv = data] = Put(pool, a, [pool.buf[a] EXCEPT !.recv = data])
      BY DEF Put
    <2> HIDE DEF p
    <2>6. Finish(o, Put(pool, a, [pool.buf[a] EXCEPT !.recv = data]), [net EXCEPT ![c] = n])
      BY <1>2, <2>2, <2>4, <2>5, Zenon
    <2> QED BY <1>6, <2>6, Zenon DEF Outcome
  <1>7. CASE DoInput(data) = "line"
    <2> DEFINE l == SubSeq(data, 1, FirstLine(data))
               rr == [conn[o] EXCEPT !.line = l, !.have = TRUE]
    <2>1. got = [conn |-> rr, recv |-> <<>>]
      BY <1>7 DEF Received
    <2> HIDE DEF l
    <2>2. pool' = held /\ conn' = then /\ pc' = next /\ net' = left /\ idle' = idle /\ alive' = alive
      BY <1>5, <1>7
    <2>3. /\ rr.fd = c /\ rr.recvbuf = a /\ rr.sendbuf = b /\ rr.line = l /\ rr.have = TRUE
          /\ [rr EXCEPT !.line = <<>>, !.have = FALSE] = conn[o]
      <3> DEFINE x == conn[o]
      <3>1. x \in Conns /\ rr = [x EXCEPT !.line = l, !.have = TRUE] /\ x.fd = c /\ x.recvbuf = a /\ x.sendbuf = b
        BY <1>1
      <3> HIDE DEF x
      <3>2. Keeping(x, l, rr)
        BY <3>1, LineKept
      <3> HIDE DEF a, b, rr
      <3>3. /\ rr.fd = c /\ rr.recvbuf = a /\ rr.sendbuf = b /\ rr.line = l /\ rr.have = TRUE
            /\ [rr EXCEPT !.line = <<>>, !.have = FALSE] = x
        BY <3>1, <3>2, Zenon DEF Keeping
      <3> QED BY <3>3, Zenon DEF x
    <2> HIDE DEF got, rr
    <2>4. r = rr /\ got.recv = <<>>
      BY <2>1
    <2>5. then = conn
      <3>1. then = [conn EXCEPT ![o] = conn[o]]
        BY <2>3, <2>4, Zenon
      <3> QED BY <1>1, <3>1
    <2> DEFINE v == [pool.buf[b] EXCEPT !.sent = 0]
    <2>6. out = [v EXCEPT !.msg = l]
      <3>1. out = [v EXCEPT !.msg = IF r.have THEN r.line ELSE <<>>]
        BY <2>3, <2>4, Zenon DEF DoOutput, DoProcess
      <3> HIDE DEF v
      <3> QED BY <2>3, <2>4, <3>1, Zenon
    <2>7. out.sent = 0 /\ out.msg = l
      <3>1. v.sent = 0 /\ v \in Buffer
        BY <1>1 DEF Buffer
      <3> HIDE DEF v, out
      <3> QED BY <2>6, <3>1 DEF Buffer
    <2>8. next = [pc EXCEPT ![o] = IF 0 < Len(l) THEN "send" ELSE "recv"]
      BY <2>7, Zenon
    <2>9. held = Left(o, <<>>, l)
      <3>1. p = [pool EXCEPT !.buf[a].recv = <<>>]
        BY <2>3, <2>4, Zenon
      <3>2. [pool EXCEPT !.buf[a].recv = <<>>] = Put(pool, a, [pool.buf[a] EXCEPT !.recv = <<>>])
        BY DEF Put
      <3>3. held = [p EXCEPT !.buf[b] = out]
        BY <2>3, <2>4, Zenon
      <3> HIDE DEF p, out, held
      <3>4. [p EXCEPT !.buf[b] = out] = Put(p, b, out)
        BY DEF Put
      <3>5. held = Put(Put(pool, a, [pool.buf[a] EXCEPT !.recv = <<>>]), b, [v EXCEPT !.msg = l])
        BY <2>6, <3>1, <3>2, <3>3, <3>4, Zenon
      <3> QED BY <3>5, Zenon DEF Left
    <2> HIDE DEF held, then, next
    <2>10. pool' = Left(o, <<>>, l) /\ net' = [net EXCEPT ![c] = n] /\ ConnectionsStay
           /\ pc' = [pc EXCEPT ![o] = IF 0 < Len(l) THEN "send" ELSE "recv"]
      BY <1>2, <2>2, <2>5, <2>8, <2>9 DEF ConnectionsStay
    <2> QED BY <1>7, <2>10, Zenon DEF l, Outcome
  <1>8. CASE DoInput(data) = "more"
    <2>1. got = [conn |-> conn[o], recv |-> data]
      BY <1>8 DEF Received
    <2>2. pool' = held /\ conn' = then /\ pc' = next /\ net' = left /\ idle' = idle /\ alive' = alive
      BY <1>5, <1>8
    <2> HIDE DEF got
    <2>3. r = conn[o] /\ got.recv = data
      BY <2>1
    <2>5. then = conn
      <3>1. then = [conn EXCEPT ![o] = conn[o]]
        BY <1>4, <2>3
      <3> QED BY <1>1, <3>1
    <2> DEFINE v == [pool.buf[b] EXCEPT !.sent = 0]
    <2>6. out = [v EXCEPT !.msg = <<>>]
      <3>1. out = [v EXCEPT !.msg = IF r.have THEN r.line ELSE <<>>]
        BY <2>3, Zenon DEF DoOutput, DoProcess
      <3> HIDE DEF v
      <3> QED BY <1>4, <2>3, <3>1
    <2>7. out.sent = 0 /\ out.msg = <<>>
      <3>1. v.sent = 0 /\ v \in Buffer
        BY <1>1 DEF Buffer
      <3> HIDE DEF v, out
      <3> QED BY <2>6, <3>1 DEF Buffer
    <2>8. next = [pc EXCEPT ![o] = "recv"]
      <3>1. Len(<<>>) = 0
        BY EmptySeq
      <3>2. ~(out.sent < Len(out.msg))
        <4> HIDE DEF out
        <4> QED BY <2>7, <3>1
      <3> HIDE DEF out
      <3> QED BY <3>2, Zenon
    <2>9. held = Left(o, data, <<>>)
      <3>1. p = [pool EXCEPT !.buf[a].recv = data]
        BY <2>3, Zenon
      <3>2. [pool EXCEPT !.buf[a].recv = data] = Put(pool, a, [pool.buf[a] EXCEPT !.recv = data])
        BY DEF Put
      <3>3. held = [p EXCEPT !.buf[b] = out]
        BY <2>3, Zenon
      <3> HIDE DEF p, out, held
      <3>4. [p EXCEPT !.buf[b] = out] = Put(p, b, out)
        BY DEF Put
      <3>5. held = Put(Put(pool, a, [pool.buf[a] EXCEPT !.recv = data]), b, [v EXCEPT !.msg = <<>>])
        BY <2>6, <3>1, <3>2, <3>3, <3>4, Zenon
      <3> QED BY <3>5, Zenon DEF Left
    <2> HIDE DEF held, then, next
    <2>10. /\ pool' = Left(o, data, <<>>) /\ net' = [net EXCEPT ![c] = n] /\ ConnectionsStay
           /\ pc' = [pc EXCEPT ![o] = "recv"]
      BY <1>2, <2>2, <2>5, <2>8, <2>9 DEF ConnectionsStay
    <2> QED BY <1>8, <2>10, Zenon DEF Outcome
  <1>9. DoInput(data) \in {"error", "line", "more"}
    BY DEF DoInput
  <1> QED BY <1>6, <1>7, <1>8, <1>9
Leaving(o, recv, msg, k) ==
    /\ PoolOk(k, InHand) /\ \A x \in OtherHands(o) : k.buf[x] = pool.buf[x]
    /\ k.buf[conn[o].recvbuf].recv = recv
    /\ k.buf[conn[o].sendbuf].msg = msg /\ k.buf[conn[o].sendbuf].sent = 0

LEMMA LeftIs ==
    ASSUME ServInv, NEW o \in Running, NEW recv \in Seq(Sym), NEW msg \in Seq(Sym)
    PROVE  Leaving(o, recv, msg, Left(o, recv, msg))
  <1> DEFINE a == conn[o].recvbuf
             b == conn[o].sendbuf
             v == [pool.buf[a] EXCEPT !.recv = recv]
             t == [pool.buf[b] EXCEPT !.sent = 0]
             w == [t EXCEPT !.msg = msg]
             p == Put(pool, a, v)
             k == Put(p, b, w)
  <1>1. /\ a \in InHand /\ b \in InHand /\ a # b /\ OtherHands(o) = InHand \ {a, b}
        /\ pool.buf[a] \in Buffer /\ pool.buf[b] \in Buffer /\ PoolOk(pool, InHand)
    BY AtWork, HandsApart
  <1>2. v \in Buffer /\ v.recv = recv
    BY <1>1 DEF Buffer
  <1>3. w \in Buffer /\ w.msg = msg /\ w.sent = 0
    <2>1. t \in Buffer /\ t.sent = 0
      BY <1>1 DEF Buffer
    <2> HIDE DEF t
    <2> QED BY <2>1 DEF Buffer
  <1>4. k = Left(o, recv, msg)
    BY Zenon DEF Left
  <1> HIDE DEF v, w, a, b
  <1>5. PoolOk(p, InHand) /\ p.buf[a] = v /\ \A x \in InHand \ {a} : p.buf[x] = pool.buf[x]
    BY <1>1, <1>2, PutInHand
  <1> HIDE DEF p
  <1>6. PoolOk(k, InHand) /\ k.buf[b] = w /\ \A x \in InHand \ {b} : k.buf[x] = p.buf[x]
    BY <1>1, <1>3, <1>5, PutInHand
  <1> HIDE DEF k
  <1>7. k.buf[a] = v /\ \A x \in OtherHands(o) : k.buf[x] = pool.buf[x]
    BY <1>1, <1>5, <1>6
  <1>8. /\ PoolOk(k, InHand) /\ \A x \in OtherHands(o) : k.buf[x] = pool.buf[x]
        /\ k.buf[a].recv = recv /\ k.buf[b].msg = msg /\ k.buf[b].sent = 0
    BY <1>2, <1>3, <1>6, <1>7
  <1>9. Leaving(o, recv, msg, k)
    BY <1>8, Zenon DEF Leaving, a, b
  <1> QED BY <1>4, <1>9, Zenon

LEMMA Receives ==
    ASSUME Enough, ServInv, NEW o \in Obj, NEW m \in 1..Size, Recv(o, m)
    PROVE  ServInv'
  <1>1. o \in Running
    BY DEF Recv, Running
  <1> DEFINE c == conn[o].fd
             a == conn[o].recvbuf
             b == conn[o].sendbuf
             recv == pool.buf[a].recv
             data == Data(o, m)
             n == [net[c] EXCEPT !.in = SubSeq(@, m + 1, Len(@))]
             l == SubSeq(data, 1, FirstLine(data))
             v == [pool.buf[a] EXCEPT !.recv = data]
  <1>2. /\ c \in Client /\ net[c] \in Sockets /\ peer[c] \in Peers /\ PoolOk(pool, InHand)
        /\ a \in InHand /\ b \in InHand /\ a # b /\ OtherHands(o) = InHand \ {a, b}
        /\ pool.buf[a] \in Buffer /\ recv \in Seq(Sym)
        /\ Flow(recv, pool.buf[b], net[c], peer[c], pc[o]) /\ IsPrefix(peer[c].got, peer[c].line)
    BY <1>1, AtWork, HandsApart, LinePrefix
  <1>3. m \in 1..Len(net[c].in) /\ data = recv \o SubSeq(net[c].in, 1, m)
    BY DEF Recv, Data
  <1>4. /\ DoInput(data) = "error" => Finish(o, Put(pool, a, v), [net EXCEPT ![c] = n])
        /\ DoInput(data) = "line" =>
              /\ pool' = Left(o, <<>>, l) /\ ConnectionsStay /\ net' = [net EXCEPT ![c] = n]
              /\ pc' = [pc EXCEPT ![o] = IF 0 < Len(l) THEN "send" ELSE "recv"]
        /\ DoInput(data) = "more" =>
              /\ pool' = Left(o, data, <<>>) /\ ConnectionsStay /\ net' = [net EXCEPT ![c] = n]
              /\ pc' = [pc EXCEPT ![o] = "recv"]
    <2>1. Outcome(o, data, c, n)
      <3>1. data = Data(o, m) /\ c = conn[o].fd /\ n = [net[c] EXCEPT !.in = SubSeq(@, m + 1, Len(@))]
        OBVIOUS
      <3> HIDE DEF data, n, c
      <3> QED BY <1>1, <3>1, RecvIs
    <2> HIDE DEF data, n, c
    <2> QED BY <2>1, Zenon DEF Outcome
  <1>5. peer' = [peer EXCEPT ![c] = peer[c]]
    BY <1>2 DEF Recv, ServInv, Types
  <1>6. /\ data \in Seq(Sym) /\ n \in Sockets /\ n.state = net[c].state /\ pc[o] = "recv" /\ peer[c].got = <<>>
        /\ DoInput(data) = "line" =>
              /\ l = peer[c].line /\ peer[c].line # <<>> /\ ALine(peer[c].line)
              /\ n.in = <<>> /\ (n.state # "left" => peer[c].todo = <<>>)
        /\ DoInput(data) = "more" => \A any : Flow(data, any, n, peer[c], "recv")
        /\ DoInput(data) \in {"line", "more", "error"}
    <2> DEFINE u == net[c]
               w == peer[c]
    <2>1. ReadFrom(recv, u, m, data, n)
      BY <1>3 DEF ReadFrom
    <2>2. u \in Sockets /\ w \in Peers /\ recv \in Seq(Sym) /\ Flow(recv, pool.buf[b], u, w, pc[o]) /\ m \in 1..Len(u.in)
      BY <1>2, <1>3
    <2> HIDE DEF data, n, recv, u, w
    <2>3. Reading(data, u, n, w, pc[o])
      BY <2>1, <2>2, LineRead
    <2> QED BY <2>3, Zenon DEF u, w, l, Reading
  <1>7. v \in Buffer
    BY <1>2, <1>6 DEF Buffer
  <1> HIDE DEF v, data, n, l
  <1>8. CASE DoInput(data) = "error"
    <2> DEFINE p == Put(pool, a, v)
               left == [net EXCEPT ![c] = n]
    <2>1. PoolOk(p, InHand) /\ \A x \in InHand \ {a} : p.buf[x] = pool.buf[x]
      BY <1>2, <1>7, PutInHand
    <2>2. \A x \in OtherHands(o) : p.buf[x] = pool.buf[x]
      BY <1>2, <2>1
    <2>3. Finish(o, p, left)
      BY <1>4, <1>8
    <2> HIDE DEF p
    <2> QED BY <1>1, <1>2, <1>5, <1>6, <2>1, <2>2, <2>3, Finished
  <1>9. CASE DoInput(data) = "line"
    <2> DEFINE k == Left(o, <<>>, l)
               s == k.buf[b]
    <2>1. l \in Seq(Sym) /\ l = peer[c].line /\ l # <<>> /\ 0 < Len(l)
      <3>1. peer[c].line \in Seq(Sym)
        BY <1>2 DEF Peers
      <3>2. l \in Seq(Sym) /\ l = peer[c].line /\ l # <<>>
        BY <1>6, <1>9, <3>1
      <3> QED BY <3>2, EmptySeq, LenProperties
    <2>2. /\ PoolOk(k, InHand) /\ \A x \in OtherHands(o) : k.buf[x] = pool.buf[x]
          /\ k.buf[a].recv = <<>> /\ s.msg = l /\ s.sent = 0
      <3>1. <<>> \in Seq(Sym)
        BY EmptySeq
      <3>2. Leaving(o, <<>>, l, k)
        BY <1>1, <2>1, <3>1, LeftIs
      <3> HIDE DEF k
      <3> QED BY <3>2, Zenon DEF Leaving
    <2>3. pool' = k /\ ConnectionsStay /\ net' = [net EXCEPT ![c] = n] /\ pc' = [pc EXCEPT ![o] = "send"]
      BY <1>4, <1>9, <2>1
    <2> HIDE DEF k
    <2>4. Flow(k.buf[a].recv, s, n, peer[c], "send")
      BY <1>6, <1>9, <2>1, <2>2 DEF Flow, Sending
    <2> QED BY <1>1, <1>2, <1>5, <1>6, <2>2, <2>3, <2>4, GoesOn
  <1>10. CASE DoInput(data) = "more"
    <2> DEFINE k == Left(o, data, <<>>)
    <2>2. /\ PoolOk(k, InHand) /\ (\A x \in OtherHands(o) : k.buf[x] = pool.buf[x])
          /\ k.buf[a].recv = data
      <3>1. <<>> \in Seq(Sym)
        BY EmptySeq
      <3>2. Leaving(o, data, <<>>, k)
        BY <1>1, <1>6, <3>1, LeftIs
      <3> HIDE DEF k
      <3> QED BY <3>2, Zenon DEF Leaving
    <2>3. pool' = k /\ ConnectionsStay /\ net' = [net EXCEPT ![c] = n] /\ pc' = [pc EXCEPT ![o] = "recv"]
      BY <1>4, <1>10
    <2> HIDE DEF k
    <2>4. Flow(k.buf[a].recv, k.buf[b], n, peer[c], "recv")
      BY <1>6, <1>10, <2>2
    <2> QED BY <1>1, <1>2, <1>5, <1>6, <2>2, <2>3, <2>4, GoesOn
  <1> QED BY <1>6, <1>8, <1>9, <1>10
-----------------------------------------------------------------------------
(* The steps of the clients.                                               *)

LEMMA Asks ==
    ASSUME ServInv, NEW c \in Client, NEW k \in Lengths, Ask(c, k)
    PROVE  ServInv'
  <1> DEFINE pp == [line |-> Line(c, k), todo |-> Line(c, k), got |-> <<>>]
  <1>1. net \in [Client -> Sockets] /\ peer \in [Client -> Peers] /\ net[c] \in Sockets /\ peer[c] \in Peers
    BY DEF ServInv, Types
  <1>2. k \in Nat /\ peer[c].got = peer[c].line /\ net[c].state \in {"backlog", "open"} /\ <<>> \in Seq(Sym)
    BY EmptySeq, ServingAssumption DEF Ask
  <1>3. peer' = [peer EXCEPT ![c] = pp]
    <2> DEFINE x == Line(c, k)
               new == [peer[c] EXCEPT !.line = x, !.todo = x, !.got = <<>>]
    <2>1. peer' = [peer EXCEPT ![c] = new]
      BY <1>1 DEF Ask
    <2>2. new = pp
      <3>1. PICK l, t, g, e : peer[c] = [line |-> l, todo |-> t, got |-> g] /\ e = <<>>
        BY <1>1 DEF Peers
      <3> DEFINE u == [peer[c] EXCEPT !.line = x]
                 w == [u EXCEPT !.todo = x]
      <3> HIDE DEF x
      <3>2. u = [line |-> x, todo |-> t, got |-> g]
        BY <3>1
      <3>3. new = [w EXCEPT !.got = e]
        BY <3>1, Zenon
      <3> HIDE DEF u
      <3>4. w = [line |-> x, todo |-> x, got |-> g]
        BY <3>2
      <3> HIDE DEF w, new
      <3>5. new = [line |-> x, todo |-> x, got |-> e]
        BY ONLY <3>3, <3>4
      <3> QED BY <3>1, <3>5, Zenon DEF x
    <2> QED BY <2>1, <2>2
  <1>4. net' = [net EXCEPT ![c] = net[c]] /\ ServerStays
    BY <1>1 DEF Ask, ServerStays
  <1> HIDE DEF pp
  <1>5. pp = [line |-> Line(c, k), todo |-> Line(c, k), got |-> <<>>]
    BY DEF pp
  <1>6. CASE net[c].state = "backlog"
    <2>1. Flow(<<>>, Fresh, net[c], peer[c], "recv")
      BY <1>6 DEF ServInv, ClientFlows
    <2>2. pp \in Peers /\ Flow(<<>>, Fresh, net[c], pp, "recv")
      BY <1>1, <1>2, <1>5, <1>6, <2>1, LineAsked
    <2> QED BY <1>1, <1>3, <1>4, <1>6, <2>2, PeerStep
  <1>7. CASE net[c].state = "open"
    <2>1. ASSUME NEW o \in Running, conn[o].fd = c
          PROVE  /\ pp \in Peers
                 /\ Flow(pool.buf[conn[o].recvbuf].recv, pool.buf[conn[o].sendbuf], net[c], pp, pc[o])
      <3>1. /\ pool.buf[conn[o].recvbuf].recv \in Seq(Sym)
            /\ Flow(pool.buf[conn[o].recvbuf].recv, pool.buf[conn[o].sendbuf], net[c], peer[c], pc[o])
        BY <2>1, AtWork
      <3> QED BY <1>1, <1>2, <1>5, <1>7, <3>1, LineAsked
    <2>2. \E o \in Running : conn[o].fd = c
      BY <1>7 DEF ServInv, ClientFlows
    <2>3. pp \in Peers
      BY <2>1, <2>2
    <2> QED BY <1>1, <1>3, <1>4, <1>7, <2>1, <2>3, PeerStep
  <1> QED BY <1>2, <1>6, <1>7

LEMMA Writes ==
    ASSUME ServInv, NEW c \in Client, NEW k, Write(c, k)
    PROVE  ServInv'
  <1> DEFINE n == [net[c] EXCEPT !.in = @ \o SubSeq(peer[c].todo, 1, k)]
             pp == [peer[c] EXCEPT !.todo = SubSeq(@, k + 1, Len(@))]
  <1>1. net \in [Client -> Sockets] /\ peer \in [Client -> Peers] /\ net[c] \in Sockets /\ peer[c] \in Peers
    BY DEF ServInv, Types
  <1>2. net[c].state \in {"backlog", "open"} /\ k \in 1..Len(peer[c].todo) /\ <<>> \in Seq(Sym)
    BY EmptySeq DEF Write
  <1>3. net' = [net EXCEPT ![c] = n] /\ peer' = [peer EXCEPT ![c] = pp] /\ ServerStays
    BY DEF Write, ServerStays
  <1>4. n.state = net[c].state
    BY <1>1 DEF Sockets
  <1>5. Written(net[c], peer[c], k, n, pp)
    BY DEF Written
  <1> HIDE DEF n, pp
  <1>6. CASE net[c].state = "backlog"
    <2>1. Flow(<<>>, Fresh, net[c], peer[c], "recv")
      BY <1>6 DEF ServInv, ClientFlows
    <2>2. n \in Sockets /\ pp \in Peers /\ Flow(<<>>, Fresh, n, pp, "recv")
      BY <1>1, <1>2, <1>4, <1>5, <1>6, <2>1, LineWritten
    <2> QED BY <1>1, <1>3, <1>4, <1>6, <2>2, PeerStep
  <1>7. CASE net[c].state = "open"
    <2>1. ASSUME NEW o \in Running, conn[o].fd = c
          PROVE  /\ n \in Sockets /\ pp \in Peers
                 /\ Flow(pool.buf[conn[o].recvbuf].recv, pool.buf[conn[o].sendbuf], n, pp, pc[o])
      <3>1. /\ pool.buf[conn[o].recvbuf].recv \in Seq(Sym)
            /\ Flow(pool.buf[conn[o].recvbuf].recv, pool.buf[conn[o].sendbuf], net[c], peer[c], pc[o])
        BY <2>1, AtWork
      <3> QED BY <1>1, <1>2, <1>4, <1>5, <1>7, <3>1, LineWritten
    <2>2. \E o \in Running : conn[o].fd = c
      BY <1>7 DEF ServInv, ClientFlows
    <2>3. n \in Sockets /\ pp \in Peers
      BY <2>1, <2>2
    <2> QED BY <1>1, <1>3, <1>4, <1>7, <2>1, <2>3, PeerStep
  <1> QED BY <1>2, <1>6, <1>7

LEMMA Leaves ==
    ASSUME ServInv, NEW c \in Client, Leave(c)
    PROVE  ServInv'
  <1>1. net \in [Client -> Sockets] /\ peer \in [Client -> Peers] /\ net[c] \in Sockets /\ peer[c] \in Peers
    BY DEF ServInv, Types
  <1>2. PICK k \in {0, Len(net[c].in)} : net' = [net EXCEPT ![c].state = "left", ![c].in = SubSeq(@, 1, k)]
    BY DEF Leave
  <1> DEFINE n == [net[c] EXCEPT !.state = "left", !.in = SubSeq(@, 1, k)]
  <1>3. net' = [net EXCEPT ![c] = n]
    BY <1>1, <1>2
  <1>4. CutTo(net[c], k, n)
    BY DEF CutTo
  <1>5. net[c].state = "open" /\ peer' = [peer EXCEPT ![c] = peer[c]] /\ ServerStays
    BY <1>1 DEF Leave, ServerStays
  <1> HIDE DEF n
  <1>6. ASSUME NEW o \in Running, conn[o].fd = c
        PROVE  /\ n \in Sockets /\ n.state = "left"
               /\ Flow(pool.buf[conn[o].recvbuf].recv, pool.buf[conn[o].sendbuf], n, peer[c], pc[o])
    <2>1. /\ pool.buf[conn[o].recvbuf].recv \in Seq(Sym)
          /\ Flow(pool.buf[conn[o].recvbuf].recv, pool.buf[conn[o].sendbuf], net[c], peer[c], pc[o])
      BY <1>6, AtWork
    <2> QED BY <1>1, <1>4, <2>1, LineCut
  <1>7. \E o \in Running : conn[o].fd = c
    BY <1>5 DEF ServInv, ClientFlows
  <1>8. n \in Sockets /\ n.state = "left"
    BY <1>6, <1>7
  <1> QED BY <1>1, <1>3, <1>5, <1>6, <1>8, PeerStep

LEMMA Connects ==
    ASSUME ServInv, NEW c \in Client, Connect(c)
    PROVE  ServInv'
  <1> DEFINE n == [net[c] EXCEPT !.state = "backlog"]
  <1>1. net \in [Client -> Sockets] /\ peer \in [Client -> Peers] /\ net[c] \in Sockets
    BY DEF ServInv, Types
  <1>2. net[c].state = "closed" /\ net[c].in = <<>> /\ ServerStays
    BY DEF Connect, ServInv, ClientFlows, ServerStays
  <1>3. net' = [net EXCEPT ![c] = n] /\ peer' = [peer EXCEPT ![c] = NoPeer]
    BY <1>1 DEF Connect
  <1>4. n \in Sockets /\ n.state = "backlog" /\ n.in = <<>>
    BY <1>1, <1>2 DEF Sockets
  <1>5. NoPeer \in Peers /\ NoPeer.line = <<>> /\ NoPeer.todo = <<>> /\ NoPeer.got = <<>>
    BY EmptySeq DEF NoPeer, Peers
  <1> HIDE DEF n
  <1>6. ALine(NoPeer.line)
    BY <1>5, EmptySeq DEF ALine
  <1>7. Flow(<<>>, Fresh, n, NoPeer, "recv")
    BY <1>4, <1>5, <1>6 DEF Flow, Answered
  <1> QED BY <1>2, <1>3, <1>4, <1>5, <1>7, PeerStep
-----------------------------------------------------------------------------
(* Every step, and what follows.                                           *)

LEMMA ServInit ==
    ASSUME Init
    PROVE  ServInv
  <1>1. <<>> \in Seq(Sym) /\ <<>> \in Seq(Buf) /\ <<>> \in Seq(Obj) /\ Range(<<>>) = {} /\ Len(<<>>) = 0
        /\ IsInjective(<<>>)
    BY EmptySeq, EmptyRange DEF IsInjective
  <1>2. /\ pool = [made |-> {}, buf |-> [b \in Buf |-> Fresh], free |-> <<>>]
        /\ conn = [o \in Obj |-> NoConn] /\ idle = <<>> /\ alive = {}
        /\ pc = [o \in Obj |-> "none"] /\ net = [c \in Client |-> NoNet] /\ peer = [c \in Client |-> NoPeer]
    BY DEF Init
  <1>3. NoConn \in Conns /\ NoNet \in Sockets /\ NoPeer \in Peers
    BY <1>1 DEF NoConn, Conns, NoNet, Sockets, NoPeer, Peers
  <1>4. Types
    BY <1>1, <1>2, <1>3 DEF Types
  <1>5. Running = {} /\ InHand = {}
    BY <1>2 DEF Running, InHand
  <1>6. PoolOk(pool, InHand)
    <2>1. pool.made = {} /\ pool.free = <<>> /\ pool.buf \in [Buf -> Buffer]
      BY <1>2, FreshIs
    <2>2. pool \in Pools
      BY <1>1, <1>2, FreshIs DEF Pools
    <2> QED BY <1>1, <1>5, <2>1, <2>2, ServingAssumption DEF PoolOk
  <1>7. Buffers
    BY <1>2, <1>6 DEF Buffers
  <1>8. Connections
    BY <1>1, <1>2, <1>5 DEF Connections
  <1>9. RunningFlows
    BY <1>5 DEF RunningFlows
  <1>10. ClientFlows
    <2>1. IsPrefix(NoPeer.got, NoPeer.line)
      BY DEF NoPeer, IsPrefix
    <2>2. NoNet.state = "closed" /\ NoNet.in = <<>>
      BY DEF NoNet
    <2> QED BY <1>2, <2>1, <2>2 DEF ClientFlows
  <1> QED BY <1>4, <1>7, <1>8, <1>9, <1>10 DEF ServInv

LEMMA ServNext ==
    ASSUME Enough, ServInv, [Next]_vars
    PROVE  ServInv'
  <1>1. ASSUME NEW o \in Obj, Serve(o)
        PROVE  ServInv'
    BY <1>1, Receives, EndsReceiving, Sends, FailsSending DEF Serve
  <1>2. ASSUME NEW c \in Client, Accept(c)
        PROVE  ServInv'
    BY <1>2, Accepts
  <1>3. ASSUME NEW c \in Client, Connect(c) \/ Leave(c)
        PROVE  ServInv'
    BY <1>3, Connects, Leaves
  <1>4. ASSUME NEW c \in Client, NEW k \in Lengths, Ask(c, k)
        PROVE  ServInv'
    BY <1>4, Asks
  <1>5. ASSUME NEW c \in Client, NEW n \in 1..Size, Write(c, n)
        PROVE  ServInv'
    BY <1>5, Writes
  <1>6. CASE UNCHANGED vars
    <2>1. /\ pool' = pool /\ conn' = conn /\ idle' = idle /\ alive' = alive /\ pc' = pc
          /\ net' = net /\ peer' = peer /\ Running' = Running
      BY <1>6 DEF vars, Running
    <2>2. Types' /\ Connections'
      BY <2>1 DEF ServInv, Types, Connections
    <2>3. Buffers'
      BY <2>1 DEF ServInv, Buffers, PoolOk, InHand, Hands
    <2>4. RunningFlows'
      <3> SUFFICES ASSUME NEW q \in Running'
                   PROVE  Flow(pool'.buf[conn'[q].recvbuf].recv, pool'.buf[conn'[q].sendbuf],
                               net'[conn'[q].fd], peer'[conn'[q].fd], pc'[q])
        BY DEF RunningFlows, Flow, Answered, Coming, Sending, ALine
      <3> QED BY <2>1 DEF ServInv, RunningFlows
    <2>5. ClientFlows'
      BY <2>1 DEF ServInv, ClientFlows, Flow, Answered, Coming, Sending, ALine, IsPrefix
    <2> QED BY <2>2, <2>3, <2>4, <2>5 DEF ServInv
  <1> QED BY <1>1, <1>2, <1>3, <1>4, <1>5, <1>6 DEF Next

\* In every state the buffers, the connections and the lines are as ServInv has them.
THEOREM ServInvariant ==
    ASSUME Enough
    PROVE  Spec => []ServInv
  <1>1. Init => ServInv
    BY ServInit
  <1>2. ServInv /\ [Next]_vars => ServInv'
    BY ServNext
  <1> QED BY <1>1, <1>2, PTL DEF Spec

\* Every connection that exists has two buffers of its own, every other buffer that
\* exists is in the pool once and empty, and every coroutine has a connection and a
\* client of its own, whatever GetBuffer, FreeBuffer, Reset, the destructor and
\* UtilPtrPool did before.
THEOREM BuffersOwnedAlways ==
    ASSUME Enough
    PROVE  Spec => []BuffersOwned
  <1>1. ASSUME ServInv
        PROVE  BuffersOwned
    <2>1. /\ PoolOk(pool, InHand) /\ (\A o \in alive : conn[o].recvbuf # conn[o].sendbuf /\ Hands(o) \subseteq Buf)
          /\ \A o, q \in alive : o # q => Hands(o) \cap Hands(q) = {}
      BY <1>1 DEF ServInv, Buffers
    <2>2. /\ pool.made \subseteq Buf /\ pool.free \in Seq(Buf) /\ IsInjective(pool.free)
          /\ Len(pool.free) <= MaxFree /\ pool.made = InHand \cup Range(pool.free)
          /\ \A b \in Range(pool.free) : pool.buf[b] = Fresh
      BY <2>1 DEF PoolOk, Pools
    <2>3. /\ alive \subseteq Obj /\ pc \in [Obj -> {"none", "recv", "send"}]
          /\ conn \in [Obj -> [fd : Client \cup {None}, recvbuf : Buf \cup {None},
                               sendbuf : Buf \cup {None}, line : Seq(Client \cup {NL}), have : BOOLEAN]]
      <3>1. <<>> \in Seq(Client \cup {NL})
        BY EmptySeq
      <3> QED BY <1>1, <3>1 DEF ServInv, Types, Conns
    <2>4. \A o \in alive : Owned[o] = Hands(o)
      BY DEF Owned, Hands
    <2>5. \A o \in alive : Cardinality(Owned[o]) = 2
      <3> TAKE o \in alive
      <3> DEFINE a == conn[o].recvbuf
                 b == conn[o].sendbuf
      <3>1. a # b /\ Owned[o] = {a} \cup {b}
        BY <2>1, <2>4 DEF Hands
      <3> HIDE DEF a, b
      <3>2. IsFiniteSet({a}) /\ Cardinality({a}) = 1 /\ b \notin {a}
        BY <3>1, FS_Singleton
      <3>3. Cardinality({a} \cup {b}) = 1 + 1
        BY <3>2, FS_AddElement
      <3> QED BY <3>1, <3>3
    <2>6. UNION {Owned[o] : o \in alive} = InHand
      BY <2>4 DEF InHand
    <2>7. \A o \in alive : Owned[o] \subseteq pool.made
      BY <2>2, <2>4 DEF InHand
    <2>8. \A i \in DOMAIN pool.free : pool.buf[pool.free[i]] = Fresh
      BY <2>2 DEF Range
    <2>9. \A o, q \in alive : o # q => Owned[o] \cap Owned[q] = {}
      BY <2>1, <2>4
    <2>10. /\ alive = Running \cup Range(idle) /\ Running \cap Range(idle) = {} /\ IsInjective(idle)
           /\ \A o, q \in Running : conn[o].fd = conn[q].fd => o = q
      BY <1>1 DEF ServInv, Connections
    <2> HIDE DEF Owned
    <2> QED BY <2>2, <2>3, <2>5, <2>6, <2>7, <2>8, <2>9, <2>10, Zenon DEF BuffersOwned
  <1> QED BY <1>1, ServInvariant, PTL

\* A client gets back what it wrote, in order and from the start, and never a byte of
\* another client, of an earlier line or of an earlier connection: nothing that
\* RecvData, DoInput and SendData keep outlives the line it belongs to.
THEOREM OwnLineAlways ==
    ASSUME Enough
    PROVE  Spec => []OwnLine
  <1>1. ASSUME ServInv, NEW c \in Client
        PROVE  IsPrefix(peer[c].got, peer[c].line)
    <2>1. net[c].state \in {"closed", "backlog", "open", "left"} /\ peer[c] \in Peers
      BY <1>1 DEF ServInv, Types, Sockets
    <2>2. /\ net[c].state = "backlog" => Flow(<<>>, Fresh, net[c], peer[c], "recv")
          /\ net[c].state = "closed" => IsPrefix(peer[c].got, peer[c].line)
          /\ net[c].state \in {"open", "left"} => \E o \in Running : conn[o].fd = c
      BY <1>1 DEF ServInv, ClientFlows
    <2>3. CASE net[c].state \in {"open", "left"}
      <3>1. PICK o \in Running : conn[o].fd = c
        BY <2>2, <2>3
      <3>2. Flow(pool.buf[conn[o].recvbuf].recv, pool.buf[conn[o].sendbuf], net[c], peer[c], pc[o])
        BY <1>1, <3>1, AtWork
      <3> QED BY <2>1, <3>2, LinePrefix
    <2>4. CASE net[c].state = "backlog"
      BY <2>1, <2>2, <2>4, LinePrefix
    <2> QED BY <2>1, <2>2, <2>3, <2>4
  <1>2. ServInv => OwnLine
    BY <1>1 DEF OwnLine
  <1> QED BY <1>2, ServInvariant, PTL

\* A coroutine that waits for input owes its client nothing: when all of a line that
\* fits has been read, CallBack has answered it before it receives again.
THEOREM NothingOwedAlways ==
    ASSUME Enough
    PROVE  Spec => []NothingOwed
  <1>1. ASSUME ServInv, NEW o \in Running, NEW c, c = conn[o].fd,
               pc[o] = "recv", net[c].state = "open", peer[c].todo = <<>>, net[c].in = <<>>
        PROVE  peer[c].got = peer[c].line
    <2> DEFINE recv == pool.buf[conn[o].recvbuf].recv
               s == pool.buf[conn[o].sendbuf]
               n == net[c]
               p == peer[c]
    <2>1. Flow(recv, s, n, p, pc[o]) /\ n \in Sockets /\ p \in Peers /\ recv \in Seq(Sym)
      BY <1>1, AtWork
    <2>2. n.state # "left" /\ n.in = <<>> /\ p.todo = <<>>
      BY <1>1
    <2> HIDE DEF recv, s, n, p
    <2>3. ~Coming(recv, n, p, pc[o])
      <3> SUFFICES ASSUME Coming(recv, n, p, pc[o])
                   PROVE  FALSE
        OBVIOUS
      <3>1. PICK a, b \in Nat :
              /\ a <= b /\ Len(n.in) = b - a /\ b <= Len(p.line) /\ a < Len(p.line)
              /\ p.line \in Seq(Sym) /\ Len(p.line) \in Nat
              /\ p.todo = Part(p.line, b, Len(p.line))
        BY <2>1, <2>2, ComingIs
      <3>2. Len(<<>>) = 0
        BY EmptySeq
      <3>3. Len(p.todo) = Len(p.line) - b
        <4> DEFINE line == p.line
                   m == Len(line)
                   t == p.todo
        <4>1. line \in Seq(Sym) /\ m \in Nat /\ b <= m /\ m <= Len(line) /\ t = Part(line, b, m)
          BY <3>1
        <4> HIDE DEF line, m, t
        <4>2. Len(t) = m - b
          BY <3>1, <4>1, SubSeqOf DEF Part
        <4> QED BY <4>2 DEF line, m, t
      <3>4. b - a = 0 /\ Len(p.line) - b = 0
        BY <2>2, <3>1, <3>2, <3>3
      <3> QED BY <3>1, <3>4
    <2>4. p.got = p.line
      BY <1>1, <2>1, <2>3 DEF Flow, Answered, Sending
    <2> QED BY <2>4 DEF p
  <1>2. ServInv => NothingOwed
    BY <1>1 DEF NothingOwed
  <1> QED BY <1>2, ServInvariant, PTL
=============================================================================

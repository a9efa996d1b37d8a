------------------------------- MODULE StServing -------------------------------
(***************************************************************************)
(* A server: the accept loop and the coroutine of each connection          *)
(* (StServer::Loop and CallBack, src/src/st_server.h), SendData and        *)
(* RecvData (src/src/st_connection.cc), the buffers a connection borrows   *)
(* (StBufferPool, src/stlib/st_buffer.h) and the pool the connections      *)
(* themselves come from (UtilPtrPool), with the echo server of             *)
(* src/app/st_echo on top.                                                 *)
(*                                                                         *)
(* Buffers and connections are used again and again, for one client after  *)
(* another, while TCP delivers a line in any pieces.  A coroutine stops    *)
(* only in st_recv and st_send, whose outcome module StSys models; each    *)
(* action is what it does from one to the next.                            *)
(***************************************************************************)
EXTENDS Integers, Sequences, FiniteSets, SequencesExt

CONSTANTS
    Client,    \* the peers; each has one address, and a symbol of its own
    Obj,       \* the addresses at which a connection can be constructed
    Buf,       \* the addresses at which a StBuffer can be constructed
    None,      \* NULL, and the descriptor -1
    NL,        \* the newline
    Size,      \* ST_RECV_BUFFSIZE and ST_SEND_BUFFSIZE, and sizeof(line_)
    MaxFree,   \* m_max_free_ of the bucket of buffers
    MaxIdle,   \* m_max_free_ of the pool of connections
    Lengths,   \* how many symbols a client puts before the newline
    MaxConn    \* bound: how many connections there are in all

ASSUME ServingAssumption ==
    /\ None \notin Client \cup Obj \cup Buf /\ NL \notin Client
    /\ Size \in Nat \ {0} /\ MaxFree \in Nat /\ MaxIdle \in Nat
    /\ Lengths \subseteq Nat /\ MaxConn \in Nat

VARIABLES
    pool,   \* the buffers: those that exist, their contents, the bucket's queue
    conn,   \* the fields of each connection
    idle,   \* the pool of connections
    alive,  \* the connections that have not been deleted
    pc,     \* where the coroutine of a connection is: none, recv or send
    net,    \* the socket of each client
    peer,   \* what each client does: the line it asks for, how much of it it has
            \* yet to write, what it got back
    conns   \* how many connections there have been

vars == <<pool, conn, idle, alive, pc, net, peer, conns>>

\* A StBuffer: the bytes before m_recv_len_, the message and m_send_len_.
Fresh == [recv |-> <<>>, msg |-> <<>>, sent |-> 0]
NoConn == [fd |-> None, recvbuf |-> None, sendbuf |-> None, line |-> <<>>, have |-> FALSE]
NoNet == [state |-> "closed", in |-> <<>>]
NoPeer == [line |-> <<>>, todo |-> <<>>, got |-> <<>>]

Init ==
    /\ pool = [made |-> {}, buf |-> [b \in Buf |-> Fresh], free |-> <<>>]
    /\ conn = [o \in Obj |-> NoConn] /\ idle = <<>> /\ alive = {}
    /\ pc = [o \in Obj |-> "none"]
    /\ net = [c \in Client |-> NoNet]
    /\ peer = [c \in Client |-> NoPeer] /\ conns = 0

-----------------------------------------------------------------------------
(* The pool of buffers.  Both sizes are one size, and so one bucket.       *)

\* The buffer GetBuffer returns, and the pool it leaves.  A new StBuffer is at any
\* address that is not in use.
Got(p) == IF p.free # <<>> THEN Head(p.free) ELSE CHOOSE b \in Buf : b \notin p.made

GetBuffer(p) ==
    IF p.free # <<>> THEN [p EXCEPT !.free = Tail(@)]
    ELSE [p EXCEPT !.made = @ \cup {Got(p)}, !.buf[Got(p)] = Fresh]

MutantResetBuffer(b) == [b EXCEPT !.msg = <<>>, !.sent = 0]  \* m_recv_len_ stays
ResetBuffer(b) == Fresh

FreeBuffer(p, b) ==
    IF Len(p.free) >= MaxFree THEN [p EXCEPT !.made = @ \ {b}]
    ELSE [p EXCEPT !.buf[b] = ResetBuffer(@), !.free = Append(@, b)]

-----------------------------------------------------------------------------
(* A connection: the constructor, Reset and the destructor.                *)

\* The record of a connection whose two buffers were taken from p, the receive
\* buffer first (the constructor) or the send buffer first (Reset), with the pool.
TakeRecvFirst(p, r) ==
    LET q == GetBuffer(p)
    IN  [pool |-> GetBuffer(q), conn |-> [r EXCEPT !.recvbuf = Got(p), !.sendbuf = Got(q)]]
TakeSendFirst(p, r) ==
    LET q == GetBuffer(p)
    IN  [pool |-> GetBuffer(q), conn |-> [r EXCEPT !.sendbuf = Got(p), !.recvbuf = Got(q)]]

GiveBack(p, r) == FreeBuffer(FreeBuffer(p, r.sendbuf), r.recvbuf)

\* What the application keeps in the connection is not reset.
MutantReset(p, r) == [pool |-> GiveBack(p, r), conn |-> [r EXCEPT !.fd = None]]  \* takes none
Reset(p, r) == TakeSendFirst(GiveBack(p, r), [r EXCEPT !.fd = None])

Close(n, c) == [n EXCEPT ![c].state = "closed", ![c].in = <<>>]

\* UtilPtrPool::FreePtr, which ends CallBack.
MutantFinish(o, p, n) ==  \* a deleted connection does not close its socket
    /\ pc' = [pc EXCEPT ![o] = "none"]
    /\ IF Len(idle) >= MaxIdle
         THEN /\ alive' = alive \ {o} /\ pool' = GiveBack(p, conn[o]) /\ net' = n
              /\ conn' = [conn EXCEPT ![o] = NoConn] /\ idle' = idle
         ELSE LET new == Reset(p, conn[o])
              IN  /\ pool' = new.pool /\ conn' = [conn EXCEPT ![o] = new.conn]
                  /\ net' = Close(n, conn[o].fd) /\ idle' = Append(idle, o) /\ alive' = alive
Finish(o, p, n) ==
    /\ pc' = [pc EXCEPT ![o] = "none"] /\ net' = Close(n, conn[o].fd)
    /\ IF Len(idle) >= MaxIdle
         THEN /\ alive' = alive \ {o} /\ pool' = GiveBack(p, conn[o])
              /\ conn' = [conn EXCEPT ![o] = NoConn] /\ idle' = idle
         ELSE LET new == Reset(p, conn[o])
              IN  /\ pool' = new.pool /\ conn' = [conn EXCEPT ![o] = new.conn]
                  /\ idle' = Append(idle, o) /\ alive' = alive

-----------------------------------------------------------------------------
(* The server.                                                             *)

\* Loop: st_accept, AllocPtr and the coroutine, which waits for input at once.
Accept(c) ==
    /\ net[c].state = "backlog"
    /\ \E o \in IF idle = <<>> THEN Obj \ alive ELSE {Head(idle)} :
         LET new == IF idle = <<>> THEN TakeRecvFirst(pool, NoConn)
                                   ELSE [pool |-> pool, conn |-> conn[o]]
         IN  /\ pool' = new.pool
             /\ conn' = [conn EXCEPT ![o] = [new.conn EXCEPT !.fd = c]]
             /\ alive' = alive \cup {o}
             /\ idle' = IF idle = <<>> THEN idle ELSE Tail(idle)
             /\ pc' = [pc EXCEPT ![o] = "recv"]
    /\ net' = [net EXCEPT ![c].state = "open"]
    /\ UNCHANGED <<peer, conns>>

\* EchoConn::DoInput looks for a newline among the bytes received so far, data.
\* A line that fills line_, and a buffer without a newline, are errors (-1).
Lines(data) == {n \in 1..Len(data) : data[n] = NL}
FirstLine(data) == CHOOSE n \in Lines(data) : \A m \in Lines(data) : n <= m
DoInput(data) ==
    IF Lines(data) = {} THEN IF Len(data) >= Size THEN "error" ELSE "more"
    ELSE IF FirstLine(data) >= Size THEN "error" ELSE "line"

\* RecvData when st_recv returned the first n bytes: the connection and its
\* buffer, where ST_CONN_RESET_RECVBUF forgets what follows the line, too.
Data(o, n) == pool.buf[conn[o].recvbuf].recv \o SubSeq(net[conn[o].fd].in, 1, n)
Received(o, n) ==
    LET data == Data(o, n)
    IN  IF DoInput(data) = "line"
          THEN [conn |-> [conn[o] EXCEPT !.line = SubSeq(data, 1, FirstLine(data)), !.have = TRUE],
                recv |-> <<>>]
          ELSE [conn |-> conn[o], recv |-> data]

\* DoProcess and SendData up to st_send, for the connection r: DoOutput hands the
\* line over once.  With no line there is nothing to send, and CallBack goes
\* around again.
MutantDoProcess(b) == b  \* what an earlier line left
DoProcess(b) == [b EXCEPT !.sent = 0]
DoOutput(b, r) == [b EXCEPT !.msg = IF r.have THEN r.line ELSE <<>>]

Recv(o, n) ==
    LET got == Received(o, n)
        r == got.conn
        out == DoOutput(DoProcess(pool.buf[r.sendbuf]), r)
        p == [pool EXCEPT !.buf[r.recvbuf].recv = got.recv]
        left == [net EXCEPT ![conn[o].fd].in = SubSeq(@, n + 1, Len(@))]
    IN  /\ pc[o] = "recv" /\ n \in 1..Len(net[conn[o].fd].in)
        /\ n <= Size - Len(pool.buf[conn[o].recvbuf].recv)
        /\ IF DoInput(Data(o, n)) = "error"
             THEN Finish(o, p, left)
             ELSE /\ pool' = [p EXCEPT !.buf[r.sendbuf] = out]
                  /\ conn' = [conn EXCEPT ![o] =
                                IF r.have THEN [r EXCEPT !.line = <<>>, !.have = FALSE] ELSE r]
                  /\ pc' = [pc EXCEPT ![o] = IF out.sent < Len(out.msg) THEN "send" ELSE "recv"]
                  /\ net' = left /\ UNCHANGED <<idle, alive>>
        /\ UNCHANGED <<peer, conns>>

\* st_recv without data: the end of the stream, a lost connection, or no input
\* for m_timeout_.
RecvEnds(o) ==
    /\ pc[o] = "recv" /\ net[conn[o].fd].in = <<>>
    /\ Finish(o, pool, net)
    /\ UNCHANGED <<peer, conns>>

\* st_send sends the rest of the message, or fails after n bytes of it.
Rest(o) == LET b == pool.buf[conn[o].sendbuf] IN SubSeq(b.msg, b.sent + 1, Len(b.msg))
Reply(o, n) == [peer EXCEPT ![conn[o].fd].got = @ \o SubSeq(Rest(o), 1, n)]

Send(o) ==
    /\ pc[o] = "send" /\ net[conn[o].fd].state = "open"
    /\ peer' = Reply(o, Len(Rest(o)))
    /\ pool' = [pool EXCEPT !.buf[conn[o].sendbuf].sent = @ + Len(Rest(o))]
    /\ pc' = [pc EXCEPT ![o] = "recv"]
    /\ UNCHANGED <<conn, idle, alive, net, conns>>

SendFails(o) ==
    /\ pc[o] = "send"
    /\ \E n \in 0..(Len(Rest(o)) - 1) :
         peer' = IF net[conn[o].fd].state = "open" THEN Reply(o, n) ELSE peer
    /\ Finish(o, pool, net)
    /\ UNCHANGED conns

-----------------------------------------------------------------------------
(* The clients.  The protocol is one line at a time: a client writes the   *)
(* next line when it has all of the last one.                              *)

Connect(c) ==
    /\ net[c].state = "closed" /\ conns < MaxConn
    /\ net' = [net EXCEPT ![c].state = "backlog"]
    /\ peer' = [peer EXCEPT ![c] = NoPeer] /\ conns' = conns + 1
    /\ UNCHANGED <<pool, conn, idle, alive, pc>>

Line(c, k) == [i \in 1..k |-> c] \o <<NL>>

Ask(c, k) ==
    /\ net[c].state \in {"backlog", "open"} /\ peer[c].got = peer[c].line
    /\ peer' = [peer EXCEPT ![c].line = Line(c, k), ![c].todo = Line(c, k), ![c].got = <<>>]
    /\ UNCHANGED <<pool, conn, idle, alive, pc, net, conns>>

Write(c, n) ==
    /\ net[c].state \in {"backlog", "open"} /\ n \in 1..Len(peer[c].todo)
    /\ net' = [net EXCEPT ![c].in = @ \o SubSeq(peer[c].todo, 1, n)]
    /\ peer' = [peer EXCEPT ![c].todo = SubSeq(@, n + 1, Len(@))]
    /\ UNCHANGED <<pool, conn, idle, alive, pc, conns>>

\* The client closes; what it wrote before may still arrive.
Leave(c) ==
    /\ net[c].state = "open"
    /\ \E n \in {0, Len(net[c].in)} :
         net' = [net EXCEPT ![c].state = "left", ![c].in = SubSeq(@, 1, n)]
    /\ UNCHANGED <<pool, conn, idle, alive, pc, peer, conns>>

Serve(o) == (\E n \in 1..Size : Recv(o, n)) \/ RecvEnds(o) \/ Send(o) \/ SendFails(o)

Next ==
    \/ \E o \in Obj : Serve(o)
    \/ \E c \in Client :
         \/ Accept(c) \/ Connect(c) \/ Leave(c)
         \/ \E k \in Lengths : Ask(c, k)
         \/ \E n \in 1..Size : Write(c, n)

\* The daemon runs every ready coroutine again, the accept loop is one, and an
\* st_recv or st_send ends, with data or with its timeout.
Fairness == (\A o \in Obj : WF_vars(Serve(o))) /\ (\A c \in Client : WF_vars(Accept(c)))

Spec == Init /\ [][Next]_vars /\ Fairness

-----------------------------------------------------------------------------

Running == {o \in Obj : pc[o] # "none"}
Owned == [o \in alive |-> {conn[o].recvbuf, conn[o].sendbuf}]

\* Besides the types: every connection that exists has two buffers of its own,
\* every other buffer that exists is in the pool, once and with nothing in it,
\* and every coroutine has a connection and a client of its own.  A buffer in two
\* hands, or one that still counts the bytes of an earlier client, would mix
\* clients that never met.
BuffersOwned ==
    /\ pool.made \subseteq Buf /\ alive \subseteq Obj
    /\ conn \in [Obj -> [fd : Client \cup {None}, recvbuf : Buf \cup {None},
                         sendbuf : Buf \cup {None}, line : Seq(Client \cup {NL}), have : BOOLEAN]]
    /\ pc \in [Obj -> {"none", "recv", "send"}]
    /\ \A o \in alive : Cardinality(Owned[o]) = 2 /\ Owned[o] \subseteq pool.made
    /\ \A o, q \in alive : o # q => Owned[o] \cap Owned[q] = {}
    /\ IsInjective(pool.free) /\ Len(pool.free) <= MaxFree
    /\ pool.made = (UNION {Owned[o] : o \in alive}) \cup Range(pool.free)
    /\ \A i \in DOMAIN pool.free : pool.buf[pool.free[i]] = Fresh
    /\ alive = Running \cup Range(idle) /\ Running \cap Range(idle) = {}
    /\ IsInjective(idle)
    /\ \A o, q \in Running : conn[o].fd = conn[q].fd => o = q

\* A client gets back what it wrote, in order and from the start, and never a byte
\* of another client, of an earlier line or of an earlier connection.
OwnLine == \A c \in Client : IsPrefix(peer[c].got, peer[c].line)

\* A coroutine that waits for input owes nothing: when all of a line that fits has
\* been read, its client has been answered.  Otherwise both would wait for the
\* other until the timeout.
NothingOwed ==
    \A o \in Running :
        LET c == conn[o].fd
        IN  /\ pc[o] = "recv" /\ net[c].state = "open"
            /\ peer[c].todo = <<>> /\ net[c].in = <<>> /\ Len(peer[c].line) < Size
            => peer[c].got = peer[c].line

\* Every line that was written ends: it is answered, or its connection is closed,
\* as it is for a line that is too long.
LinesEnd ==
    \A c \in Client :
        (net[c].state = "open" /\ peer[c].line # <<>> /\ peer[c].todo = <<>>)
            ~> (peer[c].got = peer[c].line \/ net[c].state = "closed")
=============================================================================

--------------------------------- MODULE StChat ---------------------------------
(***************************************************************************)
(* The chat room of src/app/st_chat/server.cpp: sessions, each with a      *)
(* coroutine and a mailbox.  A broadcast puts a line into the mailbox of   *)
(* every other session and notifies its coroutine (st_notify); only the    *)
(* session's own coroutine writes to its socket.                           *)
(*                                                                         *)
(* Coroutines are not preempted: the one that is active goes on, a small   *)
(* step at a time, until it waits in st_recv, st_send or st_wait           *)
(* (src/src/st_sys.cc), and only then another one does.  The order among   *)
(* the ready ones is left open.  Clients write whole lines: where a line   *)
(* is cut only decides when it is complete.  No nick is "anon".            *)
(***************************************************************************)
EXTENDS Integers, Sequences, FiniteSets, SequencesExt

CONSTANTS
    Slot,      \* g_sess: 1..64
    Client,    \* the peers
    None,      \* no session, no client
    Box,       \* the 8 lines of a mailbox
    MaxLines   \* bound: the lines a client writes after its nick

ASSUME ChatAssumption ==
    Slot \subseteq Nat /\ None \notin Slot \cup Client /\ Box \in Nat \ {0} /\ MaxLines \in Nat

VARIABLES
    sess,    \* g_sess: who is there (None: not used) and its mailbox
    co,      \* the coroutine of a session: see Dead
    active,  \* the session whose coroutine runs
    in,      \* what each client has written and the server has not read
    out,     \* what each client has been sent: the last line from each of the others,
             \* and whether a line has begun and has not ended
    client   \* each is new, on, closing (no more input) or gone, and wrote so much

vars == <<sess, co, active, in, out, client>>

\* A line of a client is its number, with one for what the room says when it
\* joins and when it leaves; a client that writes Left says "quit".
Joined == 0
Left == MaxLines + 1
Said(c, k) == [from |-> c, k |-> k]
Notice == Said(None, 0)   \* "* dropped" and "* joined <nick>", for the session itself

\* at: what the coroutine does; st: active, blocked in a call, or ready to go on
\* in it, when fd says whether an event was seen; note: its notification bit;
\* todo: the lines it has read, and fed: where it goes when they are done; line,
\* part: what it sends, and whether the kernel has some of it; then: where it
\* goes afterwards; cut: its last drain_mail ended early.
Dead == [at |-> "dead", st |-> "active", fd |-> FALSE, note |-> FALSE,
         todo |-> <<>>, fed |-> "drain", line |-> Notice, then |-> "drain",
         cut |-> FALSE]
Unused == [who |-> None, mail |-> <<>>]
NoOut == [last |-> [d \in Client |-> -1], open |-> FALSE]

Init ==
    /\ sess = [s \in Slot |-> Unused] /\ co = [s \in Slot |-> Dead] /\ active = None
    /\ in = [c \in Client |-> <<>>] /\ out = [c \in Client |-> NoOut]
    /\ client = [c \in Client |-> [at |-> "new", wrote |-> -1]]

-----------------------------------------------------------------------------
(* Mailboxes and notifications.                                            *)

Used(s) == sess[s].who # None
Peers(s) == {p \in Slot : Used(p) /\ p # s}
Full(p) == Len(sess[p].mail) >= Box

MutantPush(mail, line) == <<line>> \o mail  \* at the head
Push(mail, line) == Append(mail, line)      \* mail_push

\* st_notify wakes whatever wait its target is in.
MutantNotify(r) == [r EXCEPT !.note = TRUE]  \* only notes it
Notify(r) == [r EXCEPT !.note = TRUE, !.st = IF @ = "blocked" THEN "ready" ELSE @]

\* broadcast pushes the line into every mailbox that has room, and then notifies.
\* The coroutine of s itself goes on as r says.
Broadcast(s, k, r) ==
    LET reached == {p \in Peers(s) : ~Full(p)}
    IN  /\ sess' = [p \in Slot |-> IF p \in reached
                                   THEN [sess[p] EXCEPT !.mail = Push(@, Said(sess[s].who, k))]
                                   ELSE sess[p]]
        /\ co' = [p \in Slot |-> IF p = s THEN r
                                 ELSE IF p \in reached THEN Notify(co[p]) ELSE co[p]]
Dropped(s) == \E p \in Peers(s) : Full(p)

GoTo(r, at) ==
    [Dead EXCEPT !.at = at, !.note = r.note, !.cut = r.cut, !.todo = r.todo,
                 !.fed = IF at \in {"feed", "send"} THEN r.fed ELSE @]
SendThen(r, line, then) ==
    [GoTo(r, "send") EXCEPT !.line = line, !.then = then,
                            !.fed = IF then = "feed" THEN r.fed ELSE @]

\* Whoever says a line that somebody does not get is told so.
Told(s, r, then) == IF Dropped(s) THEN SendThen(r, Notice, then) ELSE GoTo(r, then)

Go(s, r) == co' = [co EXCEPT ![s] = r]
BlockAt(s, at) ==
    Go(s, [co[s] EXCEPT !.at = at, !.st = "blocked", !.fd = FALSE]) /\ active' = None

-----------------------------------------------------------------------------
(* The accept loop.                                                        *)

\* alloc_session takes the first slot that is not used.
FreeSlots == {s \in Slot : ~Used(s)}
accept_loop(c) ==
    /\ active = None /\ client[c].at = "new"
    /\ IF FreeSlots = {}
         THEN client' = [client EXCEPT ![c].at = "gone"] /\ UNCHANGED <<sess, co>>
         ELSE LET s == CHOOSE s \in FreeSlots : \A p \in FreeSlots : s <= p
              IN  /\ sess' = [sess EXCEPT ![s] = [Unused EXCEPT !.who = c]]
                  /\ Go(s, [Dead EXCEPT !.at = "start", !.st = "ready"])
                  /\ client' = [client EXCEPT ![c].at = "on"]
    /\ UNCHANGED <<active, in, out>>

-----------------------------------------------------------------------------
(* A session's coroutine, session_main.                                    *)

Step(s, at) == active = s /\ co[s].at = at
Input(s) == in[sess[s].who]
Lost(s) == client[sess[s].who].at = "closing"
AtEnd(s) == Input(s) = <<>> /\ Lost(s)
Readable(s) == Input(s) # <<>> \/ AtEnd(s)
Taken(s) == in' = [in EXCEPT ![sess[s].who] = <<>>]

\* The st_recv of read_nick waits at once.
Start(s) ==
    /\ Step(s, "start") /\ BlockAt(s, "nick")
    /\ UNCHANGED <<sess, in, out, client>>

\* When st_recv gives no bytes, after 30 s or because the coroutine was notified,
\* the session ends.  Lines that came with the nick are fed at once.
read_nick(s) ==
    /\ Step(s, "nick")
    /\ IF co[s].fd /\ Input(s) # <<>>
         THEN /\ Taken(s)
              /\ Go(s, [GoTo(co[s], "feed") EXCEPT !.todo = Tail(Input(s)), !.fed = "welcome"])
         ELSE Go(s, GoTo(co[s], "release")) /\ UNCHANGED in
    /\ UNCHANGED <<sess, active, out, client>>

\* feed and on_line, a line at a time.
feed(s) ==
    /\ Step(s, "feed")
    /\ LET r == co[s]
           more == [r EXCEPT !.todo = Tail(@)]
       IN  CASE r.todo = <<>> ->
                  /\ Go(s, IF r.fed = "welcome" THEN SendThen(r, Notice, "join") ELSE GoTo(r, r.fed))
                  /\ UNCHANGED sess
             [] r.todo # <<>> /\ Head(r.todo) = Left -> Go(s, GoTo(r, "leave")) /\ UNCHANGED sess
             [] OTHER -> Broadcast(s, Head(r.todo), Told(s, more, "feed"))
    /\ UNCHANGED <<active, in, out, client>>

Join(s) ==
    /\ Step(s, "join") /\ Broadcast(s, Joined, Told(s, co[s], "drain"))
    /\ UNCHANGED <<active, in, out, client>>

\* mail_pop, until the mailbox is empty or a line cannot be sent.
drain_mail(s) ==
    /\ Step(s, "drain")
    /\ LET r == [co[s] EXCEPT !.cut = FALSE]
       IN  IF sess[s].mail = <<>> THEN Go(s, GoTo(r, "wait")) /\ UNCHANGED sess
           ELSE /\ Go(s, SendThen(r, Head(sess[s].mail), "drain"))
                /\ sess' = [sess EXCEPT ![s].mail = Tail(@)]
    /\ UNCHANGED <<active, in, out, client>>

\* st_wait.  A notification that came before is taken at once, with the bytes that
\* are there; otherwise the coroutine waits for an event, a notification or
\* kIdleMs, and takes the notification when it comes back.  Whatever ended the wait,
\* it reports an event: the item still has the m_revents_ of the nick.  It fails when
\* a hangup has dropped the item, and the loop ends.
Taking(s, fd) == GoTo([co[s] EXCEPT !.note = FALSE], IF fd THEN "recv" ELSE "drain")
StWait(s) ==
    /\ Step(s, "wait")
    /\ \/ co[s].note /\ Go(s, Taking(s, Readable(s))) /\ UNCHANGED active
       \/ ~co[s].note /\ BlockAt(s, "woken")
       \/ Lost(s) /\ Go(s, GoTo(co[s], "leave")) /\ UNCHANGED active
    /\ UNCHANGED <<sess, in, out, client>>
StWaitReturns(s) ==
    /\ Step(s, "woken") /\ Go(s, Taking(s, TRUE))
    /\ UNCHANGED <<sess, active, in, out, client>>

\* The recv() of the loop: lines, the end, or EAGAIN.
Recv(s) ==
    /\ Step(s, "recv")
    /\ Go(s, IF Input(s) # <<>> THEN [GoTo(co[s], "feed") EXCEPT !.todo = Input(s), !.fed = "drain"]
             ELSE GoTo(co[s], IF AtEnd(s) THEN "leave" ELSE "drain"))
    /\ Taken(s)
    /\ UNCHANGED <<sess, active, out, client>>

\* send_all: the kernel takes the line, or a part and the rest later, when it has
\* room.  A wait of st_send that ends without an event is followed by another try
\* (m_revents_ again), and by another wait if need be, until the time is up: not
\* before a wait has timed out ("late"), or a second one has taken some of it.
Shown(s, all) ==
    LET line == co[s].line
    IN  IF line = Notice THEN out
        ELSE [out EXCEPT ![sess[s].who] = [last |-> [@.last EXCEPT ![line.from] = line.k],
                                           open |-> ~all]]
Failed(s) ==
    LET r == co[s]
    IN  IF r.line # Notice THEN [GoTo(r, "wait") EXCEPT !.cut = TRUE]
        ELSE GoTo(r, IF r.then = "join" THEN "release" ELSE r.then)
AllSent(s) == out' = Shown(s, TRUE) /\ Go(s, GoTo(co[s], co[s].then)) /\ UNCHANGED active
GivenUp(s) == Go(s, Failed(s)) /\ UNCHANGED <<active, out>>

SendAll(s) ==
    /\ Step(s, "send")
    /\ \/ AllSent(s)
       \/ out' = Shown(s, FALSE) /\ BlockAt(s, "sending")
       \/ Lost(s) /\ GivenUp(s)
    /\ UNCHANGED <<sess, in, client>>
StSendReturns(s) ==
    /\ Step(s, "sending") \/ Step(s, "late")
    /\ \/ AllSent(s)
       \/ BlockAt(s, "late") /\ UNCHANGED out
       \/ (Lost(s) \/ co[s].at = "late") /\ GivenUp(s)
    /\ UNCHANGED <<sess, in, client>>

Leave(s) ==
    /\ Step(s, "leave") /\ Broadcast(s, Left, GoTo(co[s], "release"))
    /\ UNCHANGED <<active, in, out, client>>

release_session(s) ==
    /\ Step(s, "release")
    /\ sess' = [sess EXCEPT ![s] = Unused] /\ Go(s, Dead) /\ active' = None
    /\ client' = [client EXCEPT ![sess[s].who].at = "gone"]
    /\ Taken(s) /\ UNCHANGED out

Run(s) ==
    \/ Start(s) \/ read_nick(s) \/ feed(s) \/ Join(s) \/ drain_mail(s) \/ StWait(s)
    \/ StWaitReturns(s) \/ Recv(s) \/ SendAll(s) \/ StSendReturns(s) \/ Leave(s)
    \/ release_session(s)

-----------------------------------------------------------------------------
(* The daemon and the clients.                                             *)

Resume(s) ==
    /\ active = None /\ co[s].st = "ready" /\ active' = s
    /\ Go(s, [co[s] EXCEPT !.st = "active"])
    /\ UNCHANGED <<sess, in, out, client>>

\* An event is noted even if the coroutine left its wait a moment ago.
Dispatch(s) ==
    /\ active = None /\ co[s].st \in {"blocked", "ready"} /\ ~co[s].fd
    /\ co[s].at \in {"sending", "late"} \/ (co[s].at \in {"nick", "woken"} /\ Readable(s))
    /\ Go(s, [co[s] EXCEPT !.fd = TRUE, !.st = "ready"])
    /\ UNCHANGED <<sess, active, in, out, client>>

Expire(s) ==
    /\ active = None /\ co[s].st = "blocked"
    /\ Go(s, [co[s] EXCEPT !.st = "ready", !.at = IF @ = "sending" THEN "late" ELSE @])
    /\ UNCHANGED <<sess, active, in, out, client>>

\* A client writes its nick (as 0), its lines and perhaps "quit"; it closes.  While
\* a coroutine is active, which reads once at most, it may as well wait.
Write(c) ==
    /\ active = None /\ client[c].at = "on" /\ client[c].wrote < Left
    /\ client' = [client EXCEPT ![c].wrote = @ + 1]
    /\ in' = [in EXCEPT ![c] = Append(@, client[c].wrote + 1)]
    /\ UNCHANGED <<sess, co, active, out>>
Close(c) ==
    /\ active = None /\ client[c].at = "on"
    /\ client' = [client EXCEPT ![c].at = "closing"]
    /\ UNCHANGED <<sess, co, active, in, out>>

Next ==
    \/ \E s \in Slot : Run(s) \/ Resume(s) \/ Dispatch(s) \/ Expire(s)
    \/ \E c \in Client : accept_loop(c) \/ Write(c) \/ Close(c)

Spec == Init /\ [][Next]_vars

-----------------------------------------------------------------------------

\* Besides the types: a coroutine does not sleep in st_wait over lines in its
\* mailbox, unless it could not send the last one; it would show them when
\* something else happens, or kIdleMs later.
MailSeen ==
    /\ active \in Slot \cup {None}
    /\ \A s \in Slot : Len(sess[s].mail) <= Box /\ (Used(s) <=> co[s].at # "dead")
    /\ \A s \in Slot : co[s].at = "woken" /\ co[s].st = "blocked" /\ ~co[s].cut
                       => sess[s].mail = <<>>

\* A client sees the lines of every other client in the order in which they were
\* written, however many are dropped, and none of its own.
InOrder ==
    [][\A c, d \in Client : out'[c].last[d] # out[c].last[d] =>
           c # d /\ (out'[c].last[d] > out[c].last[d] \/ out'[c].last[d] = Joined)]_vars
=============================================================================

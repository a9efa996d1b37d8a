------------------------------ MODULE StChat_proofs ------------------------------
(***************************************************************************)
(* That nobody in the chat room sleeps over mail, and that lines keep      *)
(* their order, for any numbers of sessions, clients and lines and any     *)
(* size of the mailboxes.                                                  *)
(***************************************************************************)
EXTENDS StChat, SequenceTheorems, WellFoundedInduction, TLAPS

Line == [from : Client \cup {None}, k : 0..Left]
Places == {"dead", "start", "nick", "feed", "join", "drain", "wait", "woken", "recv", "send",
           "sending", "late", "leave", "release"}
Co == [at : Places, st : {"active", "blocked", "ready"}, fd : BOOLEAN, note : BOOLEAN,
       todo : Seq(0..Left), fed : {"drain", "welcome"}, line : Line,
       then : {"drain", "feed", "join"}, cut : BOOLEAN]

Types ==
    /\ sess \in [Slot -> [who : Client \cup {None}, mail : Seq(Line)]]
    /\ co \in [Slot -> Co] /\ active \in Slot \cup {None}
    /\ in \in [Client -> Seq(0..Left)]
    /\ out \in [Client -> [last : [Client -> (-1)..Left], open : BOOLEAN]]
    /\ client \in [Client -> [at : {"new", "on", "closing", "gone"}, wrote : (-1)..Left]]

\* A session's coroutine: it is the active one or it waits, and when it waits for mail
\* there is none, but for what a failed send has left.
Alive(s) ==
    /\ Used(s) <=> co[s].at # "dead"
    /\ Used(s) => client[sess[s].who].at \in {"on", "closing"}
    /\ Len(sess[s].mail) <= Box
    /\ co[s].at = "dead" => co[s].st = "active" /\ active # s /\ sess[s].mail = <<>>
    /\ co[s].at # "dead" => (co[s].st = "active" <=> active = s)
    /\ co[s].at = "wait" => co[s].st = "active"
    /\ co[s].at = "wait" \/ (co[s].at = "woken" /\ co[s].st = "blocked")
         => co[s].cut = TRUE \/ sess[s].mail = <<>>

Sends == {"send", "sending", "late"}

\* What r, a session's coroutine, is sending; the room's own notices are not counted.
Sending(r) == r.at \in Sends /\ r.line # Notice

\* The lines on their way to client c, through the mailbox and the coroutine r, keep the
\* order of their writers, and follow the last ones c has seen.  The line that says that
\* somebody joined comes behind what it wrote with its nick.
Queued(c, mail, r, last) ==
    /\ \A j \in DOMAIN mail : /\ mail[j].from \in Client \ {c}
                              /\ mail[j].k # Joined => last[mail[j].from] < mail[j].k
    /\ \A i, j \in DOMAIN mail :
           i < j /\ mail[i].from = mail[j].from /\ mail[j].k # Joined => mail[i].k < mail[j].k
    /\ Sending(r) =>
         /\ r.line.from \in Client \ {c}
         /\ IF r.at = "send" THEN r.line.k # Joined => last[r.line.from] < r.line.k
                             ELSE last[r.line.from] = r.line.k
         /\ \A j \in DOMAIN mail :
                mail[j].from = r.line.from /\ mail[j].k # Joined => r.line.k < mail[j].k

\* The lines of client d that are anywhere in the room, and what others saw last of it.
Heard == [d \in Client |->
    {k \in (-1)..Left :
        \/ \E c \in Client : out[c].last[d] = k
        \/ \E s \in Slot : \E j \in DOMAIN sess[s].mail : sess[s].mail[j] = Said(d, k)
        \/ \E s \in Slot : Sending(co[s]) /\ co[s].line = Said(d, k)}]

Rising(q) == \A i, j \in DOMAIN q : i < j => q[i] < q[j]

\* What a client has written and nobody has heard comes in order: first what its session
\* has read (todo), then what it has not (more).
Unread(at, todo, more, wrote, heard) ==
    /\ Rising(todo) /\ Rising(more)
    /\ \A i \in DOMAIN todo : 0 < todo[i] /\ todo[i] <= wrote
    /\ \A i \in DOMAIN more : more[i] <= wrote
    /\ \A i \in DOMAIN todo, j \in DOMAIN more : todo[i] < more[j]
    /\ at \notin {"start", "nick"} => 0 <= wrote /\ \A i \in DOMAIN more : 0 < more[i]
    /\ \A k \in heard : /\ k < Left /\ k <= wrote
                        /\ \A i \in DOMAIN todo : k < todo[i]
                        /\ \A i \in DOMAIN more : k < more[i]

AllAlive == \A s \in Slot : Alive(s)
AllQueued == \A s \in Slot : Used(s) => Queued(sess[s].who, sess[s].mail, co[s], out[sess[s].who].last)
AllUnread ==
    \A s \in Slot : Used(s) /\ co[s].at # "release" =>
        LET d == sess[s].who
        IN  Unread(co[s].at, co[s].todo, in[d], client[d].wrote, Heard[d])

\* A client has one session, and is not heard of before.
OneSession == \A s, p \in Slot : Used(s) /\ sess[s].who = sess[p].who => s = p
NewIsQuiet ==
    \A d \in Client : client[d].at = "new" =>
        in[d] = <<>> /\ client[d].wrote = -1 /\ Heard[d] \subseteq {-1}

ChatInv == Types /\ AllAlive /\ AllQueued /\ AllUnread /\ OneSession /\ NewIsQuiet
-----------------------------------------------------------------------------
(* Sequences and records.                                                  *)

LEMMA Numbers == MaxLines \in Nat /\ Left \in Nat \ {0} /\ Box \in Nat \ {0} /\ Joined = 0
  BY ChatAssumption DEF Left, Joined

LEMMA EmptyIs == \A S : <<>> \in Seq(S) /\ Len(<<>>) = 0 /\ DOMAIN <<>> = {}
  BY EmptySeq

LEMMA TailOf ==
    ASSUME NEW S, NEW q \in Seq(S), q # <<>>
    PROVE  /\ Head(q) \in S /\ 1 \in DOMAIN q /\ Head(q) = q[1]
           /\ Tail(q) \in Seq(S) /\ Len(Tail(q)) = Len(q) - 1 /\ Len(q) \in Nat
           /\ DOMAIN q = 1..Len(q) /\ DOMAIN Tail(q) = 1..(Len(q) - 1)
           /\ \A j \in DOMAIN Tail(q) : j + 1 \in DOMAIN q /\ Tail(q)[j] = q[j + 1]
  <1>1. Len(q) \in Nat /\ Len(q) # 0 /\ DOMAIN q = 1..Len(q)
    BY EmptySeq, LenProperties
  <1>2. /\ Head(q) \in S /\ Tail(q) \in Seq(S) /\ Len(Tail(q)) = Len(q) - 1
        /\ \A j \in 1..Len(Tail(q)) : Tail(q)[j] = q[j + 1]
    BY HeadTailProperties
  <1>3. DOMAIN Tail(q) = 1..(Len(q) - 1)
    BY <1>2, LenProperties
  <1>4. Head(q) = q[1]
    BY <1>1
  <1> QED BY <1>1, <1>2, <1>3, <1>4

LEMMA AppendOf ==
    ASSUME NEW S, NEW q \in Seq(S), NEW e \in S
    PROVE  /\ Append(q, e) \in Seq(S) /\ Len(Append(q, e)) = Len(q) + 1 /\ Len(q) \in Nat
           /\ DOMAIN q = 1..Len(q) /\ DOMAIN Append(q, e) = 1..(Len(q) + 1)
           /\ \A j \in DOMAIN q : Append(q, e)[j] = q[j]
           /\ Append(q, e)[Len(q) + 1] = e
  <1>1. Len(q) \in Nat /\ DOMAIN q = 1..Len(q)
    BY LenProperties
  <1>2. Append(q, e) \in Seq(S) /\ Len(Append(q, e)) = Len(q) + 1
    BY AppendProperties
  <1> QED BY <1>1, <1>2, AppendProperties, LenProperties

LEMMA RisingTail ==
    ASSUME NEW q \in Seq(0..Left), q # <<>>, Rising(q)
    PROVE  /\ Rising(Tail(q)) /\ \A i \in DOMAIN Tail(q) : Head(q) < Tail(q)[i]
  <1>1. /\ 1 \in DOMAIN q /\ Head(q) = q[1] /\ DOMAIN Tail(q) \subseteq Nat \ {0}
        /\ \A j \in DOMAIN Tail(q) : j + 1 \in DOMAIN q /\ Tail(q)[j] = q[j + 1]
    BY TailOf
  <1>2. \A i, j \in DOMAIN Tail(q) : i < j => q[i + 1] < q[j + 1]
    BY <1>1 DEF Rising
  <1>3. \A i \in DOMAIN Tail(q) : q[1] < q[i + 1]
    BY <1>1 DEF Rising
  <1> QED BY <1>1, <1>2, <1>3 DEF Rising

LEMMA DeadIs ==
    /\ Dead \in Co /\ Dead.at = "dead" /\ Dead.st = "active" /\ Dead.todo = <<>> /\ Dead.line = Notice
    /\ Notice \in Line
  <1>1. Notice \in Line
    BY Numbers DEF Notice, Said, Line
  <1> QED BY <1>1, EmptyIs DEF Dead, Co, Places

LEMMA GoToIs ==
    ASSUME NEW r \in Co, NEW at \in Places
    PROVE  LET g == GoTo(r, at)
           IN  /\ g \in Co /\ g.at = at /\ g.st = "active" /\ g.todo = r.todo /\ g.line = Notice
               /\ g.cut = r.cut /\ ~Sending(g)
  <1> DEFINE fed == IF at \in {"feed", "send"} THEN r.fed ELSE Dead.fed
             g == [Dead EXCEPT !.at = at, !.note = r.note, !.cut = r.cut, !.todo = r.todo, !.fed = fed]
  <1>1. fed \in {"drain", "welcome"}
    BY DEF Dead, Co
  <1>2. g = GoTo(r, at)
    BY DEF GoTo, Dead
  <1> HIDE DEF fed
  <1>3. \A q \in Co : LET h == [q EXCEPT !.at = at, !.note = r.note, !.cut = r.cut, !.todo = r.todo, !.fed = fed]
                     IN  /\ h \in Co /\ h.at = at /\ h.st = q.st /\ h.todo = r.todo
                         /\ h.line = q.line /\ h.cut = r.cut
    BY <1>1 DEF Co
  <1>4. g \in Co /\ g.at = at /\ g.st = "active" /\ g.todo = r.todo /\ g.line = Notice /\ g.cut = r.cut
    BY <1>3, DeadIs
  <1> HIDE DEF g
  <1> QED BY <1>2, <1>4 DEF Sending

LEMMA SendThenIs ==
    ASSUME NEW r \in Co, NEW line \in Line, NEW then \in {"drain", "feed", "join"}
    PROVE  LET g == SendThen(r, line, then)
           IN  /\ g \in Co /\ g.at = "send" /\ g.st = "active" /\ g.todo = r.todo /\ g.line = line
               /\ g.cut = r.cut
  <1> DEFINE b == GoTo(r, "send")
             fed == IF then = "feed" THEN r.fed ELSE b.fed
             g == [b EXCEPT !.line = line, !.then = then, !.fed = fed]
  <1>1. b \in Co /\ b.at = "send" /\ b.st = "active" /\ b.todo = r.todo /\ b.cut = r.cut
    BY GoToIs DEF Places
  <1>2. g = SendThen(r, line, then)
    BY DEF SendThen
  <1> HIDE DEF b
  <1>3. fed \in {"drain", "welcome"}
    BY <1>1 DEF Co
  <1> HIDE DEF fed
  <1>4. g \in Co /\ g.at = b.at /\ g.st = b.st /\ g.todo = b.todo /\ g.line = line /\ g.cut = b.cut
    BY <1>1, <1>3 DEF Co
  <1> HIDE DEF g
  <1> QED BY <1>1, <1>2, <1>4
-----------------------------------------------------------------------------
(* What is heard.                                                          *)

LEMMA Unfold ==
    ASSUME ChatInv, NEW s \in Slot
    PROVE  /\ co[s] \in Co /\ sess[s].mail \in Seq(Line) /\ sess[s].who \in Client \cup {None}
           /\ sess[s] = [who |-> sess[s].who, mail |-> sess[s].mail]
           /\ Alive(s) /\ None \notin Client /\ None \notin Slot
           /\ Used(s) => /\ sess[s].who \in Client
                         /\ Queued(sess[s].who, sess[s].mail, co[s], out[sess[s].who].last)
                         /\ in[sess[s].who] \in Seq(0..Left)
                         /\ out[sess[s].who] \in [last : [Client -> (-1)..Left], open : BOOLEAN]
                         /\ client[sess[s].who].wrote \in (-1)..Left
                         /\ client[sess[s].who].at \in {"on", "closing"}
                         /\ co[s].at # "release" =>
                              Unread(co[s].at, co[s].todo, in[sess[s].who], client[sess[s].who].wrote,
                                     Heard[sess[s].who])
  BY ChatAssumption DEF ChatInv, Types, AllAlive, AllQueued, AllUnread, Used, Alive

LEMMA HeardMail ==
    ASSUME ChatInv, NEW s \in Slot, NEW j \in DOMAIN sess[s].mail, Used(s)
    PROVE  /\ sess[s].mail[j] \in Line /\ sess[s].mail[j].from \in Client
           /\ sess[s].mail[j].k \in Heard[sess[s].mail[j].from]
  <1> DEFINE m == sess[s].mail[j]
  <1>1. m \in Line
    BY Unfold, LenProperties, ElementOfSeq
  <1>2. m.from \in Client
    BY Unfold DEF Queued
  <1>3. m = Said(m.from, m.k)
    BY <1>1 DEF Line, Said
  <1>4. m.k \in (-1)..Left
    BY <1>1, Numbers DEF Line
  <1> QED BY <1>1, <1>2, <1>3, <1>4 DEF Heard

LEMMA HeardSending ==
    ASSUME ChatInv, NEW s \in Slot, Used(s), Sending(co[s])
    PROVE  /\ co[s].line \in Line /\ co[s].line.from \in Client
           /\ co[s].line.k \in Heard[co[s].line.from]
  <1> DEFINE m == co[s].line
  <1>1. m \in Line
    BY Unfold DEF Co
  <1>2. m.from \in Client
    BY Unfold DEF Queued
  <1>3. m = Said(m.from, m.k)
    BY <1>1 DEF Line, Said
  <1>4. m.k \in (-1)..Left
    BY <1>1, Numbers DEF Line
  <1> QED BY <1>1, <1>2, <1>3, <1>4 DEF Heard

LEMMA HeardLast ==
    ASSUME ChatInv, NEW c \in Client, NEW d \in Client
    PROVE  out[c].last[d] \in Heard[d]
  BY DEF ChatInv, Types, Heard
-----------------------------------------------------------------------------
(* A step of one session's coroutine that says nothing new.                *)

LEMMA UnreadFewer ==
    ASSUME NEW at, NEW todo, NEW more, NEW wrote, NEW heard, NEW fewer, fewer \subseteq heard,
           Unread(at, todo, more, wrote, heard)
    PROVE  Unread(at, todo, more, wrote, fewer)
  BY DEF Unread

\* What a step of coroutine s writes: itself, its session, the log of its client
\* and what is left to be read from it.
Writes(s, c, r, mail, o, new) ==
    /\ co' = [co EXCEPT ![s] = r] /\ sess' = [sess EXCEPT ![s] = [who |-> c, mail |-> mail]]
    /\ out' = [out EXCEPT ![c] = o] /\ in' = [in EXCEPT ![c] = new]

LEMMA OwnStep ==
    ASSUME ChatInv, NEW s \in Slot, Used(s), NEW c, c = sess[s].who, NEW r \in Co,
           NEW mail \in Seq(Line), NEW o \in [last : [Client -> (-1)..Left], open : BOOLEAN],
           NEW new \in Seq(0..Left),
           Writes(s, c, r, mail, o, new), client' = client,
           active \in {s, None}, active' \in {s, None}, Len(mail) <= Box,
           r.at # "dead", r.st = "active" <=> active' = s, r.at = "wait" => r.st = "active",
           r.at = "wait" \/ (r.at = "woken" /\ r.st = "blocked") => r.cut = TRUE \/ mail = <<>>,
           Queued(c, mail, r, o.last),
           \A d \in Client : o.last[d] \in Heard[d],
           \A j \in DOMAIN mail : mail[j].k \in Heard[mail[j].from],
           Sending(r) => r.line.k \in Heard[r.line.from],
           r.at # "release" => /\ co[s].at # "release"
                               /\ Unread(r.at, r.todo, new, client[c].wrote, Heard[c])
    PROVE  ChatInv'
  <1> USE DEF Writes
  <1>1. /\ c \in Client /\ c # None /\ None \notin Client /\ None \notin Slot
        /\ client[c].at \in {"on", "closing"}
    BY Unfold DEF Used
  <1>2. Types'
    BY <1>1 DEF ChatInv, Types
  <1>3. /\ co'[s] = r /\ sess'[s].who = c /\ sess'[s].mail = mail /\ out'[c] = o /\ in'[c] = new
        /\ \A p \in Slot \ {s} : co'[p] = co[p] /\ sess'[p] = sess[p]
        /\ \A d \in Client \ {c} : out'[d] = out[d] /\ in'[d] = in[d]
        /\ \A p \in Slot : sess'[p].who = sess[p].who
    BY <1>1 DEF ChatInv, Types
  <1>4. \A p \in Slot \ {s} : Used(p) => sess[p].who \in Client \ {c}
    <2>1. \A p \in Slot \ {s} : Used(p) => sess[p].who # c
      BY DEF ChatInv, OneSession
    <2> QED BY <2>1, Unfold
  <1>5. AllAlive'
    <2> SUFFICES ASSUME NEW p \in Slot PROVE Alive(p)'
      BY DEF AllAlive
    <2>1. Alive(p)
      BY Unfold
    <2>2. CASE p = s
      BY <1>1, <1>3, <2>2 DEF Alive, Used
    <2>3. CASE p # s
      BY <1>1, <1>3, <2>1, <2>3 DEF Alive, Used
    <2> QED BY <2>2, <2>3
  <1>6. AllQueued'
    <2> SUFFICES ASSUME NEW p \in Slot, sess'[p].who # None
                 PROVE  Queued(sess'[p].who, sess'[p].mail, co'[p], out'[sess'[p].who].last)
      BY DEF AllQueued, Used, Queued, Sending
    <2>1. CASE p = s
      BY <1>3, <2>1
    <2>2. CASE p # s
      <3>1. /\ Used(p) /\ co'[p] = co[p] /\ sess'[p] = sess[p] /\ out'[sess[p].who] = out[sess[p].who]
        BY <1>3, <1>4, <2>2 DEF Used
      <3>2. Queued(sess[p].who, sess[p].mail, co[p], out[sess[p].who].last)
        BY <3>1, Unfold
      <3> QED BY <3>1, <3>2
    <2> QED BY <2>1, <2>2
  <1>7. ASSUME NEW d \in Client
        PROVE  Heard'[d] \subseteq Heard[d]
    <2> SUFFICES ASSUME NEW k \in (-1)..Left,
                        \/ \E e \in Client : out'[e].last[d] = k
                        \/ \E p \in Slot : \E j \in DOMAIN sess'[p].mail : sess'[p].mail[j] = Said(d, k)
                        \/ \E p \in Slot : Sending(co'[p]) /\ co'[p].line = Said(d, k)
                 PROVE  k \in Heard[d]
      BY DEF Heard, Said, Sending
    <2>1. ASSUME NEW e \in Client, out'[e].last[d] = k
          PROVE  k \in Heard[d]
      BY <1>3, <2>1, HeardLast
    <2>2. ASSUME NEW p \in Slot, NEW j \in DOMAIN sess'[p].mail, sess'[p].mail[j] = Said(d, k)
          PROVE  k \in Heard[d]
      <3>1. CASE p = s
        BY <1>3, <2>2, <3>1 DEF Said
      <3>2. CASE p # s
        BY <1>3, <2>2, <3>2 DEF Heard
      <3> QED BY <3>1, <3>2
    <2>3. ASSUME NEW p \in Slot, Sending(co'[p]), co'[p].line = Said(d, k)
          PROVE  k \in Heard[d]
      <3>1. CASE p = s
        BY <1>3, <2>3, <3>1 DEF Said
      <3>2. CASE p # s
        BY <1>3, <2>3, <3>2 DEF Heard
      <3> QED BY <3>1, <3>2
    <2> QED BY <2>1, <2>2, <2>3
  <1>8. AllUnread'
    <2> SUFFICES ASSUME NEW p \in Slot, sess'[p].who # None, co'[p].at # "release"
                 PROVE  Unread(co'[p].at, co'[p].todo, in'[sess'[p].who], client'[sess'[p].who].wrote,
                               Heard'[sess'[p].who])
      BY DEF AllUnread, Used, Unread, Rising
    <2>1. CASE p = s
      <3>1. Unread(r.at, r.todo, new, client[c].wrote, Heard[c]) /\ Heard'[c] \subseteq Heard[c]
        BY <1>1, <1>3, <1>7, <2>1
      <3>2. Unread(r.at, r.todo, new, client[c].wrote, Heard'[c])
        BY <3>1, UnreadFewer
      <3> QED BY <1>3, <2>1, <3>2
    <2>2. CASE p # s
      <3> DEFINE d == sess[p].who
      <3>1. /\ Used(p) /\ co'[p] = co[p] /\ sess'[p] = sess[p] /\ in'[d] = in[d] /\ d \in Client
        BY <1>3, <1>4, <2>2 DEF Used
      <3>2. Unread(co[p].at, co[p].todo, in[d], client[d].wrote, Heard[d])
        BY <3>1, Unfold
      <3>3. Unread(co[p].at, co[p].todo, in[d], client[d].wrote, Heard'[d])
        BY <1>7, <3>1, <3>2, UnreadFewer
      <3> QED BY <3>1, <3>3
    <2> QED BY <2>1, <2>2
  <1>9. OneSession'
    BY <1>3 DEF ChatInv, OneSession, Used
  <1>10. NewIsQuiet'
    BY <1>1, <1>3, <1>7 DEF ChatInv, NewIsQuiet
  <1> QED BY <1>2, <1>5, <1>6, <1>8, <1>9, <1>10 DEF ChatInv

Stays == UNCHANGED <<sess, out, client>>

\* A step that leaves mailboxes and what was shown alone.
LEMMA QuietStep ==
    ASSUME ChatInv, NEW s \in Slot, Used(s), NEW r \in Co, NEW new \in Seq(0..Left),
           co' = [co EXCEPT ![s] = r], in' = [in EXCEPT ![sess[s].who] = new],
           Stays, active \in {s, None}, active' \in {s, None},
           r.at # "dead", r.st = "active" <=> active' = s, r.at = "wait" => r.st = "active",
           r.at = "wait" \/ (r.at = "woken" /\ r.st = "blocked") => r.cut = TRUE \/ sess[s].mail = <<>>,
           Sending(r) => Sending(co[s]) /\ r.line = co[s].line /\ (r.at = "send" <=> co[s].at = "send"),
           r.at # "release" => /\ co[s].at # "release"
                               /\ Unread(r.at, r.todo, new, client[sess[s].who].wrote, Heard[sess[s].who])
    PROVE  ChatInv'
  <1> DEFINE c == sess[s].who
             mail == sess[s].mail
             o == out[sess[s].who]
  <1>1. /\ c \in Client /\ mail \in Seq(Line) /\ o \in [last : [Client -> (-1)..Left], open : BOOLEAN]
        /\ sess[s] = [who |-> c, mail |-> mail] /\ Len(mail) <= Box
        /\ Queued(c, mail, co[s], o.last)
    BY Unfold DEF Alive
  <1>2. /\ sess' = [sess EXCEPT ![s] = [who |-> c, mail |-> mail]] /\ out' = [out EXCEPT ![c] = o]
        /\ client' = client
    BY <1>1 DEF ChatInv, Types, Stays
  <1>3. \A d \in Client : o.last[d] \in Heard[d]
    BY <1>1, HeardLast
  <1>4. \A j \in DOMAIN mail : mail[j].k \in Heard[mail[j].from]
    BY HeardMail
  <1>5. Sending(r) => r.line.k \in Heard[r.line.from]
    BY HeardSending
  <1>6. in' = [in EXCEPT ![c] = new]
    OBVIOUS
  <1>7. /\ r.at = "wait" \/ (r.at = "woken" /\ r.st = "blocked") => r.cut = TRUE \/ mail = <<>>
        /\ r.at # "release" => /\ co[s].at # "release"
                               /\ Unread(r.at, r.todo, new, client[c].wrote, Heard[c])
        /\ c = sess[s].who
    OBVIOUS
  <1> HIDE DEF c, mail, o
  <1>8. Queued(c, mail, r, o.last)
    BY <1>1 DEF Queued, Sending, Sends
  <1>9. Writes(s, c, r, mail, o, new)
    BY <1>2, <1>6 DEF Writes
  <1> QED BY <1>1, <1>2, <1>3, <1>4, <1>5, <1>7, <1>8, <1>9, OwnStep

\* It goes on to another place.
LEMMA MoveStep ==
    ASSUME ChatInv, NEW s \in Slot, Used(s), NEW r \in Co,
           co' = [co EXCEPT ![s] = r], Stays, in' = in,
           active \in {s, None}, active' \in {s, None},
           r.at # "dead", r.st = "active" <=> active' = s, r.at = "wait" => r.st = "active",
           r.at = "wait" \/ (r.at = "woken" /\ r.st = "blocked") => r.cut = TRUE \/ sess[s].mail = <<>>,
           Sending(r) => Sending(co[s]) /\ r.line = co[s].line /\ (r.at = "send" <=> co[s].at = "send"),
           r.at # "release" => /\ co[s].at # "release" /\ r.todo = co[s].todo
                               /\ co[s].at \in {"start", "nick"} => r.at \in {"start", "nick"}
    PROVE  ChatInv'
  <1> DEFINE c == sess[s].who
             new == in[c]
  <1>1. new \in Seq(0..Left) /\ c \in Client
    BY Unfold
  <1>2. in' = [in EXCEPT ![c] = new]
    BY DEF ChatInv, Types
  <1>3. r.at # "release" => Unread(r.at, r.todo, new, client[c].wrote, Heard[c])
    <2> SUFFICES ASSUME r.at # "release" PROVE Unread(r.at, r.todo, new, client[c].wrote, Heard[c])
      OBVIOUS
    <2>1. co[s].at # "release" /\ r.todo = co[s].todo
      OBVIOUS
    <2>2. Unread(co[s].at, co[s].todo, new, client[c].wrote, Heard[c])
      BY <2>1, Unfold
    <2>3. co[s].at \in {"start", "nick"} => r.at \in {"start", "nick"}
      OBVIOUS
    <2> HIDE DEF c, new
    <2>4. Unread(r.at, co[s].todo, new, client[c].wrote, Heard[c])
      BY <2>2, <2>3 DEF Unread
    <2> QED BY <2>1, <2>4
  <1> HIDE DEF new
  <1> QED BY <1>1, <1>2, <1>3, QuietStep

\* It waits at another place, with a line to send only if it was sending it.
LEMMA BlockStep ==
    ASSUME ChatInv, NEW s \in Slot, NEW at \in {"nick", "woken", "sending", "late"},
           active = s, co[s].at # "release", BlockAt(s, at), Stays, in' = in,
           co[s].at \in {"start", "nick"} => at = "nick",
           at = "woken" => co[s].cut = TRUE \/ sess[s].mail = <<>>,
           co[s].line = Notice \/ (at \in Sends <=> co[s].at \in Sends \ {"send"})
    PROVE  ChatInv'
  <1> DEFINE r == [co[s] EXCEPT !.at = at, !.st = "blocked", !.fd = FALSE]
  <1>1. Used(s) /\ co[s] \in Co /\ s # None
    BY Unfold DEF Alive
  <1>2. r \in Co /\ r.at = at /\ r.st = "blocked" /\ r.todo = co[s].todo /\ r.line = co[s].line
        /\ r.cut = co[s].cut
    BY <1>1 DEF Co, Places
  <1>3. co' = [co EXCEPT ![s] = r] /\ active' = None
    BY DEF BlockAt, Go
  <1> HIDE DEF r
  <1>4. Sending(r) => Sending(co[s]) /\ r.line = co[s].line /\ (r.at = "send" <=> co[s].at = "send")
    BY <1>2 DEF Sending, Sends
  <1>5. r.at # "release" => /\ co[s].at # "release" /\ r.todo = co[s].todo
                            /\ co[s].at \in {"start", "nick"} => r.at \in {"start", "nick"}
    BY <1>2
  <1> QED BY <1>1, <1>2, <1>3, <1>4, <1>5, MoveStep

LEMMA StartStep ==
    ASSUME ChatInv, NEW s \in Slot, Start(s)
    PROVE  ChatInv'
  <1>1. active = s /\ co[s].at = "start" /\ BlockAt(s, "nick") /\ Stays /\ in' = in
    BY DEF Start, Step, Stays
  <1> QED BY <1>1, BlockStep DEF Sends

\* The active coroutine goes to a place where it neither waits nor sends.
LEMMA GoStep ==
    ASSUME ChatInv, NEW s \in Slot, active = s, NEW r \in Co, co' = [co EXCEPT ![s] = r],
           Stays, in' = in, active' = active,
           r.at # "dead", r.st = "active", r.at = "wait" => r.cut = TRUE \/ sess[s].mail = <<>>,
           r.at # "woken", ~Sending(r), r.todo = co[s].todo, co[s].at \notin {"start", "nick", "release"}
    PROVE  ChatInv'
  <1>1. Used(s) /\ s # None
    BY Unfold DEF Alive
  <1>2. active \in {s, None} /\ active' \in {s, None} /\ (r.st = "active" <=> active' = s)
    OBVIOUS
  <1> QED BY <1>1, <1>2, MoveStep

\* The active coroutine waits, or goes on at once.
LEMMA StWaitStep ==
    ASSUME ChatInv, NEW s \in Slot, StWait(s) \/ StWaitReturns(s)
    PROVE  ChatInv'
  <1>1. /\ active = s /\ co[s].at \in {"wait", "woken"} /\ Used(s) /\ co[s] \in Co /\ s # None
        /\ Stays /\ in' = in
    BY Unfold DEF StWait, StWaitReturns, Step, Alive, Stays
  <1>2. ASSUME NEW fd, Go(s, Taking(s, fd)), UNCHANGED active
        PROVE  ChatInv'
    <2> DEFINE b == [co[s] EXCEPT !.note = FALSE]
               at == IF fd THEN "recv" ELSE "drain"
               r == GoTo(b, at)
    <2>1. b \in Co /\ b.todo = co[s].todo
      BY <1>1 DEF Co
    <2>2. at \in {"recv", "drain"}
      OBVIOUS
    <2> HIDE DEF b, at
    <2>3. at \in Places
      BY <2>2 DEF Places
    <2>4. r \in Co /\ r.at = at /\ r.st = "active" /\ r.todo = co[s].todo /\ ~Sending(r)
      BY <2>1, <2>3, GoToIs
    <2>5. co' = [co EXCEPT ![s] = r]
      BY <1>2 DEF Go, Taking, b, at
    <2> HIDE DEF r
    <2> QED BY <1>1, <1>2, <2>2, <2>4, <2>5, GoStep
  <1>3. CASE co[s].at = "wait" /\ BlockAt(s, "woken")
    <2>1. co[s].cut = TRUE \/ sess[s].mail = <<>>
      BY <1>3, Unfold DEF Alive
    <2> QED BY <1>1, <1>3, <2>1, BlockStep DEF Sends
  <1>4. CASE Go(s, GoTo(co[s], "leave")) /\ UNCHANGED active
    <2> DEFINE r == GoTo(co[s], "leave")
    <2>1. r \in Co /\ r.at = "leave" /\ r.st = "active" /\ r.todo = co[s].todo /\ ~Sending(r)
      BY <1>1, GoToIs DEF Places
    <2>2. co' = [co EXCEPT ![s] = r]
      BY <1>4 DEF Go
    <2> HIDE DEF r
    <2> QED BY <1>1, <1>4, <2>1, <2>2, GoStep
  <1>5. CASE StWait(s)
    <2>1. co[s].at = "wait"
      BY <1>5 DEF StWait, Step
    <2> QED BY <1>2, <1>3, <1>5, <1>4, <2>1 DEF StWait
  <1>6. CASE StWaitReturns(s)
    BY <1>2, <1>6 DEF StWaitReturns
  <1> QED BY <1>5, <1>6

\* It reads what there is: the nick and the lines that came with it, or lines.
LEMMA UnreadTaken ==
    ASSUME NEW at, NEW todo \in Seq(0..Left), NEW more \in Seq(0..Left), NEW wrote \in (-1)..Left,
           NEW heard \in SUBSET ((-1)..Left), Unread(at, todo, more, wrote, heard)
    PROVE  /\ more # <<>> => Unread("feed", Tail(more), <<>>, wrote, heard)
           /\ at \notin {"start", "nick"} => Unread("feed", more, <<>>, wrote, heard)
           /\ more = <<>> /\ at \notin {"start", "nick"} => Unread("feed", todo, <<>>, wrote, heard)
  <1>1. Rising(<<>>) /\ DOMAIN <<>> = {}
    BY EmptyIs DEF Rising
  <1>2. ASSUME more # <<>>
        PROVE  Unread("feed", Tail(more), <<>>, wrote, heard)
    <2>1. /\ Rising(Tail(more)) /\ \A i \in DOMAIN Tail(more) : Head(more) < Tail(more)[i]
      BY <1>2, RisingTail DEF Unread
    <2>2. /\ Head(more) \in 0..Left /\ 1 \in DOMAIN more /\ Head(more) = more[1]
          /\ \A j \in DOMAIN Tail(more) : j + 1 \in DOMAIN more /\ Tail(more)[j] = more[j + 1]
      BY <1>2, TailOf
    <2>3. \A i \in DOMAIN more : more[i] \in 0..Left
      BY ElementOfSeq, LenProperties
    <2>4. \A i \in DOMAIN Tail(more) : /\ 0 < Tail(more)[i] /\ Tail(more)[i] <= wrote
                                       /\ \A k \in heard : k < Tail(more)[i]
      BY <2>1, <2>2, <2>3, Numbers DEF Unread
    <2>5. 0 <= wrote
      BY <2>2, <2>3, Numbers DEF Unread
    <2> QED BY <1>1, <2>1, <2>4, <2>5 DEF Unread
  <1>3. ASSUME at \notin {"start", "nick"}
        PROVE  Unread("feed", more, <<>>, wrote, heard)
    BY <1>1, <1>3 DEF Unread
  <1>4. ASSUME more = <<>>, at \notin {"start", "nick"}
        PROVE  Unread("feed", todo, <<>>, wrote, heard)
    BY <1>4 DEF Unread
  <1> QED BY <1>2, <1>3, <1>4

LEMMA UnreadAt ==
    ASSUME NEW at, NEW to, NEW todo, NEW more, NEW wrote, NEW heard,
           Unread(at, todo, more, wrote, heard), at \notin {"start", "nick"}
    PROVE  Unread(to, todo, more, wrote, heard)
  BY DEF Unread

Feeds(q, todo, fed) == [GoTo(q, "feed") EXCEPT !.todo = todo, !.fed = fed]

LEMMA FeedIs ==
    ASSUME NEW q \in Co, NEW todo \in Seq(0..Left), NEW fed \in {"drain", "welcome"}
    PROVE  LET r == Feeds(q, todo, fed)
           IN  r \in Co /\ r.at = "feed" /\ r.st = "active" /\ r.todo = todo
  <1> DEFINE b == GoTo(q, "feed")
             r == [b EXCEPT !.todo = todo, !.fed = fed]
  <1>1. b \in Co /\ b.at = "feed" /\ b.st = "active"
    BY GoToIs DEF Places
  <1> HIDE DEF b
  <1>2. r \in Co /\ r.at = b.at /\ r.st = b.st /\ r.todo = todo
    BY <1>1 DEF Co
  <1>3. r = Feeds(q, todo, fed)
    BY DEF b, Feeds
  <1> HIDE DEF r
  <1> QED BY <1>1, <1>2, <1>3

LEMMA ReadStep ==
    ASSUME ChatInv, NEW s \in Slot, read_nick(s) \/ Recv(s)
    PROVE  ChatInv'
  <1> DEFINE c == sess[s].who
             q == co[s]
             more == in[c]
  <1>1. /\ active = s /\ active' = active /\ q.at \in {"nick", "recv"} /\ Used(s) /\ q \in Co
        /\ s # None /\ Stays
    BY Unfold DEF read_nick, Recv, Step, Alive, Stays
  <1>2. /\ more \in Seq(0..Left) /\ q.todo \in Seq(0..Left) /\ client[c].wrote \in (-1)..Left
        /\ Heard[c] \in SUBSET ((-1)..Left) /\ c \in Client
        /\ Unread(q.at, q.todo, more, client[c].wrote, Heard[c])
    BY <1>1, Unfold DEF Co, Heard
  <1>3. /\ more # <<>> => Unread("feed", Tail(more), <<>>, client[c].wrote, Heard[c])
        /\ q.at \notin {"start", "nick"} => Unread("feed", more, <<>>, client[c].wrote, Heard[c])
        /\ more = <<>> /\ q.at \notin {"start", "nick"} =>
             Unread("feed", q.todo, <<>>, client[c].wrote, Heard[c])
    <2> HIDE DEF c, q, more
    <2> QED BY <1>2, UnreadTaken
  <1>4. <<>> \in Seq(0..Left)
    BY EmptyIs
  <1>5. ASSUME NEW todo \in Seq(0..Left), NEW fed \in {"drain", "welcome"},
               co' = [co EXCEPT ![s] = Feeds(co[s], todo, fed)],
               in' = [in EXCEPT ![c] = <<>>],
               Unread("feed", todo, <<>>, client[c].wrote, Heard[c])
        PROVE  ChatInv'
    <2> DEFINE r == Feeds(co[s], todo, fed)
    <2>1. r \in Co /\ r.at = "feed" /\ r.st = "active" /\ r.todo = todo
      <3>1. co[s] \in Co
        BY <1>1
      <3> QED BY <3>1, FeedIs
    <2>2. ~Sending(r)
      BY <2>1 DEF Sending, Sends
    <2>3. co' = [co EXCEPT ![s] = r]
      BY <1>5
    <2> HIDE DEF r
    <2> QED BY <1>1, <1>4, <1>5, <2>1, <2>2, <2>3, QuietStep
  <1>6. ASSUME NEW to \in {"drain", "leave", "release"}, co' = [co EXCEPT ![s] = GoTo(co[s], to)],
               NEW new \in Seq(0..Left), in' = [in EXCEPT ![c] = new],
               to # "release" => Unread(to, q.todo, new, client[c].wrote, Heard[c])
        PROVE  ChatInv'
    <2> DEFINE r == GoTo(co[s], to)
    <2>0. to \in Places
      BY DEF Places
    <2>1. r \in Co /\ r.at = to /\ r.st = "active" /\ r.todo = q.todo /\ ~Sending(r)
      BY <1>1, <2>0, GoToIs
    <2>3. co' = [co EXCEPT ![s] = r]
      BY <1>6
    <2> HIDE DEF r
    <2> QED BY <1>1, <1>6, <2>1, <2>3, QuietStep
  <1>7. CASE read_nick(s)
    <2>1. CASE more # <<>> /\ Taken(s) /\ Go(s, Feeds(co[s], Tail(Input(s)), "welcome"))
      <3>1. Tail(more) \in Seq(0..Left)
        BY <1>2, <2>1, TailOf
      <3>2. /\ co' = [co EXCEPT ![s] = Feeds(co[s], Tail(more), "welcome")]
            /\ in' = [in EXCEPT ![c] = <<>>]
        BY <2>1 DEF Taken, Go, Input
      <3>3. Unread("feed", Tail(more), <<>>, client[c].wrote, Heard[c])
        BY <1>3, <2>1
      <3> HIDE DEF c, more
      <3> QED BY <1>5, <3>1, <3>2, <3>3
    <2>2. CASE Go(s, GoTo(co[s], "release")) /\ UNCHANGED in
      <3>1. in' = [in EXCEPT ![c] = more]
        BY <2>2 DEF ChatInv, Types
      <3>2. co' = [co EXCEPT ![s] = GoTo(co[s], "release")]
        BY <2>2 DEF Go
      <3> HIDE DEF c, more
      <3> QED BY <1>2, <1>6, <3>1, <3>2
    <2> QED BY <1>7, <2>1, <2>2 DEF read_nick, Input, Feeds
  <1>8. CASE Recv(s)
    <2>1. /\ q.at = "recv" /\ in' = [in EXCEPT ![c] = <<>>]
      BY <1>8 DEF Recv, Taken, Step
    <2>2. CASE more # <<>>
      <3>1. co' = [co EXCEPT ![s] = Feeds(co[s], more, "drain")]
        BY <1>8, <2>2 DEF Recv, Go, Input, Feeds
      <3>2. Unread("feed", more, <<>>, client[c].wrote, Heard[c])
        BY <1>3, <2>1
      <3> HIDE DEF c, more
      <3> QED BY <1>2, <1>5, <2>1, <3>1, <3>2
    <2>3. CASE more = <<>>
      <3>1. PICK to \in {"drain", "leave"} : co' = [co EXCEPT ![s] = GoTo(co[s], to)]
        <4>1. co' = [co EXCEPT ![s] = GoTo(co[s], IF AtEnd(s) THEN "leave" ELSE "drain")]
          BY <1>8, <2>3 DEF Recv, Go, Input
        <4> QED BY <4>1
      <3>2. Unread("feed", q.todo, <<>>, client[c].wrote, Heard[c])
        BY <1>3, <2>1, <2>3
      <3>3. Unread(to, q.todo, <<>>, client[c].wrote, Heard[c])
        BY <3>2, UnreadAt
      <3> HIDE DEF c, more
      <3> QED BY <1>4, <1>6, <2>1, <3>1, <3>3
    <2> QED BY <2>2, <2>3
  <1> QED BY <1>1, <1>7, <1>8
-----------------------------------------------------------------------------
(* A session shows a line to its client.                                   *)

LEMMA QueuedHead ==
    ASSUME NEW c, NEW mail \in Seq(Line), mail # <<>>, NEW q, NEW r, NEW last,
           Queued(c, mail, q, last), r.at = "send", r.line = Head(mail)
    PROVE  Queued(c, Tail(mail), r, last)
  <1>1. /\ 1 \in DOMAIN mail /\ Head(mail) = mail[1] /\ DOMAIN Tail(mail) \subseteq Nat \ {0}
        /\ \A j \in DOMAIN Tail(mail) : j + 1 \in DOMAIN mail /\ Tail(mail)[j] = mail[j + 1]
    BY TailOf
  <1>2. \A j \in DOMAIN Tail(mail) :
            /\ Tail(mail)[j].from \in Client \ {c}
            /\ Tail(mail)[j].k # Joined => last[Tail(mail)[j].from] < Tail(mail)[j].k
    BY <1>1 DEF Queued
  <1>3. \A i, j \in DOMAIN Tail(mail) :
            i < j /\ Tail(mail)[i].from = Tail(mail)[j].from /\ Tail(mail)[j].k # Joined
              => Tail(mail)[i].k < Tail(mail)[j].k
    <2> SUFFICES ASSUME NEW i \in DOMAIN Tail(mail), NEW j \in DOMAIN Tail(mail), i < j,
                        mail[i + 1].from = mail[j + 1].from, mail[j + 1].k # Joined
                 PROVE  mail[i + 1].k < mail[j + 1].k
      BY <1>1
    <2>1. i + 1 \in DOMAIN mail /\ j + 1 \in DOMAIN mail /\ i + 1 < j + 1
      BY <1>1
    <2> QED BY <2>1 DEF Queued
  <1>4. /\ r.line.from \in Client \ {c}
        /\ r.line.k # Joined => last[r.line.from] < r.line.k
    BY <1>1 DEF Queued
  <1>5. \A j \in DOMAIN Tail(mail) :
            Tail(mail)[j].from = r.line.from /\ Tail(mail)[j].k # Joined => r.line.k < Tail(mail)[j].k
    <2> SUFFICES ASSUME NEW j \in DOMAIN Tail(mail), mail[j + 1].from = mail[1].from,
                        mail[j + 1].k # Joined
                 PROVE  mail[1].k < mail[j + 1].k
      BY <1>1
    <2>1. 1 \in DOMAIN mail /\ j + 1 \in DOMAIN mail /\ 1 < j + 1
      BY <1>1
    <2> QED BY <2>1 DEF Queued
  <1> QED BY <1>2, <1>3, <1>4, <1>5 DEF Queued

LEMMA QueuedShown ==
    ASSUME NEW c, NEW mail, NEW q, NEW r, NEW last \in [Client -> (-1)..Left], NEW now,
           Sending(q), Queued(c, mail, q, last), now = [last EXCEPT ![q.line.from] = q.line.k],
           ~Sending(r) \/ (r.at = "sending" /\ r.line = q.line)
    PROVE  Queued(c, mail, r, now)
  <1>1. /\ q.line.from \in Client \ {c} /\ now[q.line.from] = q.line.k
        /\ \A d \in Client : d # q.line.from => now[d] = last[d]
    BY DEF Queued
  <1>2. \A j \in DOMAIN mail : /\ mail[j].from \in Client \ {c}
                               /\ mail[j].k # Joined => now[mail[j].from] < mail[j].k
    BY <1>1 DEF Queued
  <1>3. Sending(r) => r.at = "sending" /\ r.line = q.line
    OBVIOUS
  <1> QED BY <1>1, <1>2, <1>3 DEF Queued

LEMMA DrainStep ==
    ASSUME ChatInv, NEW s \in Slot, drain_mail(s)
    PROVE  ChatInv'
  <1> DEFINE q == [co[s] EXCEPT !.cut = FALSE]
             c == sess[s].who
             mail == sess[s].mail
             o == out[c]
             new == in[c]
  <1>1. /\ active = s /\ active' = active /\ co[s].at = "drain" /\ Used(s) /\ co[s] \in Co /\ s # None
        /\ in' = in /\ out' = out /\ client' = client
    BY Unfold DEF drain_mail, Step, Alive
  <1>2. q \in Co /\ q.todo = co[s].todo
    BY <1>1 DEF Co
  <1>3. CASE mail = <<>> /\ Go(s, GoTo(q, "wait")) /\ UNCHANGED sess
    <2> DEFINE r == GoTo(q, "wait")
    <2> HIDE DEF q
    <2>1. r \in Co /\ r.at = "wait" /\ r.st = "active" /\ r.todo = co[s].todo /\ ~Sending(r)
      BY <1>2, GoToIs DEF Places
    <2>2. co' = [co EXCEPT ![s] = r] /\ Stays
      BY <1>1, <1>3 DEF Go, Stays
    <2> HIDE DEF r
    <2> QED BY <1>1, <1>3, <2>1, <2>2, GoStep
  <1>4. CASE /\ mail # <<>> /\ Go(s, SendThen(q, Head(mail), "drain"))
             /\ sess' = [sess EXCEPT ![s].mail = Tail(@)]
    <2> DEFINE r == SendThen(q, Head(mail), "drain")
               tail == Tail(mail)
    <2>1. /\ c \in Client /\ mail \in Seq(Line) /\ o \in [last : [Client -> (-1)..Left], open : BOOLEAN]
          /\ sess[s] = [who |-> c, mail |-> mail] /\ Len(mail) <= Box /\ new \in Seq(0..Left)
          /\ Queued(c, mail, co[s], o.last)
          /\ Unread("drain", co[s].todo, new, client[c].wrote, Heard[c])
      <3>1. co[s].at # "release" /\ "drain" = co[s].at
        BY <1>1
      <3>2. Unread(co[s].at, co[s].todo, new, client[c].wrote, Heard[c])
        BY <1>1, <3>1, Unfold
      <3>3. Unread("drain", co[s].todo, new, client[c].wrote, Heard[c])
        BY <3>1, <3>2
      <3>4. /\ c \in Client /\ mail \in Seq(Line) /\ o \in [last : [Client -> (-1)..Left], open : BOOLEAN]
            /\ sess[s] = [who |-> c, mail |-> mail] /\ new \in Seq(0..Left)
            /\ Queued(c, mail, co[s], o.last) /\ Len(mail) <= Box
        BY <1>1, Unfold DEF Alive
      <3> QED BY <3>3, <3>4
    <2>2. /\ Head(mail) \in Line /\ 1 \in DOMAIN mail /\ Head(mail) = mail[1]
          /\ Tail(mail) \in Seq(Line) /\ Len(Tail(mail)) = Len(mail) - 1 /\ Len(mail) \in Nat
          /\ \A j \in DOMAIN Tail(mail) : j + 1 \in DOMAIN mail /\ Tail(mail)[j] = mail[j + 1]
      <3> HIDE DEF mail
      <3> QED BY <1>4, <2>1, TailOf
    <2>3. \A j \in DOMAIN mail : mail[j].k \in Heard[mail[j].from]
      BY <1>1, HeardMail
    <2>4. /\ sess' = [sess EXCEPT ![s] = [who |-> c, mail |-> tail]] /\ out' = [out EXCEPT ![c] = o]
          /\ in' = [in EXCEPT ![c] = new] /\ co' = [co EXCEPT ![s] = r] /\ c = sess[s].who
      <3>1. out' = [out EXCEPT ![c] = o] /\ in' = [in EXCEPT ![c] = new]
        BY <1>1, <2>1 DEF ChatInv, Types
      <3>2. co' = [co EXCEPT ![s] = r]
        BY <1>4 DEF Go
      <3>3. [sess[s] EXCEPT !.mail = tail] = [who |-> c, mail |-> tail]
        <4> HIDE DEF c, mail, tail
        <4> QED BY <2>1
      <3>4. sess' = [sess EXCEPT ![s] = [who |-> c, mail |-> tail]]
        BY <1>4, <3>3
      <3> QED BY <3>1, <3>2, <3>4
    <2>5. \A d \in Client : o.last[d] \in Heard[d]
      BY <2>1, HeardLast
    <2> HIDE DEF q, mail, o, new, c
    <2>6. /\ r \in Co /\ r.at = "send" /\ r.st = "active" /\ r.todo = co[s].todo /\ r.line = Head(mail)
      BY <1>2, <2>2, SendThenIs
    <2> HIDE DEF r
    <2>7. Queued(c, tail, r, o.last)
      BY <1>4, <2>1, <2>6, QueuedHead
    <2>8. \A j \in DOMAIN tail : tail[j].k \in Heard[tail[j].from]
      BY <2>2, <2>3
    <2>9. Unread("send", co[s].todo, new, client[c].wrote, Heard[c])
      BY <2>1, UnreadAt
    <2>10. tail \in Seq(Line) /\ Len(tail) <= Box
      BY <2>1, <2>2, Numbers
    <2>11. r.line.k \in Heard[r.line.from]
      BY <2>2, <2>3, <2>6
    <2> HIDE DEF tail
    <2>12. /\ client' = client /\ active \in {s, None} /\ active' \in {s, None}
           /\ r.at # "dead" /\ (r.st = "active" <=> active' = s) /\ (r.at = "wait" => r.st = "active")
           /\ (r.at = "wait" \/ (r.at = "woken" /\ r.st = "blocked") => r.cut = TRUE \/ tail = <<>>)
      BY <1>1, <2>6
    <2>13. r.at # "release" => /\ co[s].at # "release"
                               /\ Unread(r.at, r.todo, new, client[c].wrote, Heard[c])
      BY <1>1, <2>6, <2>9
    <2>14. Sending(r) => r.line.k \in Heard[r.line.from]
      BY <2>11
    <2>15. ChatInv /\ s \in Slot /\ Used(s)
      BY <1>1
    <2>16. /\ c \in Client /\ new \in Seq(0..Left) /\ r \in Co
           /\ o \in [last : [Client -> (-1)..Left], open : BOOLEAN]
      BY <2>1, <2>6
    <2>17. Writes(s, c, r, tail, o, new)
      BY <2>4 DEF Writes
    <2>18. c = sess[s].who
      BY <2>4
    <2> QED BY ONLY <2>18, <2>17, <2>5, <2>7, <2>8, <2>10, <2>12, <2>13, <2>14, <2>15, <2>16, OwnStep
  <1>5. q.cut = FALSE /\ (mail = <<>> \/ mail # <<>>)
    BY <1>1 DEF Co
  <1> QED BY <1>3, <1>4 DEF drain_mail

Kept == UNCHANGED <<sess, in>>

LEMMA ShownStep ==
    ASSUME ChatInv, NEW s \in Slot, active = s, Sending(co[s]), NEW r \in Co, NEW open \in BOOLEAN,
           NEW o, o = [last |-> [out[sess[s].who].last EXCEPT ![co[s].line.from] = co[s].line.k],
                       open |-> open],
           co' = [co EXCEPT ![s] = r], out' = [out EXCEPT ![sess[s].who] = o],
           Kept, client' = client, active' \in {s, None},
           r.at \notin {"dead", "wait", "woken", "start", "nick", "release"}, r.todo = co[s].todo,
           r.st = "active" <=> active' = s,
           ~Sending(r) \/ (r.at = "sending" /\ r.line = co[s].line)
    PROVE  ChatInv'
  <1> DEFINE c == sess[s].who
             mail == sess[s].mail
             new == in[c]
             q == co[s]
             last == out[c].last
  <1>1. q.at \in Sends /\ Used(s) /\ q.at \notin {"dead", "start", "nick", "release"}
    BY Unfold DEF Sending, Sends, Alive
  <1>2. /\ c \in Client /\ mail \in Seq(Line) /\ last \in [Client -> (-1)..Left]
        /\ sess[s] = [who |-> c, mail |-> mail] /\ Len(mail) <= Box /\ new \in Seq(0..Left)
        /\ Queued(c, mail, q, last) /\ q.line \in Line /\ q.line.from \in Client
        /\ q.line.k \in Heard[q.line.from]
        /\ Unread(q.at, q.todo, new, client[c].wrote, Heard[c])
    BY <1>1, Unfold, HeardSending DEF Alive
  <1>3. /\ sess' = [sess EXCEPT ![s] = [who |-> c, mail |-> mail]] /\ c = sess[s].who
        /\ in' = [in EXCEPT ![c] = new] /\ out' = [out EXCEPT ![c] = o]
    BY <1>2 DEF ChatInv, Types, Kept
  <1>4. \A d \in Client : last[d] \in Heard[d]
    BY <1>2, HeardLast
  <1>5. \A j \in DOMAIN mail : mail[j].k \in Heard[mail[j].from]
    BY <1>1, HeardMail
  <1>6. o.last = [last EXCEPT ![q.line.from] = q.line.k] /\ o.open = open
    OBVIOUS
  <1>7. q.line.k \in (-1)..Left
    BY <1>2, Numbers DEF Line
  <1>8. o \in [last : [Client -> (-1)..Left], open : BOOLEAN]
    BY <1>2, <1>7
  <1>9. /\ Sending(q) /\ q = co[s] /\ r.todo = q.todo
        /\ ~Sending(r) \/ (r.at = "sending" /\ r.line = q.line)
    OBVIOUS
  <1> HIDE DEF c, mail, new, q, last
  <1>10. \A d \in Client : o.last[d] \in Heard[d]
    BY <1>2, <1>4, <1>6
  <1>11. Queued(c, mail, r, o.last)
    BY <1>2, <1>6, <1>9, QueuedShown
  <1>12. Unread(r.at, r.todo, new, client[c].wrote, Heard[c])
    BY <1>1, <1>2, <1>9, UnreadAt
  <1>13. Sending(r) => r.line.k \in Heard[r.line.from]
    BY <1>2, <1>9
  <1>14. /\ active \in {s, None} /\ r.at # "dead" /\ (r.at = "wait" => r.st = "active")
         /\ (r.at = "wait" \/ (r.at = "woken" /\ r.st = "blocked") => r.cut = TRUE \/ mail = <<>>)
    OBVIOUS
  <1>15. r.at # "release" => /\ co[s].at # "release"
                             /\ Unread(r.at, r.todo, new, client[c].wrote, Heard[c])
    BY <1>1, <1>9, <1>12
  <1>16. Writes(s, c, r, mail, o, new)
    BY <1>1, <1>2, <1>3 DEF Writes
  <1> QED BY <1>1, <1>2, <1>3, <1>5, <1>8, <1>10, <1>11, <1>13, <1>14, <1>15, <1>16, OwnStep

LEMMA AllSentStep ==
    ASSUME ChatInv, NEW s \in Slot, active = s, co[s].at \in Sends, AllSent(s),
           Kept, UNCHANGED client
    PROVE  ChatInv'
  <1> DEFINE then == co[s].then
             r == GoTo(co[s], then)
             line == co[s].line
             c == sess[s].who
             o == [last |-> [out[c].last EXCEPT ![line.from] = line.k], open |-> FALSE]
  <1>1. co[s] \in Co /\ then \in {"drain", "feed", "join"}
    BY Unfold DEF Co
  <1>2. then \in Places
    BY <1>1 DEF Places
  <1>3. r \in Co /\ r.at = then /\ r.st = "active" /\ r.todo = co[s].todo /\ ~Sending(r)
    <2> HIDE DEF then
    <2> QED BY <1>1, <1>2, GoToIs
  <1>4. co' = [co EXCEPT ![s] = r] /\ active' = active
    BY DEF AllSent, Go
  <1>5. r.at \notin {"dead", "wait", "woken", "start", "nick", "release"}
    BY <1>1, <1>3
  <1>6. co[s].at \notin {"start", "nick", "release"}
    BY DEF Sends
  <1> HIDE DEF r, then
  <1>7. CASE line = Notice
    <2>1. Stays /\ in' = in
      BY <1>7 DEF AllSent, Shown, Stays, Kept
    <2> HIDE DEF line, c, o
    <2> QED BY <1>3, <1>4, <1>5, <1>6, <2>1, GoStep
  <1>8. CASE line # Notice
    <2>1. Sending(co[s])
      BY <1>8 DEF Sending
    <2>2. out' = [out EXCEPT ![c] = [last |-> [@.last EXCEPT ![line.from] = line.k], open |-> ~TRUE]]
      BY <1>8 DEF AllSent, Shown
    <2>3. out' = [out EXCEPT ![c] = o]
      BY <2>2
    <2>4. o = [last |-> [out[sess[s].who].last EXCEPT ![co[s].line.from] = co[s].line.k], open |-> FALSE]
      OBVIOUS
    <2>5. client' = client /\ active' \in {s, None} /\ (r.st = "active" <=> active' = s)
      BY <1>3, <1>4
    <2>6. out' = [out EXCEPT ![sess[s].who] = o]
      BY <2>3
    <2> HIDE DEF line, c, o
    <2>7. FALSE \in BOOLEAN
      OBVIOUS
    <2> QED BY <1>3, <1>4, <1>5, <2>1, <2>4, <2>5, <2>6, <2>7, ShownStep
  <1> QED BY <1>7, <1>8

LEMMA PartStep ==
    ASSUME ChatInv, NEW s \in Slot, active = s, co[s].at = "send", out' = Shown(s, FALSE),
           BlockAt(s, "sending"), Kept, UNCHANGED client
    PROVE  ChatInv'
  <1> DEFINE r == [co[s] EXCEPT !.at = "sending", !.st = "blocked", !.fd = FALSE]
             line == co[s].line
             c == sess[s].who
             o == [last |-> [out[c].last EXCEPT ![line.from] = line.k], open |-> TRUE]
  <1>1. co[s] \in Co /\ s # None /\ Used(s)
    BY Unfold DEF Alive
  <1>2. r \in Co /\ r.at = "sending" /\ r.st = "blocked" /\ r.todo = co[s].todo /\ r.line = line
    BY <1>1 DEF Co, Places
  <1>3. co' = [co EXCEPT ![s] = r] /\ active' = None
    BY DEF BlockAt, Go
  <1> HIDE DEF r
  <1>4. CASE line = Notice
    <2>1. Stays /\ in' = in
      BY <1>4 DEF Shown, Stays, Kept
    <2>2. ~Sending(r)
      BY <1>2, <1>4 DEF Sending
    <2>3. /\ r.at # "dead" /\ (r.st = "active" <=> active' = s) /\ (r.at = "wait" => r.st = "active")
          /\ (r.at = "wait" \/ (r.at = "woken" /\ r.st = "blocked") => r.cut = TRUE \/ sess[s].mail = <<>>)
          /\ active \in {s, None} /\ active' \in {s, None}
      BY <1>1, <1>2, <1>3
    <2>4. r.at # "release" => /\ co[s].at # "release" /\ r.todo = co[s].todo
                              /\ co[s].at \in {"start", "nick"} => r.at \in {"start", "nick"}
      BY <1>2
    <2>5. Sending(r) => Sending(co[s]) /\ r.line = co[s].line /\ (r.at = "send" <=> co[s].at = "send")
      BY <2>2
    <2> HIDE DEF line, c, o
    <2> QED BY <1>1, <1>2, <1>3, <2>1, <2>3, <2>4, <2>5, MoveStep
  <1>5. CASE line # Notice
    <2>1. Sending(co[s])
      BY <1>5 DEF Sending, Sends
    <2>2. out' = [out EXCEPT ![c] = [last |-> [@.last EXCEPT ![line.from] = line.k], open |-> ~FALSE]]
      BY <1>5 DEF Shown
    <2>3. out' = [out EXCEPT ![sess[s].who] = o]
      BY <2>2
    <2>4. o = [last |-> [out[sess[s].who].last EXCEPT ![co[s].line.from] = co[s].line.k], open |-> TRUE]
      OBVIOUS
    <2>5. client' = client /\ active' \in {s, None} /\ (r.st = "active" <=> active' = s)
      BY <1>1, <1>2, <1>3
    <2>6. r.at \notin {"dead", "wait", "woken", "start", "nick", "release"}
      BY <1>2
    <2>7. ~Sending(r) \/ (r.at = "sending" /\ r.line = co[s].line)
      BY <1>2
    <2> HIDE DEF line, c, o
    <2>8. TRUE \in BOOLEAN
      OBVIOUS
    <2> QED BY <1>2, <1>3, <2>1, <2>3, <2>4, <2>5, <2>6, <2>7, <2>8, ShownStep
  <1> QED BY <1>4, <1>5

LEMMA GivenUpStep ==
    ASSUME ChatInv, NEW s \in Slot, active = s, co[s].at \in Sends, GivenUp(s), Kept, UNCHANGED client
    PROVE  ChatInv'
  <1>1. /\ co[s] \in Co /\ co[s].at \notin {"start", "nick", "release"}
        /\ Stays /\ in' = in /\ active' = active
    BY Unfold DEF Sends, GivenUp, Stays, Kept
  <1>2. CASE co[s].line # Notice
    <2> DEFINE g == GoTo(co[s], "wait")
               r == [g EXCEPT !.cut = TRUE]
    <2>1. g \in Co /\ g.at = "wait" /\ g.st = "active" /\ g.todo = co[s].todo
      BY <1>1, GoToIs DEF Places
    <2>2. co' = [co EXCEPT ![s] = r]
      BY <1>2 DEF GivenUp, Failed, Go
    <2> HIDE DEF g
    <2>3. r \in Co /\ r.at = "wait" /\ r.st = "active" /\ r.todo = co[s].todo /\ r.cut = TRUE
      BY <2>1 DEF Co
    <2> HIDE DEF r
    <2>4. ~Sending(r)
      BY <2>3 DEF Sending, Sends
    <2> QED BY <1>1, <2>2, <2>3, <2>4, GoStep
  <1>3. CASE co[s].line = Notice
    <2> DEFINE to == IF co[s].then = "join" THEN "release" ELSE co[s].then
               r == GoTo(co[s], to)
    <2>1. to \in {"release", "drain", "feed"}
      BY <1>1 DEF Co
    <2>2. co' = [co EXCEPT ![s] = r]
      BY <1>3 DEF GivenUp, Failed, Go
    <2> HIDE DEF to
    <2>3. to \in Places
      BY <2>1 DEF Places
    <2>4. r \in Co /\ r.at = to /\ r.st = "active" /\ r.todo = co[s].todo /\ ~Sending(r)
      BY <1>1, <2>3, GoToIs
    <2> HIDE DEF r
    <2> QED BY <1>1, <2>1, <2>2, <2>4, GoStep
  <1> QED BY <1>2, <1>3

LEMMA SendStep ==
    ASSUME ChatInv, NEW s \in Slot, SendAll(s) \/ StSendReturns(s)
    PROVE  ChatInv'
  <1>1. Kept /\ UNCHANGED client /\ active = s /\ co[s].at \in Sends
    BY DEF SendAll, StSendReturns, Step, Kept, Sends
  <1>2. \/ AllSent(s) \/ GivenUp(s)
        \/ co[s].at = "send" /\ out' = Shown(s, FALSE) /\ BlockAt(s, "sending")
        \/ co[s].at \in {"sending", "late"} /\ UNCHANGED out /\ BlockAt(s, "late")
    BY DEF SendAll, StSendReturns, Step
  <1>3. CASE co[s].at \in {"sending", "late"} /\ UNCHANGED out /\ BlockAt(s, "late")
    <2>1. Stays /\ in' = in
      BY <1>1, <1>3 DEF Kept, Stays
    <2> QED BY <1>1, <1>3, <2>1, BlockStep DEF Sends
  <1> QED BY <1>1, <1>2, <1>3, AllSentStep, GivenUpStep, PartStep
-----------------------------------------------------------------------------
(* A broadcast.                                                            *)

LEMMA NotifyIs ==
    ASSUME NEW q \in Co
    PROVE  LET g == Notify(q)
           IN  /\ g \in Co /\ g.at = q.at /\ g.todo = q.todo /\ g.line = q.line /\ g.cut = q.cut
               /\ g.st # "blocked" /\ (g.st = "active" <=> q.st = "active")
  BY DEF Notify, Co

LEMMA QueuedPush ==
    ASSUME NEW c, NEW d \in Client, d # c, NEW mail \in Seq(Line), NEW q, NEW r, NEW last, NEW e \in Line,
           e.from = d, Queued(c, mail, q, last), r.at = q.at, r.line = q.line,
           e.k # Joined => /\ last[d] < e.k
                           /\ \A i \in DOMAIN mail : mail[i].from = d => mail[i].k < e.k
                           /\ Sending(q) /\ q.line.from = d => q.line.k < e.k
    PROVE  Queued(c, Append(mail, e), r, last)
  <1> DEFINE more == Append(mail, e)
             n == Len(mail) + 1
  <1>1. /\ DOMAIN mail = 1..Len(mail) /\ DOMAIN more = 1..n /\ Len(mail) \in Nat
        /\ \A j \in DOMAIN mail : more[j] = mail[j]
        /\ more[n] = e
    BY AppendOf
  <1>2. \A j \in DOMAIN more : j = n \/ (j \in DOMAIN mail /\ j < n)
    BY <1>1
  <1>3. Sending(r) <=> Sending(q)
    BY DEF Sending
  <1>4. \A j \in DOMAIN more : /\ more[j].from \in Client \ {c}
                               /\ more[j].k # Joined => last[more[j].from] < more[j].k
    <2> SUFFICES ASSUME NEW j \in DOMAIN more
                 PROVE  /\ more[j].from \in Client \ {c}
                        /\ more[j].k # Joined => last[more[j].from] < more[j].k
      OBVIOUS
    <2>1. CASE j = n
      BY <1>1, <2>1
    <2>2. CASE j \in DOMAIN mail
      BY <1>1, <2>2 DEF Queued
    <2> QED BY <1>2, <2>1, <2>2
  <1>5. \A i, j \in DOMAIN more :
            i < j /\ more[i].from = more[j].from /\ more[j].k # Joined => more[i].k < more[j].k
    <2> SUFFICES ASSUME NEW i \in DOMAIN more, NEW j \in DOMAIN more, i < j,
                        more[i].from = more[j].from, more[j].k # Joined
                 PROVE  more[i].k < more[j].k
      OBVIOUS
    <2>1. i \in DOMAIN mail
      BY <1>1
    <2>2. CASE j = n
      BY <1>1, <2>1, <2>2
    <2>3. CASE j \in DOMAIN mail
      BY <1>1, <2>1, <2>3 DEF Queued
    <2> QED BY <1>2, <2>2, <2>3
  <1>6. ASSUME Sending(r)
        PROVE  /\ r.line.from \in Client \ {c}
               /\ IF r.at = "send" THEN r.line.k # Joined => last[r.line.from] < r.line.k
                                   ELSE last[r.line.from] = r.line.k
               /\ \A j \in DOMAIN more :
                      more[j].from = r.line.from /\ more[j].k # Joined => r.line.k < more[j].k
    <2>1. /\ r.line.from \in Client \ {c}
          /\ IF r.at = "send" THEN r.line.k # Joined => last[r.line.from] < r.line.k
                              ELSE last[r.line.from] = r.line.k
          /\ \A j \in DOMAIN mail :
                 mail[j].from = r.line.from /\ mail[j].k # Joined => r.line.k < mail[j].k
      BY <1>3, <1>6 DEF Queued
    <2>2. e.k # Joined /\ q.line.from = d => q.line.k < e.k
      BY <1>3, <1>6
    <2> HIDE DEF more, n
    <2> QED BY <1>1, <1>2, <2>1, <2>2
  <1> HIDE DEF more
  <1>7. Queued(c, more, r, last)
    BY <1>4, <1>5, <1>6 DEF Queued
  <1> QED BY <1>7 DEF more

LEMMA BroadcastStep ==
    ASSUME ChatInv, NEW s \in Slot, active = s, NEW k \in 0..Left, NEW r \in Co, Broadcast(s, k, r),
           UNCHANGED <<active, in, out, client>>,
           r.at \notin {"dead", "wait", "woken"}, r.st = "active", ~Sending(r), co[s].at # "dead",
           k # Joined => \A h \in Heard[sess[s].who] : h < k,
           r.at # "release" => Unread(r.at, r.todo, in[sess[s].who], client[sess[s].who].wrote,
                                      Heard[sess[s].who] \cup {k})
    PROVE  ChatInv'
  <1> DEFINE c == sess[s].who
             e == Said(c, k)
             reached == {p \in Peers(s) : ~Full(p)}
  <1>1. /\ Used(s) /\ c \in Client /\ s # None /\ client[c].at # "new"
        /\ None \notin Client /\ None \notin Slot
    BY Unfold DEF Alive
  <1>2. e \in Line /\ e.from = c /\ e.k = k
    BY <1>1 DEF Said, Line
  <1>3. /\ reached \subseteq Slot \ {s}
        /\ \A p \in reached : Used(p) /\ Len(sess[p].mail) < Box
    <2>1. \A p \in reached : Len(sess[p].mail) \in Nat
      BY Unfold, LenProperties DEF Peers
    <2> QED BY <2>1, Numbers DEF Peers, Full
  <1>4. /\ sess' = [p \in Slot |-> IF p \in reached THEN [sess[p] EXCEPT !.mail = Append(@, e)] ELSE sess[p]]
        /\ co' = [p \in Slot |-> IF p = s THEN r ELSE IF p \in reached THEN Notify(co[p]) ELSE co[p]]
        /\ active' = active /\ in' = in /\ out' = out /\ client' = client
    BY DEF Broadcast, Push
  <1> HIDE DEF reached, e
  <1>5. \A p \in reached :
           /\ sess'[p].who = sess[p].who /\ sess'[p].mail = Append(sess[p].mail, e)
           /\ sess'[p] = [who |-> sess[p].who, mail |-> Append(sess[p].mail, e)]
           /\ co'[p] = Notify(co[p])
    <2> SUFFICES ASSUME NEW p \in reached
                 PROVE  /\ sess'[p].who = sess[p].who /\ sess'[p].mail = Append(sess[p].mail, e)
                        /\ sess'[p] = [who |-> sess[p].who, mail |-> Append(sess[p].mail, e)]
                        /\ co'[p] = Notify(co[p])
      OBVIOUS
    <2>1. p \in Slot /\ p # s
      BY <1>3
    <2>2. sess[p] = [who |-> sess[p].who, mail |-> sess[p].mail]
      BY <2>1, Unfold
    <2>3. sess'[p] = [sess[p] EXCEPT !.mail = Append(@, e)]
      BY <1>4, <2>1
    <2>4. co'[p] = Notify(co[p])
      BY <1>4, <2>1
    <2> QED BY <2>2, <2>3, <2>4
  <1>6. /\ co'[s] = r /\ sess'[s] = sess[s]
        /\ \A p \in Slot \ reached : sess'[p] = sess[p] /\ (p # s => co'[p] = co[p])
        /\ \A p \in Slot : sess'[p].who = sess[p].who
    BY <1>3, <1>4, <1>5
  <1>7. \A p \in Slot \ {s} : Used(p) => sess[p].who \in Client \ {c}
    <2>1. \A p \in Slot \ {s} : Used(p) => sess[p].who # c
      BY DEF ChatInv, OneSession
    <2> QED BY <2>1, Unfold
  <1>8. \A p \in reached : /\ co[p] \in Co /\ Notify(co[p]) \in Co
                           /\ sess[p].mail \in Seq(Line) /\ Append(sess[p].mail, e) \in Seq(Line)
                           /\ Len(Append(sess[p].mail, e)) = Len(sess[p].mail) + 1
                           /\ Len(sess[p].mail) \in Nat
                           /\ sess[p].who \in Client \cup {None}
    <2> SUFFICES ASSUME NEW p \in reached
                 PROVE  /\ co[p] \in Co /\ Notify(co[p]) \in Co
                        /\ sess[p].mail \in Seq(Line) /\ Append(sess[p].mail, e) \in Seq(Line)
                        /\ Len(Append(sess[p].mail, e)) = Len(sess[p].mail) + 1
                        /\ Len(sess[p].mail) \in Nat
                        /\ sess[p].who \in Client \cup {None}
      OBVIOUS
    <2>1. p \in Slot
      BY <1>3
    <2>2. co[p] \in Co /\ sess[p].mail \in Seq(Line) /\ sess[p].who \in Client \cup {None}
      BY <2>1, Unfold
    <2>3. Notify(co[p]) \in Co
      BY <2>2, NotifyIs
    <2>4. /\ Append(sess[p].mail, e) \in Seq(Line)
          /\ Len(Append(sess[p].mail, e)) = Len(sess[p].mail) + 1 /\ Len(sess[p].mail) \in Nat
      BY <1>2, <2>2, AppendOf
    <2> QED BY <2>2, <2>3, <2>4
  <1>9. \A p \in Slot \ {s} :
            /\ co'[p].at = co[p].at /\ co'[p].cut = co[p].cut /\ co'[p].todo = co[p].todo
            /\ co'[p].line = co[p].line
            /\ p \in reached => co'[p].st # "blocked" /\ (co'[p].st = "active" <=> co[p].st = "active")
    <2> SUFFICES ASSUME NEW p \in Slot \ {s}
                 PROVE  /\ co'[p].at = co[p].at /\ co'[p].cut = co[p].cut /\ co'[p].todo = co[p].todo
                        /\ co'[p].line = co[p].line
                        /\ p \in reached =>
                             co'[p].st # "blocked" /\ (co'[p].st = "active" <=> co[p].st = "active")
      OBVIOUS
    <2>1. CASE p \in reached
      <3> DEFINE g == Notify(co[p])
      <3>1. /\ g.at = co[p].at /\ g.cut = co[p].cut /\ g.todo = co[p].todo /\ g.line = co[p].line
            /\ g.st # "blocked" /\ (g.st = "active" <=> co[p].st = "active")
        <4>1. co[p] \in Co
          BY <1>8, <2>1
        <4> QED BY <4>1, NotifyIs
      <3>2. co'[p] = g
        BY <1>5, <2>1
      <3> HIDE DEF g
      <3> QED BY <3>1, <3>2
    <2>2. CASE p \notin reached
      BY <1>6, <2>2
    <2> QED BY <2>1, <2>2
  <1>10. Types'
    <2>1. sess' \in [Slot -> [who : Client \cup {None}, mail : Seq(Line)]]
      <3>1. ASSUME NEW p \in reached
            PROVE  sess'[p] \in [who : Client \cup {None}, mail : Seq(Line)]
        <4> DEFINE a == sess[p].who
                   m == Append(sess[p].mail, e)
        <4>1. sess'[p] = [who |-> a, mail |-> m] /\ a \in Client \cup {None} /\ m \in Seq(Line)
          BY <1>5, <1>8
        <4> HIDE DEF a, m
        <4> QED BY <4>1
      <3>2. \A p \in Slot \ reached : sess'[p] \in [who : Client \cup {None}, mail : Seq(Line)]
        BY <1>6 DEF ChatInv, Types
      <3> QED BY <1>4, <3>1, <3>2
    <2>2. co' \in [Slot -> Co]
      <3>1. \A p \in Slot : co'[p] \in Co
        BY <1>5, <1>6, <1>8 DEF ChatInv, Types
      <3> QED BY <1>4, <3>1
    <2> QED BY <1>4, <2>1, <2>2 DEF ChatInv, Types
  <1>11. AllAlive'
    <2> SUFFICES ASSUME NEW p \in Slot PROVE Alive(p)'
      BY DEF AllAlive
    <2>1. Alive(p)
      BY Unfold
    <2>2. CASE p = s
      BY <1>1, <1>4, <1>6, <2>1, <2>2 DEF Alive, Used
    <2>3. CASE p \in reached
      <3>1. /\ co'[p].at = co[p].at /\ co'[p].cut = co[p].cut /\ co'[p].st # "blocked"
            /\ (co'[p].st = "active" <=> co[p].st = "active")
        BY <1>3, <1>9, <2>3
      <3>2. sess'[p].who = sess[p].who /\ Used(p) /\ p # s /\ co[p].at # "dead" /\ co[p].at # "wait"
        <4>1. Used(p) /\ p # s /\ sess'[p].who = sess[p].who
          BY <1>3, <1>5, <2>3
        <4> QED BY <2>1, <4>1 DEF Alive
      <3>3. Len(sess'[p].mail) <= Box
        <4>1. Len(sess'[p].mail) = Len(sess[p].mail) + 1 /\ Len(sess[p].mail) \in Nat
          BY <1>5, <1>8, <2>3
        <4> QED BY <1>3, <2>3, <4>1, Numbers
      <3>4. active' = s
        BY <1>4
      <3> QED BY <1>4, <2>1, <3>1, <3>2, <3>3, <3>4 DEF Alive, Used
    <2>4. CASE p # s /\ p \notin reached
      BY <1>4, <1>6, <2>1, <2>4 DEF Alive, Used
    <2> QED BY <2>2, <2>3, <2>4
  <1>12. ASSUME NEW d \in Client
         PROVE  /\ Heard'[d] \subseteq Heard[d] \cup {k}
                /\ d # c => Heard'[d] \subseteq Heard[d]
    <2> SUFFICES ASSUME NEW h \in (-1)..Left,
                        \/ \E a \in Client : out'[a].last[d] = h
                        \/ \E p \in Slot : \E j \in DOMAIN sess'[p].mail : sess'[p].mail[j] = Said(d, h)
                        \/ \E p \in Slot : Sending(co'[p]) /\ co'[p].line = Said(d, h)
                 PROVE  h \in Heard[d] \/ (d = c /\ h = k)
      BY DEF Heard, Said, Sending
    <2>1. ASSUME NEW a \in Client, out'[a].last[d] = h
          PROVE  h \in Heard[d]
      BY <1>4, <2>1, HeardLast
    <2>2. ASSUME NEW p \in Slot, NEW j \in DOMAIN sess'[p].mail, sess'[p].mail[j] = Said(d, h)
          PROVE  h \in Heard[d] \/ (d = c /\ h = k)
      <3>1. CASE p \in reached
        <4> DEFINE mail == sess[p].mail
        <4>1. /\ DOMAIN Append(mail, e) = 1..(Len(mail) + 1) /\ DOMAIN mail = 1..Len(mail) /\ Len(mail) \in Nat
              /\ \A i \in DOMAIN mail : Append(mail, e)[i] = mail[i]
              /\ Append(mail, e)[Len(mail) + 1] = e
          <5>1. mail \in Seq(Line)
            BY <1>8, <3>1
          <5> HIDE DEF mail
          <5> QED BY <1>2, <5>1, AppendOf
        <4>2. sess'[p].mail = Append(mail, e)
          BY <1>5, <3>1
        <4>3. CASE j = Len(mail) + 1
          <5>1. e = Said(d, h)
            BY <2>2, <4>1, <4>2, <4>3
          <5> QED BY <1>2, <5>1 DEF Said
        <4>4. CASE j \in DOMAIN mail
          BY <2>2, <4>1, <4>2, <4>4 DEF Heard
        <4>5. j \in 1..(Len(mail) + 1)
          BY <4>1, <4>2
        <4> QED BY <4>1, <4>3, <4>4, <4>5
      <3>2. CASE p \notin reached
        BY <1>6, <2>2, <3>2 DEF Heard
      <3> QED BY <3>1, <3>2
    <2>3. ASSUME NEW p \in Slot, Sending(co'[p]), co'[p].line = Said(d, h)
          PROVE  h \in Heard[d]
      <3>1. p # s
        BY <1>6, <2>3
      <3>2. co'[p].at = co[p].at /\ co'[p].line = co[p].line
        BY <1>9, <3>1
      <3>3. Sending(co[p]) /\ co[p].line = Said(d, h)
        BY <2>3, <3>2 DEF Sending
      <3> QED BY <3>3 DEF Heard
    <2> QED BY <2>1, <2>2, <2>3
  <1>13. AllQueued'
    <2> SUFFICES ASSUME NEW p \in Slot, sess'[p].who # None
                 PROVE  Queued(sess'[p].who, sess'[p].mail, co'[p], out'[sess'[p].who].last)
      BY DEF AllQueued, Used, Queued, Sending
    <2>1. Used(p) /\ sess'[p].who = sess[p].who
      BY <1>6 DEF Used
    <2> DEFINE a == sess[p].who
               mail == sess[p].mail
               last == out[a].last
    <2>2. Queued(a, mail, co[p], last) /\ a \in Client /\ mail \in Seq(Line)
      BY <2>1, Unfold
    <2>3. CASE p = s
      <3>1. Queued(a, mail, r, last)
        BY <2>2 DEF Queued
      <3> QED BY <1>4, <1>6, <2>3, <3>1
    <2>4. CASE p \in reached
      <3> DEFINE g == Notify(co[p])
      <3>1. g.at = co[p].at /\ g.line = co[p].line
        BY <1>8, <2>4, NotifyIs
      <3>2. c # a
        BY <1>3, <1>7, <2>1, <2>4
      <3>3. last[c] \in Heard[c]
        BY <1>1, <2>2, HeardLast
      <3>4. \A i \in DOMAIN mail : mail[i].k \in Heard[mail[i].from]
        BY <2>1, HeardMail
      <3>5. Sending(co[p]) => co[p].line.k \in Heard[co[p].line.from]
        BY <2>1, HeardSending
      <3>6. e.k # Joined => /\ last[c] < e.k
                            /\ \A i \in DOMAIN mail : mail[i].from = c => mail[i].k < e.k
                            /\ Sending(co[p]) /\ co[p].line.from = c => co[p].line.k < e.k
        <4>1. k # Joined => \A h \in Heard[c] : h < k
          OBVIOUS
        <4> HIDE DEF a, mail, last, c
        <4> QED BY <1>2, <3>3, <3>4, <3>5, <4>1
      <3>7. sess'[p].mail = Append(mail, e) /\ co'[p] = g /\ out'[a].last = last
        BY <1>4, <1>5, <2>4
      <3> HIDE DEF a, mail, last, g, c
      <3>8. Queued(a, Append(mail, e), g, last)
        BY <1>1, <1>2, <2>2, <3>1, <3>2, <3>6, QueuedPush
      <3> QED BY <2>1, <3>7, <3>8 DEF a
    <2>5. CASE p # s /\ p \notin reached
      BY <1>4, <1>6, <2>1, <2>2, <2>5
    <2> QED BY <2>3, <2>4, <2>5
  <1>14. AllUnread'
    <2> SUFFICES ASSUME NEW p \in Slot, sess'[p].who # None, co'[p].at # "release"
                 PROVE  Unread(co'[p].at, co'[p].todo, in'[sess'[p].who], client'[sess'[p].who].wrote,
                               Heard'[sess'[p].who])
      BY DEF AllUnread, Used, Unread, Rising
    <2>1. CASE p = s
      <3>1. Unread(r.at, r.todo, in[c], client[c].wrote, Heard[c] \cup {k})
        BY <1>6, <2>1
      <3>2. Heard'[c] \subseteq Heard[c] \cup {k}
        BY <1>1, <1>12
      <3>3. Unread(r.at, r.todo, in[c], client[c].wrote, Heard'[c])
        BY <3>1, <3>2, UnreadFewer
      <3> QED BY <1>4, <1>6, <2>1, <3>3
    <2>2. CASE p # s
      <3> DEFINE d == sess[p].who
      <3>1. Used(p) /\ sess'[p].who = d /\ d \in Client \ {c}
        BY <1>6, <1>7, <2>2 DEF Used
      <3>2. co'[p].at = co[p].at /\ co'[p].todo = co[p].todo
        BY <1>9, <2>2
      <3>3. Unread(co[p].at, co[p].todo, in[d], client[d].wrote, Heard[d])
        BY <3>1, <3>2, Unfold
      <3>4. Heard'[d] \subseteq Heard[d]
        BY <1>12, <3>1
      <3>5. Unread(co[p].at, co[p].todo, in[d], client[d].wrote, Heard'[d])
        BY <3>3, <3>4, UnreadFewer
      <3> QED BY <1>4, <3>1, <3>2, <3>5
    <2> QED BY <2>1, <2>2
  <1>15. OneSession'
    BY <1>6 DEF ChatInv, OneSession, Used
  <1>16. NewIsQuiet'
    <2> SUFFICES ASSUME NEW d \in Client, client[d].at = "new"
                 PROVE  in[d] = <<>> /\ client[d].wrote = -1 /\ Heard'[d] \subseteq {-1}
      BY <1>4 DEF NewIsQuiet
    <2>1. d # c
      BY <1>1
    <2> QED BY <1>12, <2>1 DEF ChatInv, NewIsQuiet
  <1> QED BY <1>10, <1>11, <1>13, <1>14, <1>15, <1>16 DEF ChatInv

LEMMA ToldIs ==
    ASSUME NEW s, NEW q \in Co, NEW then \in {"drain", "feed"}
    PROVE  LET r == Told(s, q, then)
           IN  /\ r \in Co /\ r.at \in {"send", then} /\ r.st = "active" /\ r.todo = q.todo /\ ~Sending(r)
  <1> DEFINE a == SendThen(q, Notice, then)
             b == GoTo(q, then)
  <1>1. a \in Co /\ a.at = "send" /\ a.st = "active" /\ a.todo = q.todo /\ a.line = Notice
    BY DeadIs, SendThenIs
  <1>2. then \in Places
    BY DEF Places
  <1>3. b \in Co /\ b.at = then /\ b.st = "active" /\ b.todo = q.todo /\ ~Sending(b)
    BY <1>2, GoToIs
  <1>4. ~Sending(a)
    BY <1>1 DEF Sending
  <1>5. Told(s, q, then) \in {a, b}
    BY DEF Told
  <1> HIDE DEF a, b
  <1> QED BY <1>1, <1>3, <1>4, <1>5

\* A line that its session says is heard, and comes before all that it has not said.
LEMMA UnreadSaid ==
    ASSUME NEW at, at \notin {"start", "nick"}, NEW todo \in Seq(0..Left), NEW more \in Seq(0..Left),
           NEW wrote \in (-1)..Left, NEW heard \in SUBSET ((-1)..Left),
           Unread(at, todo, more, wrote, heard)
    PROVE  /\ Unread(at, todo, more, wrote, heard \cup {Joined})
           /\ \A h \in heard : h < Left
           /\ todo # <<>> /\ Head(todo) # Left =>
                /\ \A h \in heard : h < Head(todo)
                /\ Unread(at, Tail(todo), more, wrote, heard \cup {Head(todo)})
  <1>1. Unread(at, todo, more, wrote, heard \cup {Joined})
    <2>1. \A i \in DOMAIN more : 0 < more[i]
      BY DEF Unread
    <2> QED BY <2>1, Numbers DEF Unread
  <1>2. \A h \in heard : h < Left
    BY DEF Unread
  <1>3. ASSUME todo # <<>>, Head(todo) # Left
        PROVE  /\ \A h \in heard : h < Head(todo)
               /\ Unread(at, Tail(todo), more, wrote, heard \cup {Head(todo)})
    <2>1. /\ Head(todo) \in 0..Left /\ 1 \in DOMAIN todo /\ Head(todo) = todo[1]
          /\ \A j \in DOMAIN Tail(todo) : j + 1 \in DOMAIN todo /\ Tail(todo)[j] = todo[j + 1]
      BY <1>3, TailOf
    <2>2. /\ Rising(Tail(todo)) /\ \A i \in DOMAIN Tail(todo) : Head(todo) < Tail(todo)[i]
      BY <1>3, RisingTail DEF Unread
    <2>3. \A h \in heard : h < Head(todo)
      BY <2>1 DEF Unread
    <2>4. /\ Head(todo) < Left /\ Head(todo) <= wrote
          /\ \A i \in DOMAIN more : Head(todo) < more[i]
      BY <1>3, <2>1, Numbers DEF Unread
    <2>5. /\ \A i \in DOMAIN Tail(todo) : 0 < Tail(todo)[i] /\ Tail(todo)[i] <= wrote
          /\ \A i \in DOMAIN Tail(todo), j \in DOMAIN more : Tail(todo)[i] < more[j]
          /\ \A h \in heard : \A i \in DOMAIN Tail(todo) : h < Tail(todo)[i]
      BY <2>1 DEF Unread
    <2> QED BY <2>2, <2>3, <2>4, <2>5 DEF Unread
  <1> QED BY <1>1, <1>2, <1>3

LEMMA SayStep ==
    ASSUME ChatInv, NEW s \in Slot, feed(s) \/ Join(s) \/ Leave(s)
    PROVE  ChatInv'
  <1> DEFINE c == sess[s].who
             q == co[s]
             wrote == client[c].wrote
  <1>1. /\ active = s /\ UNCHANGED <<active, in, out, client>> /\ q.at \in {"feed", "join", "leave"}
        /\ Used(s) /\ q \in Co /\ s # None /\ q.at # "dead"
    BY Unfold DEF feed, Join, Leave, Step, Alive
  <1>2. /\ q.todo \in Seq(0..Left) /\ in[c] \in Seq(0..Left) /\ wrote \in (-1)..Left /\ c \in Client
        /\ Unread(q.at, q.todo, in[c], wrote, Heard[c])
    BY <1>1, Unfold DEF Co
  <1>3. Heard[c] \in SUBSET ((-1)..Left)
    BY <1>2 DEF Heard
  <1>4. /\ Unread(q.at, q.todo, in[c], wrote, Heard[c] \cup {Joined})
        /\ \A h \in Heard[c] : h < Left
        /\ q.todo # <<>> /\ Head(q.todo) # Left =>
             /\ \A h \in Heard[c] : h < Head(q.todo)
             /\ Unread(q.at, Tail(q.todo), in[c], wrote, Heard[c] \cup {Head(q.todo)})
    <2> HIDE DEF c, q, wrote
    <2> QED BY <1>1, <1>2, <1>3, UnreadSaid
  <1>5. ASSUME NEW k \in 0..Left, NEW r \in Co, Broadcast(s, k, r),
               r.at \in {"send", "feed", "drain", "release"}, r.st = "active", ~Sending(r),
               k # Joined => \A h \in Heard[c] : h < k,
               r.at # "release" => Unread(q.at, r.todo, in[c], wrote, Heard[c] \cup {k})
        PROVE  ChatInv'
    <2>1. r.at # "release" => Unread(r.at, r.todo, in[c], wrote, Heard[c] \cup {k})
      <3> HIDE DEF c, wrote
      <3> QED BY <1>1, <1>5, UnreadAt
    <2> QED BY <1>1, <1>5, <2>1, BroadcastStep
  <1>6. ASSUME NEW r \in Co, Go(s, r), UNCHANGED sess, r.at \in {"send", "drain", "leave"},
               r.st = "active", ~Sending(r), r.todo = q.todo
        PROVE  ChatInv'
    <2>1. co' = [co EXCEPT ![s] = r] /\ Stays /\ in' = in /\ active' = active
      BY <1>1, <1>6 DEF Go, Stays
    <2> QED BY <1>1, <1>6, <2>1, GoStep
  <1>7. CASE Join(s)
    <2> DEFINE r == Told(s, q, "drain")
    <2>1. r \in Co /\ r.at \in {"send", "drain"} /\ r.st = "active" /\ r.todo = q.todo /\ ~Sending(r)
      BY <1>1, ToldIs
    <2>2. Broadcast(s, Joined, r)
      BY <1>7 DEF Join
    <2>3. Joined \in 0..Left
      BY Numbers
    <2>4. Unread(q.at, r.todo, in[c], wrote, Heard[c] \cup {Joined})
      BY <1>4, <2>1
    <2> HIDE DEF r, q, c, wrote
    <2> QED BY <1>5, <2>1, <2>2, <2>3, <2>4
  <1>8. CASE Leave(s)
    <2> DEFINE r == GoTo(q, "release")
    <2>1. r \in Co /\ r.at = "release" /\ r.st = "active" /\ ~Sending(r)
      BY <1>1, GoToIs DEF Places
    <2>2. Broadcast(s, Left, r)
      BY <1>8 DEF Leave
    <2>3. Left \in 0..Left
      BY Numbers
    <2> HIDE DEF r, q, c, wrote
    <2> QED BY <1>4, <1>5, <2>1, <2>2, <2>3
  <1>9. CASE feed(s)
    <2> DEFINE next == [q EXCEPT !.todo = Tail(@)]
               r == Told(s, next, "feed")
    <2>1. CASE q.todo = <<>>
      <3>1. /\ Go(s, IF q.fed = "welcome" THEN SendThen(q, Notice, "join") ELSE GoTo(q, q.fed))
            /\ UNCHANGED sess
        BY <1>9, <2>1 DEF feed
      <3> DEFINE a == SendThen(q, Notice, "join")
                 b == GoTo(q, "drain")
      <3>2. Go(s, a) \/ Go(s, b)
        BY <1>1, <3>1 DEF Co
      <3>3. a \in Co /\ a.at = "send" /\ a.st = "active" /\ a.todo = q.todo /\ a.line = Notice
        BY <1>1, DeadIs, SendThenIs
      <3>4. b \in Co /\ b.at = "drain" /\ b.st = "active" /\ b.todo = q.todo /\ ~Sending(b)
        BY <1>1, GoToIs DEF Places
      <3>5. ~Sending(a)
        BY <3>3 DEF Sending
      <3> HIDE DEF a, b, q, c, wrote
      <3> QED BY <1>6, <3>1, <3>2, <3>3, <3>4, <3>5
    <2>2. CASE q.todo # <<>> /\ Head(q.todo) = Left
      <3> DEFINE b == GoTo(q, "leave")
      <3>1. Go(s, b) /\ UNCHANGED sess
        BY <1>9, <2>2 DEF feed
      <3>2. b \in Co /\ b.at = "leave" /\ b.st = "active" /\ b.todo = q.todo /\ ~Sending(b)
        BY <1>1, GoToIs DEF Places
      <3> HIDE DEF b, q, c, wrote
      <3> QED BY <1>6, <3>1, <3>2
    <2>3. CASE q.todo # <<>> /\ Head(q.todo) # Left
      <3>1. Broadcast(s, Head(q.todo), r)
        BY <1>9, <2>3 DEF feed
      <3>2. Head(q.todo) \in 0..Left /\ Tail(q.todo) \in Seq(0..Left)
        BY <1>2, <2>3, TailOf
      <3>3. next \in Co /\ next.todo = Tail(q.todo)
        BY <1>1, <3>2 DEF Co
      <3> HIDE DEF next
      <3>4. r \in Co /\ r.at \in {"send", "feed"} /\ r.st = "active" /\ r.todo = Tail(q.todo) /\ ~Sending(r)
        BY <3>3, ToldIs
      <3>5. /\ \A h \in Heard[c] : h < Head(q.todo)
            /\ Unread(q.at, r.todo, in[c], wrote, Heard[c] \cup {Head(q.todo)})
        BY <1>4, <2>3, <3>4
      <3> HIDE DEF r, q, c, wrote
      <3> QED BY <1>5, <3>1, <3>2, <3>4, <3>5
    <2> QED BY <2>1, <2>2, <2>3
  <1> QED BY <1>7, <1>8, <1>9
-----------------------------------------------------------------------------
(* The daemon, the clients, and the ends of a session.                     *)

LEMMA DaemonStep ==
    ASSUME ChatInv, NEW s \in Slot, Resume(s) \/ Dispatch(s) \/ Expire(s)
    PROVE  ChatInv'
  <1> DEFINE q == co[s]
  <1>1. /\ active = None /\ s # None /\ q \in Co /\ q.st \in {"blocked", "ready"} /\ Used(s)
        /\ q.at # "dead" /\ q.at # "wait" /\ Stays /\ in' = in
    BY Unfold DEF Resume, Dispatch, Expire, Alive, Stays
  <1>2. ASSUME NEW r \in Co, co' = [co EXCEPT ![s] = r], r.st \in {"active", "ready"},
               active' = IF r.st = "active" THEN s ELSE None,
               r.at = q.at \/ (q.at = "sending" /\ r.at = "late"), r.todo = q.todo, r.line = q.line
        PROVE  ChatInv'
    <2>1. /\ r.at # "dead" /\ (r.st = "active" <=> active' = s) /\ (r.at = "wait" => r.st = "active")
          /\ (r.at = "wait" \/ (r.at = "woken" /\ r.st = "blocked") => r.cut = TRUE \/ sess[s].mail = <<>>)
          /\ active \in {s, None} /\ active' \in {s, None}
      BY <1>1, <1>2
    <2>2. Sending(r) => Sending(co[s]) /\ r.line = co[s].line /\ (r.at = "send" <=> co[s].at = "send")
      BY <1>2 DEF Sending, Sends
    <2>3. r.at # "release" => /\ co[s].at # "release" /\ r.todo = co[s].todo
                              /\ co[s].at \in {"start", "nick"} => r.at \in {"start", "nick"}
      BY <1>2
    <2> QED BY <1>1, <1>2, <2>1, <2>2, <2>3, MoveStep
  <1>3. CASE Resume(s)
    <2> DEFINE r == [q EXCEPT !.st = "active"]
    <2>1. r \in Co /\ r.st = "active" /\ r.at = q.at /\ r.todo = q.todo /\ r.line = q.line
      BY <1>1 DEF Co
    <2>2. co' = [co EXCEPT ![s] = r] /\ active' = s
      BY <1>3 DEF Resume, Go
    <2> HIDE DEF r
    <2> QED BY <1>2, <2>1, <2>2
  <1>4. CASE Dispatch(s)
    <2> DEFINE r == [q EXCEPT !.fd = TRUE, !.st = "ready"]
    <2>1. r \in Co /\ r.st = "ready" /\ r.at = q.at /\ r.todo = q.todo /\ r.line = q.line
      BY <1>1 DEF Co
    <2>2. co' = [co EXCEPT ![s] = r] /\ active' = None
      BY <1>1, <1>4 DEF Dispatch, Go
    <2> HIDE DEF r
    <2> QED BY <1>2, <2>1, <2>2
  <1>5. CASE Expire(s)
    <2> DEFINE at == IF q.at = "sending" THEN "late" ELSE q.at
               r == [q EXCEPT !.st = "ready", !.at = at]
    <2>1. at \in Places /\ (at = q.at \/ (q.at = "sending" /\ at = "late"))
      BY <1>1 DEF Co, Places
    <2>2. r \in Co /\ r.st = "ready" /\ r.at = at /\ r.todo = q.todo /\ r.line = q.line
      <3> HIDE DEF at
      <3> QED BY <1>1, <2>1 DEF Co
    <2>3. co' = [co EXCEPT ![s] = r] /\ active' = None
      BY <1>1, <1>5 DEF Expire, Go
    <2> HIDE DEF r, at
    <2> QED BY <1>2, <2>1, <2>2, <2>3
  <1> QED BY <1>3, <1>4, <1>5

\* What is heard depends on the mailboxes, the coroutines and what was shown.
LEMMA HeardSame ==
    ASSUME UNCHANGED <<sess, co, out>>
    PROVE  Heard' = Heard
  BY DEF Heard, Sending

LEMMA UnreadMore ==
    ASSUME NEW at, NEW todo \in Seq(0..Left), NEW more \in Seq(0..Left), NEW wrote \in (-1)..Left,
           NEW heard \in SUBSET ((-1)..Left), wrote < Left, Unread(at, todo, more, wrote, heard)
    PROVE  Unread(at, todo, Append(more, wrote + 1), wrote + 1, heard)
  <1> DEFINE new == Append(more, wrote + 1)
             n == Len(more) + 1
  <1>1. wrote + 1 \in 0..Left
    BY Numbers
  <1>2. /\ DOMAIN more = 1..Len(more) /\ DOMAIN new = 1..n /\ Len(more) \in Nat
        /\ \A j \in DOMAIN more : new[j] = more[j]
        /\ new[n] = wrote + 1
    BY <1>1, AppendOf
  <1>3. /\ \A i \in DOMAIN more : more[i] \in 0..Left
        /\ \A i \in DOMAIN todo : todo[i] \in 0..Left
    BY ElementOfSeq, LenProperties
  <1>4. \A j \in DOMAIN new : (j = n /\ new[j] = wrote + 1) \/ (j \in DOMAIN more /\ j < n /\ new[j] = more[j])
    BY <1>2
  <1> HIDE DEF new
  <1>5. Rising(new)
    <2> SUFFICES ASSUME NEW i \in DOMAIN new, NEW j \in DOMAIN new, i < j
                 PROVE  new[i] < new[j]
      BY DEF Rising
    <2>1. i \in DOMAIN more /\ new[i] = more[i]
      BY <1>2, <1>4
    <2>2. CASE j = n
      BY <1>2, <1>3, <2>1, <2>2 DEF Unread
    <2>3. CASE j \in DOMAIN more
      BY <1>2, <2>1, <2>3 DEF Unread, Rising
    <2> QED BY <1>4, <2>2, <2>3
  <1>6. \A j \in DOMAIN new : new[j] <= wrote + 1 /\ \A i \in DOMAIN todo : todo[i] < new[j]
    BY <1>3, <1>4 DEF Unread
  <1>7. at \notin {"start", "nick"} => 0 <= wrote + 1 /\ \A j \in DOMAIN new : 0 < new[j]
    BY <1>3, <1>4 DEF Unread
  <1>8. \A k \in heard : k <= wrote + 1 /\ \A j \in DOMAIN new : k < new[j]
    BY <1>3, <1>4 DEF Unread
  <1>9. \A i \in DOMAIN todo : 0 < todo[i] /\ todo[i] <= wrote + 1
    BY <1>3 DEF Unread
  <1>10. Rising(todo) /\ \A k \in heard : k < Left /\ \A i \in DOMAIN todo : k < todo[i]
    BY DEF Unread
  <1>11. Unread(at, todo, new, wrote + 1, heard)
    BY <1>5, <1>6, <1>7, <1>8, <1>9, <1>10 DEF Unread
  <1> QED BY <1>11 DEF new

LEMMA ClientStep ==
    ASSUME ChatInv, NEW c \in Client, Write(c) \/ Close(c)
    PROVE  ChatInv'
  <1>1. /\ sess' = sess /\ co' = co /\ active' = active /\ out' = out /\ client[c].at = "on"
        /\ in[c] \in Seq(0..Left) /\ client[c].wrote \in (-1)..Left
        /\ client[c] \in [at : {"new", "on", "closing", "gone"}, wrote : (-1)..Left]
    BY DEF ChatInv, Types, Write, Close
  <1>2. PICK more \in Seq(0..Left), wrote \in (-1)..Left, at \in {"on", "closing"} :
            /\ in' = [in EXCEPT ![c] = more] /\ client' = [client EXCEPT ![c] = [at |-> at, wrote |-> wrote]]
            /\ \/ more = in[c] /\ wrote = client[c].wrote
               \/ /\ more = Append(in[c], client[c].wrote + 1) /\ wrote = client[c].wrote + 1
                  /\ client[c].wrote < Left
    <2>1. CASE Write(c)
      <3> DEFINE n == client[c].wrote + 1
                 more == Append(in[c], n)
      <3>1. client[c].wrote < Left /\ n \in 0..Left
        BY <1>1, <2>1, Numbers DEF Write
      <3>2. more \in Seq(0..Left)
        BY <1>1, <3>1, AppendOf
      <3>3. client' = [client EXCEPT ![c] = [at |-> "on", wrote |-> n]]
        <4>1. [client[c] EXCEPT !.wrote = n] = [at |-> "on", wrote |-> n]
          BY <1>1
        <4>2. client' = [client EXCEPT ![c] = [client[c] EXCEPT !.wrote = n]]
          BY <2>1 DEF Write
        <4> QED BY <4>1, <4>2
      <3>4. in' = [in EXCEPT ![c] = more]
        BY <2>1 DEF Write
      <3>5. n \in (-1)..Left
        BY <3>1
      <3> QED BY <3>1, <3>2, <3>3, <3>4, <3>5
    <2>2. CASE Close(c)
      <3> DEFINE n == client[c].wrote
                 more == in[c]
      <3>1. client' = [client EXCEPT ![c] = [at |-> "closing", wrote |-> n]]
        <4>1. [client[c] EXCEPT !.at = "closing"] = [at |-> "closing", wrote |-> n]
          BY <1>1
        <4>2. client' = [client EXCEPT ![c] = [client[c] EXCEPT !.at = "closing"]]
          BY <2>2 DEF Close
        <4> QED BY <4>1, <4>2
      <3>2. in' = [in EXCEPT ![c] = more]
        BY <2>2 DEF Close, ChatInv, Types
      <3> QED BY <1>1, <3>1, <3>2
    <2> QED BY <2>1, <2>2
  <1>3. /\ in'[c] = more /\ client'[c].at = at /\ client'[c].wrote = wrote
        /\ \A d \in Client \ {c} : in'[d] = in[d] /\ client'[d] = client[d]
    BY <1>2 DEF ChatInv, Types
  <1>4. Heard' = Heard
    BY <1>1, HeardSame
  <1>5. Types'
    BY <1>1, <1>2 DEF ChatInv, Types
  <1>6. AllAlive'
    <2> SUFFICES ASSUME NEW s \in Slot PROVE Alive(s)'
      BY DEF AllAlive
    <2>1. Alive(s) /\ sess[s].who \in Client \cup {None}
      BY Unfold
    <2> QED BY <1>1, <1>3, <2>1 DEF Alive, Used
  <1>7. AllQueued'
    BY <1>1 DEF ChatInv, AllQueued, Used, Queued, Sending
  <1>8. AllUnread'
    <2> SUFFICES ASSUME NEW s \in Slot, sess[s].who # None, co[s].at # "release"
                 PROVE  Unread(co[s].at, co[s].todo, in'[sess[s].who], client'[sess[s].who].wrote,
                               Heard[sess[s].who])
      BY <1>1, <1>4 DEF AllUnread, Used, Unread, Rising
    <2> DEFINE d == sess[s].who
    <2>1. /\ Used(s) /\ d \in Client /\ co[s].todo \in Seq(0..Left) /\ Heard[d] \in SUBSET ((-1)..Left)
          /\ Unread(co[s].at, co[s].todo, in[d], client[d].wrote, Heard[d])
      <3>1. Used(s)
        BY DEF Used
      <3>2. d \in Client /\ co[s] \in Co /\ Unread(co[s].at, co[s].todo, in[d], client[d].wrote, Heard[d])
        BY <3>1, Unfold
      <3>3. co[s].todo \in Seq(0..Left)
        BY <3>2 DEF Co
      <3>4. Heard[d] \in SUBSET ((-1)..Left)
        BY <3>2 DEF Heard
      <3> QED BY <3>1, <3>2, <3>3, <3>4
    <2>2. CASE d # c
      BY <1>3, <2>1, <2>2
    <2>3. CASE d = c
      <3>1. CASE more = in[c] /\ wrote = client[c].wrote
        BY <1>3, <2>1, <2>3, <3>1
      <3>2. CASE /\ more = Append(in[c], client[c].wrote + 1) /\ wrote = client[c].wrote + 1
                 /\ client[c].wrote < Left
        <4>1. Unread(co[s].at, co[s].todo, in[c], client[c].wrote, Heard[c])
          BY <2>1, <2>3
        <4>2. Heard[c] \in SUBSET ((-1)..Left)
          BY <2>1, <2>3
        <4>3. Unread(co[s].at, co[s].todo, Append(in[c], client[c].wrote + 1), client[c].wrote + 1, Heard[c])
          BY <1>1, <2>1, <3>2, <4>1, <4>2, UnreadMore
        <4> QED BY <1>3, <2>3, <3>2, <4>3
      <3> QED BY <1>2, <3>1, <3>2
    <2> QED BY <2>2, <2>3
  <1>9. OneSession'
    BY <1>1 DEF ChatInv, OneSession, Used
  <1>10. NewIsQuiet'
    BY <1>1, <1>3, <1>4 DEF ChatInv, NewIsQuiet
  <1> QED BY <1>5, <1>6, <1>7, <1>8, <1>9, <1>10 DEF ChatInv

LEMMA LeastIs ==
    ASSUME NEW S \in SUBSET Nat, S # {}
    PROVE  \E x \in S : \A y \in S : x <= y
  <1> DEFINE R == OpToRel(<, Nat)
  <1>1. IsWellFoundedOn(R, Nat)
    BY NatLessThanWellFounded
  <1>2. R = {p \in Nat \X Nat : p[1] < p[2]}
    BY DEF OpToRel
  <1> HIDE DEF R
  <1>3. PICK x \in S : \A y \in S : <<y, x>> \notin R
    BY <1>1, WFMin
  <1>4. \A y \in S : ~(y < x)
    BY <1>2, <1>3
  <1> QED BY <1>4

\* A client that comes gets the first free slot, or is turned away.
LEMMA AcceptStep ==
    ASSUME ChatInv, NEW c \in Client, accept_loop(c)
    PROVE  ChatInv'
  <1>1. /\ active = None /\ active' = None /\ in' = in /\ out' = out /\ client[c].at = "new"
        /\ in[c] = <<>> /\ client[c].wrote = -1 /\ Heard[c] \subseteq {-1}
        /\ None \notin Slot /\ None \notin Client
    BY ChatAssumption DEF ChatInv, NewIsQuiet, accept_loop
  <1>2. \A p \in Slot : Used(p) => sess[p].who \in Client \ {c}
    <2>1. \A p \in Slot : Used(p) => client[sess[p].who].at \in {"on", "closing"} /\ sess[p].who \in Client
      BY Unfold
    <2> QED BY <1>1, <2>1
  <1>3. PICK at \in {"on", "gone"} : client' = [client EXCEPT ![c].at = at]
    BY DEF accept_loop
  <1>4. /\ client'[c].at = at /\ client'[c].wrote = -1
        /\ \A d \in Client \ {c} : client'[d] = client[d]
        /\ client' \in [Client -> [at : {"new", "on", "closing", "gone"}, wrote : (-1)..Left]]
    BY <1>1, <1>3 DEF ChatInv, Types
  <1>5. CASE sess' = sess /\ co' = co
    <2>1. Heard' = Heard
      BY <1>1, <1>5, HeardSame
    <2>2. Types'
      BY <1>1, <1>4, <1>5 DEF ChatInv, Types
    <2>3. AllAlive'
      BY <1>1, <1>2, <1>4, <1>5 DEF ChatInv, AllAlive, Alive, Used
    <2>4. AllQueued'
      BY <1>1, <1>5 DEF ChatInv, AllQueued, Used, Queued, Sending
    <2>5. AllUnread'
      <3> SUFFICES ASSUME NEW s \in Slot, sess[s].who # None, co[s].at # "release"
                   PROVE  Unread(co[s].at, co[s].todo, in[sess[s].who], client'[sess[s].who].wrote,
                                 Heard[sess[s].who])
        BY <1>1, <1>5, <2>1 DEF AllUnread, Used, Unread, Rising
      <3>1. Used(s)
        BY DEF Used
      <3> QED BY <1>2, <1>4, <3>1, Unfold
    <2>6. OneSession'
      BY <1>5 DEF ChatInv, OneSession, Used
    <2>7. NewIsQuiet'
      BY <1>1, <1>3, <1>4, <2>1 DEF ChatInv, NewIsQuiet
    <2> QED BY <2>2, <2>3, <2>4, <2>5, <2>6, <2>7 DEF ChatInv
  <1>6. ASSUME NEW s \in Slot, ~Used(s), at = "on",
               sess' = [sess EXCEPT ![s] = [Unused EXCEPT !.who = c]],
               Go(s, [Dead EXCEPT !.at = "start", !.st = "ready"])
        PROVE  ChatInv'
    <2> DEFINE r == [Dead EXCEPT !.at = "start", !.st = "ready"]
    <2>1. r \in Co /\ r.at = "start" /\ r.st = "ready" /\ r.todo = <<>> /\ ~Sending(r)
      <3>1. r \in Co /\ r.at = "start" /\ r.st = "ready" /\ r.todo = <<>>
        BY DeadIs DEF Co, Dead, Places
      <3> HIDE DEF r
      <3> QED BY <3>1 DEF Sending, Sends
    <2>2. /\ sess' = [sess EXCEPT ![s] = [who |-> c, mail |-> <<>>]] /\ co' = [co EXCEPT ![s] = r]
      <3>1. [Unused EXCEPT !.who = c] = [who |-> c, mail |-> <<>>]
        BY DEF Unused
      <3> QED BY <1>6, <3>1 DEF Go
    <2> HIDE DEF r
    <2>3. /\ co'[s] = r /\ sess'[s].who = c /\ sess'[s].mail = <<>>
          /\ \A p \in Slot \ {s} : co'[p] = co[p] /\ sess'[p] = sess[p]
      BY <2>2 DEF ChatInv, Types
    <2>4. Len(<<>>) = 0 /\ DOMAIN <<>> = {} /\ <<>> \in Seq(Line) /\ c # None
      BY <1>1, EmptyIs
    <2>5. Types'
      BY <1>1, <1>4, <2>1, <2>2, <2>4 DEF ChatInv, Types
    <2>6. AllAlive'
      <3> SUFFICES ASSUME NEW p \in Slot PROVE Alive(p)'
        BY DEF AllAlive
      <3>1. CASE p = s
        BY <1>1, <1>4, <1>6, <2>1, <2>3, <2>4, <3>1, Numbers DEF Alive, Used
      <3>2. CASE p # s
        <4>1. Alive(p) /\ (Used(p) => sess[p].who \in Client \ {c})
          BY <1>2, Unfold
        <4> QED BY <1>1, <1>4, <2>3, <3>2, <4>1 DEF Alive, Used
      <3> QED BY <3>1, <3>2
    <2>7. ASSUME NEW d \in Client
          PROVE  Heard'[d] \subseteq Heard[d]
      <3> SUFFICES ASSUME NEW k \in (-1)..Left,
                          \/ \E e \in Client : out'[e].last[d] = k
                          \/ \E p \in Slot : \E j \in DOMAIN sess'[p].mail : sess'[p].mail[j] = Said(d, k)
                          \/ \E p \in Slot : Sending(co'[p]) /\ co'[p].line = Said(d, k)
                   PROVE  k \in Heard[d]
        BY DEF Heard, Said, Sending
      <3> QED BY <1>1, <2>1, <2>3, <2>4 DEF Heard
    <2>8. AllQueued'
      <3> SUFFICES ASSUME NEW p \in Slot, sess'[p].who # None
                   PROVE  Queued(sess'[p].who, sess'[p].mail, co'[p], out'[sess'[p].who].last)
        BY DEF AllQueued, Used, Queued, Sending
      <3>1. CASE p = s
        BY <2>1, <2>3, <2>4, <3>1 DEF Queued
      <3>2. CASE p # s
        <4>1. Used(p) /\ co'[p] = co[p] /\ sess'[p] = sess[p]
          BY <2>3, <3>2 DEF Used
        <4>2. Queued(sess[p].who, sess[p].mail, co[p], out[sess[p].who].last)
          BY <4>1, Unfold
        <4> QED BY <1>1, <4>1, <4>2
      <3> QED BY <3>1, <3>2
    <2>9. AllUnread'
      <3> SUFFICES ASSUME NEW p \in Slot, sess'[p].who # None, co'[p].at # "release"
                   PROVE  Unread(co'[p].at, co'[p].todo, in'[sess'[p].who], client'[sess'[p].who].wrote,
                                 Heard'[sess'[p].who])
        BY DEF AllUnread, Used, Unread, Rising
      <3>1. CASE p = s
        <4>1. Heard'[c] \subseteq {-1}
          BY <1>1, <2>7
        <4>2. Unread("start", <<>>, <<>>, -1, Heard'[c])
          BY <2>4, <4>1, Numbers DEF Unread, Rising
        <4> QED BY <1>1, <1>4, <2>1, <2>3, <3>1, <4>2
      <3>2. CASE p # s
        <4> DEFINE d == sess[p].who
        <4>1. /\ Used(p) /\ co'[p] = co[p] /\ sess'[p] = sess[p] /\ d \in Client \ {c}
          BY <1>2, <2>3, <3>2 DEF Used
        <4>2. Unread(co[p].at, co[p].todo, in[d], client[d].wrote, Heard[d])
          BY <4>1, Unfold
        <4>3. Heard'[d] \subseteq Heard[d]
          BY <2>7, <4>1
        <4>4. Unread(co[p].at, co[p].todo, in[d], client[d].wrote, Heard'[d])
          BY <4>2, <4>3, UnreadFewer
        <4> QED BY <1>1, <1>4, <4>1, <4>4
      <3> QED BY <3>1, <3>2
    <2>10. OneSession'
      <3> SUFFICES ASSUME NEW p \in Slot, NEW q \in Slot, sess'[p].who # None, sess'[p].who = sess'[q].who
                   PROVE  p = q
        BY DEF OneSession, Used
      <3>1. p # s /\ q # s => p = q
        BY <2>3 DEF ChatInv, OneSession, Used
      <3>2. p # s => sess'[p].who # c
        BY <1>2, <2>3 DEF Used
      <3>3. q # s /\ sess'[q].who # None => sess'[q].who # c
        BY <1>2, <2>3 DEF Used
      <3> QED BY <2>3, <2>4, <3>1, <3>2, <3>3
    <2>11. NewIsQuiet'
      BY <1>1, <1>3, <1>4, <2>7 DEF ChatInv, NewIsQuiet
    <2> QED BY <2>5, <2>6, <2>8, <2>9, <2>10, <2>11 DEF ChatInv
  <1>7. CASE FreeSlots = {}
    BY <1>5, <1>7 DEF accept_loop
  <1>8. CASE FreeSlots # {}
    <2> DEFINE s == CHOOSE s \in FreeSlots : \A p \in FreeSlots : s <= p
    <2>1. /\ sess' = [sess EXCEPT ![s] = [Unused EXCEPT !.who = c]]
          /\ Go(s, [Dead EXCEPT !.at = "start", !.st = "ready"])
          /\ client' = [client EXCEPT ![c].at = "on"]
      BY <1>8 DEF accept_loop
    <2>2. s \in FreeSlots
      <3>1. FreeSlots \in SUBSET Nat /\ FreeSlots # {}
        BY <1>8, ChatAssumption DEF FreeSlots
      <3>2. \E s0 \in FreeSlots : \A p \in FreeSlots : s0 <= p
        BY <3>1, LeastIs
      <3> QED BY <3>2
    <2>3. at = "on"
      BY <1>4, <2>1 DEF ChatInv, Types
    <2>4. s \in Slot /\ ~Used(s)
      BY <2>2 DEF FreeSlots
    <2> HIDE DEF s
    <2> QED BY <1>6, <2>1, <2>3, <2>4
  <1> QED BY <1>7, <1>8

LEMMA ReleaseStep ==
    ASSUME ChatInv, NEW s \in Slot, release_session(s)
    PROVE  ChatInv'
  <1> DEFINE c == sess[s].who
  <1>1. /\ active = s /\ active' = None /\ out' = out /\ Used(s) /\ c \in Client
        /\ None \notin Slot /\ None \notin Client /\ s # None
        /\ sess' = [sess EXCEPT ![s] = Unused] /\ co' = [co EXCEPT ![s] = Dead]
        /\ client' = [client EXCEPT ![c].at = "gone"] /\ in' = [in EXCEPT ![c] = <<>>]
    BY Unfold DEF release_session, Step, Alive, Go, Taken
  <1>2. /\ co'[s] = Dead /\ sess'[s].who = None /\ sess'[s].mail = <<>> /\ client'[c].at = "gone"
        /\ \A p \in Slot \ {s} : co'[p] = co[p] /\ sess'[p] = sess[p]
        /\ \A d \in Client \ {c} : client'[d] = client[d] /\ in'[d] = in[d]
    BY <1>1 DEF ChatInv, Types, Unused
  <1>3. \A p \in Slot \ {s} : Used(p) => sess[p].who \in Client \ {c}
    <2>1. \A p \in Slot \ {s} : Used(p) => sess[p].who # c
      BY <1>1 DEF ChatInv, OneSession
    <2> QED BY <2>1, Unfold
  <1> HIDE DEF c
  <1>4. Types'
    <2>1. Unused \in [who : Client \cup {None}, mail : Seq(Line)]
      BY EmptyIs DEF Unused
    <2>2. sess' \in [Slot -> [who : Client \cup {None}, mail : Seq(Line)]]
      BY <1>1, <2>1 DEF ChatInv, Types
    <2>3. co' \in [Slot -> Co]
      BY <1>1, DeadIs DEF ChatInv, Types
    <2>4. client' \in [Client -> [at : {"new", "on", "closing", "gone"}, wrote : (-1)..Left]]
      BY <1>1 DEF ChatInv, Types
    <2>5. in' \in [Client -> Seq(0..Left)]
      BY <1>1, EmptyIs DEF ChatInv, Types
    <2>6. out' \in [Client -> [last : [Client -> (-1)..Left], open : BOOLEAN]]
      BY <1>1 DEF ChatInv, Types
    <2> QED BY <1>1, <2>2, <2>3, <2>4, <2>5, <2>6 DEF Types
  <1>5. AllAlive'
    <2> SUFFICES ASSUME NEW p \in Slot PROVE Alive(p)'
      BY DEF AllAlive
    <2>1. CASE p = s
      <3>1. Len(<<>>) <= Box /\ Dead.at = "dead" /\ Dead.st = "active"
        BY EmptyIs, Numbers, DeadIs
      <3> QED BY <1>1, <1>2, <2>1, <3>1 DEF Alive, Used
    <2>2. CASE p # s
      <3>1. Alive(p) /\ (Used(p) => sess[p].who \in Client \ {c})
        BY <1>3, <2>2, Unfold
      <3> QED BY <1>1, <1>2, <2>2, <3>1 DEF Alive, Used
    <2> QED BY <2>1, <2>2
  <1>6. ASSUME NEW d \in Client
        PROVE  Heard'[d] \subseteq Heard[d]
    <2> SUFFICES ASSUME NEW k \in (-1)..Left,
                        \/ \E e \in Client : out'[e].last[d] = k
                        \/ \E p \in Slot : \E j \in DOMAIN sess'[p].mail : sess'[p].mail[j] = Said(d, k)
                        \/ \E p \in Slot : Sending(co'[p]) /\ co'[p].line = Said(d, k)
                 PROVE  k \in Heard[d]
      BY DEF Heard, Said, Sending
    <2>1. ~Sending(Dead) /\ DOMAIN <<>> = {}
      BY DeadIs, EmptyIs DEF Sending
    <2> QED BY <1>1, <1>2, <2>1 DEF Heard
  <1>7. AllQueued'
    <2> SUFFICES ASSUME NEW p \in Slot, sess'[p].who # None
                 PROVE  Queued(sess'[p].who, sess'[p].mail, co'[p], out'[sess'[p].who].last)
      BY DEF AllQueued, Used, Queued, Sending
    <2>1. Used(p) /\ co'[p] = co[p] /\ sess'[p] = sess[p]
      BY <1>2 DEF Used
    <2>2. Queued(sess[p].who, sess[p].mail, co[p], out[sess[p].who].last)
      BY <2>1, Unfold
    <2> QED BY <1>1, <2>1, <2>2
  <1>8. AllUnread'
    <2> SUFFICES ASSUME NEW p \in Slot, sess'[p].who # None, co'[p].at # "release"
                 PROVE  Unread(co'[p].at, co'[p].todo, in'[sess'[p].who], client'[sess'[p].who].wrote,
                               Heard'[sess'[p].who])
      BY DEF AllUnread, Used, Unread, Rising
    <2> DEFINE d == sess[p].who
    <2>1. /\ Used(p) /\ co'[p] = co[p] /\ sess'[p] = sess[p] /\ d \in Client \ {c}
      <3>1. p # s
        BY <1>2
      <3> QED BY <1>2, <1>3, <3>1 DEF Used
    <2>2. Unread(co[p].at, co[p].todo, in[d], client[d].wrote, Heard[d])
      BY <2>1, Unfold
    <2>3. Heard'[d] \subseteq Heard[d]
      BY <1>6, <2>1
    <2>4. Unread(co[p].at, co[p].todo, in[d], client[d].wrote, Heard'[d])
      BY <2>2, <2>3, UnreadFewer
    <2> QED BY <1>2, <2>1, <2>4
  <1>9. OneSession'
    <2> SUFFICES ASSUME NEW p \in Slot, NEW q \in Slot, sess'[p].who # None, sess'[p].who = sess'[q].who
                 PROVE  p = q
      BY DEF OneSession, Used
    <2>1. p # s /\ q # s
      BY <1>2
    <2> QED BY <1>2, <2>1 DEF ChatInv, OneSession, Used
  <1>10. NewIsQuiet'
    <2> SUFFICES ASSUME NEW d \in Client, client'[d].at = "new"
                 PROVE  in'[d] = <<>> /\ client'[d].wrote = -1 /\ Heard'[d] \subseteq {-1}
      BY DEF NewIsQuiet
    <2>1. d # c
      BY <1>2
    <2> QED BY <1>2, <1>6, <2>1 DEF ChatInv, NewIsQuiet
  <1> QED BY <1>4, <1>5, <1>7, <1>8, <1>9, <1>10 DEF ChatInv
-----------------------------------------------------------------------------
(* The invariant and what follows from it.                                 *)

LEMMA ChatInit == Init => ChatInv
  <1> SUFFICES ASSUME Init PROVE ChatInv
    OBVIOUS
  <1>1. Unused \in [who : Client \cup {None}, mail : Seq(Line)]
    BY EmptyIs DEF Unused
  <1>2. NoOut \in [last : [Client -> (-1)..Left], open : BOOLEAN] /\ \A d \in Client : NoOut.last[d] = -1
    BY Numbers DEF NoOut
  <1>3. /\ \A s \in Slot : sess[s] = Unused /\ co[s] = Dead
        /\ \A c \in Client : in[c] = <<>> /\ out[c] = NoOut /\ client[c] = [at |-> "new", wrote |-> -1]
        /\ active = None /\ None \notin Slot
    BY ChatAssumption DEF Init
  <1>4. Unused.who = None /\ Unused.mail = <<>> /\ Len(<<>>) = 0 /\ DOMAIN <<>> = {}
    BY EmptyIs DEF Unused
  <1>5. Types
    <2>1. sess \in [Slot -> [who : Client \cup {None}, mail : Seq(Line)]] /\ co \in [Slot -> Co]
      BY <1>1, DeadIs DEF Init
    <2>2. in \in [Client -> Seq(0..Left)]
      BY EmptyIs DEF Init
    <2>3. out \in [Client -> [last : [Client -> (-1)..Left], open : BOOLEAN]]
      BY <1>2 DEF Init
    <2>4. client \in [Client -> [at : {"new", "on", "closing", "gone"}, wrote : (-1)..Left]]
      BY Numbers DEF Init
    <2> QED BY <1>3, <2>1, <2>2, <2>3, <2>4 DEF Types
  <1>6. \A s \in Slot : ~Used(s)
    BY <1>3, <1>4 DEF Used
  <1>7. AllAlive
    BY <1>3, <1>4, <1>6, DeadIs, Numbers DEF AllAlive, Alive
  <1>8. \A d \in Client : Heard[d] \subseteq {-1}
    <2>1. ~Sending(Dead)
      BY DeadIs DEF Sending
    <2> QED BY <1>2, <1>3, <1>4, <2>1 DEF Heard
  <1>9. NewIsQuiet
    BY <1>3, <1>8 DEF NewIsQuiet
  <1>10. AllQueued /\ AllUnread /\ OneSession
    BY <1>6 DEF AllQueued, AllUnread, OneSession
  <1> QED BY <1>5, <1>7, <1>9, <1>10 DEF ChatInv

LEMMA ChatNext == ChatInv /\ [Next]_vars => ChatInv'
  <1> SUFFICES ASSUME ChatInv, [Next]_vars PROVE ChatInv'
    OBVIOUS
  <1>1. CASE UNCHANGED vars
    <2>1. /\ sess' = sess /\ co' = co /\ active' = active /\ in' = in /\ out' = out /\ client' = client
          /\ Heard' = Heard
      BY <1>1, HeardSame DEF vars
    <2>2. Types' /\ AllAlive' /\ OneSession' /\ NewIsQuiet'
      BY <2>1 DEF ChatInv, Types, AllAlive, Alive, OneSession, NewIsQuiet, Used
    <2>3. AllQueued'
      BY <2>1 DEF ChatInv, AllQueued, Queued, Sending, Used
    <2>4. AllUnread'
      BY <2>1 DEF ChatInv, AllUnread, Unread, Rising, Used
    <2> QED BY <2>2, <2>3, <2>4 DEF ChatInv
  <1>2. ASSUME NEW s \in Slot, Run(s)
        PROVE  ChatInv'
    <2>1. CASE Start(s)
      BY <2>1, StartStep
    <2>2. CASE read_nick(s) \/ Recv(s)
      BY <2>2, ReadStep
    <2>3. CASE feed(s) \/ Join(s) \/ Leave(s)
      BY <2>3, SayStep
    <2>4. CASE drain_mail(s)
      BY <2>4, DrainStep
    <2>5. CASE StWait(s) \/ StWaitReturns(s)
      BY <2>5, StWaitStep
    <2>6. CASE SendAll(s) \/ StSendReturns(s)
      BY <2>6, SendStep
    <2>7. CASE release_session(s)
      BY <2>7, ReleaseStep
    <2> QED BY <1>2, <2>1, <2>2, <2>3, <2>4, <2>5, <2>6, <2>7 DEF Run
  <1>3. ASSUME NEW s \in Slot, Resume(s) \/ Dispatch(s) \/ Expire(s)
        PROVE  ChatInv'
    BY <1>3, DaemonStep
  <1>4. ASSUME NEW c \in Client, accept_loop(c)
        PROVE  ChatInv'
    BY <1>4, AcceptStep
  <1>5. ASSUME NEW c \in Client, Write(c) \/ Close(c)
        PROVE  ChatInv'
    BY <1>5, ClientStep
  <1> QED BY <1>1, <1>2, <1>3, <1>4, <1>5 DEF Next

\* Whatever the number of sessions and clients: the state of the chat room is one that
\* the code can be in, as far as who is heard of what goes.
THEOREM ChatInvariant == Spec => []ChatInv
  <1>1. Init => ChatInv
    BY ChatInit
  <1>2. ChatInv /\ [Next]_vars => ChatInv'
    BY ChatNext
  <1> QED BY <1>1, <1>2, PTL DEF Spec

\* A session that sleeps in st_wait has shown its client all the lines it was handed, but
\* for a line that could not be sent: between the last look into the mailbox (drain_mail)
\* and the wait no broadcast is missed, for st_notify leaves its mark on a coroutine that
\* does not wait yet, and wakes one that does.
THEOREM MailSeenAlways == Spec => []MailSeen
  <1>1. ChatInv => MailSeen
    <2> SUFFICES ASSUME ChatInv PROVE MailSeen
      OBVIOUS
    <2>1. active \in Slot \cup {None}
      BY DEF ChatInv, Types
    <2>2. \A s \in Slot : Len(sess[s].mail) <= Box /\ (Used(s) <=> co[s].at # "dead")
      BY DEF ChatInv, AllAlive, Alive
    <2>3. \A s \in Slot : co[s].at = "woken" /\ co[s].st = "blocked" /\ ~co[s].cut => sess[s].mail = <<>>
      BY DEF ChatInv, AllAlive, Alive
    <2> QED BY <2>1, <2>2, <2>3 DEF MailSeen
  <1> QED BY <1>1, ChatInvariant, PTL

\* What a client has been shown of another one only goes on: what a session sends is
\* behind everything its client saw of the same writer, through dropped lines, mailboxes
\* that were emptied, and sends that were cut.
THEOREM InOrderAlways == Spec => InOrder
  <1> DEFINE Goes == \A c, d \in Client : out'[c].last[d] # out[c].last[d] =>
                         c # d /\ (out'[c].last[d] > out[c].last[d] \/ out'[c].last[d] = Joined)
  <1>1. ChatInv /\ [Next]_vars => [Goes]_vars
    <2> SUFFICES ASSUME ChatInv, Next PROVE Goes
      BY DEF Goes
    <2>1. CASE out' = out
      BY <2>1
    <2>2. ASSUME NEW s \in Slot, active = s, co[s].at \in Sends,
                 out' = Shown(s, TRUE) \/ out' = Shown(s, FALSE)
          PROVE  Goes
      <3> DEFINE who == sess[s].who
                 line == co[s].line
                 last == out[who].last
      <3>1. CASE line = Notice
        BY <2>1, <2>2, <3>1 DEF Shown
      <3>2. CASE line # Notice
        <4>1. Used(s) /\ Sending(co[s])
          BY <2>2, <3>2, Unfold DEF Sending, Sends, Alive
        <4>2. /\ who \in Client /\ Queued(who, sess[s].mail, co[s], last) /\ last \in [Client -> (-1)..Left]
              /\ line \in Line
          BY <4>1, Unfold, HeardSending
        <4>3. /\ line.from \in Client \ {who}
              /\ \/ line.k = Joined \/ last[line.from] < line.k \/ last[line.from] = line.k
          BY <4>1, <4>2 DEF Queued
        <4>4. /\ out'[who].last = [last EXCEPT ![line.from] = line.k]
              /\ \A c \in Client \ {who} : out'[c] = out[c]
          <5>1. PICK all \in BOOLEAN :
                    out' = [out EXCEPT ![who] = [last |-> [last EXCEPT ![line.from] = line.k], open |-> ~all]]
            <6>1. \/ out' = [out EXCEPT ![who] = [last |-> [last EXCEPT ![line.from] = line.k], open |-> ~TRUE]]
                  \/ out' = [out EXCEPT ![who] = [last |-> [last EXCEPT ![line.from] = line.k], open |-> ~FALSE]]
              BY <2>2, <3>2 DEF Shown
            <6> QED BY <6>1
          <5>2. out \in [Client -> [last : [Client -> (-1)..Left], open : BOOLEAN]]
            BY DEF ChatInv, Types
          <5> HIDE DEF who, line, last
          <5> QED BY <4>2, <5>1, <5>2
        <4> HIDE DEF who, line, last
        <4>5. \A d \in Client : out'[who].last[d] # last[d] =>
                  who # d /\ (out'[who].last[d] > last[d] \/ out'[who].last[d] = Joined)
          <5> SUFFICES ASSUME NEW d \in Client, out'[who].last[d] # last[d]
                       PROVE  who # d /\ (out'[who].last[d] > last[d] \/ out'[who].last[d] = Joined)
            OBVIOUS
          <5>1. d = line.from /\ out'[who].last[d] = line.k
            BY <4>2, <4>4
          <5>2. line.k \in 0..Left /\ last[d] \in (-1)..Left
            BY <4>2 DEF Line
          <5> QED BY <4>3, <5>1, <5>2, Numbers
        <4> QED BY <4>4, <4>5 DEF last
      <3> QED BY <3>1, <3>2
    <2>3. \/ out' = out
          \/ \E s \in Slot : /\ active = s /\ co[s].at \in Sends
                             /\ out' = Shown(s, TRUE) \/ out' = Shown(s, FALSE)
      BY DEF Next, Run, Start, read_nick, feed, Join, drain_mail, StWait, StWaitReturns, Recv, SendAll,
             StSendReturns, Leave, release_session, Resume, Dispatch, Expire, accept_loop, Write, Close,
             AllSent, GivenUp, Step, Sends
    <2> QED BY <2>1, <2>2, <2>3
  <1>2. ChatInv /\ [Next]_vars => [\A c, d \in Client : out'[c].last[d] # out[c].last[d] =>
           c # d /\ (out'[c].last[d] > out[c].last[d] \/ out'[c].last[d] = Joined)]_vars
    BY <1>1
  <1> QED BY <1>2, ChatInvariant, PTL DEF Spec, InOrder
=============================================================================

----------------------------- MODULE StHooks_proofs -----------------------------
(***************************************************************************)
(* That the hooked system calls own the items they register, give each     *)
(* descriptor the time-outs and the blocking its user asked for, and wait  *)
(* with an item, for any numbers of coroutines, descriptors and items.     *)
(***************************************************************************)
EXTENDS StHooks, TLAPS

Info == [inuse : BOOLEAN, unblock : BOOLEAN, read : Nat, write : Nat, item : Item \cup {None}]
Times == [read : Nat, write : Nat]
Outcome == {"none", "over", "EAGAIN", "EINVAL", "refused", "stopped"}

Types ==
    /\ info \in [Fd -> Info]
    /\ table \in [Fd -> Item \cup {None}] /\ own \in [Fd -> Item \cup {None}]
    /\ used \subseteq Item /\ lost \subseteq Item
    /\ kernel \in [Fd -> {"closed", "block", "nonblock"}] /\ hooked \in BOOLEAN
    /\ call \in [Thread -> [fd : Fd \cup {None}, op : Ops \cup {"none"}, res : Item \cup {"none"}]]
    /\ result \in [Thread -> [fd : Fd \cup {None}, op : Ops \cup {"none"}, res : Outcome]]
    /\ asked \in [Fd -> {"none", "accepted", "block", "nonblock"}]
    /\ set \in [Fd -> Times]

\* An item that is used is lost, or has exactly one owner: the hooks or a connection,
\* for one descriptor.
Owned(i) == i \in lost \/ \E fd \in Fd : i = info[fd].item \/ i = own[fd]
OneOwner ==
    /\ \A i \in Item : i \in used <=> Owned(i)
    /\ \A fd \in Fd : own[fd] \notin lost /\ info[fd].item \notin lost
    /\ \A fd, gd \in Fd :
         /\ info[fd].item # None => info[fd].item # own[gd]
         /\ info[fd].item # None /\ info[fd].item = info[gd].item => fd = gd
         /\ own[fd] # None /\ own[fd] = own[gd] => fd = gd

\* What the event table has for a descriptor is the item of one of its owners, or
\* was once.
Placed == \A fd \in Fd : table[fd] \in {None, info[fd].item, own[fd]} \cup lost

\* A coroutine waits with the item of the table, and alone.
Waiting ==
    \A t \in Thread : ~Runs(t) =>
        /\ call[t].fd \in Fd /\ call[t].res = table[call[t].fd] /\ call[t].res \in Item
        /\ \A u \in Thread : ~Runs(u) /\ call[u].fd = call[t].fd => u = t

\* A descriptor that is closed has no record, no item and no history.
Blank ==
    \A fd \in Fd :
        /\ ~Open(fd) => /\ info[fd].inuse = FALSE /\ own[fd] = None
                        /\ asked[fd] = "none" /\ set[fd] = NoSet
        /\ info[fd].inuse = FALSE => info[fd].item = None

\* The kernel does what the user asked for, and without that, what the hooks did.
Wishes ==
    \A fd \in Fd : /\ asked[fd] \in {"block", "nonblock"} => kernel[fd] = asked[fd]
                   /\ info[fd].inuse /\ asked[fd] \in {"none", "accepted"} => kernel[fd] = "nonblock"

HookInv == Types /\ OneOwner /\ Placed /\ Waiting /\ Blank /\ Wishes /\ TimeoutsAreItsOwn

-----------------------------------------------------------------------------
(* Records.                                                                *)

LEMMA Records ==
    /\ NotInUse \in Info /\ NotInUse.inuse = FALSE /\ NotInUse.item = None
    /\ NewFd \in Info /\ NewFd.inuse = TRUE /\ NewFd.unblock = FALSE /\ NewFd.item = None
    /\ NewFd.read = Default /\ NewFd.write = Default
    /\ NoSet \in Times /\ NoSet.read = Default /\ NoSet.write = Default
  <1>1. NotInUse \in Info /\ NotInUse.inuse = FALSE /\ NotInUse.item = None /\ NotInUse.unblock = FALSE
    BY DEF NotInUse, Info
  <1>2. /\ NewFd \in Info /\ NewFd.inuse = TRUE /\ NewFd.unblock = FALSE /\ NewFd.item = None
        /\ NewFd.read = Default /\ NewFd.write = Default
    BY <1>1, HookAssumption DEF NewFd, Info
  <1>3. NoSet \in Times /\ NoSet.read = Default /\ NoSet.write = Default
    BY HookAssumption DEF NoSet, Times
  <1> QED BY <1>1, <1>2, <1>3

LEMMA Marked ==
    ASSUME NEW r \in Info
    PROVE  LET m == [r EXCEPT !.unblock = TRUE]
           IN  /\ m \in Info /\ m.unblock = TRUE /\ m.inuse = r.inuse /\ m.item = r.item
               /\ m.read = r.read /\ m.write = r.write
  BY DEF Info

LEMMA Equipped ==
    ASSUME NEW r \in Info, NEW i \in Item
    PROVE  LET m == [r EXCEPT !.item = i]
           IN  /\ m \in Info /\ m.unblock = r.unblock /\ m.inuse = r.inuse /\ m.item = i
               /\ m.read = r.read /\ m.write = r.write
  BY DEF Info

LEMMA Timed ==
    ASSUME NEW r \in Info, NEW s \in Times, NEW which \in {"read", "write"}, NEW ms \in Nat,
           r.read = s.read, r.write = s.write
    PROVE  LET m == [r EXCEPT ![which] = ms]
               n == [s EXCEPT ![which] = ms]
           IN  /\ m \in Info /\ m.unblock = r.unblock /\ m.inuse = r.inuse /\ m.item = r.item
               /\ n \in Times /\ m.read = n.read /\ m.write = n.write
  <1>1. CASE which = "read"
    BY <1>1 DEF Info, Times
  <1>2. CASE which = "write"
    BY <1>2 DEF Info, Times
  <1> QED BY <1>1, <1>2

-----------------------------------------------------------------------------
(* Opening and closing.                                                    *)

\* A record for a descriptor that was closed.
LEMMA Opened ==
    ASSUME HookInv, NEW fd \in Fd, ~Open(fd),
           UNCHANGED <<table, own, used, hooked, call, result, set, lost>>,
           NEW r \in Info, r.item = None, NEW k \in {"block", "nonblock"}, NEW a \in {"none", "accepted"},
           info' = [info EXCEPT ![fd] = r], kernel' = [kernel EXCEPT ![fd] = k],
           asked' = [asked EXCEPT ![fd] = a],
           r.inuse => r.read = Default /\ r.write = Default /\ (r.unblock => a # "none") /\ k = "nonblock"
    PROVE  HookInv'
  <1>1. /\ \A gd \in Fd \ {fd} : info'[gd] = info[gd] /\ kernel'[gd] = kernel[gd] /\ asked'[gd] = asked[gd]
        /\ info'[fd] = r /\ kernel'[fd] = k /\ asked'[fd] = a /\ info[fd].item = None
        /\ own[fd] = None /\ set[fd] = NoSet
    BY DEF HookInv, Types, Blank
  <1>2. Types'
    BY DEF HookInv, Types
  <1>3. \A gd \in Fd : info'[gd].item = info[gd].item
    BY <1>1
  <1>4. OneOwner' /\ Placed'
    BY <1>3 DEF HookInv, OneOwner, Owned, Placed
  <1>5. Waiting'
    BY DEF HookInv, Waiting, Runs
  <1>6. Blank' /\ Wishes'
    <2> SUFFICES ASSUME NEW gd \in Fd
                 PROVE  /\ kernel'[gd] = "closed" =>
                             /\ info'[gd].inuse = FALSE /\ own[gd] = None
                             /\ asked'[gd] = "none" /\ set[gd] = NoSet
                        /\ info'[gd].inuse = FALSE => info'[gd].item = None
                        /\ asked'[gd] \in {"block", "nonblock"} => kernel'[gd] = asked'[gd]
                        /\ info'[gd].inuse /\ asked'[gd] \in {"none", "accepted"} => kernel'[gd] = "nonblock"
      BY DEF Blank, Wishes, Open
    <2>1. CASE gd = fd
      BY <1>1, <2>1
    <2>2. CASE gd # fd
      BY <1>1, <2>2 DEF HookInv, Blank, Wishes, Open
    <2> QED BY <2>1, <2>2
  <1>7. TimeoutsAreItsOwn'
    <2> SUFFICES ASSUME NEW gd \in Fd, kernel'[gd] # "closed", info'[gd].inuse
                 PROVE  /\ info'[gd].read = set[gd].read /\ info'[gd].write = set[gd].write
                        /\ info'[gd].unblock => asked'[gd] # "none"
      BY DEF TimeoutsAreItsOwn, Open
    <2>1. CASE gd = fd
      BY <1>1, <2>1, Records
    <2>2. CASE gd # fd
      BY <1>1, <2>2 DEF HookInv, TimeoutsAreItsOwn, Open
    <2> QED BY <2>1, <2>2
  <1> QED BY <1>2, <1>4, <1>5, <1>6, <1>7 DEF HookInv
LEMMA SocketStep ==
    ASSUME HookInv, NEW fd \in Fd, sys_socket(fd)
    PROVE  HookInv'
  <1>1. /\ asked' = [asked EXCEPT ![fd] = "none"] /\ ~Open(fd)
        /\ UNCHANGED <<table, own, used, hooked, call, result, set, lost>>
        /\ info[fd] \in Info /\ info[fd].inuse = FALSE /\ info[fd].item = None
    BY DEF sys_socket, HookInv, Types, Blank, history
  <1>2. CASE info' = [info EXCEPT ![fd] = NewFd] /\ kernel' = [kernel EXCEPT ![fd] = "nonblock"]
    BY <1>1, <1>2, Records, Opened
  <1>3. CASE UNCHANGED info /\ kernel' = [kernel EXCEPT ![fd] = "block"]
    <2> DEFINE r == info[fd]
    <2>1. info' = [info EXCEPT ![fd] = r]
      BY <1>3 DEF HookInv, Types
    <2>2. r \in Info /\ r.inuse = FALSE /\ r.item = None
      BY <1>1
    <2> HIDE DEF r
    <2> QED BY <1>1, <1>3, <2>1, <2>2, Opened
  <1> QED BY <1>2, <1>3 DEF sys_socket

LEMMA AcceptStep ==
    ASSUME HookInv, NEW fd \in Fd, sys_accept(fd)
    PROVE  HookInv'
  <1> DEFINE r == [NewFd EXCEPT !.unblock = TRUE]
  <1>1. r \in Info /\ r.item = None /\ r.inuse /\ r.read = Default /\ r.write = Default
    <2> HIDE DEF r
    <2>1. NewFd \in Info /\ NewFd.inuse = TRUE /\ NewFd.item = None /\ NewFd.read = Default /\ NewFd.write = Default
      BY Records
    <2> QED BY <2>1, Marked DEF r
  <1>2. /\ ~Open(fd) /\ info' = [info EXCEPT ![fd] = r]
        /\ kernel' = [kernel EXCEPT ![fd] = "nonblock"]
        /\ asked' = [asked EXCEPT ![fd] = "accepted"]
        /\ UNCHANGED <<table, own, used, hooked, call, result, set, lost>>
    BY DEF sys_accept
  <1> HIDE DEF r
  <1> QED BY <1>1, <1>2, Opened

LEMMA CloseStep ==
    ASSUME HookInv, NEW fd \in Fd, sys_close(fd)
    PROVE  HookInv'
  <1> DEFINE i == info[fd].item
  <1>1. /\ own[fd] = None /\ UNCHANGED <<own, hooked, call, result, lost>>
        /\ kernel' = [kernel EXCEPT ![fd] = "closed"]
        /\ asked' = [asked EXCEPT ![fd] = "none"] /\ set' = [set EXCEPT ![fd] = NoSet]
        /\ \A t \in Thread : call[t].fd # fd
    BY DEF sys_close, Idle
  <1>2. i \in Item \cup {None}
    BY DEF HookInv, Types, Info
  <1>3. /\ \A gd \in Fd \ {fd} : info'[gd] = info[gd] /\ table'[gd] = table[gd]
        /\ info'[fd] \in Info /\ info'[fd].inuse = FALSE /\ info'[fd].item = None
        /\ info' \in [Fd -> Info] /\ table' \in [Fd -> Item \cup {None}]
        /\ \/ table'[fd] = None
           \/ table'[fd] = table[fd] /\ (table[fd] = i => i = None)
        /\ used' = used \ {i}
    <2>1. CASE info[fd].inuse
      <3>1. info' = [info EXCEPT ![fd] = NotInUse] /\ used' = used \ {i}
        BY <2>1 DEF sys_close, FreedInfo
      <3>2. table' = IF i = None \/ table[fd] # i THEN table ELSE [table EXCEPT ![fd] = None]
        BY <2>1 DEF sys_close, ReleasedTable
      <3> HIDE DEF i
      <3> QED BY <3>1, <3>2, Records DEF HookInv, Types
    <2>2. CASE ~info[fd].inuse
      <3>1. info[fd].inuse = FALSE
        BY <2>2 DEF HookInv, Types, Info
      <3>2. UNCHANGED <<info, table, used>> /\ i = None
        BY <2>2, <3>1 DEF sys_close, HookInv, Blank
      <3>3. used' = used \ {i}
        BY <3>2, HookAssumption DEF HookInv, Types
      <3> QED BY <3>1, <3>2, <3>3 DEF HookInv, Types
    <2> QED BY <2>1, <2>2
  <1>4. \A gd \in Fd \ {fd} : kernel'[gd] = kernel[gd] /\ asked'[gd] = asked[gd] /\ set'[gd] = set[gd]
    BY <1>1 DEF HookInv, Types
  <1>5. kernel'[fd] = "closed" /\ asked'[fd] = "none" /\ set'[fd] = NoSet
    BY <1>1 DEF HookInv, Types
  <1>6. Types'
    BY <1>1, <1>3, Records DEF HookInv, Types
  <1>7. \A gd \in Fd : info'[gd].item = IF gd = fd THEN None ELSE info[gd].item
    BY <1>3
  <1> HIDE DEF i
  <1>8. i # None => i \notin lost /\ \A gd \in Fd : own[gd] # i /\ (info[gd].item = i => gd = fd)
    BY <1>1 DEF HookInv, OneOwner, i
  <1>9. OneOwner'
    <2>1. \A j \in Item : j \in used' <=> Owned(j)'
      <3> SUFFICES ASSUME NEW j \in Item
                   PROVE  j \in used \ {i} <=>
                            j \in lost \/ \E gd \in Fd : j = info'[gd].item \/ j = own[gd]
        BY <1>1, <1>3 DEF Owned
      <3>1. j \in used <=> j \in lost \/ \E gd \in Fd : j = info[gd].item \/ j = own[gd]
        BY DEF HookInv, OneOwner, Owned
      <3> QED BY <1>7, <1>8, <3>1, HookAssumption DEF i
    <2>2. None \notin lost
      BY HookAssumption DEF HookInv, Types
    <2>3. \A gd \in Fd : own[gd] \notin lost /\ info'[gd].item \notin lost
      BY <1>7, <2>2 DEF HookInv, OneOwner
    <2>4. \A gd, hd \in Fd :
            /\ info'[gd].item # None => info'[gd].item # own[hd]
            /\ info'[gd].item # None /\ info'[gd].item = info'[hd].item => gd = hd
            /\ own[gd] # None /\ own[gd] = own[hd] => gd = hd
      BY <1>7 DEF HookInv, OneOwner
    <2> QED BY <1>1, <2>1, <2>3, <2>4 DEF OneOwner
  <1>10. Placed'
    <2> SUFFICES ASSUME NEW gd \in Fd PROVE table'[gd] \in {None, info'[gd].item, own[gd]} \cup lost
      BY <1>1 DEF Placed
    <2>1. table[gd] \in {None, info[gd].item, own[gd]} \cup lost
      BY DEF HookInv, Placed
    <2>2. CASE gd = fd
      BY <1>1, <1>3, <1>7, <2>1, <2>2 DEF i
    <2>3. CASE gd # fd
      BY <1>3, <1>7, <2>1, <2>3
    <2> QED BY <2>2, <2>3
  <1>11. Waiting'
    <2>1. \A t \in Thread : ~Runs(t) => table'[call[t].fd] = table[call[t].fd]
      BY <1>1, <1>3 DEF HookInv, Waiting
    <2> QED BY <1>1, <2>1 DEF HookInv, Waiting, Runs
  <1>12. Blank' /\ Wishes'
    <2> SUFFICES ASSUME NEW gd \in Fd
                 PROVE  /\ kernel'[gd] = "closed" =>
                             /\ info'[gd].inuse = FALSE /\ own[gd] = None
                             /\ asked'[gd] = "none" /\ set'[gd] = NoSet
                        /\ info'[gd].inuse = FALSE => info'[gd].item = None
                        /\ asked'[gd] \in {"block", "nonblock"} => kernel'[gd] = asked'[gd]
                        /\ info'[gd].inuse /\ asked'[gd] \in {"none", "accepted"} => kernel'[gd] = "nonblock"
      BY <1>1 DEF Blank, Wishes, Open
    <2>1. CASE gd = fd
      BY <1>1, <1>3, <1>5, <2>1
    <2>2. CASE gd # fd
      BY <1>3, <1>4, <2>2 DEF HookInv, Blank, Wishes, Open
    <2> QED BY <2>1, <2>2
  <1>13. TimeoutsAreItsOwn'
    BY <1>3, <1>4, <1>5 DEF HookInv, TimeoutsAreItsOwn, Open
  <1> QED BY <1>6, <1>9, <1>10, <1>11, <1>12, <1>13 DEF HookInv

LEMMA ShutdownStep ==
    ASSUME HookInv, NEW fd \in Fd, sys_shutdown(fd)
    PROVE  HookInv'
  <1> DEFINE i == info[fd].item
  <1>1. /\ kernel[fd] # "closed" /\ UNCHANGED <<table, own, used, kernel, hooked, call, result, asked, set>>
        /\ info' = [info EXCEPT ![fd] = NotInUse] /\ lost' = lost \cup ({i} \ {None})
    BY DEF sys_shutdown, FreedInfo, Open
  <1>2. i \in Item \cup {None} /\ None \notin Item
    BY HookAssumption DEF HookInv, Types, Info
  <1>3. /\ \A gd \in Fd \ {fd} : info'[gd] = info[gd]
        /\ info'[fd] = NotInUse /\ info' \in [Fd -> Info]
    BY <1>1, Records DEF HookInv, Types
  <1>4. /\ \A gd \in Fd : info'[gd].item = IF gd = fd THEN None ELSE info[gd].item
        /\ info'[fd].inuse = FALSE
    BY <1>3, Records
  <1> HIDE DEF i
  <1>5. i # None => i \notin lost /\ \A gd \in Fd : own[gd] # i /\ (info[gd].item = i => gd = fd)
    BY DEF HookInv, OneOwner, i
  <1>6. Types'
    BY <1>1, <1>2, <1>3 DEF HookInv, Types
  <1>7. OneOwner'
    <2>1. \A j \in Item : j \in used' <=> Owned(j)'
      <3> SUFFICES ASSUME NEW j \in Item
                   PROVE  j \in used <=>
                            j \in lost' \/ \E gd \in Fd : j = info'[gd].item \/ j = own[gd]
        BY <1>1 DEF Owned
      <3>1. j \in used <=> j \in lost \/ \E gd \in Fd : j = info[gd].item \/ j = own[gd]
        BY DEF HookInv, OneOwner, Owned
      <3> QED BY <1>1, <1>2, <1>4, <3>1 DEF i
    <2>2. None \notin lost'
      BY <1>1, <1>2 DEF HookInv, Types
    <2>3. \A gd \in Fd : own[gd] \notin lost' /\ info'[gd].item \notin lost'
      BY <1>1, <1>4, <1>5, <2>2 DEF HookInv, OneOwner
    <2>4. \A gd, hd \in Fd :
            /\ info'[gd].item # None => info'[gd].item # own[hd]
            /\ info'[gd].item # None /\ info'[gd].item = info'[hd].item => gd = hd
            /\ own[gd] # None /\ own[gd] = own[hd] => gd = hd
      BY <1>4 DEF HookInv, OneOwner
    <2> QED BY <1>1, <2>1, <2>3, <2>4 DEF OneOwner
  <1>8. Placed'
    <2> SUFFICES ASSUME NEW gd \in Fd PROVE table[gd] \in {None, info'[gd].item, own[gd]} \cup lost'
      BY <1>1 DEF Placed
    <2>1. table[gd] \in {None, info[gd].item, own[gd]} \cup lost
      BY DEF HookInv, Placed
    <2> QED BY <1>1, <1>4, <2>1 DEF i
  <1>9. Waiting'
    BY <1>1 DEF HookInv, Waiting, Runs
  <1>10. Blank' /\ Wishes'
    <2> SUFFICES ASSUME NEW gd \in Fd
                 PROVE  /\ kernel[gd] = "closed" =>
                             /\ info'[gd].inuse = FALSE /\ own[gd] = None
                             /\ asked[gd] = "none" /\ set[gd] = NoSet
                        /\ info'[gd].inuse = FALSE => info'[gd].item = None
                        /\ asked[gd] \in {"block", "nonblock"} => kernel[gd] = asked[gd]
                        /\ info'[gd].inuse /\ asked[gd] \in {"none", "accepted"} => kernel[gd] = "nonblock"
      BY <1>1 DEF Blank, Wishes, Open
    <2>1. CASE gd = fd
      BY <1>1, <1>4, <2>1 DEF HookInv, Wishes
    <2>2. CASE gd # fd
      BY <1>3, <2>2 DEF HookInv, Blank, Wishes, Open
    <2> QED BY <2>1, <2>2
  <1>11. TimeoutsAreItsOwn'
    BY <1>1, <1>3, <1>4 DEF HookInv, TimeoutsAreItsOwn, Open
  <1> QED BY <1>6, <1>7, <1>8, <1>9, <1>10, <1>11 DEF HookInv
-----------------------------------------------------------------------------
(* Options, and the items of connections.                                  *)

\* The flags of a record may change, as long as item and inuse stay.
LEMMA FcntlStep ==
    ASSUME HookInv, NEW fd \in Fd, NEW on \in Wants, sys_fcntl(fd, on)
    PROVE  HookInv'
  <1> DEFINE k == IF on THEN "nonblock" ELSE "block"
  <1>1. /\ kernel[fd] # "closed" /\ UNCHANGED <<table, own, used, hooked, call, result, set, lost>>
        /\ kernel' = [kernel EXCEPT ![fd] = k] /\ asked' = [asked EXCEPT ![fd] = k]
        /\ info' = Mark(fd, on)
    BY DEF sys_fcntl, Open
  <1>2. k \in {"block", "nonblock"}
    OBVIOUS
  <1> HIDE DEF k
  <1>3. /\ info' \in [Fd -> Info] /\ \A gd \in Fd \ {fd} : info'[gd] = info[gd]
        /\ info'[fd].inuse = info[fd].inuse /\ info'[fd].item = info[fd].item
        /\ info'[fd].read = info[fd].read /\ info'[fd].write = info[fd].write
    <2>1. info[fd] \in Info /\ info \in [Fd -> Info]
      BY DEF HookInv, Types
    <2>2. CASE info' = [info EXCEPT ![fd].unblock = TRUE]
      <3> DEFINE r == info[fd]
                 m == [r EXCEPT !.unblock = TRUE]
      <3>1. info' = [info EXCEPT ![fd] = m]
        BY <2>2
      <3>2. m \in Info /\ m.inuse = r.inuse /\ m.item = r.item /\ m.read = r.read /\ m.write = r.write
        <4>1. r \in Info
          BY <2>1
        <4> HIDE DEF r
        <4> QED BY <4>1, Marked
      <3> HIDE DEF m
      <3> QED BY <2>1, <3>1, <3>2
    <2>3. CASE info' = info
      BY <2>1, <2>3
    <2> QED BY <1>1, <2>2, <2>3 DEF Mark
  <1>4. /\ \A gd \in Fd \ {fd} : kernel'[gd] = kernel[gd] /\ asked'[gd] = asked[gd]
        /\ kernel'[fd] = k /\ asked'[fd] = k
    BY <1>1 DEF HookInv, Types
  <1>5. Types'
    BY <1>1, <1>2, <1>3 DEF HookInv, Types
  <1>6. \A gd \in Fd : info'[gd].item = info[gd].item
    BY <1>3
  <1>7. OneOwner' /\ Placed'
    BY <1>1, <1>6 DEF HookInv, OneOwner, Owned, Placed
  <1>8. Waiting'
    BY <1>1 DEF HookInv, Waiting, Runs
  <1>9. Blank' /\ Wishes'
    <2> SUFFICES ASSUME NEW gd \in Fd
                 PROVE  /\ kernel'[gd] = "closed" =>
                             /\ info'[gd].inuse = FALSE /\ own[gd] = None
                             /\ asked'[gd] = "none" /\ set[gd] = NoSet
                        /\ info'[gd].inuse = FALSE => info'[gd].item = None
                        /\ asked'[gd] \in {"block", "nonblock"} => kernel'[gd] = asked'[gd]
                        /\ info'[gd].inuse /\ asked'[gd] \in {"none", "accepted"} => kernel'[gd] = "nonblock"
      BY <1>1 DEF Blank, Wishes, Open
    <2>1. CASE gd = fd
      BY <1>2, <1>3, <1>4, <2>1 DEF HookInv, Blank
    <2>2. CASE gd # fd
      BY <1>3, <1>4, <2>2 DEF HookInv, Blank, Wishes, Open
    <2> QED BY <2>1, <2>2
  <1>10. TimeoutsAreItsOwn'
    <2> SUFFICES ASSUME NEW gd \in Fd, kernel'[gd] # "closed", info'[gd].inuse
                 PROVE  /\ info'[gd].read = set[gd].read /\ info'[gd].write = set[gd].write
                        /\ info'[gd].unblock => asked'[gd] # "none"
      BY <1>1 DEF TimeoutsAreItsOwn, Open
    <2>1. CASE gd = fd
      BY <1>1, <1>2, <1>3, <1>4, <2>1 DEF HookInv, TimeoutsAreItsOwn, Open
    <2>2. CASE gd # fd
      BY <1>3, <1>4, <2>2 DEF HookInv, TimeoutsAreItsOwn, Open
    <2> QED BY <2>1, <2>2
  <1> QED BY <1>5, <1>7, <1>8, <1>9, <1>10 DEF HookInv

LEMMA SetsockoptStep ==
    ASSUME HookInv, NEW fd \in Fd, NEW which \in {"read", "write"}, NEW ms \in Timeout,
           sys_setsockopt(fd, which, ms)
    PROVE  HookInv'
  <1> DEFINE r == info[fd]
             s == set[fd]
             m == [r EXCEPT ![which] = ms]
             n == [s EXCEPT ![which] = ms]
  <1>1. /\ kernel[fd] # "closed" /\ UNCHANGED <<table, own, used, kernel, hooked, call, result, asked, lost>>
        /\ info[fd].inuse
    BY DEF sys_setsockopt, Open
  <1>2. info' = [info EXCEPT ![fd] = m] /\ set' = [set EXCEPT ![fd] = n]
    BY DEF sys_setsockopt
  <1>3. /\ m \in Info /\ m.unblock = r.unblock /\ m.inuse = r.inuse /\ m.item = r.item
        /\ n \in Times /\ m.read = n.read /\ m.write = n.write
    <2>1. r \in Info /\ s \in Times /\ r.read = s.read /\ r.write = s.write /\ ms \in Nat
      BY <1>1, HookAssumption DEF HookInv, Types, TimeoutsAreItsOwn, Open
    <2> HIDE DEF r, s
    <2> QED BY <2>1, Timed
  <1> HIDE DEF m, n
  <1>4. /\ info' \in [Fd -> Info] /\ set' \in [Fd -> Times]
        /\ \A gd \in Fd \ {fd} : info'[gd] = info[gd] /\ set'[gd] = set[gd]
        /\ info'[fd] = m /\ set'[fd] = n
    BY <1>2, <1>3 DEF HookInv, Types
  <1>5. Types'
    BY <1>1, <1>4 DEF HookInv, Types
  <1>6. \A gd \in Fd : info'[gd].item = info[gd].item
    BY <1>3, <1>4
  <1>7. OneOwner' /\ Placed'
    BY <1>1, <1>6 DEF HookInv, OneOwner, Owned, Placed
  <1>8. Waiting'
    BY <1>1 DEF HookInv, Waiting, Runs
  <1>9. Blank' /\ Wishes'
    <2> SUFFICES ASSUME NEW gd \in Fd
                 PROVE  /\ kernel[gd] = "closed" =>
                             /\ info'[gd].inuse = FALSE /\ own[gd] = None
                             /\ asked[gd] = "none" /\ set'[gd] = NoSet
                        /\ info'[gd].inuse = FALSE => info'[gd].item = None
                        /\ asked[gd] \in {"block", "nonblock"} => kernel[gd] = asked[gd]
                        /\ info'[gd].inuse /\ asked[gd] \in {"none", "accepted"} => kernel[gd] = "nonblock"
      BY <1>1 DEF Blank, Wishes, Open
    <2>1. CASE gd = fd
      <3>1. info'[gd].inuse = info[gd].inuse /\ info'[gd].item = info[gd].item
        BY <1>3, <1>4, <2>1
      <3> QED BY <1>1, <2>1, <3>1 DEF HookInv, Blank, Wishes, Open
    <2>2. CASE gd # fd
      BY <1>4, <2>2 DEF HookInv, Blank, Wishes, Open
    <2> QED BY <2>1, <2>2
  <1>10. TimeoutsAreItsOwn'
    BY <1>1, <1>3, <1>4 DEF HookInv, TimeoutsAreItsOwn, Open
  <1> QED BY <1>5, <1>7, <1>8, <1>9, <1>10 DEF HookInv

LEMMA OwnItemStep ==
    ASSUME HookInv, NEW fd \in Fd, OwnItem(fd)
    PROVE  HookInv'
  <1>1. /\ kernel[fd] # "closed" /\ own[fd] = None /\ UNCHANGED <<info, kernel, hooked, call, result, history>>
        /\ \A t \in Thread : call[t].fd # fd
    BY DEF OwnItem, Open, Idle
  <1>2. PICK i \in Item \ used : /\ used' = used \cup {i} /\ own' = [own EXCEPT ![fd] = i]
                                 /\ table' = [table EXCEPT ![fd] = i]
    BY DEF OwnItem
  <1>3. /\ own'[fd] = i /\ table'[fd] = i /\ i # None
        /\ \A gd \in Fd \ {fd} : own'[gd] = own[gd] /\ table'[gd] = table[gd]
    BY <1>2, HookAssumption DEF HookInv, Types
  <1>4. i \notin lost /\ \A gd \in Fd : own[gd] # i /\ info[gd].item # i
    BY DEF HookInv, OneOwner, Owned
  <1>5. Types'
    BY <1>1, <1>2 DEF HookInv, Types, history
  <1>6. OneOwner'
    <2>1. \A j \in Item : j \in used' <=> Owned(j)'
      <3> SUFFICES ASSUME NEW j \in Item
                   PROVE  j \in used \cup {i} <=>
                            j \in lost \/ \E gd \in Fd : j = info[gd].item \/ j = own'[gd]
        BY <1>1, <1>2 DEF Owned, history
      <3>1. j \in used <=> j \in lost \/ \E gd \in Fd : j = info[gd].item \/ j = own[gd]
        BY DEF HookInv, OneOwner, Owned
      <3> QED BY <1>1, <1>3, <1>4, <3>1, HookAssumption
    <2>2. \A gd \in Fd : own'[gd] \notin lost /\ info[gd].item \notin lost
      BY <1>3, <1>4 DEF HookInv, OneOwner
    <2>3. \A gd, hd \in Fd :
            /\ info[gd].item # None => info[gd].item # own'[hd]
            /\ info[gd].item # None /\ info[gd].item = info[hd].item => gd = hd
            /\ own'[gd] # None /\ own'[gd] = own'[hd] => gd = hd
      BY <1>3, <1>4 DEF HookInv, OneOwner
    <2> QED BY <1>1, <2>1, <2>2, <2>3 DEF OneOwner, history
  <1>7. Placed'
    BY <1>1, <1>3 DEF HookInv, Placed, history
  <1>8. Waiting'
    <2>1. \A t \in Thread : ~Runs(t) => table'[call[t].fd] = table[call[t].fd]
      BY <1>1, <1>3 DEF HookInv, Waiting
    <2> QED BY <1>1, <2>1 DEF HookInv, Waiting, Runs
  <1>9. Blank' /\ Wishes'
    BY <1>1, <1>3 DEF HookInv, Blank, Wishes, Open, history
  <1>10. TimeoutsAreItsOwn'
    BY <1>1 DEF HookInv, TimeoutsAreItsOwn, Open, history
  <1> QED BY <1>5, <1>6, <1>7, <1>8, <1>9, <1>10 DEF HookInv

LEMMA ReleaseItemStep ==
    ASSUME HookInv, NEW fd \in Fd, ReleaseItem(fd)
    PROVE  HookInv'
  <1> DEFINE i == own[fd]
  <1>1. /\ i # None /\ UNCHANGED <<info, kernel, hooked, call, result, history>>
        /\ \A t \in Thread : call[t].fd # fd
        /\ used' = used \ {i} /\ own' = [own EXCEPT ![fd] = None]
        /\ table' = IF table[fd] = i THEN [table EXCEPT ![fd] = None] ELSE table
    BY DEF ReleaseItem, Idle
  <1>2. /\ own'[fd] = None /\ \A gd \in Fd \ {fd} : own'[gd] = own[gd] /\ table'[gd] = table[gd]
        /\ table'[fd] = None \/ (table'[fd] = table[fd] /\ table[fd] # i)
        /\ table' \in [Fd -> Item \cup {None}]
    BY <1>1 DEF HookInv, Types
  <1>3. i \notin lost /\ \A gd \in Fd : info[gd].item # i /\ (own[gd] = i => gd = fd)
    <2>1. i \notin lost /\ \A gd \in Fd : own[gd] = i => gd = fd
      BY <1>1 DEF HookInv, OneOwner
    <2>2. \A gd \in Fd : info[gd].item # i
      BY <1>1 DEF HookInv, OneOwner
    <2> QED BY <2>1, <2>2
  <1>4. i \in Item /\ None \notin lost
    BY <1>1, HookAssumption DEF HookInv, Types
  <1>5. Types'
    BY <1>1, <1>2 DEF HookInv, Types, history
  <1> HIDE DEF i
  <1>6. OneOwner'
    <2>1. \A j \in Item : j \in used' <=> Owned(j)'
      <3> SUFFICES ASSUME NEW j \in Item
                   PROVE  j \in used \ {i} <=>
                            j \in lost \/ \E gd \in Fd : j = info[gd].item \/ j = own'[gd]
        BY <1>1 DEF Owned, history
      <3>1. j \in used <=> j \in lost \/ \E gd \in Fd : j = info[gd].item \/ j = own[gd]
        BY DEF HookInv, OneOwner, Owned
      <3> QED BY <1>2, <1>3, <3>1, HookAssumption DEF i
    <2>2. \A gd \in Fd : own'[gd] \notin lost /\ info[gd].item \notin lost
      BY <1>2, <1>4 DEF HookInv, OneOwner
    <2>3. \A gd, hd \in Fd :
            /\ info[gd].item # None => info[gd].item # own'[hd]
            /\ info[gd].item # None /\ info[gd].item = info[hd].item => gd = hd
            /\ own'[gd] # None /\ own'[gd] = own'[hd] => gd = hd
      BY <1>2 DEF HookInv, OneOwner
    <2> QED BY <1>1, <2>1, <2>2, <2>3 DEF OneOwner, history
  <1>7. Placed'
    BY <1>1, <1>2 DEF HookInv, Placed, history, i
  <1>8. Waiting'
    <2>1. \A t \in Thread : ~Runs(t) => table'[call[t].fd] = table[call[t].fd]
      BY <1>1, <1>2 DEF HookInv, Waiting
    <2> QED BY <1>1, <2>1 DEF HookInv, Waiting, Runs
  <1>9. Blank' /\ Wishes'
    BY <1>1, <1>2 DEF HookInv, Blank, Wishes, Open, history
  <1>10. TimeoutsAreItsOwn'
    BY <1>1 DEF HookInv, TimeoutsAreItsOwn, Open, history
  <1> QED BY <1>5, <1>6, <1>7, <1>8, <1>9, <1>10 DEF HookInv
LEMMA FlagStep ==
    ASSUME HookInv, st_set_hook_flag
    PROVE  HookInv'
  <1>1. hooked' = TRUE /\ UNCHANGED <<records, kernel, call, result, history>>
    BY DEF st_set_hook_flag
  <1>2. Types' /\ Waiting'
    BY <1>1 DEF HookInv, Types, Waiting, Runs, records, history
  <1>3. OneOwner' /\ Placed' /\ Blank' /\ Wishes' /\ TimeoutsAreItsOwn'
    BY <1>1 DEF HookInv, OneOwner, Owned, Placed, Blank, Wishes, TimeoutsAreItsOwn, Open, records, history
  <1> QED BY <1>2, <1>3 DEF HookInv

-----------------------------------------------------------------------------
(* Reading, writing and connecting.                                        *)

LEMMA RealCallStep ==
    ASSUME HookInv, NEW t \in Thread, NEW op \in Ops, NEW fd \in Fd, RealCall(t, op, fd)
    PROVE  HookInv'
  <1>1. UNCHANGED <<records, kernel, hooked, call, history>>
    BY DEF RealCall, End
  <1>2. Types'
    <2>1. PICK res \in {"over", "EAGAIN", "stopped"} :
               result' = [result EXCEPT ![t] = [fd |-> fd, op |-> op, res |-> res]]
      BY DEF RealCall, End
    <2>2. [fd |-> fd, op |-> op, res |-> res] \in [fd : Fd \cup {None}, op : Ops \cup {"none"}, res : Outcome]
      BY DEF Outcome
    <2> QED BY <1>1, <2>1, <2>2 DEF HookInv, Types, records, history
  <1>3. Waiting'
    BY <1>1 DEF HookInv, Waiting, Runs, records
  <1>4. OneOwner' /\ Placed' /\ Blank' /\ Wishes' /\ TimeoutsAreItsOwn'
    BY <1>1 DEF HookInv, OneOwner, Owned, Placed, Blank, Wishes, TimeoutsAreItsOwn, Open, records, history
  <1> QED BY <1>2, <1>3, <1>4 DEF HookInv

\* The item is new, and the one it takes the place of is lost.
LEMMA Ensured ==
    ASSUME HookInv, NEW op, NEW fd \in Fd, info[fd].inuse,
           EnsureItem(op, fd) \/ UNCHANGED <<used, table, info, lost>>,
           UNCHANGED <<own, kernel, hooked, asked, set>>
    PROVE  /\ info' \in [Fd -> Info] /\ table' \in [Fd -> Item \cup {None}]
           /\ used' \subseteq Item /\ lost' \subseteq Item
           /\ OneOwner' /\ Placed' /\ Blank' /\ Wishes' /\ TimeoutsAreItsOwn'
           /\ \A gd \in Fd \ {fd} : table'[gd] = table[gd]
  <1>1. CASE UNCHANGED <<used, table, info, lost>>
    BY <1>1 DEF HookInv, Types, OneOwner, Owned, Placed, Blank, Wishes, TimeoutsAreItsOwn, Open
  <1>2. CASE \E i \in Item \ used : /\ used' = used \cup {i}
                                    /\ table' = [table EXCEPT ![fd] = i]
                                    /\ info' = [info EXCEPT ![fd].item = i]
                                    /\ lost' = lost \cup ({info[fd].item} \ {None})
    <2> DEFINE r == info[fd]
               l == r.item
    <2>1. PICK i \in Item \ used : /\ used' = used \cup {i}
                                   /\ table' = [table EXCEPT ![fd] = i]
                                   /\ info' = [info EXCEPT ![fd] = [r EXCEPT !.item = i]]
                                   /\ lost' = lost \cup ({l} \ {None})
      BY <1>2
    <2> DEFINE m == [r EXCEPT !.item = i]
    <2>2. /\ m \in Info /\ m.unblock = r.unblock /\ m.inuse = r.inuse /\ m.item = i
          /\ m.read = r.read /\ m.write = r.write
      <3>1. r \in Info
        BY DEF HookInv, Types
      <3> HIDE DEF r
      <3> QED BY <3>1, Equipped
    <2>3. info' = [info EXCEPT ![fd] = m] /\ l \in Item \cup {None}
      BY <2>1 DEF HookInv, Types, Info
    <2> HIDE DEF m, l
    <2>4. /\ info' \in [Fd -> Info] /\ table' \in [Fd -> Item \cup {None}]
          /\ used' \subseteq Item /\ lost' \subseteq Item /\ None \notin lost'
      BY <2>1, <2>2, <2>3, HookAssumption DEF HookInv, Types
    <2>5. /\ \A gd \in Fd \ {fd} : info'[gd] = info[gd] /\ table'[gd] = table[gd]
          /\ info'[fd] = m /\ table'[fd] = i
      BY <2>1, <2>3 DEF HookInv, Types
    <2>6. \A gd \in Fd : info'[gd].item = IF gd = fd THEN i ELSE info[gd].item
      BY <2>2, <2>5
    <2>7. i # None /\ i \notin lost' /\ \A gd \in Fd : own[gd] # i /\ info[gd].item # i
      <3>1. i \notin lost /\ \A gd \in Fd : own[gd] # i /\ info[gd].item # i
        BY DEF HookInv, OneOwner, Owned
      <3> QED BY <2>1, <3>1, HookAssumption DEF l
    <2>8. l # None => l \notin lost /\ \A gd \in Fd : own[gd] # l /\ (info[gd].item = l => gd = fd)
      BY DEF HookInv, OneOwner, l
    <2>9. OneOwner'
      <3>1. \A j \in Item : j \in used' <=> Owned(j)'
        <4> SUFFICES ASSUME NEW j \in Item
                     PROVE  j \in used \cup {i} <=>
                              j \in lost' \/ \E gd \in Fd : j = info'[gd].item \/ j = own[gd]
          BY <2>1 DEF Owned
        <4>1. j \in used <=> j \in lost \/ \E gd \in Fd : j = info[gd].item \/ j = own[gd]
          BY DEF HookInv, OneOwner, Owned
        <4> QED BY <2>1, <2>6, <4>1, HookAssumption DEF l
      <3>2. \A gd \in Fd : own[gd] \notin lost' /\ info'[gd].item \notin lost'
        BY <2>1, <2>4, <2>6, <2>7, <2>8 DEF HookInv, OneOwner
      <3>3. \A gd, hd \in Fd :
              /\ info'[gd].item # None => info'[gd].item # own[hd]
              /\ info'[gd].item # None /\ info'[gd].item = info'[hd].item => gd = hd
              /\ own[gd] # None /\ own[gd] = own[hd] => gd = hd
        BY <2>6, <2>7 DEF HookInv, OneOwner
      <3> QED BY <3>1, <3>2, <3>3 DEF OneOwner
    <2>10. Placed'
      <3> SUFFICES ASSUME NEW gd \in Fd PROVE table'[gd] \in {None, info'[gd].item, own[gd]} \cup lost'
        BY DEF Placed
      <3>1. table[gd] \in {None, info[gd].item, own[gd]} \cup lost
        BY DEF HookInv, Placed
      <3> QED BY <2>1, <2>5, <2>6, <3>1
    <2>11. Blank' /\ Wishes'
      <3> SUFFICES ASSUME NEW gd \in Fd
                   PROVE  /\ kernel[gd] = "closed" =>
                               /\ info'[gd].inuse = FALSE /\ own[gd] = None
                               /\ asked[gd] = "none" /\ set[gd] = NoSet
                          /\ info'[gd].inuse = FALSE => info'[gd].item = None
                          /\ asked[gd] \in {"block", "nonblock"} => kernel[gd] = asked[gd]
                          /\ info'[gd].inuse /\ asked[gd] \in {"none", "accepted"} => kernel[gd] = "nonblock"
        BY DEF Blank, Wishes, Open
      <3>1. CASE gd = fd
        <4>1. info'[gd].inuse = info[gd].inuse
          BY <2>2, <2>5, <3>1
        <4> QED BY <3>1, <4>1 DEF HookInv, Blank, Wishes, Open
      <3>2. CASE gd # fd
        BY <2>5, <3>2 DEF HookInv, Blank, Wishes, Open
      <3> QED BY <3>1, <3>2
    <2>12. TimeoutsAreItsOwn'
      BY <2>2, <2>5 DEF HookInv, TimeoutsAreItsOwn, Open
    <2> QED BY <2>4, <2>5, <2>9, <2>10, <2>11, <2>12
  <1> QED BY <1>1, <1>2 DEF EnsureItem

LEMMA TimedCallStep ==
    ASSUME HookInv, NEW t \in Thread, NEW op \in Ops, NEW fd \in Fd, info[fd].inuse,
           Runs(t), Idle(fd), TimedCall(t, op, fd)
    PROVE  HookInv'
  <1>1. /\ UNCHANGED <<own, kernel, hooked, asked, set>>
        /\ EnsureItem(op, fd) \/ UNCHANGED <<used, table, info, lost>>
    BY DEF TimedCall
  <1>2. /\ info' \in [Fd -> Info] /\ table' \in [Fd -> Item \cup {None}]
        /\ used' \subseteq Item /\ lost' \subseteq Item
        /\ OneOwner' /\ Placed' /\ Blank' /\ Wishes' /\ TimeoutsAreItsOwn'
        /\ \A gd \in Fd \ {fd} : table'[gd] = table[gd]
    BY <1>1, Ensured
  <1>3. \A u \in Thread : ~Runs(u) => /\ u # t /\ call[u].fd \in Fd \ {fd}
                                     /\ table'[call[u].fd] = table[call[u].fd]
    BY <1>2 DEF HookInv, Waiting, Idle
  <1>4. CASE /\ table'[fd] # None
             /\ call' = [call EXCEPT ![t] = [fd |-> fd, op |-> op, res |-> table'[fd]]]
             /\ result' = [result EXCEPT ![t] = NoCall]
    <2> DEFINE new == [fd |-> fd, op |-> op, res |-> table'[fd]]
    <2>1. /\ new \in [fd : Fd \cup {None}, op : Ops \cup {"none"}, res : Item \cup {"none"}]
          /\ new.fd = fd /\ new.res = table'[fd] /\ new.res \in Item
          /\ NoCall \in [fd : Fd \cup {None}, op : Ops \cup {"none"}, res : Outcome]
      BY <1>2, <1>4 DEF NoCall, Outcome
    <2> HIDE DEF new
    <2>2. call' = [call EXCEPT ![t] = new]
      BY <1>4 DEF new
    <2>3. call'[t] = new /\ \A u \in Thread \ {t} : call'[u] = call[u]
      BY <2>2 DEF HookInv, Types
    <2>4. Types'
      BY <1>1, <1>2, <1>4, <2>1, <2>2 DEF HookInv, Types
    <2>5. Waiting'
      <3> SUFFICES ASSUME NEW v \in Thread, call'[v] # NoCall
                   PROVE  /\ call'[v].fd \in Fd /\ call'[v].res = table'[call'[v].fd]
                          /\ call'[v].res \in Item
                          /\ \A u \in Thread : call'[u] # NoCall /\ call'[u].fd = call'[v].fd => u = v
        BY DEF Waiting, Runs
      <3>1. CASE v = t
        BY <1>3, <2>1, <2>3, <3>1 DEF Runs
      <3>2. CASE v # t
        BY <1>3, <2>1, <2>3, <3>2 DEF HookInv, Waiting, Runs
      <3> QED BY <3>1, <3>2
    <2> QED BY <1>2, <2>4, <2>5 DEF HookInv
  <1>5. CASE UNCHANGED call /\ \E res \in Outcome :
                 result' = [result EXCEPT ![t] = [fd |-> fd, op |-> op, res |-> res]]
    <2>1. PICK res \in Outcome : result' = [result EXCEPT ![t] = [fd |-> fd, op |-> op, res |-> res]]
      BY <1>5
    <2>2. [fd |-> fd, op |-> op, res |-> res] \in [fd : Fd \cup {None}, op : Ops \cup {"none"}, res : Outcome]
      OBVIOUS
    <2>3. Types'
      BY <1>1, <1>2, <1>5, <2>1, <2>2 DEF HookInv, Types
    <2>4. Waiting'
      BY <1>3, <1>5 DEF HookInv, Waiting, Runs
    <2> QED BY <1>2, <2>3, <2>4 DEF HookInv
  <1> QED BY <1>4, <1>5 DEF TimedCall, AtOnce, End, Outcome

LEMMA EndIoStep ==
    ASSUME HookInv, NEW t \in Thread, EndIo(t)
    PROVE  HookInv'
  <1> DEFINE fd == call[t].fd
             op == call[t].op
  <1>1. /\ UNCHANGED <<info, own, used, kernel, hooked, history>> /\ ~Runs(t)
        /\ call' = [call EXCEPT ![t] = NoCall]
        /\ result' = [result EXCEPT ![t] = [fd |-> fd, op |-> op, res |-> "over"]]
        /\ table' = table \/ table' = [table EXCEPT ![fd] = None]
    BY DEF EndIo, End
  <1>2. fd \in Fd /\ op \in Ops \cup {"none"} /\ \A u \in Thread : ~Runs(u) /\ call[u].fd = fd => u = t
    BY <1>1 DEF HookInv, Types, Waiting
  <1> HIDE DEF fd, op
  <1>3. /\ \A gd \in Fd \ {fd} : table'[gd] = table[gd]
        /\ \A gd \in Fd : table'[gd] \in {None, table[gd]}
        /\ table' \in [Fd -> Item \cup {None}]
    BY <1>1, <1>2 DEF HookInv, Types
  <1>4. call'[t] = NoCall /\ \A u \in Thread \ {t} : call'[u] = call[u]
    BY <1>1 DEF HookInv, Types
  <1>5. Types'
    <2>1. /\ NoCall \in [fd : Fd \cup {None}, op : Ops \cup {"none"}, res : Item \cup {"none"}]
          /\ [fd |-> fd, op |-> op, res |-> "over"] \in [fd : Fd \cup {None}, op : Ops \cup {"none"}, res : Outcome]
      BY <1>2 DEF NoCall, Outcome
    <2> QED BY <1>1, <1>3, <2>1 DEF HookInv, Types, history
  <1>6. Waiting'
    BY <1>2, <1>3, <1>4 DEF HookInv, Waiting, Runs
  <1>7. OneOwner' /\ Blank' /\ Wishes' /\ TimeoutsAreItsOwn'
    BY <1>1 DEF HookInv, OneOwner, Owned, Blank, Wishes, TimeoutsAreItsOwn, Open, history
  <1>8. Placed'
    BY <1>1, <1>3 DEF HookInv, Placed, history
  <1> QED BY <1>5, <1>6, <1>7, <1>8 DEF HookInv
-----------------------------------------------------------------------------
(* The invariant.                                                          *)

LEMMA HookInit == Init => HookInv
  <1> SUFFICES ASSUME Init PROVE HookInv
    OBVIOUS
  <1>1. /\ NoCall \in [fd : Fd \cup {None}, op : Ops \cup {"none"}, res : Item \cup {"none"}]
        /\ NoCall \in [fd : Fd \cup {None}, op : Ops \cup {"none"}, res : Outcome]
    BY DEF NoCall, Outcome
  <1>2. Types
    BY <1>1, Records DEF Init, Types
  <1>3. \A fd \in Fd : info[fd].item = None /\ info[fd].inuse = FALSE /\ own[fd] = None /\ table[fd] = None
    BY Records DEF Init
  <1>4. OneOwner /\ Placed
    <2>1. used = {} /\ lost = {}
      BY DEF Init
    <2> QED BY <1>3, <2>1, HookAssumption DEF OneOwner, Owned, Placed
  <1>5. Waiting
    BY DEF Init, Waiting, Runs
  <1>6. Blank /\ Wishes /\ TimeoutsAreItsOwn
    BY <1>3 DEF Init, Blank, Wishes, TimeoutsAreItsOwn, Open
  <1> QED BY <1>2, <1>4, <1>5, <1>6 DEF HookInv

LEMMA IoStep ==
    ASSUME HookInv, NEW t \in Thread, NEW op \in Ops, NEW fd \in Fd, Io(t, op, fd)
    PROVE  HookInv'
  <1>1. Runs(t) /\ Idle(fd)
    BY DEF Io
  <1>2. CASE Real(op, fd)
    BY <1>2, RealCallStep DEF Io
  <1>3. CASE ~Real(op, fd)
    BY <1>1, <1>3, TimedCallStep DEF Io, Real
  <1> QED BY <1>2, <1>3

LEMMA HookStep ==
    ASSUME HookInv, [Next]_vars
    PROVE  HookInv'
  <1>1. CASE Next
    BY <1>1, SocketStep, AcceptStep, CloseStep, ShutdownStep, FcntlStep, SetsockoptStep, FlagStep,
       OwnItemStep, ReleaseItemStep, EndIoStep, IoStep DEF Next
  <1>2. CASE UNCHANGED vars
    BY <1>2 DEF vars, records, history, HookInv, Types, OneOwner, Owned, Placed, Waiting, Blank,
       Wishes, TimeoutsAreItsOwn, Runs, Open
  <1> QED BY <1>1, <1>2

LEMMA HookInvariant == Spec => []HookInv
  <1>1. Init => HookInv
    BY HookInit
  <1>2. HookInv /\ [Next]_vars => HookInv'
    BY HookStep
  <1> QED BY <1>1, <1>2, PTL DEF Spec

-----------------------------------------------------------------------------
(* The theorems.                                                           *)

\* An item of the event table is never freed while it is registered, recorded or
\* waited with, never has two owners, and is never freed twice: what the hooks do
\* not free is what a shutdown or a hangup has dropped (hook_ensure_item,
\* hook_release_item, sys_shutdown).
THEOREM ItemsOwnedAlways == Spec => []ItemsOwned
  <1>1. HookInv => ItemsOwned
    <2> SUFFICES ASSUME HookInv PROVE ItemsOwned
      OBVIOUS
    <2>1. TypeOK
      BY DEF HookInv, Types, TypeOK, Info
    <2>2. \A fd \in Fd : info[fd].item \in Item \cup {None} /\ own[fd] \in Item \cup {None}
                        /\ table[fd] \in Item \cup {None}
      BY DEF HookInv, Types, Info
    <2>3. \A i \in Item : i \in used <=> Owned(i)
      BY DEF HookInv, OneOwner
    <2>4. \A fd \in Fd : {table[fd], info[fd].item, own[fd]} \ {None} \subseteq used
      BY <2>2, <2>3 DEF HookInv, Placed, Owned
    <2>5. \A t \in Thread : ~Runs(t) => call[t].res \in used
      BY <2>4, HookAssumption DEF HookInv, Waiting
    <2>6. used = ((UNION {{info[fd].item, own[fd]} : fd \in Fd}) \ {None}) \cup lost
      <3>1. \A i \in used : i \in ((UNION {{info[fd].item, own[fd]} : fd \in Fd}) \ {None}) \cup lost
        BY <2>3, HookAssumption DEF HookInv, Types, Owned
      <3>2. \A i \in lost : i \in used
        BY <2>3 DEF HookInv, Types, Owned
      <3>3. \A i \in (UNION {{info[fd].item, own[fd]} : fd \in Fd}) \ {None} : i \in used
        BY <2>4
      <3> QED BY <3>1, <3>2, <3>3
    <2> QED BY <2>1, <2>4, <2>5, <2>6 DEF ItemsOwned, HookInv, OneOwner
  <1> QED BY <1>1, HookInvariant, PTL

\* Nothing of the record of a descriptor is left for the next one with its number,
\* whatever was opened, closed and shut down before (sys_new_fd, sys_free_fd).
THEOREM TimeoutsAreItsOwnAlways == Spec => []TimeoutsAreItsOwn
  <1>1. HookInv => TimeoutsAreItsOwn
    BY DEF HookInv
  <1> QED BY <1>1, HookInvariant, PTL

\* The result of which a step says something is that of a call.
LEMMA ResultOfCall ==
    ASSUME HookInv, [Next]_vars, NEW t \in Thread, result'[t] \notin {result[t], NoCall}
    PROVE  \/ result'[t].res = "over"
           \/ \E op \in Ops, fd \in Fd : Io(t, op, fd)
  <1>1. result' # result
    OBVIOUS
  <1>2. PICK u \in Thread : EndIo(u) \/ \E op \in Ops, fd \in Fd : Io(u, op, fd)
    BY <1>1 DEF Next, vars, records, history, sys_socket, sys_accept, sys_close, sys_shutdown,
       sys_fcntl, sys_setsockopt, st_set_hook_flag, OwnItem, ReleaseItem
  <1>3. \E r : result' = [result EXCEPT ![u] = r]
    BY <1>2 DEF EndIo, Io, RealCall, TimedCall, AtOnce, End
  <1>4. u = t
    BY <1>3 DEF HookInv, Types
  <1>5. CASE EndIo(u)
    BY <1>4, <1>5 DEF EndIo, End, HookInv, Types
  <1> QED BY <1>2, <1>4, <1>5

\* The library's own O_NONBLOCK never shows, but for what sys_accept returns: no
\* other hooked call refuses with EAGAIN on a descriptor whose user did not ask for
\* that, and none stops the thread unless its user wanted the descriptor to block
\* (sys_socket, sys_fcntl, the hooked reads and writes).
THEOREM AsAskedAlways == Spec => AsAsked
  <1> DEFINE A(t) == Returns(t) /\ info[result'[t].fd].inuse =>
                 /\ result'[t].res = "EAGAIN" => asked[result'[t].fd] \in {"nonblock", "accepted"}
                 /\ result'[t].res = "stopped" => asked[result'[t].fd] = "block"
  <1>1. HookInv /\ [Next]_vars => \A t \in Thread : A(t)
    <2> SUFFICES ASSUME HookInv, [Next]_vars, NEW t \in Thread,
                        result'[t] \notin {result[t], NoCall}, hooked, info[result'[t].fd].inuse,
                        result'[t].res # "over"
                 PROVE  /\ result'[t].res = "EAGAIN" => asked[result'[t].fd] \in {"nonblock", "accepted"}
                        /\ result'[t].res = "stopped" => asked[result'[t].fd] = "block"
      BY DEF Returns
    <2>1. PICK op \in Ops, fd \in Fd : Io(t, op, fd)
      BY ResultOfCall
    <2>2. CASE Real(op, fd)
      <3>1. PICK res \in {"over", IF kernel[fd] = "block" THEN "stopped" ELSE "EAGAIN"} :
                result' = [result EXCEPT ![t] = [fd |-> fd, op |-> op, res |-> res]]
        BY <2>1, <2>2 DEF Io, RealCall, End
      <3>2. result'[t].res = res /\ result'[t].fd = fd
        BY <3>1 DEF HookInv, Types
      <3>3. asked[fd] # "none"
        BY <2>1, <2>2, <3>2 DEF Io, Real, HookInv, TimeoutsAreItsOwn
      <3>4. /\ kernel[fd] = "block" => asked[fd] = "block"
            /\ kernel[fd] = "nonblock" => asked[fd] \in {"nonblock", "accepted"}
        BY <3>2, <3>3 DEF HookInv, Wishes, Types
      <3>5. kernel[fd] \in {"block", "nonblock"}
        BY <2>1 DEF HookInv, Types, Io, Open
      <3> QED BY <3>1, <3>2, <3>4, <3>5
    <2>3. CASE ~Real(op, fd)
      <3>1. \/ result' = [result EXCEPT ![t] = NoCall]
            \/ \E res \in {"over", "EINVAL", "refused"} \cup (IF kernel[fd] = "block" THEN {"stopped"} ELSE {}) :
                 result' = [result EXCEPT ![t] = [fd |-> fd, op |-> op, res |-> res]]
        BY <2>1, <2>3 DEF Io, TimedCall, AtOnce, End
      <3>2. PICK res \in {"over", "EINVAL", "refused"} \cup (IF kernel[fd] = "block" THEN {"stopped"} ELSE {}) :
                 result' = [result EXCEPT ![t] = [fd |-> fd, op |-> op, res |-> res]]
        BY <3>1 DEF HookInv, Types
      <3>3. result'[t].res = res /\ result'[t].fd = fd
        BY <3>2 DEF HookInv, Types
      <3>4. res = "stopped" => asked[fd] = "block"
        <4>1. kernel[fd] = "block" => asked[fd] = "block"
          BY <3>3 DEF HookInv, Wishes, Types
        <4> QED BY <3>2, <4>1
      <3> QED BY <3>2, <3>3, <3>4
    <2> QED BY <2>2, <2>3
  <1>2. HookInv /\ [Next]_vars => [\A t \in Thread : A(t)]_vars
    BY <1>1
  <1>3. []HookInv /\ [][Next]_vars => [][\A t \in Thread : A(t)]_vars
    BY <1>2, PTL
  <1> QED BY <1>3, HookInvariant, PTL DEF Spec, AsAsked

\* With the hooks on, want of an item ends no read, write or connect of a descriptor
\* the user left as it was, unless the event table has refused the item:
\* hook_ensure_item runs before the timed call does.
THEOREM WaitsWithItemAlways == Spec => WaitsWithItem
  <1> DEFINE A(t) == Returns(t) /\ result'[t].res = "EINVAL" =>
                 result'[t].op \in {"recvfrom", "sendto"} \/ info[result'[t].fd].unblock
  <1>1. HookInv /\ [Next]_vars => \A t \in Thread : A(t)
    <2> SUFFICES ASSUME HookInv, [Next]_vars, NEW t \in Thread,
                        result'[t] \notin {result[t], NoCall}, hooked, result'[t].res = "EINVAL"
                 PROVE  result'[t].op \in {"recvfrom", "sendto"} \/ info[result'[t].fd].unblock
      BY DEF Returns
    <2>1. PICK op \in Ops, fd \in Fd : Io(t, op, fd)
      BY ResultOfCall
    <2>2. ~Real(op, fd)
      <3> SUFFICES ASSUME Real(op, fd) PROVE FALSE
        OBVIOUS
      <3>1. PICK res \in {"over", "stopped", "EAGAIN"} :
                result' = [result EXCEPT ![t] = [fd |-> fd, op |-> op, res |-> res]]
        BY <2>1 DEF Io, RealCall, End
      <3> QED BY <3>1 DEF HookInv, Types
    <2>3. PICK res \in {"over", "stopped", "EINVAL", "refused"} :
               /\ result' \in {[result EXCEPT ![t] = NoCall],
                               [result EXCEPT ![t] = [fd |-> fd, op |-> op, res |-> res]]}
               /\ res = "EINVAL" => EnsureItem(op, fd) /\ table'[fd] = None
      BY <2>1, <2>2 DEF Io, TimedCall, AtOnce, End
    <2>4. result' = [result EXCEPT ![t] = [fd |-> fd, op |-> op, res |-> res]]
      BY <2>3 DEF HookInv, Types
    <2>5. result'[t].res = res /\ result'[t].fd = fd /\ result'[t].op = op
      BY <2>4 DEF HookInv, Types
    <2>6. table'[fd] = None /\ EnsureItem(op, fd)
      BY <2>3, <2>5
    <2>8. Ensures(op) => info[fd].unblock
      <3> SUFFICES ASSUME Ensures(op), ~info[fd].unblock PROVE FALSE
        OBVIOUS
      <3>1. CASE table[fd] = None
        <4>1. \E i \in Item : table' = [table EXCEPT ![fd] = i]
          BY <2>6, <3>1 DEF EnsureItem, Needs
        <4> QED BY <2>6, <4>1, HookAssumption DEF HookInv, Types
      <3>2. CASE table[fd] # None
        BY <2>6, <3>2 DEF EnsureItem, Needs
      <3> QED BY <3>1, <3>2
    <2> QED BY <2>5, <2>8 DEF Ensures, Ops, Reads, Writes
  <1>2. HookInv /\ [Next]_vars => [\A t \in Thread : A(t)]_vars
    BY <1>1
  <1>3. []HookInv /\ [][Next]_vars => [][\A t \in Thread : A(t)]_vars
    BY <1>2, PTL
  <1> QED BY <1>3, HookInvariant, PTL DEF Spec, WaitsWithItem
=============================================================================

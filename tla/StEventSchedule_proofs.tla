------------------------ MODULE StEventSchedule_proofs ------------------------
(***************************************************************************)
(* That the mask StIOState remembers is the one the kernel has, for any    *)
(* numbers of coroutines, descriptors and items, sets of descriptors of    *)
(* any length and any refusals of the kernel.  One descriptor at a time:   *)
(* every operation leaves its record Sound, also where it fails half way.  *)
(***************************************************************************)
EXTENDS StEventSchedule, SequenceTheorems, TLAPS

-----------------------------------------------------------------------------
(* Sequences without repetitions: sets of descriptors, from which one      *)
(* element at a time is removed.                                           *)

LEMMA EmptyRange == Range(<<>>) = {} /\ IsInjective(<<>>)
  BY DEF Range, IsInjective

LEMMA OneElement ==
    ASSUME NEW i
    PROVE  Range(<<i>>) = {i} /\ IsInjective(<<i>>) /\ Len(<<i>>) = 1
  BY DEF Range, IsInjective

\* RemoveAt moves what comes after the element one place down.
LEMMA RemovedAt ==
    ASSUME NEW S, NEW q \in Seq(S), NEW j \in 1 .. Len(q)
    PROVE  /\ RemoveAt(q, j) \in Seq(S)
           /\ Len(RemoveAt(q, j)) = Len(q) - 1
           /\ \A k \in 1 .. (Len(q) - 1) :
                RemoveAt(q, j)[k] = IF k < j THEN q[k] ELSE q[k + 1]
  <1> DEFINE n == Len(q)
             r == RemoveAt(q, j)
  <1>1. n \in Nat /\ DOMAIN q = 1 .. n
    OBVIOUS
  <1>2. r = SubSeq(q, 1, j - 1) \o SubSeq(q, j + 1, n)
    BY DEF RemoveAt
  <1> DEFINE a == SubSeq(q, 1, j - 1)
             b == SubSeq(q, j + 1, n)
  <1> HIDE DEF r, n
  <1>3. j \in 1 .. n
    BY DEF n
  <1>4. /\ a \in Seq(S) /\ Len(a) = j - 1
        /\ \A k \in 1 .. (j - 1) : a[k] = q[k]
    <2>1. 1 \in Int /\ j - 1 \in Int /\ \A k \in 1 .. (j - 1) : q[k] \in S
      BY <1>1, <1>3
    <2>2. /\ a \in Seq(S) /\ Len(a) = (IF 1 <= j - 1 THEN (j - 1) - 1 + 1 ELSE 0)
          /\ \A k \in 1 .. ((j - 1) - 1 + 1) : a[k] = q[1 + k - 1]
      BY ONLY <2>1, SubSeqProperties
    <2> HIDE DEF a
    <2> QED BY <1>1, <1>3, <2>2
  <1>5. /\ b \in Seq(S) /\ Len(b) = n - j
        /\ \A k \in 1 .. (n - j) : b[k] = q[j + k]
    <2>1. j + 1 \in Int /\ n \in Int /\ \A k \in (j + 1) .. n : q[k] \in S
      BY <1>1, <1>3
    <2>2. /\ b \in Seq(S) /\ Len(b) = (IF j + 1 <= n THEN n - (j + 1) + 1 ELSE 0)
          /\ \A k \in 1 .. (n - (j + 1) + 1) : b[k] = q[(j + 1) + k - 1]
      BY ONLY <2>1, SubSeqProperties
    <2> HIDE DEF b
    <2>3. Len(b) = n - j
      BY <1>1, <1>3, <2>2
    <2>4. ASSUME NEW k \in 1 .. (n - j) PROVE b[k] = q[j + k]
      <3>1. k \in 1 .. (n - (j + 1) + 1) /\ (j + 1) + k - 1 = j + k
        BY <1>1, <1>3
      <3> QED BY <2>2, <3>1
    <2> QED BY <2>2, <2>3, <2>4
  <1>6. /\ r \in Seq(S) /\ Len(r) = Len(a) + Len(b)
        /\ \A k \in 1 .. (Len(a) + Len(b)) : r[k] = IF k <= Len(a) THEN a[k] ELSE b[k - Len(a)]
    BY <1>2, <1>4, <1>5, ConcatProperties
  <1> HIDE DEF a, b
  <1>7. Len(r) = n - 1
    BY <1>1, <1>3, <1>4, <1>5, <1>6
  <1>8. ASSUME NEW k \in 1 .. (n - 1) PROVE r[k] = IF k < j THEN q[k] ELSE q[k + 1]
    <2>1. r[k] = IF k <= j - 1 THEN a[k] ELSE b[k - (j - 1)]
      BY <1>1, <1>3, <1>4, <1>5, <1>6
    <2>2. CASE k < j
      BY <1>1, <1>3, <1>4, <2>1, <2>2
    <2>3. CASE ~(k < j)
      <3>1. k - (j - 1) \in 1 .. (n - j) /\ j + (k - (j - 1)) = k + 1 /\ ~(k <= j - 1)
        BY <1>1, <1>3, <2>3
      <3> QED BY <1>5, <2>1, <2>3, <3>1
    <2> QED BY <2>2, <2>3
  <1> QED BY <1>6, <1>7, <1>8 DEF r, n

\* From a sequence without repetitions it takes one element.
LEMMA RemovedFrom ==
    ASSUME NEW S, NEW q \in Seq(S), IsInjective(q), NEW j \in DOMAIN q
    PROVE  /\ Range(RemoveAt(q, j)) = Range(q) \ {q[j]}
           /\ IsInjective(RemoveAt(q, j))
  <1> DEFINE n == Len(q)
             r == RemoveAt(q, j)
             at(k) == IF k < j THEN k ELSE k + 1
  <1>1. n \in Nat /\ DOMAIN q = 1 .. n /\ j \in 1 .. n
    OBVIOUS
  <1>2. r \in Seq(S) /\ Len(r) = n - 1 /\ \A k \in 1 .. (n - 1) : r[k] = q[at(k)]
    <2>1. j \in 1 .. Len(q)
      OBVIOUS
    <2>2. /\ RemoveAt(q, j) \in Seq(S)
          /\ Len(RemoveAt(q, j)) = Len(q) - 1
          /\ \A k \in 1 .. (Len(q) - 1) :
                RemoveAt(q, j)[k] = IF k < j THEN q[k] ELSE q[k + 1]
      BY <2>1, RemovedAt
    <2> HIDE DEF r
    <2> QED BY <2>2 DEF r
  <1> HIDE DEF n, r
  <1>3. DOMAIN r = 1 .. (n - 1)
    BY <1>2
  <1>4. /\ \A k \in 1 .. (n - 1) : at(k) \in (1 .. n) \ {j}
        /\ \A k, l \in 1 .. (n - 1) : at(k) = at(l) => k = l
    BY <1>1
  <1>5. \A k \in (1 .. n) \ {j} : \E l \in 1 .. (n - 1) : k = at(l)
    <2> SUFFICES ASSUME NEW k \in (1 .. n) \ {j} PROVE \E l \in 1 .. (n - 1) : k = at(l)
      OBVIOUS
    <2>1. CASE k < j
      <3>1. k \in 1 .. (n - 1) /\ k = at(k)
        BY <1>1, <2>1
      <3> QED BY <3>1
    <2>2. CASE j < k
      <3>1. k - 1 \in 1 .. (n - 1) /\ k = at(k - 1)
        BY <1>1, <2>2
      <3> QED BY <3>1
    <2> QED BY <1>1, <2>1, <2>2
  <1> HIDE DEF at
  <1>6. IsInjective(r)
    BY <1>1, <1>2, <1>3, <1>4 DEF IsInjective
  <1>7. Range(r) = Range(q) \ {q[j]}
    <2>1. \A x : x \in Range(r) <=> \E k \in 1 .. (n - 1) : x = q[at(k)]
      BY <1>2, <1>3 DEF Range
    <2>2. \A x : x \in Range(r) <=> \E k \in (1 .. n) \ {j} : x = q[k]
      BY <1>4, <1>5, <2>1
    <2>3. \A x : x \in Range(q) <=> \E k \in 1 .. n : x = q[k]
      BY <1>1 DEF Range
    <2>4. \A k \in 1 .. n : q[k] = q[j] <=> k = j
      BY <1>1 DEF IsInjective
    <2> QED BY <2>2, <2>3, <2>4
  <1> QED BY <1>6, <1>7 DEF r
-----------------------------------------------------------------------------

Cell == [item : Item \cup {None}, mask : SUBSET Event, kernel : SUBSET Event]

\* The record s of a descriptor that is open or not.
Sound(s, isOpen) ==
    /\ s \in Cell
    /\ s.mask = s.kernel
    /\ ~isOpen => s.kernel = {}

\* A connection's descriptor is the one its item is for.
SockIsOsfd == \A i \in Item : sock[i] # None => sock[i] = osfd[i]

EventInv == TypeOK /\ MaskIsKernel /\ SockIsOsfd

-----------------------------------------------------------------------------
(* One descriptor.                                                         *)

\* Taking events out of the mask tells the kernel, or fails and does nothing.
LEMMA DelEventSound ==
    ASSUME NEW isOpen \in BOOLEAN, NEW s, Sound(s, isOpen), NEW m
    PROVE  Sound(DelEvent(s, m, isOpen), isOpen)
  <1>1. CASE DelEventOk(s, m, isOpen) /\ s.mask \ m # s.mask
    <2>1. CanMod(s, isOpen)
      BY <1>1 DEF CanMod, Sound
    <2>2. DelEvent(s, m, isOpen) = [s EXCEPT !.mask = @ \ m, !.kernel = s.mask \ m]
      BY <1>1, <2>1 DEF DelEvent
    <2> QED BY <2>1, <2>2 DEF Sound, Cell, CanMod
  <1>2. CASE ~(DelEventOk(s, m, isOpen) /\ s.mask \ m # s.mask)
    BY <1>2 DEF DelEvent
  <1> QED BY <1>1, <1>2

\* So does replacing the mask.
LEMMA AddEventSound ==
    ASSUME NEW isOpen \in BOOLEAN, NEW s, Sound(s, isOpen), NEW m \in SUBSET Event, NEW refused
    PROVE  Sound(AddEvent(s, m, isOpen, refused), isOpen)
  <1>1. CASE ~AddEventOk(s, m, isOpen, refused) \/ s.mask = m
    BY <1>1 DEF AddEvent
  <1>2. CASE ~(~AddEventOk(s, m, isOpen, refused) \/ s.mask = m) /\ m = {}
    BY <1>2, DelEventSound DEF AddEvent
  <1>3. CASE ~(~AddEventOk(s, m, isOpen, refused) \/ s.mask = m) /\ m # {}
    <2>1. isOpen
      BY <1>3 DEF AddEventOk, CanAdd, CanMod
    <2>2. AddEvent(s, m, isOpen, refused) = [s EXCEPT !.mask = m, !.kernel = m]
      BY <1>3 DEF AddEvent
    <2> QED BY <2>1, <2>2 DEF Sound, Cell
  <1> QED BY <1>1, <1>2, <1>3

\* Changing who is in the table does not touch the masks.
LEMMA ItemSound ==
    ASSUME NEW isOpen \in BOOLEAN, NEW s, Sound(s, isOpen), NEW i \in Item \cup {None}
    PROVE  Sound([s EXCEPT !.item = i], isOpen)
  BY DEF Sound, Cell

LEMMA AddSound ==
    ASSUME NEW isOpen \in BOOLEAN, NEW s, Sound(s, isOpen), NEW i \in Item,
           NEW m \in SUBSET Event, NEW refused
    PROVE  Sound(Add(s, i, m, isOpen, refused), isOpen)
  <1> DEFINE e == Evict(s, i, isOpen)
  <1>1. Sound(e, isOpen)
    BY DelEventSound, ItemSound DEF Evict
  <1> HIDE DEF e
  <1>2. Sound([AddEvent(e, m, isOpen, refused) EXCEPT !.item = i], isOpen)
    BY <1>1, AddEventSound, ItemSound
  <1> QED BY <1>1, <1>2 DEF Add, e

LEMMA DeleteSound ==
    ASSUME NEW isOpen \in BOOLEAN, NEW s, Sound(s, isOpen), NEW i, NEW m
    PROVE  Sound(Delete(s, i, m, isOpen), isOpen)
  BY DelEventSound DEF Delete

LEMMA ClearItemSound ==
    ASSUME NEW isOpen \in BOOLEAN, NEW s, Sound(s, isOpen), NEW i, NEW m
    PROVE  Sound(ClearItem(s, i, m, isOpen), isOpen)
  BY DeleteSound, ItemSound DEF ClearItem

\* After close the record is Sound whether the number is in use or not.
LEMMA CloseFdSound ==
    ASSUME NEW isOpen \in BOOLEAN, NEW s \in Cell
    PROVE  Sound(CloseFd(s), isOpen)
  BY DEF Sound, Cell, CloseFd

-----------------------------------------------------------------------------
(* Sets of descriptors: each descriptor is left alone, changed, or changed *)
(* and changed back.                                                       *)

LEMMA SlotSound ==
    ASSUME TypeOK, MaskIsKernel, NEW fd \in Fd
    PROVE  Sound(slot[fd], fd \in open)
  BY DEF TypeOK, MaskIsKernel, Sound, Cell

\* Update takes what it does not leave alone from the items of q.
LEMMA UpdateSound ==
    ASSUME TypeOK, MaskIsKernel, NEW q, NEW bad, NEW new,
           \A i \in Range(q) : osfd[i] \in Fd => Sound(new[i], osfd[i] \in open)
    PROVE  /\ DOMAIN Update(q, bad, new) = Fd
           /\ Update(q, bad, new) = [fd \in Fd |-> Update(q, bad, new)[fd]]
           /\ \A fd \in Fd : Sound(Update(q, bad, new)[fd], fd \in open)
  <1> DEFINE S == {i \in Range(q) : bad = {} \/ Before(q, bad, i) \/ First(q, bad, i)}
  <1>1. Update(q, bad, new) = [fd \in Fd |-> IF \E i \in S : osfd[i] = fd
                                               THEN new[CHOOSE i \in S : osfd[i] = fd]
                                               ELSE slot[fd]]
    BY DEF Update
  <1>2. S \subseteq Range(q)
    OBVIOUS
  <1> HIDE DEF S
  <1>3. ASSUME NEW fd \in Fd
        PROVE  Sound(Update(q, bad, new)[fd], fd \in open)
    <2>1. CASE \E i \in S : osfd[i] = fd
      <3> DEFINE i == CHOOSE i \in S : osfd[i] = fd
      <3>1. i \in S /\ osfd[i] = fd
        BY <2>1
      <3>2. Update(q, bad, new)[fd] = new[i]
        BY <1>1, <2>1
      <3> HIDE DEF i
      <3> QED BY <1>2, <3>1, <3>2
    <2>2. CASE ~\E i \in S : osfd[i] = fd
      BY <1>1, <2>2, SlotSound
    <2> QED BY <2>1, <2>2
  <1> QED BY <1>1, <1>3

LEMMA AddSetSound ==
    ASSUME TypeOK, MaskIsKernel, NEW q, Range(q) \subseteq Item,
           NEW ev \in [Item -> SUBSET Event], NEW refused
    PROVE  /\ AddSet(q, ev, refused) = [fd \in Fd |-> AddSet(q, ev, refused)[fd]]
           /\ \A fd \in Fd : Sound(AddSet(q, ev, refused)[fd], fd \in open)
  <1> DEFINE bad == {j \in DOMAIN q : ~AddItemOk(q[j], ev, refused)}
             back(i) == Delete(AddItem(i, ev, refused), i, ev[i], osfd[i] \in open)
             new == [i \in Range(q) |-> IF bad # {} /\ Before(q, bad, i)
                                          THEN back(i) ELSE AddItem(i, ev, refused)]
  <1>1. AddSet(q, ev, refused) = Update(q, bad, new)
    BY DEF AddSet
  <1>2. ASSUME NEW i \in Range(q), osfd[i] \in Fd
        PROVE  Sound(new[i], osfd[i] \in open)
    <2>1. i \in Item /\ ev[i] \in SUBSET Event /\ (osfd[i] \in open) \in BOOLEAN
      OBVIOUS
    <2>2. Sound(AddItem(i, ev, refused), osfd[i] \in open)
      BY <1>2, <2>1, SlotSound, AddSound DEF AddItem
    <2>3. Sound(back(i), osfd[i] \in open)
      BY <2>1, <2>2, DeleteSound
    <2>4. new[i] \in {back(i), AddItem(i, ev, refused)}
      OBVIOUS
    <2> HIDE DEF new, back
    <2> QED BY <2>2, <2>3, <2>4
  <1> HIDE DEF bad, new
  <1> QED BY <1>1, <1>2, UpdateSound

LEMMA DeleteSetSound ==
    ASSUME TypeOK, MaskIsKernel, NEW q, Range(q) \subseteq Item, NEW refused
    PROVE  /\ DeleteSet(q, refused) = [fd \in Fd |-> DeleteSet(q, refused)[fd]]
           /\ \A fd \in Fd : Sound(DeleteSet(q, refused)[fd], fd \in open)
  <1> DEFINE bad == {j \in DOMAIN q : ~DeleteItemOk(q[j])}
             back(i) == Add(DeleteItem(i), i, events[i], osfd[i] \in open, osfd[i] \in refused)
             new == [i \in Range(q) |-> IF bad # {} /\ Before(q, bad, i)
                                          THEN back(i) ELSE DeleteItem(i)]
  <1>1. DeleteSet(q, refused) = Update(q, bad, new)
    BY DEF DeleteSet
  <1>2. ASSUME NEW i \in Range(q), osfd[i] \in Fd
        PROVE  Sound(new[i], osfd[i] \in open)
    <2>1. i \in Item /\ events[i] \in SUBSET Event /\ (osfd[i] \in open) \in BOOLEAN
      BY DEF TypeOK
    <2>2. Sound(DeleteItem(i), osfd[i] \in open)
      BY <1>2, <2>1, SlotSound, DeleteSound DEF DeleteItem
    <2>3. Sound(back(i), osfd[i] \in open)
      BY <2>1, <2>2, AddSound
    <2>4. new[i] \in {back(i), DeleteItem(i)}
      OBVIOUS
    <2> HIDE DEF new, back
    <2> QED BY <2>2, <2>3, <2>4
  <1> HIDE DEF bad, new
  <1> QED BY <1>1, <1>2, UpdateSound

-----------------------------------------------------------------------------
(* Steps.                                                                  *)

\* What a step has to show of the descriptors.
LEMMA CellsSound ==
    ASSUME slot' = [fd \in Fd |-> slot'[fd]], \A fd \in Fd : Sound(slot'[fd], fd \in open')
    PROVE  slot' \in [Fd -> Cell] /\ MaskIsKernel'
  BY DEF Sound, MaskIsKernel

LEMMA OneCellSound ==
    ASSUME TypeOK, MaskIsKernel, NEW fd \in Fd, NEW s, slot' = [slot EXCEPT ![fd] = s],
           Sound(s, fd \in open'), \A f \in Fd : f # fd => (f \in open' <=> f \in open)
    PROVE  slot' \in [Fd -> Cell] /\ MaskIsKernel'
  BY SlotSound DEF Sound, MaskIsKernel, TypeOK, Cell

LEMMA ItemsOfSet ==
    ASSUME NEW q \in Seq(Item)
    PROVE  Range(q) \subseteq Item
  BY RangeOfSeq

LEMMA WithoutSeq ==
    ASSUME NEW q \in Seq(Item), NEW i
    PROVE  Without(q, i) \in Seq(Item) /\ Len(Without(q, i)) <= Len(q)
  <1>1. CASE i \notin Range(q)
    BY <1>1 DEF Without
  <1>2. CASE i \in Range(q)
    <2> DEFINE j == CHOOSE j \in DOMAIN q : q[j] = i
    <2>1. j \in 1 .. Len(q)
      BY <1>2 DEF Range
    <2>2. Without(q, i) = RemoveAt(q, j)
      BY <1>2 DEF Without
    <2> HIDE DEF j
    <2> QED BY <2>1, <2>2, RemovedAt
  <1> QED BY <1>1, <1>2

LEMMA SetsAreSeqs ==
    ASSUME NEW q \in Sets
    PROVE  q \in Seq(Item)
  BY DEF Sets, BoundedSeq, SeqOf

LEMMA RegisterStep ==
    ASSUME EventInv, NEW t \in Thread, NEW fd \in Fd, NEW i \in Item, Register(t, fd, i)
    PROVE  EventInv'
  <1> USE DEF EventInv
  <1>1. PICK m \in FirstEvents, refused \in Refusals, giveUp \in BOOLEAN :
          LET new == Add(slot[fd], i, m, TRUE, refused)
          IN  IF new.item = i \/ ~giveUp
                THEN /\ open' = open \cup {fd}
                     /\ slot' = [slot EXCEPT ![fd] = new]
                     /\ osfd' = [osfd EXCEPT ![i] = fd]
                     /\ sock' = [sock EXCEPT ![i] = fd]
                     /\ events' = [events EXCEPT ![i] = m]
                     /\ UNCHANGED <<revents, owner>>
                ELSE /\ slot' = [slot EXCEPT ![fd] = CloseFd(new)]
                     /\ UNCHANGED <<open, items>>
    BY DEF Register
  <1> DEFINE new == Add(slot[fd], i, m, TRUE, refused)
  <1>2. fd \notin open /\ m \in SUBSET Event /\ UNCHANGED threads
    BY EventAssumption DEF Register
  <1>3. Sound(new, TRUE)
    <2>1. Sound(slot[fd], TRUE)
      BY <1>2, SlotSound DEF Sound
    <2> QED BY <1>2, <2>1, AddSound
  <1> HIDE DEF new
  <1>4. CASE open' = open \cup {fd} /\ slot' = [slot EXCEPT ![fd] = new]
             /\ osfd' = [osfd EXCEPT ![i] = fd] /\ sock' = [sock EXCEPT ![i] = fd]
             /\ events' = [events EXCEPT ![i] = m] /\ UNCHANGED <<revents, owner>>
    <2>1. Sound(new, fd \in open')
      BY <1>3, <1>4 DEF Sound
    <2>2. slot' \in [Fd -> Cell] /\ MaskIsKernel'
      BY <1>4, <2>1, OneCellSound
    <2>3. TypeOK'
      BY <1>2, <1>4, <2>2 DEF TypeOK, Cell, threads
    <2>4. SockIsOsfd'
      BY <1>4 DEF SockIsOsfd, TypeOK
    <2> QED BY <2>2, <2>3, <2>4
  <1>5. CASE slot' = [slot EXCEPT ![fd] = CloseFd(new)] /\ UNCHANGED <<open, items>>
    <2>1. Sound(CloseFd(new), fd \in open')
      BY <1>3, CloseFdSound DEF Sound
    <2>2. Sound(CloseFd(new), fd \in open') /\ open' = open
      BY <1>5, <2>1 DEF items
    <2>3. slot' \in [Fd -> Cell] /\ MaskIsKernel'
      BY <1>5, <2>2, OneCellSound
    <2>4. UNCHANGED <<open, osfd, sock, events, revents, owner>> /\ UNCHANGED threads
      BY <1>2, <1>5 DEF items
    <2>5. TypeOK'
      BY <2>3, <2>4 DEF TypeOK, Cell, threads
    <2>6. SockIsOsfd'
      BY <2>4 DEF SockIsOsfd
    <2> QED BY <2>3, <2>5, <2>6
  <1> QED BY <1>1, <1>4, <1>5 DEF new

LEMMA ScheduleStep ==
    ASSUME EventInv, NEW t \in Thread, NEW q \in Seq(Item), NEW m \in SUBSET Event,
           NEW failure \in {"noitem", "fail"}, Schedule(t, q, m, failure)
    PROVE  EventInv'
  <1> USE DEF EventInv
  <1> DEFINE ev == [i \in Item |-> IF i \in Range(q) THEN m ELSE events[i]]
             all == fdset[t] \o q
  <1>1. all \in Seq(Item) /\ ev \in [Item -> SUBSET Event]
    BY ConcatProperties DEF TypeOK
  <1>2. PICK refused \in Refused :
          /\ slot' = AddSet(all, ev, refused)
          /\ events' = ev
          /\ owner' = [i \in Item |-> IF i \in Range(q) THEN t ELSE owner[i]]
          /\ \/ /\ fdset' = [fdset EXCEPT ![t] = all]
                /\ io' = io \cup {t}
                /\ pc' = [pc EXCEPT ![t] = "schedule"]
                /\ UNCHANGED outcome
             \/ /\ outcome' = [outcome EXCEPT ![t] = failure]
                /\ UNCHANGED <<fdset, io, pc>>
          /\ UNCHANGED <<open, osfd, sock, revents, fired>>
    BY DEF Schedule
  <1> HIDE DEF all, ev
  <1>3. slot' \in [Fd -> Cell] /\ MaskIsKernel'
    BY <1>1, <1>2, ItemsOfSet, AddSetSound, CellsSound
  <1>4. TypeOK'
    <2>1. owner' \in [Item -> Thread \cup {None}]
      BY <1>2 DEF TypeOK
    <2>2. fdset' \in [Thread -> Seq(Item)] /\ io' \subseteq Thread
      <3>1. fdset \in [Thread -> Seq(Item)] /\ io \subseteq Thread
        BY DEF TypeOK
      <3>2. fdset' \in {fdset, [fdset EXCEPT ![t] = all]} /\ io' \in {io, io \cup {t}}
        BY <1>2
      <3> HIDE DEF EventInv
      <3> QED BY <1>1, <3>1, <3>2
    <2>3. pc' \in [Thread -> {"app", "schedule"}]
      BY <1>2 DEF TypeOK
    <2>4. outcome' \in [Thread -> {"none", "fd", "etime", "noitem", "fail"}]
      BY <1>2 DEF TypeOK
    <2> QED BY <1>1, <1>2, <1>3, <2>1, <2>2, <2>3, <2>4 DEF TypeOK, Cell
  <1>5. SockIsOsfd'
    BY <1>2 DEF SockIsOsfd
  <1> QED BY <1>3, <1>4, <1>5

LEMMA HookAgainStep ==
    ASSUME EventInv, NEW t \in Thread, NEW i \in Item, NEW j \in Item, HookAgain(t, i, j)
    PROVE  EventInv'
  <1> USE DEF EventInv
  <1> DEFINE fd == sock[i]
             new == Add(slot[fd], j, {}, fd \in open, FALSE)
  <1>1. fd \in Fd
    BY DEF HookAgain, TypeOK
  <1>2. slot' = [slot EXCEPT ![fd] = new]
    BY DEF HookAgain
  <1>3. Sound(new, fd \in open)
    <2>1. Sound(slot[fd], fd \in open)
      BY <1>1, SlotSound
    <2>2. {} \in SUBSET Event /\ (fd \in open) \in BOOLEAN
      OBVIOUS
    <2> HIDE DEF fd
    <2> QED BY <2>1, <2>2, AddSound
  <1> HIDE DEF new
  <1>4. open' = open
    BY DEF HookAgain
  <1>5. slot' \in [Fd -> Cell] /\ MaskIsKernel'
    <2> HIDE DEF fd
    <2> QED BY <1>1, <1>2, <1>3, <1>4, OneCellSound
  <1>6. TypeOK'
    BY <1>1, <1>5 DEF TypeOK, Cell, HookAgain, threads
  <1>7. SockIsOsfd'
    BY DEF SockIsOsfd, HookAgain, TypeOK
  <1> QED BY <1>5, <1>6, <1>7

LEMMA EndWaitStep ==
    ASSUME EventInv, NEW t \in Thread, EndWait(t)
    PROVE  EventInv'
  <1> USE DEF EventInv
  <1>1. Range(fdset[t]) \subseteq Item
    BY ItemsOfSet DEF TypeOK
  <1>2. slot' \in [Fd -> Cell] /\ MaskIsKernel'
    BY <1>1, DeleteSetSound, CellsSound DEF EndWait, items
  <1>3. TypeOK'
    BY <1>2 DEF TypeOK, Cell, EndWait, items
  <1>4. SockIsOsfd'
    BY DEF SockIsOsfd, EndWait, items
  <1> QED BY <1>2, <1>3, <1>4

LEMMA ReleaseStep ==
    ASSUME EventInv, NEW t \in Thread, NEW i \in Item, Release(t, i)
    PROVE  EventInv'
  <1> USE DEF EventInv
  <1> DEFINE fd == osfd[i]
             c(always) == IF always \/ slot[fd].item = i
                            THEN ClearItem(slot[fd], i, events[i], fd \in open)
                            ELSE slot[fd]
             new(always) == IF sock[i] # None THEN CloseFd(c(always)) ELSE c(always)
  <1>1. fd \in Fd /\ (fd \in open) \in BOOLEAN /\ fd # None
    BY EventAssumption DEF Release, TypeOK
  <1>2. PICK always \in BOOLEAN : slot' = [slot EXCEPT ![fd] = new(always)]
    BY DEF Release
  <1>3. Sound(c(always), fd \in open)
    <2>1. Sound(slot[fd], fd \in open)
      BY <1>1, SlotSound
    <2> HIDE DEF fd
    <2>2. Sound(ClearItem(slot[fd], i, events[i], fd \in open), fd \in open)
      BY <2>1, <1>1, ClearItemSound
    <2> QED BY <2>1, <2>2
  <1> HIDE DEF c
  <1>4. sock[i] # None => sock[i] = fd
    BY DEF SockIsOsfd
  <1>5. Sound(new(always), fd \in open')
    <2>1. CASE sock[i] # None
      BY <2>1, <1>3, CloseFdSound DEF Sound
    <2>2. CASE sock[i] = None
      <3>1. fd \in open' <=> fd \in open
        BY <2>2, <1>1 DEF Release
      <3> QED BY <2>2, <1>3, <3>1 DEF Sound
    <2> QED BY <2>1, <2>2
  <1> HIDE DEF new
  <1>6. \A f \in Fd : f # fd => (f \in open' <=> f \in open)
    BY <1>4, EventAssumption DEF Release
  <1>8. slot' \in [Fd -> Cell] /\ MaskIsKernel'
    <2> HIDE DEF fd
    <2> QED BY <1>1, <1>2, <1>5, <1>6, OneCellSound
  <1>9. TypeOK'
    <2>1. fdset' \in [Thread -> Seq(Item)]
      BY WithoutSeq DEF TypeOK, Release
    <2>2. osfd' \in [Item -> Fd \cup {None}] /\ sock' \in [Item -> Fd \cup {None}]
      BY DEF TypeOK, Release
    <2>3. events' \in [Item -> SUBSET Event] /\ revents' \in [Item -> SUBSET (Event \cup {"err"})]
      BY DEF TypeOK, Release
    <2>4. owner' \in [Item -> Thread \cup {None}] /\ open' \subseteq Fd
      BY DEF TypeOK, Release
    <2>5. UNCHANGED <<io, pc, outcome, fired>>
      BY DEF Release
    <2> QED BY <1>8, <2>1, <2>2, <2>3, <2>4, <2>5 DEF TypeOK, Cell
  <1>10. SockIsOsfd'
    BY DEF SockIsOsfd, Release, TypeOK
  <1> QED BY <1>8, <1>9, <1>10

LEMMA CloseOnlyStep ==
    ASSUME EventInv, NEW t \in Thread, NEW i \in Item, CloseOnly(t, i)
    PROVE  EventInv'
  <1> USE DEF EventInv
  <1> DEFINE fd == sock[i]
             new == CloseFd(slot[fd])
  <1>1. fd \in Fd /\ slot' = [slot EXCEPT ![fd] = new] /\ open' = open \ {fd}
    BY DEF CloseOnly, TypeOK
  <1>2. Sound(new, fd \in open')
    BY <1>1, SlotSound, CloseFdSound DEF Sound
  <1> HIDE DEF new
  <1>4. slot' \in [Fd -> Cell] /\ MaskIsKernel'
    <2> HIDE DEF fd
    <2> QED BY <1>1, <1>2, OneCellSound
  <1>5. TypeOK'
    BY <1>1, <1>4 DEF TypeOK, Cell, CloseOnly, threads
  <1>6. SockIsOsfd'
    BY DEF SockIsOsfd, CloseOnly, TypeOK
  <1> QED BY <1>4, <1>5, <1>6

\* An armed descriptor is open, so epoll_ctl reaches it.
LEMMA DispatchStep ==
    ASSUME EventInv, NEW fd \in Fd, NEW m \in SUBSET (Event \cup {"err"}), Dispatch(fd, m)
    PROVE  EventInv'
  <1> USE DEF EventInv
  <1> DEFINE i == slot[fd].item
  <1>1. fd \in open /\ Sound(slot[fd], TRUE)
    BY SlotSound DEF Dispatch, Sound
  <1>2. \/ slot' = slot
        \/ slot' = [slot EXCEPT ![fd] = DelEvent(@, m, TRUE)]
        \/ slot' = [slot EXCEPT ![fd] = ClearItem(@, i, events[i], TRUE)]
    BY DEF Dispatch
  <1>3. Sound(DelEvent(slot[fd], m, TRUE), TRUE)
        /\ Sound(ClearItem(slot[fd], i, events[i], TRUE), TRUE)
    BY <1>1, DelEventSound, ClearItemSound
  <1>4. UNCHANGED <<open, osfd, sock, events, owner, fdset, pc, outcome>>
    BY DEF Dispatch
  <1>6. slot' \in [Fd -> Cell] /\ MaskIsKernel'
    <2>1. slot' = slot \/ \E s : Sound(s, TRUE) /\ slot' = [slot EXCEPT ![fd] = s]
      BY <1>2, <1>3
    <2>2. CASE slot' = slot
      BY <1>4, <2>2 DEF TypeOK, Cell, MaskIsKernel
    <2>3. ASSUME NEW s, Sound(s, TRUE), slot' = [slot EXCEPT ![fd] = s]
          PROVE  slot' \in [Fd -> Cell] /\ MaskIsKernel'
      <3>1. Sound(s, fd \in open')
        BY <1>1, <1>4, <2>3 DEF Sound
      <3> QED BY <1>4, <2>3, <3>1, OneCellSound
    <2> QED BY <2>1, <2>2, <2>3
  <1>7. TypeOK'
    <2>1. io' \subseteq Thread
      BY DEF Dispatch, TypeOK
    <2>2. revents' \in [Item -> SUBSET (Event \cup {"err"})]
      BY DEF Dispatch, SetRecvEvents, TypeOK, Event
    <2>3. fired' \in [Thread -> SUBSET Item]
      <3>1. CASE i = None
        BY <3>1 DEF Dispatch, TypeOK
      <3>2. CASE i # None
        <4>1. i \in Item
          BY <3>2 DEF TypeOK
        <4>2. fired' = [t \in Thread |-> IF pc[t] = "schedule" /\ i \in Range(fdset[t])
                                           THEN fired[t] \cup {i} ELSE fired[t]]
          BY <3>2 DEF Dispatch
        <4> HIDE DEF i
        <4> QED BY <4>1, <4>2 DEF TypeOK
      <3> QED BY <3>1, <3>2
    <2> QED BY <1>4, <1>6, <2>1, <2>2, <2>3 DEF TypeOK, Cell
  <1>8. SockIsOsfd'
    BY <1>4 DEF SockIsOsfd
  <1> QED BY <1>6, <1>7, <1>8

\* Every step: a coroutine's, the daemon's, or none.
LEMMA EventStep == EventInv /\ [Next]_vars => EventInv'
  <1> SUFFICES ASSUME EventInv, [Next]_vars
               PROVE  EventInv'
    OBVIOUS
  <1>1. ASSUME NEW t \in Thread, NEW i \in Item, NEW fd \in Fd, Register(t, fd, i)
        PROVE  EventInv'
    BY <1>1, RegisterStep
  <1>2. ASSUME NEW t \in Thread, NEW i \in Item, NEW j \in Item, HookAgain(t, i, j)
        PROVE  EventInv'
    BY <1>2, HookAgainStep
  <1>3. ASSUME NEW t \in Thread, NEW i \in Item, ServeAgain(t, i)
        PROVE  EventInv'
    <2>1. <<i>> \in Seq(Item) /\ {"r"} \in SUBSET Event
      BY DEF Event
    <2> QED BY <1>3, <2>1, ScheduleStep DEF ServeAgain
  <1>4. ASSUME NEW t \in Thread, NEW i \in Item, WaitNoItem(t, i)
        PROVE  EventInv'
    BY <1>4 DEF WaitNoItem, EventInv, TypeOK, MaskIsKernel, SockIsOsfd, items
  <1>5. ASSUME NEW t \in Thread, NEW i \in Item, Release(t, i)
        PROVE  EventInv'
    BY <1>5, ReleaseStep
  <1>6. ASSUME NEW t \in Thread, NEW i \in Item, CloseOnly(t, i)
        PROVE  EventInv'
    BY <1>6, CloseOnlyStep
  <1>7. ASSUME NEW t \in Thread, EndWait(t)
        PROVE  EventInv'
    BY <1>7, EndWaitStep
  <1>8. ASSUME NEW t \in Thread, Leave(t)
        PROVE  EventInv'
    BY <1>8 DEF Leave, EventInv, TypeOK, MaskIsKernel, SockIsOsfd, items
  <1>9. ASSUME NEW t \in Thread, NEW q \in Sets, Wait(t, q)
        PROVE  EventInv'
    <2>1. PICK m \in {{"r"}, {"w"}} : Schedule(t, q, m, "fail")
      BY <1>9 DEF Wait
    <2>2. m \in SUBSET Event
      BY DEF Event
    <2> QED BY <2>1, <2>2, SetsAreSeqs, ScheduleStep
  <1>10. ASSUME NEW fd \in Fd, NEW m \in SUBSET (Event \cup {"err"}), Dispatch(fd, m)
         PROVE  EventInv'
    BY <1>10, DispatchStep
  <1>11. CASE UNCHANGED vars
    BY <1>11 DEF EventInv, TypeOK, MaskIsKernel, SockIsOsfd, vars, items, threads
  <1> QED BY <1>1, <1>2, <1>3, <1>4, <1>5, <1>6, <1>7, <1>8, <1>9, <1>10, <1>11 DEF Next

LEMMA EventInit == Init => EventInv
  <1>1. <<>> \in Seq(Item)
    OBVIOUS
  <1>2. Init => TypeOK
    BY <1>1 DEF Init, TypeOK, Empty
  <1>3. Init => MaskIsKernel
    <2> SUFFICES ASSUME Init, NEW fd \in Fd
                 PROVE  slot[fd].mask = {} /\ slot[fd].kernel = {}
      BY DEF MaskIsKernel
    <2>1. slot[fd] = Empty
      BY DEF Init
    <2> QED BY <2>1 DEF Empty
  <1>4. Init => SockIsOsfd
    BY DEF Init, SockIsOsfd
  <1> QED BY <1>2, <1>3, <1>4 DEF EventInv

\* The variables keep their types, sets of descriptors of any length included.
THEOREM EventTypeCorrect == Spec => []TypeOK
  <1>1. EventInv => TypeOK
    BY DEF EventInv
  <1> QED BY <1>1, EventInit, EventStep, PTL DEF Spec

\* StIOState and the kernel agree on every descriptor, however often descriptors
\* are closed, their numbers used again, and operations refused half way.
THEOREM MaskIsKernelAlways == Spec => []MaskIsKernel
  <1>1. EventInv => MaskIsKernel
    BY DEF EventInv
  <1> QED BY <1>1, EventInit, EventStep, PTL DEF Spec
-----------------------------------------------------------------------------
(* That a coroutine that waits for descriptors can be woken by them and is *)
(* told of what it was woken for, and, where every wait is for one         *)
(* descriptor, that nothing else is armed or wakes it.                     *)

LEMMA WithoutItem ==
    ASSUME NEW q \in Seq(Item), IsInjective(q), NEW i
    PROVE  Range(Without(q, i)) = Range(q) \ {i} /\ IsInjective(Without(q, i))
  <1>1. CASE i \notin Range(q)
    BY <1>1 DEF Without
  <1>2. CASE i \in Range(q)
    <2> DEFINE j == CHOOSE j \in DOMAIN q : q[j] = i
    <2>1. j \in DOMAIN q /\ q[j] = i
      BY <1>2 DEF Range
    <2>2. Without(q, i) = RemoveAt(q, j)
      BY <1>2 DEF Without
    <2> HIDE DEF j
    <2> QED BY <2>1, <2>2, RemovedFrom
  <1> QED BY <1>1, <1>2

-----------------------------------------------------------------------------
(* One descriptor: whose item it has, and when it is armed.                *)

LEMMA DelEventItem ==
    ASSUME NEW isOpen \in BOOLEAN, NEW s, Sound(s, isOpen), NEW m
    PROVE  DelEvent(s, m, isOpen).item = s.item
  BY DEF DelEvent, Sound, Cell

LEMMA DeleteItemOf ==
    ASSUME NEW isOpen \in BOOLEAN, NEW s, Sound(s, isOpen), NEW i, NEW m
    PROVE  /\ Delete(s, i, m, isOpen).item = s.item
           /\ ClearItem(s, i, m, isOpen).item = None
  <1>1. Delete(s, i, m, isOpen).item = s.item
    BY DelEventItem DEF Delete
  <1>2. Delete(s, i, m, isOpen) \in Cell
    BY DeleteSound DEF Sound
  <1> QED BY <1>1, <1>2 DEF ClearItem, Cell

LEMMA CloseFdItem ==
    ASSUME NEW s \in Cell
    PROVE  CloseFd(s).item = s.item /\ CloseFd(s).kernel = {}
  BY DEF CloseFd, Cell

LEMMA AddEventMask ==
    ASSUME NEW isOpen \in BOOLEAN, NEW s, Sound(s, isOpen), NEW m \in SUBSET Event, NEW refused
    PROVE  /\ AddEvent(s, m, isOpen, refused).item = s.item
           /\ AddEventOk(s, m, isOpen, refused) => AddEvent(s, m, isOpen, refused).mask = m
           /\ ~AddEventOk(s, m, isOpen, refused) => AddEvent(s, m, isOpen, refused) = s /\ s.mask = {}
  <1>1. CASE ~AddEventOk(s, m, isOpen, refused)
    <2>1. s.mask = {}
      BY <1>1 DEF AddEventOk, DelEventOk, CanMod, Sound
    <2> QED BY <1>1, <2>1 DEF AddEvent
  <1>2. CASE AddEventOk(s, m, isOpen, refused) /\ s.mask = m
    BY <1>2 DEF AddEvent
  <1>3. CASE AddEventOk(s, m, isOpen, refused) /\ s.mask # m /\ m = {}
    <2>1. DelEventOk(s, s.mask, isOpen) /\ AddEvent(s, m, isOpen, refused) = DelEvent(s, s.mask, isOpen)
      BY <1>3 DEF AddEventOk, AddEvent
    <2>2. DelEvent(s, s.mask, isOpen).mask = {}
      BY <1>3, <2>1 DEF DelEvent, Sound, Cell
    <2> QED BY <1>3, <2>1, <2>2, DelEventItem
  <1>4. CASE AddEventOk(s, m, isOpen, refused) /\ s.mask # m /\ m # {}
    BY <1>4 DEF AddEvent, Sound, Cell
  <1> QED BY <1>1, <1>2, <1>3, <1>4

\* Add puts the item in the table and arms it, or leaves the place empty or alone.
LEMMA AddEffect ==
    ASSUME NEW isOpen \in BOOLEAN, NEW s, Sound(s, isOpen), NEW i \in Item,
           NEW m \in SUBSET Event, NEW refused
    PROVE  /\ Add(s, i, m, isOpen, refused).item \in {i, None}
           /\ AddOk(s, i, m, isOpen, refused) =>
                Add(s, i, m, isOpen, refused) = [item |-> i, mask |-> m, kernel |-> m]
           /\ ~AddOk(s, i, m, isOpen, refused) => Add(s, i, m, isOpen, refused).kernel = {}
           /\ ~AddOk(s, i, m, isOpen, refused) /\ s.item \in {None, i} =>
                Add(s, i, m, isOpen, refused) = s
  <1> DEFINE e == Evict(s, i, isOpen)
             a == AddEvent(e, m, isOpen, refused)
  <1>1. Sound(e, isOpen) /\ e.item \in {i, None} /\ (s.item \in {None, i} => e = s)
    <2>1. CASE s.item \in {None, i}
      BY <2>1 DEF Evict
    <2>2. CASE s.item \notin {None, i}
      <3> DEFINE d == DelEvent(s, events[s.item], isOpen)
      <3>1. e = [d EXCEPT !.item = None]
        BY <2>2 DEF Evict
      <3>2. Sound(d, isOpen)
        BY DelEventSound
      <3> HIDE DEF d, e
      <3> QED BY <2>2, <3>1, <3>2, ItemSound DEF Sound, Cell
    <2> QED BY <2>1, <2>2
  <1>2. /\ Add(s, i, m, isOpen, refused) = IF AddOk(s, i, m, isOpen, refused)
                                             THEN [a EXCEPT !.item = i] ELSE e
        /\ AddOk(s, i, m, isOpen, refused) <=> AddEventOk(e, m, isOpen, refused)
    BY DEF Add, AddOk
  <1> HIDE DEF e
  <1>3. Sound(a, isOpen)
    BY <1>1, AddEventSound
  <1>4. /\ AddEventOk(e, m, isOpen, refused) => a.mask = m
        /\ ~AddEventOk(e, m, isOpen, refused) => e.mask = {}
    BY <1>1, AddEventMask
  <1> HIDE DEF a
  <1>5. CASE AddOk(s, i, m, isOpen, refused)
    BY <1>2, <1>3, <1>4, <1>5 DEF Sound, Cell
  <1>6. CASE ~AddOk(s, i, m, isOpen, refused)
    BY <1>1, <1>2, <1>4, <1>6 DEF Sound
  <1> QED BY <1>5, <1>6

LEMMA AddArms ==
    ASSUME NEW isOpen \in BOOLEAN, NEW s, Sound(s, isOpen), NEW i \in Item,
           NEW m \in SUBSET Event, NEW refused, AddOk(s, i, m, isOpen, refused)
    PROVE  Add(s, i, m, isOpen, refused) = [item |-> i, mask |-> m, kernel |-> m]
  BY AddEffect

LEMMA AddRefused ==
    ASSUME NEW isOpen \in BOOLEAN, NEW s, Sound(s, isOpen), NEW i \in Item,
           NEW m \in SUBSET Event, NEW refused, ~AddOk(s, i, m, isOpen, refused)
    PROVE  Add(s, i, m, isOpen, refused).kernel = {}
  BY AddEffect

\* Taking out all that is armed succeeds.
LEMMA DelEventDisarms ==
    ASSUME NEW isOpen \in BOOLEAN, NEW s, Sound(s, isOpen), NEW m, s.mask \subseteq m
    PROVE  DelEvent(s, m, isOpen).kernel = {} /\ DelEventOk(s, m, isOpen)
  <1>1. DelEventOk(s, m, isOpen)
    BY DEF DelEventOk, Sound, Cell
  <1>2. Sound(DelEvent(s, m, isOpen), isOpen)
    BY DelEventSound
  <1>3. DelEvent(s, m, isOpen).mask = {}
    <2>1. CASE s.mask = {}
      BY <2>1 DEF DelEvent
    <2>2. CASE s.mask # {}
      BY <1>1, <2>2 DEF DelEvent, Sound, Cell
    <2> QED BY <2>1, <2>2
  <1> QED BY <1>1, <1>2, <1>3 DEF Sound

\* A set of descriptors: what happens to one of them.
LEMMA UpdateCases ==
    ASSUME NEW q, NEW bad, NEW new, NEW fd \in Fd
    PROVE  \/ Update(q, bad, new)[fd] = slot[fd]
           \/ \E i \in Range(q) : osfd[i] = fd /\ Update(q, bad, new)[fd] = new[i]
  <1> DEFINE S == {i \in Range(q) : bad = {} \/ Before(q, bad, i) \/ First(q, bad, i)}
  <1>1. Update(q, bad, new)[fd] = IF \E i \in S : osfd[i] = fd
                                    THEN new[CHOOSE i \in S : osfd[i] = fd] ELSE slot[fd]
    BY DEF Update
  <1>2. S \subseteq Range(q)
    OBVIOUS
  <1> HIDE DEF S
  <1>3. CASE \E i \in S : osfd[i] = fd
    <2> DEFINE c == CHOOSE i \in S : osfd[i] = fd
    <2>1. c \in S /\ osfd[c] = fd
      BY <1>3
    <2>2. Update(q, bad, new)[fd] = new[c]
      BY <1>1, <1>3
    <2> HIDE DEF c
    <2> QED BY <1>2, <2>1, <2>2
  <1> QED BY <1>1, <1>3

LEMMA UpdateAll ==
    ASSUME NEW q, NEW new, NEW i \in Range(q), osfd[i] \in Fd,
           \A j \in Range(q) : osfd[j] = osfd[i] => j = i
    PROVE  Update(q, {}, new)[osfd[i]] = new[i]
  <1> DEFINE S == {j \in Range(q) : {} = {} \/ Before(q, {}, j) \/ First(q, {}, j)}
  <1>1. Update(q, {}, new)[osfd[i]] = IF \E j \in S : osfd[j] = osfd[i]
                                        THEN new[CHOOSE j \in S : osfd[j] = osfd[i]]
                                        ELSE slot[osfd[i]]
    BY DEF Update
  <1>2. S = Range(q)
    OBVIOUS
  <1> HIDE DEF S
  <1>3. (CHOOSE j \in S : osfd[j] = osfd[i]) = i
    BY <1>2
  <1> QED BY <1>1, <1>2, <1>3

LEMMA AddSetCases ==
    ASSUME NEW q, NEW ev, NEW refused, NEW fd \in Fd
    PROVE  \/ AddSet(q, ev, refused)[fd] = slot[fd]
           \/ \E i \in Range(q) :
                /\ osfd[i] = fd
                /\ \/ AddSet(q, ev, refused)[fd] = AddItem(i, ev, refused)
                   \/ AddSet(q, ev, refused)[fd] =
                        Delete(AddItem(i, ev, refused), i, ev[i], osfd[i] \in open)
  <1> DEFINE bad == {j \in DOMAIN q : ~AddItemOk(q[j], ev, refused)}
             back(i) == Delete(AddItem(i, ev, refused), i, ev[i], osfd[i] \in open)
             new == [i \in Range(q) |-> IF bad # {} /\ Before(q, bad, i)
                                          THEN back(i) ELSE AddItem(i, ev, refused)]
  <1>1. AddSet(q, ev, refused) = Update(q, bad, new)
    BY DEF AddSet
  <1>2. \A i \in Range(q) : new[i] \in {back(i), AddItem(i, ev, refused)}
    OBVIOUS
  <1> HIDE DEF bad, new, back
  <1>3. \/ AddSet(q, ev, refused)[fd] = slot[fd]
        \/ \E i \in Range(q) : osfd[i] = fd /\ AddSet(q, ev, refused)[fd] = new[i]
    BY <1>1, UpdateCases
  <1> QED BY <1>2, <1>3 DEF back

LEMMA AddSetAll ==
    ASSUME NEW q, NEW ev, NEW refused, AddSetOk(q, ev, refused),
           NEW i \in Range(q), osfd[i] \in Fd,
           \A j \in Range(q) : osfd[j] = osfd[i] => j = i
    PROVE  AddSet(q, ev, refused)[osfd[i]] = AddItem(i, ev, refused)
  <1> DEFINE bad == {j \in DOMAIN q : ~AddItemOk(q[j], ev, refused)}
             back(k) == Delete(AddItem(k, ev, refused), k, ev[k], osfd[k] \in open)
             new == [k \in Range(q) |-> IF bad # {} /\ Before(q, bad, k)
                                          THEN back(k) ELSE AddItem(k, ev, refused)]
  <1>1. AddSet(q, ev, refused) = Update(q, bad, new)
    BY DEF AddSet
  <1>2. bad = {}
    BY DEF AddSetOk, Range
  <1>3. new[i] = AddItem(i, ev, refused)
    BY <1>2
  <1> HIDE DEF new, bad
  <1> QED BY <1>1, <1>2, <1>3, UpdateAll

\* Only what was deleted is added again when a later one fails.
LEMMA DeleteSetCases ==
    ASSUME NEW q \in Seq(Item), NEW refused, NEW fd \in Fd
    PROVE  \/ DeleteSet(q, refused)[fd] = slot[fd]
           \/ \E i \in Range(q) :
                /\ osfd[i] = fd
                /\ \/ DeleteSet(q, refused)[fd] = DeleteItem(i)
                   \/ /\ DeleteItemOk(i) /\ \E j \in Range(q) : ~DeleteItemOk(j)
                      /\ DeleteSet(q, refused)[fd] =
                           Add(DeleteItem(i), i, events[i], osfd[i] \in open, osfd[i] \in refused)
  <1> DEFINE bad == {j \in DOMAIN q : ~DeleteItemOk(q[j])}
             back(i) == Add(DeleteItem(i), i, events[i], osfd[i] \in open, osfd[i] \in refused)
             new == [i \in Range(q) |-> IF bad # {} /\ Before(q, bad, i)
                                          THEN back(i) ELSE DeleteItem(i)]
  <1>1. DeleteSet(q, refused) = Update(q, bad, new)
    BY DEF DeleteSet
  <1>2. \A i \in Range(q) :
          new[i] = DeleteItem(i) \/ (new[i] = back(i) /\ bad # {} /\ Before(q, bad, i))
    OBVIOUS
  <1> HIDE DEF new, back
  <1>3. ASSUME NEW i \in Range(q), bad # {}, Before(q, bad, i)
        PROVE  DeleteItemOk(i) /\ \E j \in Range(q) : ~DeleteItemOk(j)
    <2>1. PICK j \in DOMAIN q : q[j] = i /\ \A k \in bad : j < k
      BY <1>3 DEF Before
    <2>2. j \notin bad
      <3>1. j \in 1 .. Len(q)
        OBVIOUS
      <3>2. ~(j < j)
        BY <3>1
      <3> QED BY <2>1, <3>2
    <2> QED BY <1>3, <2>1, <2>2 DEF Range
  <1> HIDE DEF bad
  <1>4. \/ DeleteSet(q, refused)[fd] = slot[fd]
        \/ \E i \in Range(q) : osfd[i] = fd /\ DeleteSet(q, refused)[fd] = new[i]
    BY <1>1, UpdateCases
  <1> QED BY <1>2, <1>3, <1>4 DEF back

-----------------------------------------------------------------------------
(* Coroutines, their sets of items, and the descriptors of these.  No part *)
(* is inductive alone: that another coroutine's wait does not disarm this  *)
(* one's needs to know whose item is in the table, that no two connections *)
(* have one descriptor, and that nobody else waits for the same item.      *)

\* A coroutine that runs waits for nothing.
Calm == \A t \in Thread : pc[t] = "app" => fdset[t] = <<>> /\ fired[t] = {} /\ t \notin io

\* What a coroutine waits for it owns, and nothing of it is pooled.
Owned ==
    \A t \in Thread :
        /\ IsInjective(fdset[t])
        /\ \A i \in Range(fdset[t]) : owner[i] = t /\ osfd[i] # None

\* The table has an item under the descriptor it is for.
Placed == \A fd \in Fd : slot[fd].item # None => osfd[slot[fd].item] = fd

\* Connections have open descriptors, each its own.
Socks ==
    /\ \A i \in Item : sock[i] # None => sock[i] = osfd[i] /\ sock[i] \in open
    /\ \A i, j \in Item : sock[i] # None /\ sock[i] = sock[j] => i = j

Fresh == \A i \in Item : osfd[i] = None => owner[i] = None

ArmedBy(i) ==
    slot[sock[i]] = [item |-> i, mask |-> events[i], kernel |-> events[i]] /\ events[i] # {}

Armed == \A t \in io : \A i \in Range(fdset[t]) : sock[i] # None => ArmedBy(i)

Rest == Calm /\ Owned /\ Placed /\ Socks /\ Fresh /\ Armed /\ EventReported

WaitInv == EventInv /\ Rest

LEMMA InTheSet ==
    ASSUME WaitInv, NEW t \in Thread, NEW i \in Range(fdset[t])
    PROVE  i \in Item /\ owner[i] = t /\ osfd[i] # None /\ pc[t] = "schedule" /\ osfd[i] \in Fd
  <1>1. fdset[t] \in Seq(Item) /\ pc[t] \in {"app", "schedule"}
    BY DEF WaitInv, EventInv, TypeOK
  <1>2. i \in Item
    BY <1>1, ItemsOfSet
  <1>3. owner[i] = t /\ osfd[i] # None
    BY DEF WaitInv, Rest, Owned
  <1>4. pc[t] # "app"
    BY EmptyRange DEF WaitInv, Rest, Calm
  <1>5. osfd[i] \in Fd
    BY <1>2, <1>3 DEF WaitInv, EventInv, TypeOK
  <1> QED BY <1>1, <1>2, <1>3, <1>4, <1>5

LEMMA WaitInit == Init => WaitInv
  <1> SUFFICES ASSUME Init PROVE Rest
    BY EventInit DEF WaitInv
  <1>1. \A fd \in Fd : slot[fd].item = None
    BY DEF Init, Empty
  <1>2. \A t \in Thread : fdset[t] = <<>> /\ fired[t] = {} /\ io = {}
    BY DEF Init
  <1> QED BY <1>1, <1>2, EmptyRange DEF Init, Rest, Calm, Owned, Placed, Socks, Fresh, Armed, EventReported

LEMMA RegisterWaits ==
    ASSUME WaitInv, NEW t \in Thread, NEW fd \in Fd, NEW i \in Item, Register(t, fd, i)
    PROVE  Rest'
  <1>1. PICK m \in FirstEvents, refused \in Refusals, giveUp \in BOOLEAN :
          LET new == Add(slot[fd], i, m, TRUE, refused)
          IN  IF new.item = i \/ ~giveUp
                THEN /\ open' = open \cup {fd}
                     /\ slot' = [slot EXCEPT ![fd] = new]
                     /\ osfd' = [osfd EXCEPT ![i] = fd]
                     /\ sock' = [sock EXCEPT ![i] = fd]
                     /\ events' = [events EXCEPT ![i] = m]
                     /\ UNCHANGED <<revents, owner>>
                ELSE /\ slot' = [slot EXCEPT ![fd] = CloseFd(new)]
                     /\ UNCHANGED <<open, items>>
    BY DEF Register
  <1> DEFINE new == Add(slot[fd], i, m, TRUE, refused)
  <1>2. /\ fd \notin open /\ osfd[i] = None /\ UNCHANGED <<fdset, io, pc, outcome, fired>>
        /\ TypeOK /\ fd # None /\ m \in SUBSET Event /\ io \subseteq Thread
    BY EventAssumption DEF Register, threads, WaitInv, EventInv, TypeOK
  <1>3. Sound(new, TRUE) /\ new.item \in {i, None}
    <2>1. Sound(slot[fd], TRUE)
      BY <1>2, SlotSound DEF Sound, WaitInv, EventInv
    <2> QED BY <1>2, <2>1, AddSound, AddEffect
  <1> HIDE DEF new
  <1>4. \A k \in Item : sock[k] # None => sock[k] \in Fd /\ sock[k] # fd
    BY <1>2 DEF TypeOK, WaitInv, Rest, Socks
  <1>5. CASE open' = open \cup {fd} /\ slot' = [slot EXCEPT ![fd] = new]
             /\ osfd' = [osfd EXCEPT ![i] = fd] /\ sock' = [sock EXCEPT ![i] = fd]
             /\ events' = [events EXCEPT ![i] = m] /\ UNCHANGED <<revents, owner>>
    <2>1. /\ osfd'[i] = fd /\ sock'[i] = fd
          /\ \A k \in Item \ {i} : osfd'[k] = osfd[k] /\ sock'[k] = sock[k] /\ events'[k] = events[k]
          /\ slot'[fd] = new /\ \A f \in Fd \ {fd} : slot'[f] = slot[f]
      BY <1>2, <1>5 DEF TypeOK
    <2>2. Calm' /\ EventReported'
      BY <1>2, <1>5 DEF WaitInv, Rest, Calm, EventReported
    <2>3. Owned'
      <3> SUFFICES ASSUME NEW u \in Thread, NEW k \in Range(fdset[u])
                   PROVE  owner[k] = u /\ osfd'[k] # None
        BY <1>2, <1>5 DEF WaitInv, Rest, Owned
      <3> QED BY <1>2, <2>1, InTheSet
    <2>4. Placed'
      <3> SUFFICES ASSUME NEW f \in Fd, slot'[f].item # None PROVE osfd'[slot'[f].item] = f
        BY DEF Placed
      <3>1. CASE f = fd
        BY <1>3, <2>1, <3>1
      <3>2. CASE f # fd
        <4>1. slot[f].item \in Item /\ osfd[slot[f].item] = f /\ f # None
          BY <1>2, <2>1, <3>2, EventAssumption DEF TypeOK, WaitInv, Rest, Placed
        <4> QED BY <1>2, <2>1, <3>2, <4>1
      <3> QED BY <3>1, <3>2
    <2>5. Socks'
      BY <1>4, <1>5, <2>1 DEF WaitInv, Rest, Socks
    <2>6. Fresh'
      BY <1>2, <1>5, <2>1 DEF WaitInv, Rest, Fresh
    <2>7. Armed'
      <3> SUFFICES ASSUME NEW u \in io, NEW k \in Range(fdset[u]), sock'[k] # None
                   PROVE  ArmedBy(k)'
        BY <1>2 DEF Armed
      <3>1. k \in Item \ {i}
        BY <1>2, InTheSet
      <3>2. ArmedBy(k) /\ sock[k] \in Fd \ {fd}
        BY <1>4, <2>1, <3>1 DEF WaitInv, Rest, Armed
      <3> QED BY <2>1, <3>1, <3>2 DEF ArmedBy
    <2> QED BY <2>2, <2>3, <2>4, <2>5, <2>6, <2>7 DEF Rest
  <1>6. CASE slot' = [slot EXCEPT ![fd] = CloseFd(new)] /\ UNCHANGED <<open, items>> /\ new.item # i
    <2>1. slot'[fd].item = None /\ \A f \in Fd \ {fd} : slot'[f] = slot[f]
      BY <1>2, <1>3, <1>6, CloseFdItem DEF Sound, TypeOK
    <2>2. UNCHANGED <<open, osfd, sock, events, revents, owner, fdset, io, pc, fired>>
      BY <1>2, <1>6 DEF items
    <2>3. Calm' /\ EventReported' /\ Owned' /\ Socks' /\ Fresh'
      BY <2>2 DEF WaitInv, Rest, Calm, EventReported, Owned, Socks, Fresh
    <2>4. Placed'
      BY <2>1, <2>2 DEF WaitInv, Rest, Placed
    <2>5. Armed'
      <3> SUFFICES ASSUME NEW u \in io, NEW k \in Range(fdset[u]), sock[k] # None
                   PROVE  ArmedBy(k)'
        BY <2>2 DEF Armed
      <3>1. ArmedBy(k) /\ sock[k] \in Fd \ {fd}
        BY <1>2, <1>4, InTheSet DEF WaitInv, Rest, Armed
      <3> QED BY <2>1, <2>2, <3>1 DEF ArmedBy
    <2> QED BY <2>3, <2>4, <2>5 DEF Rest
  <1> QED BY <1>1, <1>5, <1>6 DEF new

LEMMA ScheduleWaits ==
    ASSUME WaitInv, NEW t \in Thread, pc[t] = "app", NEW q \in Seq(Item), IsInjective(q),
           \A i \in Range(q) : sock[i] # None /\ slot[sock[i]].item \in {None, i} /\ Unwatched(i),
           NEW m \in SUBSET Event, m # {}, NEW failure, Schedule(t, q, m, failure)
    PROVE  Rest'
  <1> DEFINE ev == [i \in Item |-> IF i \in Range(q) THEN m ELSE events[i]]
  <1>1. TypeOK /\ io \subseteq Thread /\ MaskIsKernel /\ fdset[t] = <<>> /\ fired[t] = {} /\ t \notin io
    BY DEF WaitInv, EventInv, TypeOK, Rest, Calm
  <1>2. <<>> \o q = q
    OBVIOUS
  <1>3. PICK refused \in Refused :
          /\ slot' = AddSet(q, ev, refused)
          /\ events' = ev
          /\ owner' = [i \in Item |-> IF i \in Range(q) THEN t ELSE owner[i]]
          /\ \/ /\ AddSetOk(q, ev, refused)
                /\ fdset' = [fdset EXCEPT ![t] = q]
                /\ io' = io \cup {t}
                /\ pc' = [pc EXCEPT ![t] = "schedule"]
             \/ UNCHANGED <<fdset, io, pc>>
          /\ UNCHANGED <<open, osfd, sock, revents, fired>>
    BY <1>1, <1>2 DEF Schedule
  <1>4. ev \in [Item -> SUBSET Event] /\ Range(q) \subseteq Item
    BY <1>1, ItemsOfSet DEF TypeOK
  <1>e. /\ \A i \in Range(q) : ev[i] = m
        /\ \A i \in Item \ Range(q) : ev[i] = events[i]
    BY <1>4
  <1> HIDE DEF ev
  <1>5. /\ \A i \in Range(q) : sock[i] = osfd[i] /\ osfd[i] \in Fd
        /\ \A i, j \in Range(q) : osfd[i] = osfd[j] => i = j
    BY <1>1, <1>4 DEF WaitInv, Rest, Socks, TypeOK
  <1>6. ASSUME NEW i \in Range(q)
        PROVE  /\ AddItem(i, ev, refused).item \in {i, None}
               /\ Sound(AddItem(i, ev, refused), osfd[i] \in open)
               /\ AddItemOk(i, ev, refused) => AddItem(i, ev, refused) = [item |-> i, mask |-> m, kernel |-> m]
    <2>1. Sound(slot[osfd[i]], osfd[i] \in open) /\ (osfd[i] \in open) \in BOOLEAN /\ i \in Item
      BY <1>1, <1>4, <1>5, SlotSound
    <2> DEFINE s == slot[osfd[i]]
               o == osfd[i] \in open
               r == osfd[i] \in refused
    <2>2. /\ AddItem(i, ev, refused) = Add(s, i, m, o, r)
          /\ AddItemOk(i, ev, refused) <=> AddOk(s, i, m, o, r)
      BY <1>e DEF AddItem, AddItemOk
    <2> HIDE DEF s, o, r
    <2>3. Sound(s, o) /\ o \in BOOLEAN
      BY <2>1 DEF s, o
    <2>4. Add(s, i, m, o, r).item \in {i, None}
      BY <2>1, <2>3, AddEffect
    <2>5. Sound(Add(s, i, m, o, r), o)
      BY <2>1, <2>3, AddSound
    <2>6. ASSUME AddOk(s, i, m, o, r)
          PROVE  Add(s, i, m, o, r) = [item |-> i, mask |-> m, kernel |-> m]
      BY <2>1, <2>3, <2>6, AddArms
    <2> QED BY <2>2, <2>4, <2>5, <2>6 DEF o
  <1>7. ASSUME NEW fd \in Fd
        PROVE  \/ slot'[fd] = slot[fd]
               \/ \E i \in Range(q) : osfd[i] = fd /\ slot'[fd].item \in {i, None}
    <2>1. CASE slot'[fd] = slot[fd]
      BY <2>1
    <2>2. ASSUME NEW i \in Range(q), osfd[i] = fd,
                 \/ slot'[fd] = AddItem(i, ev, refused)
                 \/ slot'[fd] = Delete(AddItem(i, ev, refused), i, ev[i], osfd[i] \in open)
          PROVE  slot'[fd].item \in {i, None}
      <3> DEFINE o == osfd[i] \in open
                 a == AddItem(i, ev, refused)
      <3>1. Sound(a, o) /\ o \in BOOLEAN
        BY <1>6
      <3> HIDE DEF a, o
      <3>2. Delete(a, i, ev[i], o).item = a.item
        BY <3>1, DeleteItemOf
      <3> QED BY <1>6, <2>2, <3>2 DEF a, o
    <2> QED BY <1>3, <2>1, <2>2, AddSetCases
  <1>8. /\ \A u \in Thread \ {t} : fdset'[u] = fdset[u] /\ (u \in io' <=> u \in io) /\ pc'[u] = pc[u]
        /\ \/ fdset'[t] = q /\ t \in io' /\ pc'[t] = "schedule"
           \/ fdset'[t] = <<>> /\ t \notin io' /\ pc'[t] = "app"
        /\ fdset'[t] = q => AddSetOk(q, ev, refused) \/ q = <<>>
    BY <1>1, <1>3 DEF TypeOK
  <1>9. Calm'
    BY <1>1, <1>3, <1>8 DEF WaitInv, Rest, Calm
  <1>10. Owned'
    <2>1. ASSUME NEW u \in Thread \ {t}
          PROVE  IsInjective(fdset'[u]) /\ \A i \in Range(fdset'[u]) : owner'[i] = u /\ osfd'[i] # None
      <3>1. \A i \in Range(fdset[u]) : i \in Item \ Range(q)
        BY InTheSet DEF Unwatched
      <3> QED BY <1>3, <1>8, <3>1 DEF WaitInv, Rest, Owned
    <2>2. IsInjective(fdset'[t]) /\ \A i \in Range(fdset'[t]) : owner'[i] = t /\ osfd'[i] # None
      <3>1. \A i \in Range(q) : owner'[i] = t /\ osfd'[i] # None
        BY <1>3, <1>4, <1>5, EventAssumption
      <3> QED BY <1>8, <3>1, EmptyRange
    <2> QED BY <2>1, <2>2 DEF Owned
  <1>11. Placed'
    <2> SUFFICES ASSUME NEW fd \in Fd, slot'[fd].item # None PROVE osfd[slot'[fd].item] = fd
      BY <1>3 DEF Placed
    <2> QED BY <1>7 DEF WaitInv, Rest, Placed
  <1>12. Socks'
    BY <1>3 DEF WaitInv, Rest, Socks
  <1>13. Fresh'
    BY <1>3, <1>4, <1>5, EventAssumption DEF WaitInv, Rest, Fresh
  <1>14. Armed'
    <2> SUFFICES ASSUME NEW u \in io', NEW i \in Range(fdset'[u]), sock[i] # None
                 PROVE  ArmedBy(i)'
      BY <1>3 DEF Armed
    <2>1. CASE u = t
      <3>1. i \in Range(q) /\ AddSetOk(q, ev, refused)
        BY <1>8, <2>1, EmptyRange
      <3>2. AddItemOk(i, ev, refused) /\ slot'[osfd[i]] = AddItem(i, ev, refused)
        BY <1>3, <1>5, <3>1, AddSetAll DEF AddSetOk
      <3>3. slot'[sock[i]] = [item |-> i, mask |-> m, kernel |-> m]
        BY <1>5, <1>6, <3>1, <3>2
      <3> QED BY <1>3, <1>e, <3>1, <3>3 DEF ArmedBy
    <2>2. CASE u # t
      <3>1. u \in io /\ u \in Thread /\ i \in Range(fdset[u])
        BY <1>1, <1>8, <1>3, <2>2
      <3>2. i \in Item \ Range(q) /\ ArmedBy(i) /\ sock[i] \in Fd /\ sock[i] = osfd[i]
        BY <1>1, <3>1, InTheSet DEF Unwatched, WaitInv, Rest, Armed, Socks
      <3>3. slot'[sock[i]] = slot[sock[i]]
        <4>1. \A j \in Range(q) : osfd[j] # sock[i]
          BY <1>4, <1>5, <3>2 DEF WaitInv, Rest, Socks
        <4> QED BY <1>7, <3>2, <4>1
      <3> QED BY <1>3, <1>e, <3>2, <3>3 DEF ArmedBy
    <2> QED BY <2>1, <2>2
  <1>15. EventReported'
    BY <1>1, <1>3, <1>8 DEF WaitInv, Rest, EventReported
  <1> QED BY <1>9, <1>10, <1>11, <1>12, <1>13, <1>14, <1>15 DEF Rest

LEMMA HookAgainWaits ==
    ASSUME WaitInv, NEW t \in Thread, NEW i \in Item, NEW j \in Item, HookAgain(t, i, j)
    PROVE  Rest'
  <1> DEFINE new == Add(slot[sock[i]], j, {}, sock[i] \in open, FALSE)
  <1>1. /\ TypeOK /\ MaskIsKernel /\ io \subseteq Thread
        /\ UNCHANGED <<open, events, revents, owner, fdset, io, pc, outcome, fired>>
        /\ sock[i] # None /\ Unwatched(i) /\ osfd[j] = None
        /\ slot' = [slot EXCEPT ![sock[i]] = new]
        /\ osfd' = [osfd EXCEPT ![j] = sock[i]]
        /\ sock' = [sock EXCEPT ![j] = sock[i], ![i] = None]
    BY DEF HookAgain, threads, WaitInv, EventInv, TypeOK
  <1>2. sock[i] \in Fd /\ sock[i] = osfd[i] /\ sock[i] \in open /\ i # j
    BY <1>1 DEF TypeOK, WaitInv, Rest, Socks
  <1>3. new.item \in {j, None}
    <2>1. Sound(slot[sock[i]], sock[i] \in open) /\ (sock[i] \in open) \in BOOLEAN
      BY <1>1, <1>2, SlotSound
    <2> QED BY <2>1, AddEffect
  <1> HIDE DEF new
  <1>4. /\ slot'[sock[i]] = new /\ \A f \in Fd \ {sock[i]} : slot'[f] = slot[f]
        /\ osfd'[j] = sock[i] /\ \A k \in Item \ {j} : osfd'[k] = osfd[k]
        /\ sock'[j] = sock[i] /\ sock'[i] = None
        /\ \A k \in Item \ {i, j} : sock'[k] = sock[k] /\ sock[k] # sock[i]
    BY <1>1, <1>2 DEF TypeOK, WaitInv, Rest, Socks
  <1>5. Calm' /\ EventReported'
    BY <1>1 DEF WaitInv, Rest, Calm, EventReported
  <1>6. \A u \in Thread : \A k \in Range(fdset[u]) : k \in Item \ {i, j} /\ osfd[k] # None /\ owner[k] = u
    BY <1>1, InTheSet DEF Unwatched
  <1>7. Owned'
    BY <1>1, <1>4, <1>6 DEF WaitInv, Rest, Owned
  <1>8. Placed'
    <2> SUFFICES ASSUME NEW f \in Fd, slot'[f].item # None PROVE osfd'[slot'[f].item] = f
      BY DEF Placed
    <2>1. CASE f = sock[i]
      BY <1>3, <1>4, <2>1
    <2>2. CASE f # sock[i]
      <3>1. slot[f].item \in Item /\ osfd[slot[f].item] = f /\ f # None
        BY <1>1, <1>4, <2>2, EventAssumption DEF TypeOK, WaitInv, Rest, Placed
      <3> QED BY <1>1, <1>4, <2>2, <3>1
    <2> QED BY <2>1, <2>2
  <1>9. Socks'
    <2>1. ASSUME NEW k \in Item, sock'[k] # None PROVE sock'[k] = osfd'[k] /\ sock'[k] \in open'
      <3>1. CASE k = j
        BY <1>1, <1>2, <1>4, <3>1
      <3>2. CASE k # j
        <4>1. k # i /\ sock'[k] = sock[k] /\ osfd'[k] = osfd[k]
          BY <1>4, <2>1, <3>2
        <4> QED BY <1>1, <2>1, <4>1 DEF WaitInv, Rest, Socks
      <3> QED BY <3>1, <3>2
    <2>2. \A k, l \in Item : sock'[k] # None /\ sock'[k] = sock'[l] => k = l
      BY <1>4 DEF WaitInv, Rest, Socks
    <2> QED BY <2>1, <2>2 DEF Socks
  <1>10. Fresh'
    BY <1>1, <1>2, <1>4, EventAssumption DEF WaitInv, Rest, Fresh
  <1>11. Armed'
    <2> SUFFICES ASSUME NEW u \in io, NEW k \in Range(fdset[u]), sock'[k] # None
                 PROVE  ArmedBy(k)'
      BY <1>1 DEF Armed
    <2>1. u \in Thread /\ k \in Item \ {i, j} /\ sock'[k] = sock[k] /\ sock[k] # sock[i]
      BY <1>1, <1>4, <1>6
    <2>2. ArmedBy(k) /\ sock[k] \in Fd \ {sock[i]}
      BY <1>1, <2>1 DEF WaitInv, Rest, Armed, TypeOK
    <2> QED BY <1>1, <1>4, <2>1, <2>2 DEF ArmedBy
  <1> QED BY <1>5, <1>7, <1>8, <1>9, <1>10, <1>11 DEF Rest

\* The end of one coroutine's wait leaves alone what another is armed for.
LEMMA EndWaitWaits ==
    ASSUME WaitInv, NEW t \in Thread, EndWait(t)
    PROVE  Rest'
  <1>1. /\ TypeOK /\ MaskIsKernel /\ io \subseteq Thread /\ fdset[t] \in Seq(Item) /\ t \notin io
        /\ UNCHANGED <<open, osfd, sock, events, revents, owner, io>>
        /\ fdset' = [fdset EXCEPT ![t] = <<>>] /\ fired' = [fired EXCEPT ![t] = {}]
        /\ pc' = [pc EXCEPT ![t] = "app"]
    BY DEF EndWait, items, WaitInv, EventInv, TypeOK
  <1>2. PICK refused \in Refused : slot' = DeleteSet(fdset[t], refused)
    BY DEF EndWait
  <1>3. /\ fdset'[t] = <<>> /\ fired'[t] = {}
        /\ \A u \in Thread \ {t} : fdset'[u] = fdset[u] /\ fired'[u] = fired[u] /\ pc'[u] = pc[u]
    BY <1>1 DEF TypeOK
  <1>4. ASSUME NEW fd \in Fd
        PROVE  \/ slot'[fd] = slot[fd]
               \/ \E i \in Range(fdset[t]) :
                     osfd[i] = fd /\ slot'[fd].item \in {i, None} /\ slot[fd].item \in {i, None}
    <2>1. CASE slot'[fd] = slot[fd]
      BY <2>1
    <2>2. ASSUME NEW i \in Range(fdset[t]), osfd[i] = fd,
                 \/ slot'[fd] = DeleteItem(i)
                 \/ /\ DeleteItemOk(i)
                    /\ slot'[fd] =
                         Add(DeleteItem(i), i, events[i], osfd[i] \in open, osfd[i] \in refused)
          PROVE  slot'[fd] = slot[fd] \/ (slot'[fd].item \in {i, None} /\ slot[fd].item \in {i, None})
      <3>1. /\ i \in Item /\ events[i] \in SUBSET Event
            /\ Sound(slot[fd], fd \in open) /\ (fd \in open) \in BOOLEAN
        BY <1>1, <2>2, InTheSet, SlotSound DEF TypeOK
      <3>2. CASE slot[fd].item \notin {None, i}
        BY <2>2, <3>2 DEF DeleteItem, DeleteItemOk, Delete, DeleteOk
      <3>3. CASE slot[fd].item \in {None, i}
        <4> DEFINE o == fd \in open
                   r == fd \in refused
                   s == slot[fd]
                   d == Delete(s, i, events[i], o)
        <4>1. Sound(s, o) /\ o \in BOOLEAN /\ i \in Item /\ events[i] \in SUBSET Event
          BY <3>1
        <4>2. /\ DeleteItem(i) = d
              /\ Add(DeleteItem(i), i, events[i], osfd[i] \in open, osfd[i] \in refused)
                   = Add(d, i, events[i], o, r)
          <5>1. osfd[i] = fd
            BY <2>2
          <5> QED BY <5>1 DEF DeleteItem
        <4> HIDE DEF o, r, s
        <4>3. d.item = s.item
          BY <4>1, DeleteItemOf
        <4>4. Sound(d, o)
          BY <4>1, DeleteSound
        <4> HIDE DEF d
        <4>5. Add(d, i, events[i], o, r).item \in {i, None}
          BY <4>1, <4>4, AddEffect
        <4> QED BY <2>2, <3>3, <4>2, <4>3, <4>5 DEF s
      <3> QED BY <3>2, <3>3
    <2> QED BY <1>1, <1>2, <2>1, <2>2, DeleteSetCases
  <1>5. Calm'
    BY <1>1, <1>3 DEF WaitInv, Rest, Calm
  <1>6. Owned'
    BY <1>1, <1>3, EmptyRange DEF WaitInv, Rest, Owned
  <1>7. Placed'
    BY <1>1, <1>4 DEF WaitInv, Rest, Placed
  <1>8. Socks' /\ Fresh'
    BY <1>1 DEF WaitInv, Rest, Socks, Fresh
  <1>9. Armed'
    <2> SUFFICES ASSUME NEW u \in io, NEW k \in Range(fdset'[u]), sock[k] # None
                 PROVE  ArmedBy(k)'
      BY <1>1 DEF Armed
    <2>1. u \in Thread \ {t} /\ k \in Range(fdset[u])
      BY <1>1, <1>3
    <2>2. k \in Item /\ owner[k] = u /\ ArmedBy(k) /\ sock[k] \in Fd
      BY <1>1, <2>1, InTheSet DEF WaitInv, Rest, Armed, TypeOK
    <2>3. slot[sock[k]].item = k /\ k # None
      BY <2>2, EventAssumption DEF ArmedBy
    <2>4. k \notin Range(fdset[t])
      BY <2>1, <2>2, InTheSet
    <2>5. slot'[sock[k]] = slot[sock[k]]
      BY <1>4, <2>2, <2>3, <2>4
    <2> QED BY <1>1, <2>2, <2>5 DEF ArmedBy
  <1>10. EventReported'
    BY <1>1, <1>3 DEF WaitInv, Rest, EventReported
  <1> QED BY <1>5, <1>6, <1>7, <1>8, <1>9, <1>10 DEF Rest

\* Nor does the release of an item, which its waiter loses at once.
LEMMA ReleaseWaits ==
    ASSUME WaitInv, NEW t \in Thread, NEW i \in Item, Release(t, i)
    PROVE  Rest'
  <1> DEFINE fd == osfd[i]
             o == fd \in open
             s == slot[fd]
             clear == ClearItem(s, i, events[i], o)
             c(always) == IF always \/ s.item = i THEN clear ELSE s
             new(always) == IF sock[i] # None THEN CloseFd(c(always)) ELSE c(always)
  <1>1. /\ TypeOK /\ MaskIsKernel /\ io \subseteq Thread /\ osfd[i] # None
        /\ UNCHANGED <<io, pc, outcome, fired>>
        /\ open' = open \ {sock[i]}
        /\ osfd' = [osfd EXCEPT ![i] = None] /\ sock' = [sock EXCEPT ![i] = None]
        /\ events' = [events EXCEPT ![i] = {}] /\ revents' = [revents EXCEPT ![i] = {}]
        /\ owner' = [owner EXCEPT ![i] = None]
        /\ fdset' = [u \in Thread |-> Without(fdset[u], i)]
    BY DEF Release, WaitInv, EventInv, TypeOK
  <1>2. PICK always \in {sock[i] # None, FALSE} : slot' = [slot EXCEPT ![fd] = new(always)]
    BY DEF Release
  <1>3. fd \in Fd /\ Sound(s, o) /\ o \in BOOLEAN
    <2>1. fd \in Fd
      BY <1>1 DEF TypeOK
    <2> HIDE DEF fd
    <2> QED BY <1>1, <2>1, SlotSound
  <1>4. clear.item = None /\ Sound(clear, o)
    <2> HIDE DEF s, o
    <2> QED BY <1>3, DeleteItemOf, ClearItemSound
  <1>5. /\ slot'[fd].item # None => slot'[fd].item = slot[fd].item /\ slot[fd].item # i
        /\ sock[i] = None /\ slot[fd].item # i => slot'[fd] = slot[fd]
        /\ \A f \in Fd \ {fd} : slot'[f] = slot[f]
    <2> HIDE DEF clear
    <2>1. /\ c(always) \in Cell /\ (c(always).item = None \/ (c(always) = s /\ s.item # i))
          /\ sock[i] = None /\ s.item # i => c(always) = s
      BY <1>3, <1>4, EventAssumption DEF Sound
    <2> HIDE DEF c
    <2>2. CloseFd(c(always)).item = c(always).item
      BY <2>1, CloseFdItem
    <2>3. /\ new(always).item # None => new(always).item = s.item /\ s.item # i
          /\ sock[i] = None /\ s.item # i => new(always) = s
      BY <2>1, <2>2
    <2> HIDE DEF new, fd
    <2>4. slot'[fd] = new(always) /\ \A f \in Fd \ {fd} : slot'[f] = slot[f]
      BY <1>1, <1>2, <1>3 DEF TypeOK
    <2> QED BY <2>3, <2>4
  <1> HIDE DEF o, s, clear, c, new
  <1>6. /\ osfd'[i] = None /\ sock'[i] = None /\ owner'[i] = None
        /\ \A k \in Item \ {i} : /\ osfd'[k] = osfd[k] /\ sock'[k] = sock[k] /\ owner'[k] = owner[k]
                                 /\ events'[k] = events[k] /\ revents'[k] = revents[k]
    BY <1>1 DEF TypeOK
  <1>7. ASSUME NEW u \in Thread
        PROVE  /\ Range(fdset'[u]) = Range(fdset[u]) \ {i} /\ IsInjective(fdset'[u])
               /\ fdset[u] = <<>> => fdset'[u] = <<>>
    <2>1. fdset[u] \in Seq(Item) /\ IsInjective(fdset[u]) /\ fdset'[u] = Without(fdset[u], i)
      BY <1>1 DEF TypeOK, WaitInv, Rest, Owned
    <2>2. fdset[u] = <<>> => Without(fdset[u], i) = <<>>
      BY EmptyRange DEF Without
    <2> QED BY <2>1, <2>2, WithoutItem
  <1>8. Calm'
    BY <1>1, <1>7 DEF WaitInv, Rest, Calm
  <1>9. Owned'
    <2> SUFFICES ASSUME NEW u \in Thread, NEW k \in Range(fdset'[u])
                 PROVE  owner'[k] = u /\ osfd'[k] # None
      BY <1>7 DEF Owned
    <2>1. k \in Range(fdset[u]) /\ k # i
      BY <1>7
    <2> QED BY <1>6, <2>1, InTheSet
  <1>10. Placed'
    <2> SUFFICES ASSUME NEW f \in Fd, slot'[f].item # None PROVE osfd'[slot'[f].item] = f
      BY DEF Placed
    <2>1. slot'[f].item = slot[f].item /\ slot[f].item \in Item /\ osfd[slot[f].item] = f
      BY <1>1, <1>5 DEF TypeOK, WaitInv, Rest, Placed
    <2>2. slot[f].item # i
      BY <1>5, <2>1
    <2> QED BY <1>6, <2>1, <2>2
  <1>11. Socks'
    <2>1. ASSUME NEW k \in Item, sock'[k] # None PROVE sock'[k] = osfd'[k] /\ sock'[k] \in open'
      <3>1. k # i /\ sock'[k] = sock[k] /\ osfd'[k] = osfd[k]
        BY <1>6, <2>1
      <3> QED BY <1>1, <2>1, <3>1 DEF WaitInv, Rest, Socks
    <2>2. \A k, l \in Item : sock'[k] # None /\ sock'[k] = sock'[l] => k = l
      BY <1>6 DEF WaitInv, Rest, Socks
    <2> QED BY <2>1, <2>2 DEF Socks
  <1>12. Fresh'
    BY <1>6 DEF WaitInv, Rest, Fresh
  <1>13. Armed'
    <2> SUFFICES ASSUME NEW u \in io, NEW k \in Range(fdset'[u]), sock'[k] # None
                 PROVE  ArmedBy(k)'
      BY <1>1 DEF Armed
    <2>1. u \in Thread /\ k \in Range(fdset[u]) /\ k # i
      BY <1>1, <1>7
    <2>2. k \in Item /\ sock'[k] = sock[k] /\ events'[k] = events[k]
      BY <1>6, <2>1, InTheSet
    <2>3. ArmedBy(k) /\ sock[k] \in Fd
      BY <1>1, <2>1, <2>2 DEF WaitInv, Rest, Armed, TypeOK
    <2>4. sock[k] = fd => sock[i] = None /\ slot[fd].item # i
      <3>1. slot[sock[k]].item = k
        BY <2>3 DEF ArmedBy
      <3> QED BY <2>1, <2>2, <2>3, <3>1 DEF WaitInv, Rest, Socks
    <2>5. slot'[sock[k]] = slot[sock[k]]
      BY <1>5, <2>3, <2>4
    <2> QED BY <2>2, <2>3, <2>5 DEF ArmedBy
  <1>14. EventReported'
    <2> SUFFICES ASSUME NEW u \in Thread, NEW k \in fired[u] \cap Range(fdset'[u])
                 PROVE  revents'[k] # {}
      BY <1>1 DEF EventReported
    <2>1. k \in Range(fdset[u]) /\ k # i
      BY <1>7
    <2> QED BY <1>6, <2>1, InTheSet DEF WaitInv, Rest, EventReported
  <1> QED BY <1>8, <1>9, <1>10, <1>11, <1>12, <1>13, <1>14 DEF Rest

LEMMA CloseOnlyWaits ==
    ASSUME WaitInv, NEW t \in Thread, NEW i \in Item, CloseOnly(t, i)
    PROVE  Rest'
  <1> DEFINE fd == sock[i]
  <1>1. /\ TypeOK /\ io \subseteq Thread /\ fd # None
        /\ UNCHANGED <<osfd, events, revents, owner, fdset, io, pc, outcome, fired>>
        /\ open' = open \ {fd}
        /\ slot' = [slot EXCEPT ![fd] = CloseFd(slot[fd])]
        /\ sock' = [sock EXCEPT ![i] = None]
    BY DEF CloseOnly, threads, WaitInv, EventInv, TypeOK
  <1>2. fd \in Fd /\ slot[fd] \in Cell
    BY <1>1 DEF TypeOK, Cell
  <1>3. /\ \A f \in Fd : slot'[f].item = slot[f].item
        /\ \A f \in Fd \ {fd} : slot'[f] = slot[f]
        /\ sock'[i] = None /\ \A k \in Item \ {i} : sock'[k] = sock[k]
    BY <1>1, <1>2, CloseFdItem DEF TypeOK
  <1>4. \A k \in Item : sock'[k] # None => sock'[k] = sock[k] /\ sock[k] # fd
    BY <1>1, <1>3 DEF WaitInv, Rest, Socks
  <1> HIDE DEF fd
  <1>5. Calm' /\ Owned' /\ Fresh' /\ EventReported'
    BY <1>1 DEF WaitInv, Rest, Calm, Owned, Fresh, EventReported
  <1>6. Placed'
    BY <1>1, <1>3 DEF WaitInv, Rest, Placed
  <1>7. Socks'
    BY <1>1, <1>4 DEF WaitInv, Rest, Socks
  <1>8. Armed'
    <2> SUFFICES ASSUME NEW u \in io, NEW k \in Range(fdset[u]), sock'[k] # None
                 PROVE  ArmedBy(k)'
      BY <1>1 DEF Armed
    <2>1. u \in Thread /\ k \in Item
      BY <1>1, InTheSet
    <2>2. sock'[k] = sock[k] /\ ArmedBy(k) /\ sock[k] \in Fd \ {fd}
      BY <1>1, <1>4, <2>1 DEF WaitInv, Rest, Armed, TypeOK
    <2> QED BY <1>1, <1>3, <2>2 DEF ArmedBy
  <1> QED BY <1>5, <1>6, <1>7, <1>8 DEF Rest

\* An event of a descriptor takes only the owner of its item out of the io list,
\* and only that item out of the table.
LEMMA DispatchWaits ==
    ASSUME WaitInv, NEW fd \in Fd, NEW m \in SUBSET (Event \cup {"err"}), Dispatch(fd, m)
    PROVE  Rest'
  <1> DEFINE i == slot[fd].item
  <1>1. /\ TypeOK /\ MaskIsKernel /\ io \subseteq Thread /\ m # {} /\ slot[fd].kernel # {}
        /\ UNCHANGED <<open, osfd, sock, events, owner, fdset, pc, outcome>>
    BY DEF Dispatch, WaitInv, EventInv, TypeOK
  <1>2. Sound(slot[fd], TRUE)
    BY <1>1, SlotSound DEF Sound
  <1>3. Owned' /\ Socks' /\ Fresh'
    BY <1>1 DEF WaitInv, Rest, Owned, Socks, Fresh
  <1>4. CASE i = None
    <2>1. slot' = [slot EXCEPT ![fd] = DelEvent(@, m, TRUE)] /\ UNCHANGED <<revents, io, fired>>
      BY <1>4 DEF Dispatch
    <2>2. slot'[fd].item = None /\ \A f \in Fd \ {fd} : slot'[f] = slot[f]
      BY <1>1, <1>2, <1>4, <2>1, DelEventItem DEF TypeOK
    <2>3. Calm' /\ EventReported'
      BY <1>1, <2>1 DEF WaitInv, Rest, Calm, EventReported
    <2>4. Placed'
      BY <1>1, <2>2 DEF WaitInv, Rest, Placed
    <2>5. Armed'
      <3> SUFFICES ASSUME NEW u \in io, NEW k \in Range(fdset[u]), sock[k] # None
                   PROVE  ArmedBy(k)'
        BY <1>1, <2>1 DEF Armed
      <3>1. k \in Item /\ k # None /\ ArmedBy(k) /\ sock[k] \in Fd
        BY <1>1, InTheSet, EventAssumption DEF WaitInv, Rest, Armed, TypeOK
      <3>2. sock[k] # fd
        BY <1>4, <3>1 DEF ArmedBy
      <3> QED BY <1>1, <2>2, <3>1, <3>2 DEF ArmedBy
    <2> QED BY <1>3, <2>3, <2>4, <2>5 DEF Rest
  <1>5. CASE i # None
    <2>1. /\ revents' = [revents EXCEPT ![i] = m]
          /\ slot' \in {slot, [slot EXCEPT ![fd] = ClearItem(@, i, events[i], TRUE)]}
          /\ io' = io \ {owner[i]}
          /\ fired' = [t \in Thread |-> IF pc[t] = "schedule" /\ i \in Range(fdset[t])
                                          THEN fired[t] \cup {i} ELSE fired[t]]
      BY <1>5 DEF Dispatch, SetRecvEvents
    <2>2. i \in Item
      BY <1>1, <1>5 DEF TypeOK
    <2>3. ClearItem(slot[fd], i, events[i], TRUE).item = None
      BY <1>2, DeleteItemOf
    <2>4. slot'[fd].item \in {i, None} /\ \A f \in Fd \ {fd} : slot'[f] = slot[f]
      BY <1>1, <2>1, <2>3 DEF TypeOK
    <2>5. revents'[i] = m /\ \A k \in Item \ {i} : revents'[k] = revents[k]
      BY <1>1, <2>1, <2>2 DEF TypeOK
    <2> HIDE DEF i
    <2>6. Calm'
      BY <1>1, <2>1 DEF WaitInv, Rest, Calm
    <2>7. Placed'
      BY <1>1, <1>5, <2>4 DEF WaitInv, Rest, Placed, i
    <2>8. Armed'
      <3> SUFFICES ASSUME NEW u \in io, u # owner[i], NEW k \in Range(fdset[u]), sock[k] # None
                   PROVE  ArmedBy(k)'
        BY <1>1, <2>1 DEF Armed
      <3>1. k \in Item /\ owner[k] = u /\ ArmedBy(k) /\ sock[k] \in Fd
        BY <1>1, InTheSet DEF WaitInv, Rest, Armed, TypeOK
      <3>2. sock[k] # fd
        BY <3>1 DEF ArmedBy, i
      <3> QED BY <1>1, <2>4, <3>1, <3>2 DEF ArmedBy
    <2>9. EventReported'
      <3> SUFFICES ASSUME NEW u \in Thread, NEW k \in Range(fdset[u]), k \in fired'[u]
                   PROVE  revents'[k] # {}
        BY <1>1 DEF EventReported
      <3>1. CASE k = i
        BY <1>1, <2>5, <3>1
      <3>2. CASE k # i
        <4>1. k \in fired[u] /\ k \in Item
          BY <2>1, <3>2, InTheSet
        <4> QED BY <2>5, <3>2, <4>1 DEF WaitInv, Rest, EventReported
      <3> QED BY <3>1, <3>2
    <2> QED BY <1>3, <2>6, <2>7, <2>8, <2>9 DEF Rest
  <1> QED BY <1>4, <1>5

LEMMA WaitStep == WaitInv /\ [Next]_vars => WaitInv'
  <1> SUFFICES ASSUME WaitInv, [Next]_vars
               PROVE  Rest'
    BY EventStep DEF WaitInv
  <1>1. ASSUME NEW t \in Thread, NEW i \in Item, NEW fd \in Fd, Register(t, fd, i)
        PROVE  Rest'
    BY <1>1, RegisterWaits
  <1>2. ASSUME NEW t \in Thread, NEW i \in Item, NEW j \in Item, HookAgain(t, i, j)
        PROVE  Rest'
    BY <1>2, HookAgainWaits
  <1>3. ASSUME NEW t \in Thread, NEW i \in Item, ServeAgain(t, i)
        PROVE  Rest'
    <2>1. <<i>> \in Seq(Item) /\ {"r"} \in SUBSET Event /\ {"r"} # {}
      BY DEF Event
    <2>2. /\ pc[t] = "app" /\ sock[i] # None /\ slot[sock[i]].item = None /\ Unwatched(i)
          /\ Schedule(t, <<i>>, {"r"}, "noitem")
      BY <1>3 DEF ServeAgain, InApp
    <2>3. IsInjective(<<i>>) /\ \A k \in Range(<<i>>) : k = i
      BY OneElement
    <2>4. \A k \in Range(<<i>>) : sock[k] # None /\ slot[sock[k]].item \in {None, k} /\ Unwatched(k)
      BY <2>2, <2>3
    <2> QED BY <2>1, <2>2, <2>3, <2>4, ScheduleWaits
  <1>4. ASSUME NEW t \in Thread, NEW i \in Item, WaitNoItem(t, i)
        PROVE  Rest'
    BY <1>4 DEF WaitNoItem, WaitInv, Rest, Calm, Owned, Placed, Socks, Fresh, Armed, ArmedBy,
                EventReported, items
  <1>5. ASSUME NEW t \in Thread, NEW i \in Item, Release(t, i)
        PROVE  Rest'
    BY <1>5, ReleaseWaits
  <1>6. ASSUME NEW t \in Thread, NEW i \in Item, CloseOnly(t, i)
        PROVE  Rest'
    BY <1>6, CloseOnlyWaits
  <1>7. ASSUME NEW t \in Thread, EndWait(t)
        PROVE  Rest'
    BY <1>7, EndWaitWaits
  <1>8. ASSUME NEW t \in Thread, Leave(t)
        PROVE  Rest'
    BY <1>8 DEF Leave, WaitInv, Rest, Calm, Owned, Placed, Socks, Fresh, Armed, ArmedBy,
                EventReported, items
  <1>9. ASSUME NEW t \in Thread, NEW q \in Sets, Wait(t, q)
        PROVE  Rest'
    <2>1. q \in Seq(Item) /\ IsInjective(q)
      BY SetsAreSeqs DEF Sets
    <2>2. PICK m \in {{"r"}, {"w"}} : Schedule(t, q, m, "fail")
      BY <1>9 DEF Wait
    <2>3. m \in SUBSET Event /\ m # {} /\ pc[t] = "app"
      BY <1>9 DEF Event, Wait, InApp
    <2>4. \A i \in Range(q) : sock[i] # None /\ slot[sock[i]].item \in {None, i} /\ Unwatched(i)
      BY <1>9 DEF Wait, Range
    <2> QED BY <2>1, <2>2, <2>3, <2>4, ScheduleWaits
  <1>10. ASSUME NEW fd \in Fd, NEW m \in SUBSET (Event \cup {"err"}), Dispatch(fd, m)
         PROVE  Rest'
    BY <1>10, DispatchWaits
  <1>11. CASE UNCHANGED vars
    BY <1>11 DEF vars, items, threads, WaitInv, Rest, Calm, Owned, Placed, Socks, Fresh, Armed,
                 ArmedBy, EventReported
  <1> QED BY <1>1, <1>2, <1>3, <1>4, <1>5, <1>6, <1>7, <1>8, <1>9, <1>10, <1>11 DEF Next

\* While a coroutine waits, each of its descriptors is armed with what it waits
\* for and leads to it, whatever others register, wait for, release or close
\* meanwhile, and whichever operations the kernel refuses.
THEOREM WaitersArmedAlways == Spec => []WaitersArmed
  <1>1. WaitInv => WaitersArmed
    <2> SUFFICES ASSUME WaitInv, NEW t \in io, NEW i \in Range(fdset[t]), sock[i] # None
                 PROVE  ArmedBy(i) /\ owner[i] = t
      BY DEF WaitersArmed, ArmedBy, WaitInv, EventInv
    <2>1. t \in Thread
      BY DEF WaitInv, EventInv, TypeOK
    <2> QED BY <2>1, InTheSet DEF WaitInv, Rest, Armed
  <1> QED BY <1>1, WaitInit, WaitStep, PTL DEF Spec

\* An event seen during a wait is reported at its end, also when the time is up
\* or a notification arrives in between.
THEOREM EventReportedAlways == Spec => []EventReported
  <1>1. WaitInv => EventReported
    BY DEF WaitInv, Rest
  <1> QED BY <1>1, WaitInit, WaitStep, PTL DEF Spec

-----------------------------------------------------------------------------
(* Waits for one descriptor each.  Then an operation on the set is one on  *)
(* its item, and what fails has nothing to undo.                           *)

Alone == \A t \in Thread : Len(fdset[t]) <= 1

\* If the descriptor is armed, then with events of the item in the table, which is
\* the one of the connection and is waited for if it was ever.
Kept(fd) ==
    slot[fd].kernel # {} =>
        /\ slot[fd].item # None
        /\ sock[slot[fd].item] = fd
        /\ slot[fd].kernel \subseteq events[slot[fd].item]
        /\ \/ owner[slot[fd].item] = None
           \/ \E t \in Thread : slot[fd].item \in Range(fdset[t])

AllKept == Alone /\ \A fd \in Fd : Kept(fd)

OneInv == WaitInv /\ AllKept

LEMMA UpdateOne ==
    ASSUME NEW i, NEW bad \in SUBSET {1}, NEW new, NEW fd \in Fd
    PROVE  Update(<<i>>, bad, new)[fd] = IF osfd[i] = fd THEN new[i] ELSE slot[fd]
  <1> DEFINE q == <<i>>
             S == {k \in Range(q) : bad = {} \/ Before(q, bad, k) \/ First(q, bad, k)}
  <1>1. Update(q, bad, new)[fd] = IF \E k \in S : osfd[k] = fd
                                    THEN new[CHOOSE k \in S : osfd[k] = fd] ELSE slot[fd]
    BY DEF Update
  <1>2. bad # {} => First(q, bad, i)
    <2>1. DOMAIN q = 1 .. 1 /\ q[1] = i
      OBVIOUS
    <2>2. 1 .. 1 = {1} /\ 1 <= 1
      OBVIOUS
    <2> HIDE DEF q
    <2> QED BY <2>1, <2>2 DEF First
  <1>3. S = {i}
    BY <1>2, OneElement
  <1> HIDE DEF S, q
  <1>4. osfd[i] = fd => (CHOOSE k \in S : osfd[k] = fd) = i
    BY <1>3
  <1> QED BY <1>1, <1>3, <1>4 DEF q

LEMMA NoneBefore ==
    ASSUME NEW i, NEW bad \in SUBSET {1}
    PROVE  ~(bad # {} /\ Before(<<i>>, bad, i))
  <1>1. DOMAIN <<i>> = 1 .. 1
    OBVIOUS
  <1>2. 1 .. 1 = {1} /\ ~(1 < 1)
    OBVIOUS
  <1> QED BY <1>1, <1>2 DEF Before

LEMMA AddSetOne ==
    ASSUME NEW i, NEW ev, NEW refused, NEW fd \in Fd
    PROVE  /\ AddSet(<<i>>, ev, refused)[fd] = IF osfd[i] = fd THEN AddItem(i, ev, refused) ELSE slot[fd]
           /\ AddSetOk(<<i>>, ev, refused) <=> AddItemOk(i, ev, refused)
  <1> DEFINE q == <<i>>
             bad == {j \in DOMAIN q : ~AddItemOk(q[j], ev, refused)}
             back(k) == Delete(AddItem(k, ev, refused), k, ev[k], osfd[k] \in open)
             new == [k \in Range(q) |-> IF bad # {} /\ Before(q, bad, k)
                                          THEN back(k) ELSE AddItem(k, ev, refused)]
  <1>1. AddSet(q, ev, refused) = Update(q, bad, new)
    BY DEF AddSet
  <1>2. Range(q) = {i} /\ bad \in SUBSET {1}
    BY OneElement
  <1>3. new[i] = AddItem(i, ev, refused)
    <2> HIDE DEF bad
    <2> QED BY <1>2, NoneBefore
  <1> HIDE DEF bad, new
  <1>4. AddSet(q, ev, refused)[fd] = IF osfd[i] = fd THEN AddItem(i, ev, refused) ELSE slot[fd]
    BY <1>1, <1>2, <1>3, UpdateOne
  <1>5. AddSetOk(q, ev, refused) <=> AddItemOk(i, ev, refused)
    <2> HIDE DEF q
    <2> QED BY <1>2 DEF AddSetOk
  <1> QED BY <1>4, <1>5

LEMMA DeleteSetOne ==
    ASSUME NEW i, NEW refused, NEW fd \in Fd
    PROVE  DeleteSet(<<i>>, refused)[fd] = IF osfd[i] = fd THEN DeleteItem(i) ELSE slot[fd]
  <1> DEFINE q == <<i>>
             bad == {j \in DOMAIN q : ~DeleteItemOk(q[j])}
             back(k) == Add(DeleteItem(k), k, events[k], osfd[k] \in open, osfd[k] \in refused)
             new == [k \in Range(q) |-> IF bad # {} /\ Before(q, bad, k)
                                          THEN back(k) ELSE DeleteItem(k)]
  <1>1. DeleteSet(q, refused) = Update(q, bad, new)
    BY DEF DeleteSet
  <1>2. Range(q) = {i} /\ bad \in SUBSET {1}
    BY OneElement
  <1>3. new[i] = DeleteItem(i)
    <2> HIDE DEF bad
    <2> QED BY <1>2, NoneBefore
  <1> HIDE DEF bad, new
  <1> QED BY <1>1, <1>2, <1>3, UpdateOne

LEMMA SetOfOne ==
    ASSUME NEW q \in Seq(Item), Len(q) <= 1
    PROVE  q = <<>> \/ q = <<q[1]>>
  <1>1. Len(q) = 0 \/ Len(q) = 1
    <2>1. Len(q) \in Nat
      OBVIOUS
    <2> DEFINE n == Len(q)
    <2>2. n \in Nat /\ n <= 1
      BY <2>1
    <2> HIDE DEF n
    <2>3. n = 0 \/ n = 1
      BY <2>2
    <2> QED BY <2>3 DEF n
  <1>2. CASE Len(q) = 0
    BY <1>2
  <1>3. CASE Len(q) = 1
    <2>1. DOMAIN q = DOMAIN <<q[1]>> /\ \A k \in DOMAIN q : q[k] = <<q[1]>>[k]
      BY <1>3
    <2> QED BY <1>3, <2>1
  <1> QED BY <1>1, <1>2, <1>3

\* A descriptor a step leaves alone, with the item of its connection.
LEMMA StillKept ==
    ASSUME OneInv, NEW f \in Fd, slot'[f] = slot[f],
           \A k \in Item : sock[k] = f =>
               /\ sock'[k] = f /\ events'[k] = events[k] /\ owner'[k] = owner[k]
               /\ \A u \in Thread : k \in Range(fdset[u]) => \E v \in Thread : k \in Range(fdset'[v])
    PROVE  Kept(f)'
  <1> SUFFICES ASSUME slot[f].kernel # {}
               PROVE  Kept(f)'
    BY DEF Kept
  <1>1. slot[f].item \in Item /\ Kept(f)
    BY DEF OneInv, AllKept, Kept, WaitInv, EventInv, TypeOK
  <1>2. sock[slot[f].item] = f
    BY <1>1 DEF Kept
  <1> QED BY <1>1, <1>2 DEF Kept

LEMMA RegisterKept ==
    ASSUME OneInv, NEW t \in Thread, NEW fd \in Fd, NEW i \in Item, Register(t, fd, i)
    PROVE  AllKept'
  <1>1. PICK m \in FirstEvents, refused \in Refusals, giveUp \in BOOLEAN :
          LET new == Add(slot[fd], i, m, TRUE, refused)
          IN  IF new.item = i \/ ~giveUp
                THEN /\ open' = open \cup {fd}
                     /\ slot' = [slot EXCEPT ![fd] = new]
                     /\ osfd' = [osfd EXCEPT ![i] = fd]
                     /\ sock' = [sock EXCEPT ![i] = fd]
                     /\ events' = [events EXCEPT ![i] = m]
                     /\ UNCHANGED <<revents, owner>>
                ELSE /\ slot' = [slot EXCEPT ![fd] = CloseFd(new)]
                     /\ UNCHANGED <<open, items>>
    BY DEF Register
  <1> DEFINE new == Add(slot[fd], i, m, TRUE, refused)
  <1>2. /\ fd \notin open /\ osfd[i] = None /\ UNCHANGED <<fdset, io, pc, outcome, fired>>
        /\ TypeOK /\ MaskIsKernel /\ m \in SUBSET Event
    BY EventAssumption DEF Register, threads, OneInv, WaitInv, EventInv
  <1>3. /\ Sound(new, TRUE)
        /\ new.kernel = {} \/ new = [item |-> i, mask |-> m, kernel |-> m]
    <2> DEFINE s == slot[fd]
               o == TRUE
    <2>1. Sound(s, o) /\ o \in BOOLEAN
      BY <1>2, SlotSound DEF Sound
    <2> HIDE DEF s, o
    <2>2. CASE AddOk(s, i, m, o, refused)
      <3>1. Add(s, i, m, o, refused) = [item |-> i, mask |-> m, kernel |-> m]
        BY <1>2, <2>1, <2>2, AddArms
      <3> QED BY <1>2, <2>1, <3>1, AddSound DEF s, o
    <2>3. CASE ~AddOk(s, i, m, o, refused)
      <3>1. Add(s, i, m, o, refused).kernel = {}
        BY <1>2, <2>1, <2>3, AddRefused
      <3> QED BY <1>2, <2>1, <3>1, AddSound DEF s, o
    <2> QED BY <2>2, <2>3
  <1> HIDE DEF new
  <1>4. sock[i] = None /\ owner[i] = None /\ fd # None
    BY <1>2, EventAssumption DEF OneInv, WaitInv, Rest, Fresh, Socks
  <1>5. /\ \A k \in Item \ {i} : sock'[k] = sock[k] /\ events'[k] = events[k]
        /\ UNCHANGED owner
        /\ slot'[fd].kernel = {} \/ (slot'[fd] = new /\ sock'[i] = fd /\ events'[i] = m)
        /\ \A f \in Fd \ {fd} : slot'[f] = slot[f]
    <2>1. CASE slot' = [slot EXCEPT ![fd] = new] /\ sock' = [sock EXCEPT ![i] = fd]
               /\ events' = [events EXCEPT ![i] = m] /\ UNCHANGED owner
      BY <1>2, <2>1 DEF TypeOK
    <2>2. CASE slot' = [slot EXCEPT ![fd] = CloseFd(new)] /\ UNCHANGED items
      BY <1>2, <1>3, <2>2, CloseFdItem DEF TypeOK, items, Sound
    <2> QED BY <1>1, <2>1, <2>2 DEF new
  <1>6. Alone'
    BY <1>2 DEF OneInv, AllKept, Alone
  <1>7. ASSUME NEW f \in Fd PROVE Kept(f)'
    <2>1. CASE f = fd
      BY <1>3, <1>4, <1>5, <2>1, EventAssumption DEF Kept
    <2>2. CASE f # fd
      <3>1. \A k \in Item : sock[k] = f => k # i
        BY <1>4, EventAssumption
      <3> QED BY <1>2, <1>5, <2>2, <3>1, StillKept
    <2> QED BY <2>1, <2>2
  <1> QED BY <1>6, <1>7 DEF AllKept

LEMMA ScheduleKept ==
    ASSUME OneInv, NEW t \in Thread, pc[t] = "app", NEW i \in Item,
           sock[i] # None, slot[sock[i]].item \in {None, i},
           NEW m \in SUBSET Event, NEW failure, Schedule(t, <<i>>, m, failure)
    PROVE  AllKept'
  <1> DEFINE q == <<i>>
             ev == [k \in Item |-> IF k \in Range(q) THEN m ELSE events[k]]
             fd == sock[i]
  <1>1. TypeOK /\ MaskIsKernel /\ fdset[t] = <<>> /\ Range(q) = {i} /\ Len(q) = 1
    BY OneElement DEF OneInv, WaitInv, EventInv, Rest, Calm
  <1>2. <<>> \o q = q
    OBVIOUS
  <1>3. PICK refused \in Refused :
          /\ slot' = AddSet(q, ev, refused)
          /\ events' = ev
          /\ owner' = [k \in Item |-> IF k \in Range(q) THEN t ELSE owner[k]]
          /\ IF AddSetOk(q, ev, refused) THEN fdset' = [fdset EXCEPT ![t] = q] ELSE UNCHANGED fdset
          /\ UNCHANGED sock
    BY <1>1, <1>2 DEF Schedule
  <1>4. fd \in Fd /\ osfd[i] = fd
    BY <1>1 DEF TypeOK, OneInv, WaitInv, Rest, Socks
  <1>5. ev[i] = m /\ \A k \in Item \ {i} : ev[k] = events[k]
    BY <1>1
  <1> HIDE DEF ev, fd
  <1>6. /\ slot'[fd] = AddItem(i, ev, refused)
        /\ AddSetOk(q, ev, refused) <=> AddItemOk(i, ev, refused)
        /\ \A f \in Fd \ {fd} : slot'[f] = slot[f]
    BY <1>3, <1>4, AddSetOne
  <1>7. IF AddItemOk(i, ev, refused) THEN slot'[fd] = [item |-> i, mask |-> m, kernel |-> m]
                                     ELSE slot'[fd].kernel = {}
    <2> DEFINE s == slot[fd]
               o == fd \in open
               r == fd \in refused
    <2>1. Sound(s, o) /\ o \in BOOLEAN
      BY <1>1, <1>4, SlotSound
    <2>2. /\ AddItem(i, ev, refused) = Add(s, i, m, o, r)
          /\ AddItemOk(i, ev, refused) <=> AddOk(s, i, m, o, r)
      BY <1>4, <1>5 DEF AddItem, AddItemOk
    <2> HIDE DEF s, o, r
    <2>3. ASSUME AddOk(s, i, m, o, r) PROVE Add(s, i, m, o, r) = [item |-> i, mask |-> m, kernel |-> m]
      BY <2>1, <2>3, AddArms
    <2>4. ASSUME ~AddOk(s, i, m, o, r) PROVE Add(s, i, m, o, r).kernel = {}
      BY <2>1, <2>4, AddRefused
    <2> QED BY <1>6, <2>2, <2>3, <2>4
  <1>8. Alone'
    <2>1. \A u \in Thread : fdset'[u] = fdset[u] \/ fdset'[u] = q
      BY <1>1, <1>3 DEF TypeOK
    <2>2. \A u \in Thread : Len(fdset[u]) <= 1
      BY DEF OneInv, AllKept, Alone
    <2>3. Len(q) <= 1
      BY <1>1
    <2> HIDE DEF q
    <2> QED BY <2>1, <2>2, <2>3 DEF Alone
  <1>9. \A k \in Item : \A u \in Thread : k \in Range(fdset[u]) => k \in Range(fdset'[u])
    <2> SUFFICES ASSUME NEW u \in Thread, NEW k \in Range(fdset[u]) PROVE fdset'[u] = fdset[u]
      OBVIOUS
    <2>1. u # t
      BY <1>1, EmptyRange
    <2> QED BY <1>1, <1>3, <2>1 DEF TypeOK
  <1>10. ASSUME NEW f \in Fd PROVE Kept(f)'
    <2>1. CASE f = fd
      <3>1. CASE AddItemOk(i, ev, refused)
        <4>1. fdset'[t] = q
          BY <1>1, <1>3, <1>6, <3>1 DEF TypeOK
        <4>2. i \in Range(fdset'[t])
          BY <1>1, <4>1
        <4>3. sock'[i] = fd /\ events'[i] = m
          BY <1>3, <1>5 DEF fd
        <4> QED BY <1>7, <2>1, <3>1, <4>2, <4>3, EventAssumption DEF Kept
      <3>2. CASE ~AddItemOk(i, ev, refused)
        BY <1>7, <2>1, <3>2 DEF Kept
      <3> QED BY <3>1, <3>2
    <2>2. CASE f # fd
      <3>1. \A k \in Item : sock[k] = f => k # i
        BY <2>2 DEF fd
      <3>2. \A k \in Item : sock[k] = f =>
               /\ sock'[k] = f /\ events'[k] = events[k] /\ owner'[k] = owner[k]
               /\ \A u \in Thread : k \in Range(fdset[u]) => \E v \in Thread : k \in Range(fdset'[v])
        BY <1>1, <1>3, <1>5, <1>9, <3>1
      <3> QED BY <1>6, <2>2, <3>2, StillKept
    <2> QED BY <2>1, <2>2
  <1> QED BY <1>8, <1>10 DEF AllKept

LEMMA HookAgainKept ==
    ASSUME OneInv, NEW t \in Thread, NEW i \in Item, NEW j \in Item, HookAgain(t, i, j)
    PROVE  AllKept'
  <1> DEFINE fd == sock[i]
             o == fd \in open
             s == slot[fd]
             new == Add(s, j, {}, o, FALSE)
  <1>1. /\ TypeOK /\ MaskIsKernel
        /\ UNCHANGED <<events, owner, fdset>>
        /\ sock[i] # None /\ slot[fd].item = None /\ osfd[j] = None
        /\ slot' = [slot EXCEPT ![fd] = new]
        /\ sock' = [sock EXCEPT ![j] = fd, ![i] = None]
    BY DEF HookAgain, threads, OneInv, WaitInv, EventInv
  <1>2. fd \in Fd /\ Sound(s, o) /\ o \in BOOLEAN
    <2>1. fd \in Fd
      BY <1>1 DEF TypeOK
    <2> HIDE DEF fd
    <2> QED BY <1>1, <2>1, SlotSound
  <1>3. new.kernel = {}
    <2> DEFINE m == {}
               r == FALSE
    <2>0. m \in SUBSET Event
      OBVIOUS
    <2> HIDE DEF s, o, m, r
    <2>1. CASE AddOk(s, j, m, o, r)
      <3>1. Add(s, j, m, o, r) = [item |-> j, mask |-> m, kernel |-> m]
        BY <1>2, <2>0, <2>1, AddArms
      <3>2. Add(s, j, m, o, r).kernel = m
        BY <3>1
      <3> QED BY <3>2 DEF m, r
    <2>2. CASE ~AddOk(s, j, m, o, r)
      <3>1. Add(s, j, m, o, r).kernel = {}
        BY <1>2, <2>0, <2>2, AddRefused
      <3> QED BY <3>1 DEF m, r
    <2> QED BY <2>1, <2>2
  <1> HIDE DEF new, o, s
  <1>4. Alone'
    BY <1>1 DEF OneInv, AllKept, Alone
  <1>5. ASSUME NEW f \in Fd PROVE Kept(f)'
    <2>1. CASE f = fd
      <3>1. slot'[fd] = new
        BY <1>1, <1>2 DEF TypeOK
      <3> QED BY <1>3, <2>1, <3>1 DEF Kept
    <2>2. CASE f # fd
      <3>1. slot'[f] = slot[f]
        BY <1>1, <2>2 DEF TypeOK
      <3>2. \A k \in Item : sock[k] = f => k # i /\ k # j
        BY <1>1, <2>2, EventAssumption DEF OneInv, WaitInv, Rest, Socks
      <3>3. \A k \in Item : sock[k] = f => sock'[k] = f
        BY <1>1, <3>2 DEF TypeOK
      <3> QED BY <1>1, <3>1, <3>3, StillKept
    <2> QED BY <2>1, <2>2
  <1> QED BY <1>4, <1>5 DEF AllKept

\* The end of a wait disarms its descriptor.
LEMMA EndWaitKept ==
    ASSUME OneInv, NEW t \in Thread, EndWait(t)
    PROVE  AllKept'
  <1>1. /\ TypeOK /\ MaskIsKernel /\ fdset[t] \in Seq(Item)
        /\ UNCHANGED <<sock, events, owner>>
        /\ fdset' = [fdset EXCEPT ![t] = <<>>]
    BY DEF EndWait, items, OneInv, WaitInv, EventInv, TypeOK
  <1>2. PICK refused \in Refused : slot' = DeleteSet(fdset[t], refused)
    BY DEF EndWait
  <1>3. Alone'
    <2>1. \A u \in Thread : fdset'[u] = fdset[u] \/ fdset'[u] = <<>>
      BY <1>1 DEF TypeOK
    <2>2. \A u \in Thread : Len(fdset[u]) <= 1
      BY DEF OneInv, AllKept, Alone
    <2>3. Len(<<>>) <= 1
      OBVIOUS
    <2> QED BY <2>1, <2>2, <2>3 DEF Alone
  <1>4. \A u \in Thread \ {t} : fdset'[u] = fdset[u]
    BY <1>1 DEF TypeOK
  <1>5. CASE fdset[t] = <<>>
    <2>1. fdset' = fdset
      BY <1>1, <1>5 DEF TypeOK
    <2>2. ASSUME NEW f \in Fd PROVE slot'[f] = slot[f]
      <3> DEFINE q == fdset[t]
      <3>1. q \in Seq(Item) /\ slot' = DeleteSet(q, refused) /\ Range(q) = {}
        BY <1>1, <1>2, <1>5, EmptyRange
      <3> HIDE DEF q
      <3> QED BY ONLY <3>1, f \in Fd, DeleteSetCases
    <2>3. \A f \in Fd : Kept(f)'
      BY <1>1, <2>1, <2>2, StillKept
    <2> QED BY <1>3, <2>3 DEF AllKept
  <1>6. ASSUME NEW i, fdset[t] = <<i>>
        PROVE  AllKept'
    <2> DEFINE fd == osfd[i]
               o == fd \in open
               s == slot[fd]
    <2>1. Range(fdset[t]) = {i}
      BY <1>6, OneElement
    <2>2. i \in Item /\ fd \in Fd
      BY <2>1, InTheSet DEF OneInv
    <2>3. \A f \in Fd : slot'[f] = IF fd = f THEN DeleteItem(i) ELSE slot[f]
      BY <1>2, <1>6, DeleteSetOne
    <2>4. Sound(s, o) /\ o \in BOOLEAN
      <3> HIDE DEF fd
      <3> QED BY <1>1, <2>2, SlotSound
    <2>5. DeleteItem(i) = IF s.item \in {None, i} THEN DelEvent(s, events[i], o) ELSE s
      BY DEF DeleteItem, Delete
    <2>6. s.item \in {None, i} => s.mask \subseteq events[i]
      <3>1. Kept(fd) /\ s.mask = s.kernel
        BY <2>2, <2>4 DEF OneInv, AllKept, Sound
      <3> QED BY <3>1 DEF Kept
    <2>7. ASSUME s.item \in {None, i}
          PROVE  DelEvent(s, events[i], o).kernel = {}
      <3>1. s.mask \subseteq events[i]
        BY <2>6, <2>7
      <3> HIDE DEF s, o
      <3> QED BY <2>4, <3>1, DelEventDisarms
    <2>8. \A k \in Item \ {i} : \A u \in Thread :
            k \in Range(fdset[u]) => k \in Range(fdset'[u])
      BY <1>4, <2>1
    <2> HIDE DEF s, o
    <2>9. ASSUME NEW f \in Fd PROVE Kept(f)'
      <3>1. CASE f = fd /\ s.item \in {None, i}
        BY <2>3, <2>5, <2>7, <3>1 DEF Kept
      <3>2. CASE ~(f = fd /\ s.item \in {None, i})
        <4>1. slot'[f] = slot[f]
          BY <2>3, <2>5, <3>2 DEF s
        <4>2. slot[f].item # i
          BY <2>2, <3>2, EventAssumption DEF OneInv, WaitInv, Rest, Placed, s
        <4>3. CASE slot[f].kernel = {}
          BY <4>1, <4>3 DEF Kept
        <4>4. CASE slot[f].kernel # {}
          <5>1. slot[f].item \in Item \ {i} /\ Kept(f)
            BY <1>1, <4>2, <4>4 DEF OneInv, AllKept, Kept, TypeOK
          <5> QED BY <1>1, <2>8, <4>1, <4>4, <5>1 DEF Kept
        <4> QED BY <4>3, <4>4
      <3> QED BY <3>1, <3>2
    <2> QED BY <1>3, <2>9 DEF AllKept
  <1> QED BY <1>1, <1>5, <1>6, SetOfOne DEF OneInv, AllKept, Alone

LEMMA ReleaseKept ==
    ASSUME OneInv, NEW t \in Thread, NEW i \in Item, Release(t, i)
    PROVE  AllKept'
  <1> DEFINE fd == osfd[i]
             o == fd \in open
             s == slot[fd]
             clear == ClearItem(s, i, events[i], o)
             c(always) == IF always \/ s.item = i THEN clear ELSE s
             new(always) == IF sock[i] # None THEN CloseFd(c(always)) ELSE c(always)
  <1>1. /\ TypeOK /\ MaskIsKernel /\ osfd[i] # None
        /\ sock' = [sock EXCEPT ![i] = None]
        /\ events' = [events EXCEPT ![i] = {}]
        /\ owner' = [owner EXCEPT ![i] = None]
        /\ fdset' = [u \in Thread |-> Without(fdset[u], i)]
    BY DEF Release, OneInv, WaitInv, EventInv
  <1>2. PICK always \in {sock[i] # None, FALSE} : slot' = [slot EXCEPT ![fd] = new(always)]
    BY DEF Release
  <1>3. fd \in Fd /\ Sound(s, o) /\ o \in BOOLEAN
    <2>1. fd \in Fd
      BY <1>1 DEF TypeOK
    <2> HIDE DEF fd
    <2> QED BY <1>1, <2>1, SlotSound
  <1>4. /\ \A f \in Fd \ {fd} : slot'[f] = slot[f]
        /\ slot'[fd] = new(always)
    <2> HIDE DEF new, fd
    <2> QED BY <1>1, <1>2, <1>3 DEF TypeOK
  <1>5. slot'[fd].kernel = {} \/ (sock[i] = None /\ s.item # i /\ slot'[fd] = s)
    <2>1. CASE sock[i] # None
      <3>1. c(always) \in Cell
        <4>1. Sound(clear, o)
          <5> HIDE DEF s, o
          <5> QED BY <1>3, ClearItemSound
        <4> HIDE DEF clear
        <4> QED BY <1>3, <4>1 DEF Sound
      <3> HIDE DEF c
      <3> QED BY <1>4, <2>1, <3>1, CloseFdItem
    <2>2. CASE sock[i] = None /\ s.item = i
      <3>1. s.kernel = {} /\ s.mask \subseteq events[i]
        <4>1. Kept(fd) /\ s.mask = s.kernel
          BY <1>3 DEF OneInv, AllKept, Sound
        <4> QED BY <1>1, <1>3, <2>2, <4>1, EventAssumption DEF Kept
      <3>2. clear.kernel = {}
        <4>1. clear = [DelEvent(s, events[i], o) EXCEPT !.item = None]
          BY <2>2 DEF ClearItem, Delete
        <4> HIDE DEF s, o, clear
        <4> DEFINE d == DelEvent(s, events[i], o)
        <4>2. d.kernel = {} /\ d \in Cell
          BY <1>3, <3>1, DelEventDisarms, DelEventSound DEF Sound
        <4> HIDE DEF d
        <4> QED BY <4>1, <4>2 DEF Cell, d
      <3>3. slot'[fd] = clear
        <4> HIDE DEF clear, s, fd
        <4> QED BY <1>4, <2>2
      <3> QED BY <3>2, <3>3
    <2>3. CASE sock[i] = None /\ s.item # i
      <3>1. always = FALSE
        BY <2>3
      <3> HIDE DEF clear, s, fd
      <3> QED BY <1>4, <2>3, <3>1
    <2> QED BY <2>1, <2>2, <2>3
  <1> HIDE DEF o, clear, c, new
  <1>6. /\ sock'[i] = None
        /\ \A k \in Item \ {i} : sock'[k] = sock[k] /\ owner'[k] = owner[k] /\ events'[k] = events[k]
    BY <1>1 DEF TypeOK
  <1>7. ASSUME NEW u \in Thread
        PROVE  Range(fdset'[u]) = Range(fdset[u]) \ {i} /\ Len(fdset'[u]) <= 1
    <2>1. /\ fdset[u] \in Seq(Item) /\ IsInjective(fdset[u]) /\ fdset'[u] = Without(fdset[u], i)
          /\ Len(fdset[u]) <= 1
      BY <1>1 DEF TypeOK, OneInv, AllKept, Alone, WaitInv, Rest, Owned
    <2>2. /\ Range(fdset'[u]) = Range(fdset[u]) \ {i}
          /\ fdset'[u] \in Seq(Item) /\ Len(fdset'[u]) <= Len(fdset[u])
      BY <2>1, WithoutItem, WithoutSeq
    <2>3. Len(fdset'[u]) \in Nat /\ Len(fdset[u]) \in Nat
      BY <2>1, <2>2
    <2> QED BY <2>1, <2>2, <2>3
  <1>8. Alone'
    BY <1>7 DEF Alone
  <1>9. ASSUME NEW f \in Fd, slot'[f] = slot[f], \A k \in Item : sock[k] = f => k # i
        PROVE  Kept(f)'
    <2>1. \A k \in Item \ {i} : \A u \in Thread : k \in Range(fdset[u]) => k \in Range(fdset'[u])
      BY <1>7
    <2> QED BY <1>6, <1>9, <2>1, StillKept
  <1>10. ASSUME NEW f \in Fd PROVE Kept(f)'
    <2>1. CASE f # fd
      <3>1. \A k \in Item : sock[k] = f => k # i
        BY <2>1, EventAssumption DEF OneInv, WaitInv, Rest, Socks
      <3> QED BY <1>4, <1>9, <2>1, <3>1
    <2>2. CASE f = fd /\ slot'[fd].kernel = {}
      BY <2>2 DEF Kept
    <2>3. CASE f = fd /\ sock[i] = None /\ slot'[fd] = s
      <3>1. \A k \in Item : sock[k] = f => k # i
        BY <1>3, <2>3, EventAssumption
      <3> QED BY <1>9, <2>3, <3>1 DEF s
    <2> QED BY <1>5, <2>1, <2>2, <2>3
  <1> QED BY <1>8, <1>10 DEF AllKept

LEMMA CloseOnlyKept ==
    ASSUME OneInv, NEW t \in Thread, NEW i \in Item, CloseOnly(t, i)
    PROVE  AllKept'
  <1> DEFINE fd == sock[i]
  <1>1. /\ TypeOK /\ fd # None
        /\ UNCHANGED <<events, owner, fdset>>
        /\ slot' = [slot EXCEPT ![fd] = CloseFd(slot[fd])]
        /\ sock' = [sock EXCEPT ![i] = None]
    BY DEF CloseOnly, threads, OneInv, WaitInv, EventInv
  <1>2. fd \in Fd /\ slot[fd] \in Cell
    BY <1>1 DEF TypeOK, Cell
  <1>3. /\ slot'[fd].kernel = {}
        /\ \A f \in Fd \ {fd} : slot'[f] = slot[f]
        /\ \A k \in Item \ {i} : sock'[k] = sock[k]
    BY <1>1, <1>2, CloseFdItem DEF TypeOK
  <1>4. Alone'
    BY <1>1 DEF OneInv, AllKept, Alone
  <1>5. ASSUME NEW f \in Fd PROVE Kept(f)'
    <2>1. CASE f = fd
      BY <1>3, <2>1 DEF Kept
    <2>2. CASE f # fd
      <3>1. \A k \in Item : sock[k] = f => sock'[k] = f
        BY <1>3, <2>2
      <3> QED BY <1>1, <1>3, <2>2, <3>1, StillKept
    <2> QED BY <2>1, <2>2
  <1> QED BY <1>4, <1>5 DEF AllKept

\* A hangup disarms the descriptor it takes out of the table.
LEMMA DispatchKept ==
    ASSUME OneInv, NEW fd \in Fd, NEW m \in SUBSET (Event \cup {"err"}), Dispatch(fd, m)
    PROVE  AllKept'
  <1> DEFINE i == slot[fd].item
             s == slot[fd]
             o == TRUE
             clear == ClearItem(s, i, events[i], o)
  <1>1. /\ TypeOK /\ MaskIsKernel /\ s.kernel # {}
        /\ UNCHANGED <<sock, events, owner, fdset>>
    BY DEF Dispatch, OneInv, WaitInv, EventInv
  <1>2. Sound(s, o) /\ o \in BOOLEAN
    BY <1>1, SlotSound DEF Sound
  <1>3. i \in Item /\ i # None /\ s.mask \subseteq events[i]
    BY <1>1, <1>2 DEF OneInv, AllKept, Kept, TypeOK, Sound
  <1>4. slot' \in {slot, [slot EXCEPT ![fd] = clear]}
    BY <1>3 DEF Dispatch
  <1>5. clear.kernel = {}
    <2>1. clear = [DelEvent(s, events[i], o) EXCEPT !.item = None]
      BY DEF ClearItem, Delete
    <2> HIDE DEF s, o, clear, i
    <2> DEFINE d == DelEvent(s, events[i], o)
    <2>2. d.kernel = {} /\ d \in Cell
      BY <1>2, <1>3, DelEventDisarms, DelEventSound DEF Sound
    <2> HIDE DEF d
    <2> QED BY <2>1, <2>2 DEF Cell, d
  <1> HIDE DEF clear, s, i
  <1>6. Alone'
    BY <1>1 DEF OneInv, AllKept, Alone
  <1>7. ASSUME NEW f \in Fd PROVE Kept(f)'
    <2>1. slot'[f] = slot[f] \/ slot'[f] = clear
      BY <1>1, <1>4 DEF TypeOK
    <2>2. CASE slot'[f] = slot[f]
      BY <1>1, <2>2, StillKept
    <2>3. CASE slot'[f] = clear
      BY <1>5, <2>3 DEF Kept
    <2> QED BY <2>1, <2>2, <2>3
  <1> QED BY <1>6, <1>7 DEF AllKept

LEMMA OneInit == Init => OneInv
  <1> SUFFICES ASSUME Init PROVE AllKept
    BY WaitInit DEF OneInv
  <1>1. \A fd \in Fd : slot[fd].kernel = {}
    BY DEF Init, Empty
  <1>2. \A t \in Thread : fdset[t] = <<>>
    BY DEF Init
  <1>3. Len(<<>>) <= 1
    OBVIOUS
  <1> QED BY <1>1, <1>2, <1>3 DEF AllKept, Alone, Kept

\* An event takes only a coroutine that waits for it out of the io list.
WakesStep ==
    \A t \in Thread : t \in io /\ t \notin io' /\ revents' # revents
                         => \E i \in Range(fdset[t]) : i \in fired'[t]

LEMMA DispatchWakes ==
    ASSUME OneInv, NEW fd \in Fd, NEW m \in SUBSET (Event \cup {"err"}), Dispatch(fd, m)
    PROVE  WakesStep
  <1> DEFINE i == slot[fd].item
  <1>1. TypeOK /\ slot[fd].kernel # {} /\ Kept(fd)
    BY DEF Dispatch, OneInv, AllKept, WaitInv, EventInv
  <1>2. i # None /\ (owner[i] = None \/ \E u \in Thread : i \in Range(fdset[u]))
    BY <1>1 DEF Kept
  <1>3. /\ io' = io \ {owner[i]}
        /\ fired' = [t \in Thread |-> IF pc[t] = "schedule" /\ i \in Range(fdset[t])
                                        THEN fired[t] \cup {i} ELSE fired[t]]
    BY <1>2 DEF Dispatch
  <1> HIDE DEF i
  <1> SUFFICES ASSUME NEW t \in Thread, t \in io, t \notin io'
               PROVE  i \in Range(fdset[t]) /\ i \in fired'[t]
    BY DEF WakesStep
  <1>4. owner[i] = t /\ t # None
    BY <1>3, EventAssumption
  <1>5. PICK u \in Thread : i \in Range(fdset[u])
    BY <1>2, <1>4
  <1>6. u = t /\ pc[u] = "schedule"
    BY <1>4, <1>5, InTheSet DEF OneInv
  <1> QED BY <1>3, <1>5, <1>6

LEMMA OneStep ==
    ASSUME SetMax = 1
    PROVE  OneInv /\ [Next]_vars => OneInv' /\ [WakesStep]_vars
  <1> SUFFICES ASSUME OneInv, [Next]_vars
               PROVE  AllKept' /\ [WakesStep]_vars
    BY WaitStep DEF OneInv
  <1> DEFINE Quiet == io \subseteq io' \/ revents' = revents
  <1>q. Quiet => [WakesStep]_vars
    BY DEF WakesStep
  <1>1. ASSUME NEW t \in Thread, NEW i \in Item, NEW fd \in Fd, Register(t, fd, i)
        PROVE  AllKept' /\ Quiet
    BY <1>1, RegisterKept DEF Register, threads
  <1>2. ASSUME NEW t \in Thread, NEW i \in Item, NEW j \in Item, HookAgain(t, i, j)
        PROVE  AllKept' /\ Quiet
    BY <1>2, HookAgainKept DEF HookAgain
  <1>3. ASSUME NEW t \in Thread, NEW i \in Item, ServeAgain(t, i)
        PROVE  AllKept' /\ Quiet
    <2>1. /\ pc[t] = "app" /\ sock[i] # None /\ slot[sock[i]].item \in {None, i}
          /\ Schedule(t, <<i>>, {"r"}, "noitem") /\ {"r"} \in SUBSET Event
      BY <1>3 DEF ServeAgain, InApp, Event
    <2>2. AllKept'
      BY <2>1, ScheduleKept
    <2>3. Quiet
      BY <2>1 DEF Schedule
    <2> QED BY <2>2, <2>3
  <1>4. ASSUME NEW t \in Thread, NEW i \in Item, WaitNoItem(t, i)
        PROVE  AllKept' /\ Quiet
    BY <1>4 DEF WaitNoItem, OneInv, AllKept, Alone, Kept, items
  <1>5. ASSUME NEW t \in Thread, NEW i \in Item, Release(t, i)
        PROVE  AllKept' /\ Quiet
    BY <1>5, ReleaseKept DEF Release
  <1>6. ASSUME NEW t \in Thread, NEW i \in Item, CloseOnly(t, i)
        PROVE  AllKept' /\ Quiet
    BY <1>6, CloseOnlyKept DEF CloseOnly
  <1>7. ASSUME NEW t \in Thread, EndWait(t)
        PROVE  AllKept' /\ Quiet
    BY <1>7, EndWaitKept DEF EndWait
  <1>8. ASSUME NEW t \in Thread, Leave(t)
        PROVE  AllKept' /\ Quiet
    BY <1>8 DEF Leave, OneInv, AllKept, Alone, Kept, items
  <1>9. ASSUME NEW t \in Thread, NEW q \in Sets, Wait(t, q)
        PROVE  AllKept' /\ Quiet
    <2>1. q \in Seq(Item) /\ q # <<>> /\ Len(q) <= 1
      <3>1. PICK n \in 0 .. 1 : q \in [1 .. n -> Item]
        BY DEF Sets, BoundedSeq, SeqOf
      <3>2. Len(q) = n
        BY <3>1
      <3>3. q # <<>>
        BY DEF Sets
      <3> QED BY <3>1, <3>2, <3>3, SetsAreSeqs
    <2>2. q = <<q[1]>>
      BY <2>1, SetOfOne
    <2>3. 1 \in DOMAIN q /\ q[1] \in Item
      BY <2>1, <2>2
    <2>4. pc[t] = "app" /\ sock[q[1]] # None /\ slot[sock[q[1]]].item = q[1]
      BY <1>9, <2>3 DEF Wait, InApp
    <2>5. PICK m \in {{"r"}, {"w"}} : Schedule(t, q, m, "fail")
      BY <1>9 DEF Wait
    <2>6. m \in SUBSET Event
      BY DEF Event
    <2>7. AllKept'
      <3> DEFINE i == q[1]
      <3>1. i \in Item /\ sock[i] # None /\ slot[sock[i]].item = i /\ Schedule(t, <<i>>, m, "fail")
        BY <2>2, <2>3, <2>4, <2>5
      <3> HIDE DEF i
      <3> QED BY <2>4, <2>6, <3>1, ScheduleKept
    <2>8. Quiet
      BY <2>5 DEF Schedule
    <2> QED BY <2>7, <2>8
  <1>10. ASSUME NEW fd \in Fd, NEW m \in SUBSET (Event \cup {"err"}), Dispatch(fd, m)
         PROVE  AllKept' /\ [WakesStep]_vars
    BY <1>10, DispatchKept, DispatchWakes
  <1>11. CASE UNCHANGED vars
    BY <1>11 DEF vars, items, threads, OneInv, AllKept, Alone, Kept
  <1> HIDE DEF Quiet
  <1> QED BY <1>q, <1>1, <1>2, <1>3, <1>4, <1>5, <1>6, <1>7, <1>8, <1>9, <1>10, <1>11 DEF Next

\* The daemon never dispatches to a pooled item or to one of a connection that
\* no longer has the descriptor, if every wait is for one descriptor, as all of
\* the library's are.
THEOREM ArmedHasItemAlways ==
    ASSUME SetMax = 1
    PROVE  Spec => []ArmedHasItem
  <1>1. OneInv => ArmedHasItem
    BY DEF OneInv, AllKept, Kept, ArmedHasItem
  <1>2. OneInv /\ [Next]_vars => OneInv'
    BY OneStep
  <1> QED BY <1>1, <1>2, OneInit, PTL DEF Spec

\* Under the same condition the daemon does not spin on a descriptor nobody waits
\* for: whatever a wait ends with, it leaves nothing armed.
THEOREM ArmedIsWatchedAlways ==
    ASSUME SetMax = 1
    PROVE  Spec => []ArmedIsWatched
  <1>1. OneInv => ArmedIsWatched
    BY DEF OneInv, AllKept, Kept, ArmedIsWatched
  <1>2. OneInv /\ [Next]_vars => OneInv'
    BY OneStep
  <1> QED BY <1>1, <1>2, OneInit, PTL DEF Spec

\* Nor does it wake a coroutine for a descriptor that coroutine does not wait for.
THEOREM WakesItsWaiterAlways ==
    ASSUME SetMax = 1
    PROVE  Spec => WakesItsWaiter
  <1>1. OneInv /\ [Next]_vars => OneInv' /\ [WakesStep]_vars
    BY OneStep
  <1> QED BY <1>1, OneInit, PTL DEF Spec, WakesItsWaiter, WakesStep
=============================================================================

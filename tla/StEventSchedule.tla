----------------------------- MODULE StEventSchedule -----------------------------
(***************************************************************************)
(* Descriptors: StEventSchedule (src/src/st_thread.cc, st_thread.h), the   *)
(* epoll back end StIOState (src/stlib/st_epoll.h), the event items        *)
(* (src/src/st_poll.h) and what closes a descriptor (src/app/st_sys.cc,    *)
(* src/src/st_connection.h, st_server.h).                                  *)
(*                                                                         *)
(* For each descriptor three places must agree: the item in m_event_, the  *)
(* mask StIOState remembers, and the registration in the kernel, which     *)
(* close() drops without telling anybody.                                  *)
(*                                                                         *)
(* Every action is what one coroutine, or the daemon, does between two     *)
(* switches.  Which ready coroutine runs next is left open: module         *)
(* StThreadSchedule says.  Items listed in one set of descriptors belong   *)
(* to different descriptors, and two coroutines do not wait for the same   *)
(* descriptor at once: the library leaves both to the application.         *)
(***************************************************************************)
EXTENDS Integers, Sequences, FiniteSets, SequencesExt

CONSTANTS
    Thread,       \* the coroutines
    Fd,           \* the descriptor numbers
    Item,         \* the addresses at which a StEventItem can be constructed
    None,         \* the NULL item, owner and descriptor
    FirstEvents,  \* the events an item may be registered with
    SetMax,       \* bound: the items of one set of descriptors
    Refusals      \* BOOLEAN, or {FALSE} in an instance whose kernel never refuses

Event == {"r", "w"}

ASSUME EventAssumption ==
    /\ None \notin Thread \cup Fd \cup Item
    /\ FirstEvents \subseteq SUBSET Event
    /\ SetMax \in Nat \ {0} /\ Refusals \subseteq BOOLEAN

VARIABLES
    open,     \* the open descriptors
    slot,     \* per descriptor: m_event_, StIOState::m_file_.mask, the kernel
    osfd,     \* m_fd_ of an item; None in a pooled one
    sock,     \* the open descriptor of the connection that holds the item
    events,   \* m_events_
    revents,  \* m_revents_
    owner,    \* m_thread_ of an item
    fdset,    \* m_fdset_ of a coroutine
    io,       \* the coroutines in m_io_list_
    pc,       \* "app", or "schedule" from Schedule's Add to its return
    outcome,  \* how the last wait of a coroutine ended
    fired     \* history: the items a coroutine waits for that an event was seen on

items   == <<osfd, sock, events, revents, owner>>
threads == <<fdset, io, pc, outcome, fired>>
vars    == <<open, slot, items, threads>>

Empty == [item |-> None, mask |-> {}, kernel |-> {}]

Init ==
    /\ open = {}
    /\ slot = [fd \in Fd |-> Empty]
    /\ osfd = [i \in Item |-> None] /\ sock = [i \in Item |-> None]
    /\ events = [i \in Item |-> {}] /\ revents = [i \in Item |-> {}]
    /\ owner = [i \in Item |-> None]
    /\ fdset = [t \in Thread |-> <<>>]
    /\ io = {} /\ pc = [t \in Thread |-> "app"]
    /\ outcome = [t \in Thread |-> "none"] /\ fired = [t \in Thread |-> {}]

-----------------------------------------------------------------------------
(* One descriptor s: [item, mask, kernel].  A failing operation leaves its *)
(* partial effect, so each has a result and a condition.                   *)

\* epoll_ctl: MOD and DEL need a registration, ADD needs none, and each an open
\* descriptor.  The kernel may refuse an ADD (no memory, too many watches).
CanAdd(s, isOpen, refused) == isOpen /\ s.kernel = {} /\ ~refused
CanMod(s, isOpen) == isOpen /\ s.kernel # {}

\* StIOState::DelEvent.  An ENOENT of DEL counts as success.
DelEventOk(s, m, isOpen) ==
    LET left == s.mask \ m
    IN  left = s.mask \/ IF left = {} THEN isOpen ELSE CanMod(s, isOpen)
MutantDelEvent(s, m, isOpen) == [s EXCEPT !.mask = @ \ m]  \* no epoll_ctl
DelEvent(s, m, isOpen) ==
    IF DelEventOk(s, m, isOpen) /\ s.mask \ m # s.mask
      THEN [s EXCEPT !.mask = @ \ m, !.kernel = IF CanMod(s, isOpen) THEN s.mask \ m ELSE @]
      ELSE s

\* StIOState::AddEvent: m replaces the old mask; an equal one is not looked into.
AddEventOk(s, m, isOpen, refused) ==
    IF s.mask = m THEN TRUE
    ELSE IF m = {} THEN DelEventOk(s, s.mask, isOpen)
    ELSE IF s.mask = {} THEN CanAdd(s, isOpen, refused)
    ELSE CanMod(s, isOpen)
AddEvent(s, m, isOpen, refused) ==
    IF ~AddEventOk(s, m, isOpen, refused) \/ s.mask = m THEN s
    ELSE IF m = {} THEN DelEvent(s, s.mask, isOpen)
    ELSE [s EXCEPT !.mask = m, !.kernel = m]

\* Another item left in the table by a descriptor of the same number goes first.
Evict(s, i, isOpen) ==
    IF s.item \in {None, i} THEN s
    ELSE [DelEvent(s, events[s.item], isOpen) EXCEPT !.item = None]

\* StEventSchedule::Add(item) for an item with events m.
AddOk(s, i, m, isOpen, refused) == AddEventOk(Evict(s, i, isOpen), m, isOpen, refused)
Add(s, i, m, isOpen, refused) ==
    LET e == Evict(s, i, isOpen)
    IN  IF AddOk(s, i, m, isOpen, refused)
          THEN [AddEvent(e, m, isOpen, refused) EXCEPT !.item = i]
          ELSE e

\* StEventSchedule::Delete(item): the item keeps its place in the table.
DeleteOk(s, i, m, isOpen) == s.item = None \/ (s.item = i /\ DelEventOk(s, m, isOpen))
MutantDelete(s, i, m, isOpen) == DelEvent(s, m, isOpen)  \* whoever has the descriptor
Delete(s, i, m, isOpen) == IF s.item \in {None, i} THEN DelEvent(s, m, isOpen) ELSE s

MutantClearItem(s, i, m, isOpen) == [s EXCEPT !.item = None]  \* stays armed
ClearItem(s, i, m, isOpen) == [Delete(s, i, m, isOpen) EXCEPT !.item = None]

\* sys_close: ClearOsfd, then close, which drops the registration.
MutantCloseFd(s) == [s EXCEPT !.kernel = {}]  \* StIOState is not told
CloseFd(s) == [s EXCEPT !.mask = {}, !.kernel = {}]

\* Add and Delete of a set of descriptors q: the items before the first one that
\* fails are undone.  A refused descriptor is one whose ADD the kernel refuses.
Before(q, bad, i) == \E j \in DOMAIN q : q[j] = i /\ \A k \in bad : j < k
First(q, bad, i)  == \E j \in bad : q[j] = i /\ \A k \in bad : j <= k

AddItem(i, ev, refused) ==
    Add(slot[osfd[i]], i, ev[i], osfd[i] \in open, osfd[i] \in refused)
AddItemOk(i, ev, refused) ==
    AddOk(slot[osfd[i]], i, ev[i], osfd[i] \in open, osfd[i] \in refused)
DeleteItem(i) == Delete(slot[osfd[i]], i, events[i], osfd[i] \in open)
DeleteItemOk(i) == DeleteOk(slot[osfd[i]], i, events[i], osfd[i] \in open)

\* slot with the records new for the descriptors of the items of q that are not
\* beyond the first failing one.
Update(q, bad, new) ==
    LET S == {i \in Range(q) : bad = {} \/ Before(q, bad, i) \/ First(q, bad, i)}
    IN  [fd \in Fd |-> IF \E i \in S : osfd[i] = fd
                         THEN new[CHOOSE i \in S : osfd[i] = fd]
                         ELSE slot[fd]]

AddSet(q, ev, refused) ==
    LET bad == {j \in DOMAIN q : ~AddItemOk(q[j], ev, refused)}
        new == [i \in Range(q) |->
                  IF bad # {} /\ Before(q, bad, i)
                    THEN Delete(AddItem(i, ev, refused), i, ev[i], osfd[i] \in open)
                    ELSE AddItem(i, ev, refused)]
    IN  Update(q, bad, new)
AddSetOk(q, ev, refused) == \A i \in Range(q) : AddItemOk(i, ev, refused)

MutantDeleteSet(q, refused) == slot  \* left armed
DeleteSet(q, refused) ==
    LET bad == {j \in DOMAIN q : ~DeleteItemOk(q[j])}
        new == [i \in Range(q) |->
                  IF bad # {} /\ Before(q, bad, i)
                    THEN Add(DeleteItem(i), i, events[i], osfd[i] \in open, osfd[i] \in refused)
                    ELSE DeleteItem(i)]
    IN  Update(q, bad, new)

-----------------------------------------------------------------------------
(* The running coroutine.                                                  *)

InApp(t) == pc[t] = "app"
Refused == {R \in SUBSET Fd : R # {} => TRUE \in Refusals}

\* sys_socket or accept, and the registration of the new descriptor's item
\* (Create, CreateSocket, CallBack, hook_ensure_item).  If Add fails, Create gives
\* the item back and closes the descriptor; the server keeps both.
Register(t, fd, i) ==
    /\ InApp(t) /\ fd \notin open /\ osfd[i] = None
    /\ \E m \in FirstEvents, refused \in Refusals, giveUp \in BOOLEAN :
         LET new == Add(slot[fd], i, m, TRUE, refused)
         IN  IF new.item = i \/ ~giveUp
               THEN /\ open' = open \cup {fd}
                    /\ slot' = [slot EXCEPT ![fd] = new]
                    /\ osfd' = [osfd EXCEPT ![i] = fd]
                    /\ sock' = [sock EXCEPT ![i] = fd]
                    /\ events' = [events EXCEPT ![i] = m]
                    /\ UNCHANGED <<revents, owner>>
               ELSE /\ slot' = [slot EXCEPT ![fd] = CloseFd(new)]
                    /\ UNCHANGED <<open, items>>
    /\ UNCHANGED threads

\* Schedule, up to its Yield, for the items of q with the events m; their owner
\* is t.  If Add fails, q leaves m_fdset_ again and nobody waits.
Schedule(t, q, m, failure) ==
    LET ev == [i \in Item |-> IF i \in Range(q) THEN m ELSE events[i]]
        all == fdset[t] \o q
    IN  \E refused \in Refused :
          /\ slot' = AddSet(all, ev, refused)
          /\ events' = ev
          /\ owner' = [i \in Item |-> IF i \in Range(q) THEN t ELSE owner[i]]
          /\ IF AddSetOk(all, ev, refused)
               THEN /\ fdset' = [fdset EXCEPT ![t] = all]
                    /\ io' = io \cup {t}
                    /\ pc' = [pc EXCEPT ![t] = "schedule"]
                    /\ UNCHANGED outcome
               ELSE /\ outcome' = [outcome EXCEPT ![t] = failure]
                    /\ UNCHANGED <<fdset, io, pc>>
          /\ UNCHANGED <<open, osfd, sock, revents, fired>>

\* Two coroutines never wait for one descriptor at once.
Unwatched(i) == \A u \in Thread : i \notin Range(fdset[u])

\* WaitFdReady or st_wait for one descriptor, or an own set of them.
Wait(t, q) ==
    /\ InApp(t)
    /\ \A j \in DOMAIN q : sock[q[j]] # None /\ slot[sock[q[j]]].item = q[j] /\ Unwatched(q[j])
    /\ \E m \in {{"r"}, {"w"}} : Schedule(t, q, m, "fail")

\* StServer::CallBack adds its item again for every request and waits for it at
\* once, which matters when a hangup has taken it out of the table.
ServeAgain(t, i) ==
    /\ InApp(t)
    /\ sock[i] # None /\ slot[sock[i]].item = None /\ Unwatched(i)
    /\ Schedule(t, <<i>>, {"r"}, "noitem")

\* hook_ensure_item after a hangup has taken the item of the descriptor out of the
\* table: another item takes its place, and nobody has the old one any more.
HookAgain(t, i, j) ==
    /\ InApp(t)
    /\ sock[i] # None /\ slot[sock[i]].item = None /\ Unwatched(i) /\ osfd[j] = None
    /\ slot' = [slot EXCEPT ![sock[i]] = Add(@, j, {}, sock[i] \in open, FALSE)]
    /\ osfd' = [osfd EXCEPT ![j] = sock[i]]
    /\ sock' = [sock EXCEPT ![j] = sock[i], ![i] = None]
    /\ UNCHANGED <<open, events, revents, owner, threads>>

\* WaitFdReady of a descriptor without an item.
WaitNoItem(t, i) ==
    /\ InApp(t)
    /\ sock[i] # None /\ slot[sock[i]].item = None
    /\ outcome' = [outcome EXCEPT ![t] = "noitem"]
    /\ UNCHANGED <<open, slot, items, fdset, io, pc, fired>>

\* Schedule after its Yield: count the items with events, disarm all of them,
\* and empty m_fdset_.
EndWait(t) ==
    /\ pc[t] = "schedule" /\ t \notin io
    /\ \E refused \in Refused : slot' = DeleteSet(fdset[t], refused)
    /\ outcome' = [outcome EXCEPT ![t] =
                     IF \E i \in Range(fdset[t]) : revents[i] # {} THEN "fd" ELSE "etime"]
    /\ fdset' = [fdset EXCEPT ![t] = <<>>]
    /\ fired' = [fired EXCEPT ![t] = {}]
    /\ pc' = [pc EXCEPT ![t] = "app"]
    /\ UNCHANGED <<open, items, io>>

Without(q, i) ==
    IF i \in Range(q) THEN RemoveAt(q, CHOOSE j \in DOMAIN q : q[j] = i) ELSE q

\* The item goes back to the pool, and the connection's descriptor is closed, by
\* its holder or by another coroutine (sys_close of a hooked descriptor).
\* ReleaseItem and hook_release_item clear the table only if it has this item,
\* StServer and st_chat in any case.  Reset takes the item out of the set of a
\* coroutine that waits for it.
Release(t, i) ==
    /\ InApp(t) /\ osfd[i] # None
    /\ \E always \in {sock[i] # None, FALSE} :
         LET s == slot[osfd[i]]
             c == IF always \/ s.item = i THEN ClearItem(s, i, events[i], osfd[i] \in open) ELSE s
         IN  slot' = [slot EXCEPT ![osfd[i]] = IF sock[i] # None THEN CloseFd(c) ELSE c]
    /\ open' = open \ {sock[i]}
    /\ osfd' = [osfd EXCEPT ![i] = None] /\ sock' = [sock EXCEPT ![i] = None]
    /\ events' = [events EXCEPT ![i] = {}] /\ revents' = [revents EXCEPT ![i] = {}]
    /\ owner' = [owner EXCEPT ![i] = None]
    /\ fdset' = [u \in Thread |-> Without(fdset[u], i)]
    /\ UNCHANGED <<io, pc, outcome, fired>>

\* sys_close of a descriptor whose item stays where it is for now.
CloseOnly(t, i) ==
    /\ InApp(t) /\ sock[i] # None
    /\ open' = open \ {sock[i]}
    /\ slot' = [slot EXCEPT ![sock[i]] = CloseFd(@)]
    /\ sock' = [sock EXCEPT ![i] = None]
    /\ UNCHANGED <<osfd, events, revents, owner, threads>>

-----------------------------------------------------------------------------
(* The daemon.                                                             *)

MutantSetRecvEvents(i, m) == revents' = [revents EXCEPT ![i] = m \ {"err"}]
SetRecvEvents(i, m) == revents' = [revents EXCEPT ![i] = m]

\* One fired event of Poll.  The events of one Poll are dispatched one after the
\* other with no coroutine in between.
Dispatch(fd, m) ==
    /\ slot[fd].kernel # {}
    /\ m \subseteq slot[fd].kernel \cup {"err"} /\ m # {}
    /\ LET s == slot[fd]
           i == s.item
       IN  IF i = None
             THEN /\ slot' = [slot EXCEPT ![fd] = DelEvent(@, m, TRUE)]
                  /\ UNCHANGED <<revents, io, fired>>
             ELSE /\ SetRecvEvents(i, m)
                  /\ slot' = IF "err" \in m
                               THEN [slot EXCEPT ![fd] = ClearItem(@, i, events[i], TRUE)]
                               ELSE slot
                  /\ io' = io \ {owner[i]}
                  /\ fired' = [t \in Thread |-> IF pc[t] = "schedule" /\ i \in Range(fdset[t])
                                                  THEN fired[t] \cup {i} ELSE fired[t]]
    /\ UNCHANGED <<open, osfd, sock, events, owner, fdset, pc, outcome>>

\* The sleep heap or a notification takes the coroutine out of the io list.
Leave(t) ==
    /\ t \in io
    /\ io' = io \ {t}
    /\ UNCHANGED <<open, slot, items, fdset, pc, outcome, fired>>

Sets == {q \in BoundedSeq(Item, SetMax) : q # <<>> /\ IsInjective(q)}

Next ==
    \/ \E t \in Thread, i \in Item :
         \/ \E fd \in Fd : Register(t, fd, i)
         \/ \E j \in Item : HookAgain(t, i, j)
         \/ ServeAgain(t, i) \/ WaitNoItem(t, i) \/ Release(t, i) \/ CloseOnly(t, i)
    \/ \E t \in Thread : EndWait(t) \/ Leave(t) \/ \E q \in Sets : Wait(t, q)
    \/ \E fd \in Fd, m \in SUBSET (Event \cup {"err"}) : Dispatch(fd, m)

Spec == Init /\ [][Next]_vars
-----------------------------------------------------------------------------
(* What makes the event layer correct.                                     *)

\* The types of the variables.
TypeOK ==
    /\ open \subseteq Fd
    /\ slot \in [Fd -> [item : Item \cup {None}, mask : SUBSET Event, kernel : SUBSET Event]]
    /\ osfd \in [Item -> Fd \cup {None}] /\ sock \in [Item -> Fd \cup {None}]
    /\ events \in [Item -> SUBSET Event] /\ revents \in [Item -> SUBSET (Event \cup {"err"})]
    /\ owner \in [Item -> Thread \cup {None}]
    /\ fdset \in [Thread -> Seq(Item)] /\ io \subseteq Thread
    /\ pc \in [Thread -> {"app", "schedule"}]
    /\ outcome \in [Thread -> {"none", "fd", "etime", "noitem", "fail"}]
    /\ fired \in [Thread -> SUBSET Item]

\* What StIOState remembers is what the kernel has, also after a descriptor was
\* closed and its number used again: otherwise the next AddEvent takes MOD for
\* ADD, or returns without telling the kernel.
MaskIsKernel == \A fd \in Fd : slot[fd].mask = slot[fd].kernel /\ (fd \notin open => slot[fd].kernel = {})

\* An armed descriptor has an item to dispatch to, and it is the item of the
\* connection that has the descriptor now, never a pooled or an older one.
ArmedHasItem ==
    \A fd \in Fd : slot[fd].kernel # {} => slot[fd].item # None /\ sock[slot[fd].item] = fd

\* Besides the types: a coroutine in the io list can be woken by the descriptors it
\* waits for, as long as nobody closes them: each is armed with its events, the table
\* leads to its item and the item to the coroutine.
WaitersArmed ==
    /\ TypeOK
    /\ \A t \in io : \A i \in Range(fdset[t]) :
           sock[i] # None => /\ slot[sock[i]] = [item |-> i, mask |-> events[i], kernel |-> events[i]]
                             /\ events[i] # {} /\ owner[i] = t

\* An event seen while a coroutine waits is reported to it even if its time is
\* up, or a notification arrives, before it runs again.
EventReported ==
    \A t \in Thread : \A i \in fired[t] \cap Range(fdset[t]) : revents[i] # {}

\* When no coroutine waits for a descriptor or is about to return from waiting
\* for it, it is not armed, so that the daemon does not spin on it.  Only an item
\* that was registered with events is armed before somebody first waits for it.
\* This needs waits for one descriptor each, which is all the library makes: when
\* Delete of a set meets an item that another one evicted, its roll-back arms the
\* items before it again, although nobody waits for them any more.
ArmedIsWatched ==
    \A fd \in Fd : slot[fd].kernel # {} =>
        \/ owner[slot[fd].item] = None
        \/ \E t \in Thread : slot[fd].item \in Range(fdset[t])

\* An event wakes only a coroutine that waits for that descriptor.
WakesItsWaiter ==
    [][\A t \in Thread : t \in io /\ t \notin io' /\ revents' # revents
                         => \E i \in Range(fdset[t]) : i \in fired'[t]]_vars
=============================================================================

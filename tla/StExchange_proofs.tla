--------------------------- MODULE StExchange_proofs ---------------------------
(***************************************************************************)
(* That no exchange takes the reply of another, that connections and slots *)
(* have one user at a time, that exchanges end in time and that main has   *)
(* counted all of them when it reports, for any program, numbers of        *)
(* coroutines, backends and slots, sizes of replies, and time-outs.        *)
(***************************************************************************)
EXTENDS StExchange, SequenceTheorems, FiniteSetTheorems, WellFoundedInduction, TLAPS

Requests == Coroutine \X Nat
Piece == [of : Requests, k : Nat]
Runs == [at : {"idle", "asleep", "slot", "connect", "send", "recv"}, n : Nat, began : Nat, due : Nat,
         until : Nat, last : Nat, got : Seq(Piece), be : Nat, slot : Nat]
Conns == [sock : {"none", "open", "shut"}, asked : Seq(Requests), sent : Nat, in : Seq(Piece)]

Types ==
    /\ prog \in Program /\ now \in Nat /\ main \in {"waits", "reports"} /\ next \in Nat
    /\ run \in [Coroutine -> Runs] /\ io \in [Holder -> Conns]
    /\ alive \in [Backend -> BOOLEAN] /\ use \in [Place -> BOOLEAN]
    /\ score \in [ok : Nat, fail : Nat]

\* The calls of an exchange.
Calls == {"connect", "send", "recv"}

\* The first n pieces of the reply to request q.
Reply(q, n) == [k \in 1..n |-> [of |-> q, k |-> k]]

\* Nothing is outstanding on a connection.
Clear(i) == i.asked = <<>> /\ i.in = <<>> /\ i.sent = 0

\* How an exchange that coroutine c has got to r stands with its connection i: the peer
\* has sent what c has read and what lies there, and it has the request for the rest,
\* unless it has shut its side.
Stands(c, r, i) ==
    \/ r.at = "connect" /\ r.got = <<>> /\ i.sock = "none" /\ Clear(i)
    \/ r.at = "send" /\ r.got = <<>> /\ i.sock # "none" /\ Clear(i)
    \/ /\ r.at = "recv" /\ i.sock # "none"
       /\ LET n == Len(r.got) + Len(i.in)
          IN  /\ r.got \o i.in = Reply(<<c, r.n>>, n)
              /\ \/ i.asked = <<>> /\ i.sent = 0
                 \/ i.asked = <<<<c, r.n>>>> /\ i.sent = n /\ n < Whole

\* The connection that r is about, if c is there.
HeldBy(c, r) == IF Proxied(c) THEN <<r.be, r.slot>> ELSE c

\* Who may be where.
At(c, r) ==
    /\ r.at = "slot" => Proxied(c) /\ r.be \in Backend
    /\ r.at \in Calls /\ Proxied(c) => r.be \in Backend /\ r.slot \in Slot
    /\ c = Probe /\ prog # "proxy" => r.at = "asleep"

OneEach == \A c, d \in Coroutine : Busy(c) /\ Busy(d) /\ Io(c) = Io(d) => c = d
InUse == \A p \in Place : use[p] <=> \E c \in Coroutine : Busy(c) /\ Io(c) = p
Standing == \A c \in Coroutine : At(c, run[c]) /\ (Busy(c) => Stands(c, run[c], io[Io(c)]))
Unused == \A h \in Holder : (\A c \in Coroutine : Busy(c) => Io(c) # h) => Clear(io[h])
Between ==
    \A c \in Coroutine :
       io[c].sock # "none" => (Busy(c) /\ Io(c) = c) \/ (prog = "keep" /\ run[c].n # Count)
Picks == ~Scan => next \in Backend

ExchInv == Types /\ OneEach /\ InUse /\ Standing /\ Unused /\ Between /\ Picks
-----------------------------------------------------------------------------

LEMMA Places ==
    /\ Coroutine \cap Place = {} /\ Coroutine \subseteq Holder /\ Place \subseteq Holder
    /\ Holder = Coroutine \cup Place /\ Worker \subseteq Coroutine /\ Probe \in Coroutine
    /\ Coroutine = Worker \cup {Probe} /\ Probe \notin Worker
  BY ExchangeAssumption DEF Coroutine, Place, Holder

LEMMA Numbers ==
    /\ Count \in Nat \ {0} /\ Whole \in Nat \ {0} /\ Timeout \in Nat /\ Default \in Nat
    /\ Health \in Nat /\ Slot \subseteq Nat /\ Backends \in Nat \ {0} /\ Backend = 0..(Backends - 1)
    /\ 0 \in Backend /\ Backend \subseteq Nat
  BY ExchangeAssumption DEF Whole, Backends

\* A coroutine that is to wait.
LEMMA WaitingIs ==
    ASSUME now \in Nat, NEW r \in Runs, NEW t \in Nat,
           NEW at \in {"asleep", "slot", "connect", "send", "recv"}
    PROVE  Waiting(r, at, t) \in Runs
  <1>1. now + t \in Nat /\ now + Longest(at, t) \in Nat
    BY DEF Longest
  <1> QED BY <1>1 DEF Waiting, Runs

LEMMA WaitingHas ==
    ASSUME NEW r \in Runs, NEW t, NEW at
    PROVE  LET q == Waiting(r, at, t)
           IN  /\ q.at = at /\ q.n = r.n /\ q.began = r.began /\ q.due = r.due
               /\ q.got = r.got /\ q.be = r.be /\ q.slot = r.slot
  BY DEF Waiting, Runs

LEMMA LastIs ==
    ASSUME NEW r \in Runs, NEW t, NEW at
    PROVE  Waiting(r, at, t).last = now + Longest(at, t)
  BY DEF Waiting, Runs

\* Only coroutine c may be using the connection of its own, and the users of a slot
\* are handlers.
LEMMA IoIs ==
    ASSUME ExchInv, NEW c \in Coroutine, Busy(c)
    PROVE  /\ Io(c) = HeldBy(c, run[c]) /\ Io(c) \in Holder
           /\ Proxied(c) => Io(c) \in Place
           /\ ~Proxied(c) => Io(c) = c
           /\ \A d \in Coroutine : Io(c) = d => c = d
           /\ run[c].at \in Calls /\ Stands(c, run[c], io[Io(c)])
  <1>1. /\ At(c, run[c]) /\ Stands(c, run[c], io[Io(c)]) /\ run[c].at \in Calls
        /\ Io(c) = HeldBy(c, run[c])
    BY DEF ExchInv, Standing, Busy, Calls, Io, HeldBy
  <1>2. CASE Proxied(c)
    <2>1. Io(c) \in Place
      BY <1>1, <1>2 DEF At, HeldBy, Place
    <2> QED BY <1>1, <1>2, <2>1, Places
  <1>3. CASE ~Proxied(c)
    BY <1>1, <1>3, Places DEF HeldBy
  <1> QED BY <1>2, <1>3

\* A connection nobody uses has nothing outstanding.
LEMMA UnusedIs ==
    ASSUME ExchInv, NEW h \in Holder, \A d \in Coroutine : Busy(d) => Io(d) # h
    PROVE  Clear(io[h]) /\ io[h] \in Conns
  BY DEF ExchInv, Unused, Types

\* What a step of c may do to itself and to connection h, nobody else's.
Fits(c, r, h, i) ==
    /\ At(c, r)
    /\ \A d \in Coroutine \ {c} : Busy(d) => Io(d) # h
    /\ Busy(c) => Io(c) = h
    /\ r.at \in Calls => HeldBy(c, r) = h /\ Stands(c, r, i)
    /\ r.at \notin Calls => Clear(i)
    /\ h \in Coroutine => h = c /\ (\/ i.sock = "none" \/ r.at \in Calls
                                    \/ prog = "keep" /\ r.n # Count)
    /\ h # c => prog = "proxy"

Changes(c, r, h, i) ==
    /\ run' = [run EXCEPT ![c] = r] /\ io' = [io EXCEPT ![h] = i] /\ prog' = prog
    /\ use' = [p \in Place |-> IF p = h THEN r.at \in Calls ELSE use[p]]

\* The rest of the state.
Rest ==
    /\ now' \in Nat /\ main' \in {"waits", "reports"} /\ next' \in Nat
    /\ alive' \in [Backend -> BOOLEAN] /\ score' \in [ok : Nat, fail : Nat]
    /\ ~Scan => next' \in Backend

LEMMA SameProgram ==
    ASSUME prog' = prog
    PROVE  /\ \A c \in Coroutine : Proxied(c)' <=> Proxied(c)
           /\ Scan' <=> Scan
           /\ Whole' = Whole
  BY DEF Proxied, Scan, Whole

LEMMA Stepped ==
    ASSUME ExchInv, NEW c \in Coroutine, NEW r \in Runs, NEW h \in Holder, NEW i \in Conns,
           Changes(c, r, h, i), Fits(c, r, h, i), Rest
    PROVE  ExchInv'
  <1>1. /\ run \in [Coroutine -> Runs] /\ io \in [Holder -> Conns]
        /\ run' = [run EXCEPT ![c] = r] /\ io' = [io EXCEPT ![h] = i] /\ prog' = prog
    BY DEF ExchInv, Types, Changes
  <1>2. /\ run'[c] = r /\ \A d \in Coroutine \ {c} : run'[d] = run[d]
        /\ io'[h] = i /\ \A k \in Holder \ {h} : io'[k] = io[k]
    BY <1>1
  <1>3. ASSUME NEW d \in Coroutine \ {c}
        PROVE  (Busy(d)' <=> Busy(d)) /\ Io(d)' = Io(d)
    BY <1>2, SameProgram, <1>1 DEF Busy, Io, Proxied
  <1>4. (Busy(c)' <=> r.at \in Calls) /\ Io(c)' = HeldBy(c, r)
    BY <1>2, <1>1 DEF Busy, Io, HeldBy, Proxied, Calls
  <1>5. /\ \A d \in Coroutine \ {c} : Busy(d) => Io(d) # h
        /\ Busy(c) => Io(c) = h
        /\ r.at \in Calls => HeldBy(c, r) = h
    BY DEF Fits
  <1>6. Types'
    <2>1. use' \in [Place -> BOOLEAN]
      <3>1. \A p \in Place : use[p] \in BOOLEAN
        BY DEF ExchInv, Types
      <3>2. \A p \in Place : (IF p = h THEN r.at \in Calls ELSE use[p]) \in BOOLEAN
        <4>1. (r.at \in Calls) \in BOOLEAN
          OBVIOUS
        <4> QED BY <3>1, <4>1
      <3> QED BY <3>2 DEF Changes
    <2>2. run' \in [Coroutine -> Runs] /\ io' \in [Holder -> Conns]
      BY <1>1
    <2>3. prog' \in Program
      BY <1>1 DEF ExchInv, Types
    <2> QED BY <2>1, <2>2, <2>3 DEF Types, Rest
  <1>7. OneEach'
    <2> SUFFICES ASSUME NEW a \in Coroutine, NEW b \in Coroutine, Busy(a)', Busy(b)', Io(a)' = Io(b)'
                 PROVE  a = b
      BY DEF OneEach
    <2> QED BY <1>3, <1>4, <1>5 DEF ExchInv, OneEach
  <1>8. InUse'
    <2> SUFFICES ASSUME NEW p \in Place
                 PROVE  use'[p] <=> \E d \in Coroutine : Busy(d)' /\ Io(d)' = p
      BY DEF InUse
    <2>1. CASE p = h
      <3>1. use'[p] <=> r.at \in Calls
        BY <2>1 DEF Changes
      <3> QED BY <1>3, <1>4, <1>5, <2>1, <3>1
    <2>2. CASE p # h
      <3>1. use'[p] <=> \E d \in Coroutine : Busy(d) /\ Io(d) = p
        BY <2>2 DEF Changes, ExchInv, InUse
      <3> QED BY <1>3, <1>4, <1>5, <2>2, <3>1
    <2> QED BY <2>1, <2>2
  <1>9. Standing'
    <2> SUFFICES ASSUME NEW d \in Coroutine
                 PROVE  At(d, run'[d]) /\ (Busy(d)' => Stands(d, run'[d], io'[Io(d)']))
      BY <1>1, SameProgram DEF Standing, At, Stands, Proxied
    <2>1. CASE d = c
      BY <1>1, <1>2, <1>4, <1>5, <2>1, SameProgram DEF Fits
    <2>2. CASE d # c
      <3>1. At(d, run[d]) /\ (Busy(d) => Stands(d, run[d], io[Io(d)]) /\ Io(d) \in Holder)
        BY IoIs DEF ExchInv, Standing
      <3> QED BY <1>1, <1>2, <1>3, <1>5, <2>2, <3>1, SameProgram
    <2> QED BY <2>1, <2>2
  <1>10. Unused'
    <2> SUFFICES ASSUME NEW k \in Holder, \A d \in Coroutine : Busy(d)' => Io(d)' # k
                 PROVE  Clear(io'[k])
      BY DEF Unused, Clear
    <2>1. CASE k = h
      BY <1>2, <1>4, <1>5, <2>1 DEF Fits
    <2>2. CASE k # h
      BY <1>2, <1>3, <1>5, <2>2 DEF ExchInv, Unused
    <2> QED BY <2>1, <2>2
  <1>11. Between'
    <2> SUFFICES ASSUME NEW d \in Coroutine, io'[d].sock # "none"
                 PROVE  (Busy(d)' /\ Io(d)' = d) \/ (prog = "keep" /\ run'[d].n # Count)
      BY <1>1 DEF Between
    <2>1. CASE d = h
      BY <1>2, <1>4, <1>5, <2>1 DEF Fits
    <2>2. CASE d # h
      <3>1. (Busy(d) /\ Io(d) = d) \/ (prog = "keep" /\ run[d].n # Count)
        BY <1>2, <2>2, Places DEF ExchInv, Between
      <3>2. d # c \/ prog = "proxy"
        BY <2>2 DEF Fits
      <3> QED BY <1>2, <1>3, <1>5, <2>2, <3>1, <3>2
    <2> QED BY <2>1, <2>2
  <1>12. Picks'
    BY <1>1, SameProgram DEF Picks, Rest
  <1> QED BY <1>6, <1>7, <1>8, <1>9, <1>10, <1>11, <1>12 DEF ExchInv

\* A step that changes a connection only: what its user, or nobody, has of it fits.
LEMMA PeerStep ==
    ASSUME ExchInv, NEW h \in Holder, NEW i \in Conns, io' = [io EXCEPT ![h] = i],
           UNCHANGED <<prog, run, use>>, Rest,
           \A c \in Coroutine : Busy(c) /\ Io(c) = h => Stands(c, run[c], i),
           (\A c \in Coroutine : Busy(c) => Io(c) # h) => Clear(i),
           i.sock # "none" => io[h].sock # "none"
    PROVE  ExchInv'
  <1>1. /\ io \in [Holder -> Conns] /\ io'[h] = i /\ \A k \in Holder \ {h} : io'[k] = io[k]
    BY DEF ExchInv, Types
  <1>2. \A c \in Coroutine : (Busy(c)' <=> Busy(c)) /\ Io(c)' = Io(c)
    BY SameProgram DEF Busy, Io
  <1>3. Types'
    BY DEF ExchInv, Types, Rest
  <1>4. OneEach'
    BY <1>2 DEF ExchInv, OneEach
  <1>5. InUse'
    BY <1>2 DEF ExchInv, InUse
  <1>6. Standing'
    <2> SUFFICES ASSUME NEW d \in Coroutine
                 PROVE  At(d, run'[d]) /\ (Busy(d)' => Stands(d, run'[d], io'[Io(d)']))
      BY SameProgram DEF Standing, At, Stands, Proxied
    <2>1. At(d, run[d]) /\ (Busy(d) => Stands(d, run[d], io[Io(d)]) /\ Io(d) \in Holder)
      BY IoIs DEF ExchInv, Standing
    <2> QED BY <1>1, <1>2, <2>1, SameProgram
  <1>7. Unused'
    <2> SUFFICES ASSUME NEW k \in Holder, \A d \in Coroutine : Busy(d)' => Io(d)' # k
                 PROVE  Clear(io'[k])
      BY DEF Unused, Clear
    <2> QED BY <1>1, <1>2 DEF ExchInv, Unused
  <1>8. Between'
    <2> SUFFICES ASSUME NEW d \in Coroutine, io'[d].sock # "none"
                 PROVE  (Busy(d)' /\ Io(d)' = d) \/ (prog = "keep" /\ run[d].n # Count)
      BY DEF Between
    <2>1. io[d].sock # "none"
      BY <1>1, Places
    <2> QED BY <1>2, <2>1 DEF ExchInv, Between
  <1>9. Picks'
    BY SameProgram DEF Picks, Rest
  <1> QED BY <1>3, <1>4, <1>5, <1>6, <1>7, <1>8, <1>9 DEF ExchInv
-----------------------------------------------------------------------------
(* Sums over a finite set.                                                 *)

LEMMA LeastIs ==
    ASSUME NEW S \in SUBSET Nat, S # {}
    PROVE  \E x \in S : \A y \in S : x <= y
  <1> DEFINE R == OpToRel(<, Nat)
  <1>1. IsWellFoundedOn(R, Nat)
    BY NatLessThanWellFounded
  <1>2. R = {p \in Nat \X Nat : p[1] < p[2]}
    BY DEF OpToRel
  <1> HIDE DEF R
  <1>3. PICK x \in S : \A y \in S : <<y, x>> \notin R
    BY <1>1, WFMin
  <1>4. \A y \in S : ~(y < x)
    BY <1>2, <1>3
  <1> QED BY <1>4

\* SumFunction takes the elements in an order that CHOOSE fixes: h has the sum of f
\* over every set of D, which is closed under that order.
Chosen(s) == CHOOSE x \in s : TRUE
Sums(h, f, D) == h = [s \in D |-> IF s = {} THEN 0 ELSE f[Chosen(s)] + h[s \ {Chosen(s)}]]

\* Of the sets of a kind, one has none of that kind below it.
LEMMA SmallestIs ==
    ASSUME NEW S, IsFiniteSet(S), NEW B \in SUBSET (SUBSET S), B # {}
    PROVE  \E s \in B : \A x \in s : s \ {x} \notin B
  <1>1. \A s \in B : IsFiniteSet(s) /\ Cardinality(s) \in Nat
    BY FS_Subset, FS_CardinalityType
  <1> DEFINE N == {Cardinality(s) : s \in B}
  <1>2. N \in SUBSET Nat /\ N # {}
    BY <1>1
  <1>3. PICK n \in N : \A m \in N : n <= m
    BY <1>2, LeastIs
  <1>4. PICK s \in B : n = Cardinality(s)
    OBVIOUS
  <1>5. ASSUME NEW x \in s, s \ {x} \in B PROVE FALSE
    <2>1. Cardinality(s \ {x}) = Cardinality(s) - 1
      BY <1>1, FS_RemoveElement
    <2>2. n <= Cardinality(s \ {x})
      BY <1>3, <1>5
    <2> QED BY <1>1, <1>4, <2>1, <2>2
  <1> QED BY <1>5

LEMMA SumsExist ==
    ASSUME NEW S, IsFiniteSet(S), NEW f \in [S -> Nat]
    PROVE  \E h \in [SUBSET S -> Nat] : Sums(h, f, SUBSET S)
  <1> DEFINE D(n) == {s \in SUBSET S : Cardinality(s) <= n}
             Has(n) == \E h \in [D(n) -> Nat] : Sums(h, f, D(n))
             B == {n \in Nat : ~Has(n)}
  <1>1. \A s \in SUBSET S : /\ IsFiniteSet(s) /\ Cardinality(s) \in Nat
                            /\ Cardinality(s) <= Cardinality(S)
                            /\ \A x \in s : Cardinality(s \ {x}) = Cardinality(s) - 1
    BY FS_Subset, FS_CardinalityType, FS_RemoveElement
  <1>2. \A s : s # {} => Chosen(s) \in s
    BY DEF Chosen
  <1>3. B = {}
    <2> SUFFICES ASSUME B # {} PROVE FALSE
      OBVIOUS
    <2>1. PICK n \in B : \A m \in B : n <= m
      <3> HIDE DEF Has
      <3>1. B \in SUBSET Nat
        OBVIOUS
      <3> HIDE DEF B
      <3> QED BY <3>1, LeastIs
    <2> SUFFICES Has(n)
      <3> HIDE DEF Has
      <3> QED OBVIOUS
    <2> n \in Nat
      <3> HIDE DEF Has
      <3> QED OBVIOUS
    <2>2. CASE n = 0
      <3> DEFINE h == [s \in D(n) |-> 0]
      <3>1. \A s \in D(n) : s = {}
        <4>1. \A s \in D(n) : Cardinality(s) = 0
          BY <1>1, <2>2
        <4> QED BY <4>1, <1>1, FS_EmptySet
      <3>2. h \in [D(n) -> Nat] /\ Sums(h, f, D(n))
        BY <3>1 DEF Sums
      <3> QED BY <3>2
    <2>3. CASE n # 0
      <3>1. n - 1 \in Nat /\ Has(n - 1)
        <4> HIDE DEF Has
        <4>1. n - 1 \in Nat /\ ~(n <= n - 1)
          BY <2>3
        <4>2. n - 1 \notin B
          <5> HIDE DEF B
          <5> QED BY <2>1, <4>1
        <4> QED BY <4>1, <4>2
      <3>2. PICK h \in [D(n - 1) -> Nat] : Sums(h, f, D(n - 1))
        BY <3>1
      <3> DEFINE v(s) == IF s = {} THEN 0 ELSE f[Chosen(s)] + h[s \ {Chosen(s)}]
                 g == [s \in D(n) |-> v(s)]
      <3>3. \A s \in D(n) : s # {} => s \ {Chosen(s)} \in D(n - 1) /\ s \ {Chosen(s)} \in D(n) /\ f[Chosen(s)] \in Nat
        <4> SUFFICES ASSUME NEW s \in D(n), s # {}
                     PROVE  s \ {Chosen(s)} \in D(n - 1) /\ s \ {Chosen(s)} \in D(n) /\ f[Chosen(s)] \in Nat
          OBVIOUS
        <4>1. Chosen(s) \in s /\ Cardinality(s \ {Chosen(s)}) = Cardinality(s) - 1 /\ Cardinality(s) \in Nat
          BY <1>1, <1>2
        <4>2. s \ {Chosen(s)} \in SUBSET S
          OBVIOUS
        <4> QED BY <4>1, <4>2
      <3>4. \A s \in D(n - 1) : h[s] = v(s)
        BY <3>2 DEF Sums
      <3>5. g \in [D(n) -> Nat]
        BY <3>2, <3>3
      <3>6. \A s \in D(n - 1) : s \in D(n) /\ g[s] = h[s]
        BY <1>1, <3>4
      <3>7. \A s \in D(n) : g[s] = IF s = {} THEN 0 ELSE f[Chosen(s)] + g[s \ {Chosen(s)}]
        BY <3>3, <3>6
      <3>8. Sums(g, f, D(n))
        <4>1. g = [s \in D(n) |-> g[s]]
          OBVIOUS
        <4> HIDE DEF g
        <4> QED BY <3>7, <4>1 DEF Sums
      <3> QED BY <3>5, <3>8
    <2> QED BY <2>2, <2>3
  <1>4. Cardinality(S) \in Nat /\ D(Cardinality(S)) = SUBSET S
    BY <1>1, FS_CardinalityType
  <1>5. Has(Cardinality(S))
    <2> HIDE DEF Has
    <2> QED BY <1>3, <1>4
  <1> QED BY <1>4, <1>5

\* What SumFunction is.
LEMMA SumIs ==
    ASSUME NEW S, IsFiniteSet(S), NEW f \in [S -> Nat]
    PROVE  \E h \in [SUBSET S -> Nat] : Sums(h, f, SUBSET S) /\ SumFunction(f) = h[S]
  <1> DEFINE h == CHOOSE h : Sums(h, f, SUBSET S)
  <1>1. Sums(h, f, SUBSET S)
    BY SumsExist
  <1>2. SumFunction(f) = h[S]
    BY DEF SumFunction, SumFunctionOnSet, FoldFunctionOnSet, MapThenFoldSet, Sums, Chosen
  <1>3. h \in [SUBSET S -> Nat]
    <2> HIDE DEF h
    <2>1. /\ h = [s \in SUBSET S |-> h[s]]
          /\ \A s \in SUBSET S : h[s] = IF s = {} THEN 0 ELSE f[Chosen(s)] + h[s \ {Chosen(s)}]
      BY <1>1 DEF Sums
    <2> DEFINE B == {s \in SUBSET S : h[s] \notin Nat}
    <2>2. ASSUME B # {} PROVE FALSE
      <3>1. PICK s \in B : \A x \in s : s \ {x} \notin B
        BY <2>2, SmallestIs
      <3>2. /\ s \in SUBSET S /\ h[s] \notin Nat
            /\ h[s] = IF s = {} THEN 0 ELSE f[Chosen(s)] + h[s \ {Chosen(s)}]
        BY <2>1
      <3> s # {}
        BY <3>2
      <3>3. Chosen(s) \in s
        BY DEF Chosen
      <3>4. h[s \ {Chosen(s)}] \in Nat
        BY <3>1, <3>2, <3>3
      <3>5. f[Chosen(s)] \in Nat
        BY <3>2, <3>3
      <3> QED BY <3>2, <3>4, <3>5
    <2> QED BY <2>1, <2>2
  <1> HIDE DEF h
  <1> QED BY <1>1, <1>2, <1>3

LEMMA SumOfZeros ==
    ASSUME NEW S, IsFiniteSet(S), NEW f \in [S -> Nat], \A x \in S : f[x] = 0
    PROVE  SumFunction(f) = 0
  <1>1. PICK h \in [SUBSET S -> Nat] : Sums(h, f, SUBSET S) /\ SumFunction(f) = h[S]
    BY SumIs
  <1>2. \A s \in SUBSET S : h[s] = IF s = {} THEN 0 ELSE f[Chosen(s)] + h[s \ {Chosen(s)}]
    BY <1>1 DEF Sums
  <1> DEFINE B == {s \in SUBSET S : h[s] # 0}
  <1>3. ASSUME B # {} PROVE FALSE
    <2>1. PICK s \in B : \A x \in s : s \ {x} \notin B
      BY <1>3, SmallestIs
    <2>2. s # {} /\ Chosen(s) \in s
      BY <1>2, <2>1 DEF Chosen
    <2>3. h[s \ {Chosen(s)}] = 0 /\ f[Chosen(s)] = 0
      BY <2>1, <2>2
    <2> QED BY <1>2, <2>1, <2>2, <2>3
  <1> QED BY <1>1, <1>3

\* One more of one element is one more of the sum.
LEMMA SumOneMore ==
    ASSUME NEW S, IsFiniteSet(S), NEW f \in [S -> Nat], NEW g \in [S -> Nat], NEW c \in S,
           g[c] = f[c] + 1, \A x \in S \ {c} : g[x] = f[x]
    PROVE  SumFunction(g) = SumFunction(f) + 1
  <1>1. PICK h \in [SUBSET S -> Nat] : Sums(h, f, SUBSET S) /\ SumFunction(f) = h[S]
    BY SumIs
  <1>2. PICK k \in [SUBSET S -> Nat] : Sums(k, g, SUBSET S) /\ SumFunction(g) = k[S]
    BY SumIs
  <1>3. \A s \in SUBSET S : /\ h[s] = IF s = {} THEN 0 ELSE f[Chosen(s)] + h[s \ {Chosen(s)}]
                            /\ k[s] = IF s = {} THEN 0 ELSE g[Chosen(s)] + k[s \ {Chosen(s)}]
    BY <1>1, <1>2 DEF Sums
  <1> DEFINE more(s) == IF c \in s THEN 1 ELSE 0
             B == {s \in SUBSET S : k[s] # h[s] + more(s)}
  <1>4. ASSUME B # {} PROVE FALSE
    <2>1. PICK s \in B : \A x \in s : s \ {x} \notin B
      BY <1>4, SmallestIs
    <2>2. s # {} /\ Chosen(s) \in s
      BY <1>3, <2>1 DEF Chosen
    <2> DEFINE x == Chosen(s)
    <2>3. k[s \ {x}] = h[s \ {x}] + more(s \ {x}) /\ s \ {x} \in SUBSET S /\ x \in S
      BY <2>1, <2>2
    <2>4. k[s] = g[x] + k[s \ {x}] /\ h[s] = f[x] + h[s \ {x}]
      BY <1>3, <2>1, <2>2
    <2>5. f[x] \in Nat /\ g[x] \in Nat /\ h[s \ {x}] \in Nat /\ k[s \ {x}] \in Nat
      BY <2>3
    <2>6. CASE x = c
      BY <2>1, <2>2, <2>3, <2>4, <2>5, <2>6
    <2>7. CASE x # c
      <3>1. g[x] = f[x] /\ more(s \ {x}) = more(s)
        BY <2>3, <2>7
      <3> QED BY <2>1, <2>3, <2>4, <2>5, <3>1
    <2> QED BY <2>6, <2>7
  <1> QED BY <1>1, <1>2, <1>4
-----------------------------------------------------------------------------
(* The beginning of an exchange.                                           *)

\* The connection of a coroutine that begins is used by nobody: it connects, or sends
\* on the connection that was kept.
LEMMA Exchanged ==
    ASSUME ExchInv, NEW c \in Coroutine, NEW r \in Runs, ~Busy(c), Exchanging(c, r),
           Proxied(c) => r.be \in Backend /\ r.slot \in Slot /\ ~use[<<r.be, r.slot>>],
           c = Probe => prog = "proxy"
    PROVE  \E q \in Runs, i \in Conns :
              /\ run' = [run EXCEPT ![c] = q] /\ io' = [io EXCEPT ![HeldBy(c, r)] = i]
              /\ q.at \in Calls /\ Fits(c, q, HeldBy(c, r), i)
  <1> DEFINE h == HeldBy(c, r)
             began == [r EXCEPT !.due = now + Timeout, !.got = <<>>]
  <1>1. /\ h \in Holder /\ (h \in Coroutine => h = c) /\ (h # c => prog = "proxy" /\ h \in Place /\ ~use[h])
    BY Places DEF HeldBy, Place, Proxied
  <1>2. \A d \in Coroutine : Busy(d) => Io(d) # h
    <2> SUFFICES ASSUME NEW d \in Coroutine, Busy(d), Io(d) = h PROVE FALSE
      OBVIOUS
    <2>1. CASE h = c
      BY <2>1, IoIs
    <2>2. CASE h # c
      BY <1>1, <2>2 DEF ExchInv, InUse
    <2> QED BY <2>1, <2>2
  <1>3. Clear(io[h]) /\ io[h] \in Conns /\ io \in [Holder -> Conns] /\ now \in Nat
    BY <1>1, <1>2, UnusedIs DEF ExchInv, Types
  <1>4. /\ began \in Runs /\ began.got = <<>> /\ began.be = r.be /\ began.slot = r.slot /\ began.n = r.n
    <2>1. now + Timeout \in Nat /\ <<>> \in Seq(Piece)
      BY <1>3, Numbers
    <2> QED BY <2>1 DEF Runs
  <1>5. h = IF Proxied(c) THEN <<r.be, r.slot>> ELSE c
    BY DEF HeldBy
  <1>6. ASSUME NEW at \in Calls, NEW t \in Nat, NEW i \in Conns, Clear(i),
               at = "connect" => i.sock = "none", at = "send" => i.sock # "none", at # "recv"
        PROVE  LET q == Waiting(began, at, t)
               IN  q \in Runs /\ q.at \in Calls /\ Fits(c, q, h, i)
    <2> DEFINE q == Waiting(began, at, t)
    <2> HIDE DEF began, h
    <2>1. /\ q \in Runs /\ q.at = at /\ q.got = <<>> /\ q.be = r.be /\ q.slot = r.slot /\ q.n = r.n
      <3>1. now \in Nat /\ began \in Runs /\ t \in Nat /\ at \in {"connect", "send", "recv"}
        BY <1>3, <1>4 DEF Calls
      <3>2. /\ q \in Runs /\ q.at = at /\ q.got = began.got /\ q.be = began.be
            /\ q.slot = began.slot /\ q.n = began.n
        <4>1. q \in Runs
          BY ONLY <3>1, WaitingIs DEF q
        <4>2. /\ q.at = at /\ q.got = began.got /\ q.be = began.be /\ q.slot = began.slot
              /\ q.n = began.n
          BY ONLY <3>1, WaitingHas DEF q
        <4> QED BY ONLY <4>1, <4>2
      <3> HIDE DEF q
      <3> QED BY <1>4, <3>2
    <2> HIDE DEF q
    <2>2. At(c, q)
      BY <1>6, <2>1 DEF At, Calls
    <2>3. HeldBy(c, q) = h
      BY <1>5, <2>1 DEF HeldBy
    <2>4. Stands(c, q, i)
      BY <1>6, <2>1 DEF Stands, Calls
    <2>5. Fits(c, q, h, i)
      BY <1>1, <1>2, <1>6, <2>1, <2>2, <2>3, <2>4 DEF Fits
    <2> QED BY <1>6, <2>1, <2>5 DEF q
  <1> HIDE DEF h, began
  <1>7. CASE io[h].sock = "none" /\ Connects
    <2> DEFINE q == Waiting(began, "connect", ConnectTime)
    <2>1. run' = [run EXCEPT ![c] = q] /\ io' = io
      BY <1>5, <1>7 DEF Exchanging, Go, began
    <2>2. ConnectTime \in Nat /\ "connect" \in Calls
      BY <1>3, Numbers DEF ConnectTime, Calls
    <2>3. io' = [io EXCEPT ![h] = io[h]]
      BY <1>1, <1>3, <2>1
    <2>4. q \in Runs /\ q.at \in Calls /\ Fits(c, q, h, io[h])
      BY <1>3, <1>6, <1>7, <2>2
    <2> HIDE DEF q
    <2> QED BY <1>3, <2>1, <2>3, <2>4 DEF h
  <1>8. CASE ~(io[h].sock = "none" /\ Connects)
    <2> DEFINE i == [io[h] EXCEPT !.sock = IF @ = "none" THEN "open" ELSE @]
    <2> DEFINE q == Waiting(began, "send", Timeout)
    <2>1. /\ run' = [run EXCEPT ![c] = q]
          /\ io' = [io EXCEPT ![h].sock = IF @ = "none" THEN "open" ELSE @]
      BY <1>5, <1>8 DEF Exchanging, Go, began
    <2>2. Timeout \in Nat /\ "send" \in Calls
      BY <1>3, Numbers DEF Calls
    <2>3. io' = [io EXCEPT ![h] = i]
      BY <1>1, <1>3, <2>1
    <2>4. i \in Conns /\ Clear(i) /\ i.sock # "none"
      BY <1>3 DEF Conns, Clear
    <2> HIDE DEF i
    <2>5. q \in Runs /\ q.at \in Calls /\ Fits(c, q, h, i)
      BY <1>6, <2>2, <2>4
    <2> HIDE DEF q
    <2> QED BY <2>1, <2>3, <2>4, <2>5 DEF h
  <1> QED BY <1>7, <1>8

\* What a beginning leaves of the slots.
LEMMA ExchangedStep ==
    ASSUME ExchInv, NEW c \in Coroutine, NEW r \in Runs, ~Busy(c), Exchanging(c, r),
           Proxied(c) => r.be \in Backend /\ r.slot \in Slot /\ ~use[<<r.be, r.slot>>],
           c = Probe => prog = "proxy", prog' = prog, Rest,
           use' = IF Proxied(c) THEN [use EXCEPT ![<<r.be, r.slot>>] = TRUE] ELSE use
    PROVE  ExchInv'
  <1> DEFINE h == HeldBy(c, r)
  <1>1. PICK q \in Runs, i \in Conns :
           /\ run' = [run EXCEPT ![c] = q] /\ io' = [io EXCEPT ![h] = i]
           /\ q.at \in Calls /\ Fits(c, q, h, i)
    BY Exchanged
  <1>2. h \in Holder
    BY Places DEF HeldBy, Place
  <1>3. use' = [p \in Place |-> IF p = h THEN q.at \in Calls ELSE use[p]]
    <2>1. use \in [Place -> BOOLEAN] /\ (q.at \in Calls) = TRUE
      BY <1>1 DEF ExchInv, Types
    <2>2. CASE Proxied(c)
      <3>1. h = <<r.be, r.slot>> /\ h \in Place
        BY <2>2 DEF HeldBy, Place
      <3> QED BY <2>1, <2>2, <3>1
    <2>3. CASE ~Proxied(c)
      <3>1. h = c /\ h \notin Place
        BY <2>3, Places DEF HeldBy
      <3> QED BY <2>1, <2>3, <3>1
    <2> QED BY <2>2, <2>3
  <1> HIDE DEF h
  <1>4. Changes(c, q, h, i)
    BY <1>1, <1>3 DEF Changes
  <1> QED BY <1>1, <1>2, <1>4, Stepped

LEMMA RestSame ==
    ASSUME ExchInv, UNCHANGED <<now, main, alive, score>>, next' \in Nat, ~Scan => next' \in Backend
    PROVE  Rest
  BY DEF ExchInv, Types, Rest

LEMMA BeginStep ==
    ASSUME ExchInv, NEW c \in Coroutine, Begin(c)
    PROVE  ExchInv'
  <1> DEFINE r == [run[c] EXCEPT !.began = now]
  <1>1. /\ run[c].at = "idle" /\ ~Proxied(c) /\ Exchanging(c, r) /\ prog' = prog /\ use' = use
    BY DEF Begin, Quiet, Same
  <1>2. r \in Runs /\ ~Busy(c)
    BY <1>1 DEF ExchInv, Types, Runs, Busy
  <1>3. c = Probe => prog = "proxy"
    BY <1>1 DEF ExchInv, Standing, At
  <1>4. Rest
    BY RestSame DEF Begin, Quiet, Same, ExchInv, Picks, Types
  <1> HIDE DEF r
  <1> QED BY <1>1, <1>2, <1>3, <1>4, ExchangedStep

LEMMA TakePortStep ==
    ASSUME ExchInv, NEW c \in Coroutine, TakePort(c)
    PROVE  ExchInv'
  <1> DEFINE r == [run[c] EXCEPT !.began = now]
  <1>1. /\ run[c].at = "idle" /\ Scan /\ c # Probe /\ Exchanging(c, r) /\ prog' = prog /\ use' = use
        /\ next' = next + 1
    BY DEF TakePort, Same
  <1>2. r \in Runs /\ ~Busy(c) /\ ~Proxied(c)
    BY <1>1 DEF ExchInv, Types, Runs, Busy, Proxied, Scan
  <1>3. Rest
    BY <1>1, RestSame DEF TakePort, Same, ExchInv, Types
  <1> HIDE DEF r
  <1> QED BY <1>1, <1>2, <1>3, ExchangedStep
-----------------------------------------------------------------------------
(* The end of an exchange.                                                 *)

LEMMA IdleIs == Idle \in Runs /\ Idle.at = "idle"
  <1>1. <<>> \in Seq(Piece)
    OBVIOUS
  <1> QED BY <1>1 DEF Idle, Runs

LEMMA AfterProbeIs ==
    ASSUME now \in Nat, run[Probe].be + 1 \in Nat
    PROVE  AfterProbe \in Runs /\ AfterProbe.at \in {"idle", "asleep"}
  <1> DEFINE b == run[Probe].be + 1
             q == Waiting(Idle, "asleep", Health)
  <1>1. q \in Runs /\ q.at = "asleep"
    <2>1. Idle \in Runs /\ Health \in Nat /\ now \in Nat
      BY IdleIs, Numbers
    <2> QED BY ONLY <2>1, WaitingIs, WaitingHas DEF q
  <1>2. [Idle EXCEPT !.be = b] \in Runs /\ [Idle EXCEPT !.be = b].at = "idle"
    BY IdleIs DEF Runs
  <1>3. AfterProbe = IF b \in Backend THEN [Idle EXCEPT !.be = b] ELSE q
    BY DEF AfterProbe
  <1> HIDE DEF b, q
  <1> QED BY <1>1, <1>2, <1>3

\* A coroutine ends its exchange: it keeps the connection only if nothing is outstanding
\* there, and leaves the slot to others.
LEMMA EndStep ==
    ASSUME ExchInv, NEW c \in Coroutine, Busy(c), NEW good \in BOOLEAN, NEW keeps \in BOOLEAN,
           End(c, good, keeps), Same,
           good /\ keeps => io[Io(c)].asked = <<>> /\ io[Io(c)].sent = 0
    PROVE  ExchInv'
  <1> DEFINE h == Io(c)
             kept == Kept(c, good, keeps) /\ ~Last(c)
             i == IF kept THEN [io[h] EXCEPT !.in = <<>>] ELSE NoIo
             r == IF c = Probe THEN AfterProbe ELSE [Idle EXCEPT !.n = run[c].n + 1]
  <1>1. /\ h \in Holder /\ (Proxied(c) => h \in Place) /\ (~Proxied(c) => h = c)
        /\ \A d \in Coroutine : h = d => c = d
        /\ \A d \in Coroutine \ {c} : Busy(d) => Io(d) # h
        /\ run[c] \in Runs /\ io[h] \in Conns /\ io \in [Holder -> Conns] /\ now \in Nat
        /\ At(c, run[c]) /\ run[c].at \in Calls
    BY IoIs DEF ExchInv, Types, OneEach, Standing
  <1>2. i \in Conns /\ Clear(i)
    <2>1. NoIo \in Conns /\ Clear(NoIo)
      BY DEF NoIo, Conns, Clear
    <2>2. kept => [io[h] EXCEPT !.in = <<>>] \in Conns /\ Clear([io[h] EXCEPT !.in = <<>>])
      <3>1. kept => io[h].asked = <<>> /\ io[h].sent = 0
        BY DEF Kept
      <3>2. <<>> \in Seq(Piece)
        OBVIOUS
      <3> QED BY <1>1, <3>1, <3>2 DEF Conns, Clear
    <2> HIDE DEF kept
    <2> QED BY <2>1, <2>2
  <1>3. r \in Runs /\ r.at \in {"idle", "asleep"} /\ (c # Probe => r.n = run[c].n + 1)
    <2>1. CASE c = Probe
      <3>1. run[Probe].be + 1 \in Nat
        BY <1>1, <2>1 DEF Runs
      <3> QED BY <1>1, <2>1, <3>1, AfterProbeIs
    <2>2. CASE c # Probe
      <3>1. run[c].n + 1 \in Nat
        BY <1>1 DEF Runs
      <3> QED BY <2>2, <3>1, IdleIs DEF Runs
    <2> QED BY <2>1, <2>2
  <1>4. c = Probe => prog = "proxy"
    BY <1>1 DEF At, Calls
  <1>5. At(c, r)
    BY <1>3, <1>4 DEF At, Calls
  <1>6. h \in Coroutine => h = c /\ (i.sock = "none" \/ (prog = "keep" /\ r.n # Count))
    <2> SUFFICES ASSUME h \in Coroutine, i.sock # "none"
                 PROVE  h = c /\ prog = "keep" /\ r.n # Count
      BY <1>1
    <2>1. h = c /\ ~Proxied(c)
      BY <1>1, Places
    <2>2. kept
      BY DEF NoIo
    <2>3. prog = "keep"
      BY <2>1, <2>2 DEF Kept
    <2>4. c # Probe
      BY <1>4, <2>3
    <2> QED BY <1>3, <2>1, <2>2, <2>3, <2>4 DEF Last
  <1>7. h # c => prog = "proxy"
    BY <1>1 DEF Proxied
  <1>8. run' = [run EXCEPT ![c] = r] /\ io' = [io EXCEPT ![h] = i] /\ prog' = prog
    BY <1>1 DEF End, Go, Same
  <1>9. use' = [p \in Place |-> IF p = h THEN FALSE ELSE use[p]]
    <2>1. use \in [Place -> BOOLEAN]
      BY DEF ExchInv, Types
    <2>2. CASE Proxied(c)
      <3>1. use' = [use EXCEPT ![h] = FALSE]
        BY <2>2 DEF End, Forwarded, Proxied
      <3> QED BY <2>1, <3>1
    <2>3. CASE ~Proxied(c)
      <3>1. use' = use
        BY <2>3 DEF End, Probed
      <3>2. h \notin Place
        BY <1>1, <2>3, Places
      <3> QED BY <2>1, <3>1, <3>2
    <2> QED BY <2>2, <2>3
  <1>10. Rest
    <2>1. /\ alive \in [Backend -> BOOLEAN] /\ score \in [ok : Nat, fail : Nat] /\ next \in Nat
          /\ ~Scan => next \in Backend
      BY DEF ExchInv, Types, Picks
    <2>2. alive' \in [Backend -> BOOLEAN] /\ next' = next
      <3>1. CASE c = Probe
        <4>1. Probed(c, good)
          BY <3>1 DEF End, Proxied
        <4>2. PICK fine \in BOOLEAN : alive' = [alive EXCEPT ![run[c].be] = fine]
          BY <4>1 DEF Probed
        <4>3. next' = next
          BY <4>1 DEF Probed
        <4> HIDE DEF r
        <4> QED BY <2>1, <4>2, <4>3
      <3>2. CASE Proxied(c)
        <4>1. Forwarded(c, good)
          BY <3>2 DEF End, Proxied
        <4> QED BY <2>1, <4>1 DEF Forwarded
      <3>3. CASE c # Probe /\ ~Proxied(c)
        BY <2>1, <3>3 DEF End
      <3> QED BY <3>1, <3>2, <3>3
    <2>3. score' \in [ok : Nat, fail : Nat]
      BY <2>1 DEF End, Counted
    <2> QED BY <1>1, <2>1, <2>2, <2>3 DEF Rest, Same, ExchInv, Types
  <1> HIDE DEF h, i, r, kept
  <1>11. r.at \notin Calls
    BY <1>3 DEF Calls
  <1>12. Changes(c, r, h, i)
    <2>1. (r.at \in Calls) = FALSE
      BY <1>11
    <2> QED BY <1>8, <1>9, <2>1 DEF Changes
  <1>13. Fits(c, r, h, i)
    BY <1>1, <1>2, <1>5, <1>6, <1>7, <1>11 DEF Fits, h
  <1> QED BY <1>1, <1>2, <1>3, <1>10, <1>12, <1>13, Stepped
-----------------------------------------------------------------------------
(* The calls in between.                                                   *)

\* A coroutine goes on to another call on its connection.
LEMMA GoOn ==
    ASSUME ExchInv, NEW c \in Coroutine, Busy(c), NEW r \in Runs, NEW i \in Conns,
           run' = [run EXCEPT ![c] = r], io' = [io EXCEPT ![Io(c)] = i],
           r.at \in Calls, r.be = run[c].be, r.slot = run[c].slot, Stands(c, r, i),
           UNCHANGED <<alive, use, next, score>>, Same
    PROVE  ExchInv'
  <1> DEFINE h == Io(c)
  <1>1. /\ h \in Holder /\ (Proxied(c) => h \in Place) /\ (~Proxied(c) => h = c)
        /\ \A d \in Coroutine : h = d => c = d
        /\ \A d \in Coroutine \ {c} : Busy(d) => Io(d) # h
        /\ At(c, run[c]) /\ run[c].at \in Calls /\ h = HeldBy(c, run[c])
    BY IoIs DEF ExchInv, OneEach, Standing
  <1>2. HeldBy(c, r) = h
    BY <1>1 DEF HeldBy
  <1>3. At(c, r)
    BY <1>1 DEF At, Calls
  <1>4. use' = [p \in Place |-> IF p = h THEN r.at \in Calls ELSE use[p]]
    <2>1. use \in [Place -> BOOLEAN] /\ (r.at \in Calls) = TRUE
      BY DEF ExchInv, Types
    <2>2. h \in Place => use[h] = TRUE
      BY <2>1 DEF ExchInv, InUse
    <2> QED BY <2>1, <2>2
  <1>5. Rest
    BY RestSame DEF Same, ExchInv, Types, Picks
  <1>6. Changes(c, r, h, i)
    BY <1>4 DEF Changes, Same
  <1>7. h # c => prog = "proxy"
    BY <1>1 DEF Proxied
  <1> HIDE DEF h
  <1>8. Fits(c, r, h, i)
    BY <1>1, <1>2, <1>3, <1>7 DEF Fits, h
  <1> QED BY <1>1, <1>5, <1>6, <1>8, Stepped

\* What a coroutine knows of the connection it uses.
LEMMA Using ==
    ASSUME ExchInv, NEW c \in Coroutine, Busy(c)
    PROVE  /\ run[c] \in Runs /\ io \in [Holder -> Conns] /\ io[Io(c)] \in Conns /\ Io(c) \in Holder
           /\ Stands(c, run[c], io[Io(c)]) /\ now \in Nat /\ run[c].due \in Nat /\ Request(c) = <<c, run[c].n>>
           /\ Request(c) \in Requests
  <1>1. run[c] \in Runs /\ io \in [Holder -> Conns] /\ Io(c) \in Holder /\ now \in Nat
    BY IoIs DEF ExchInv, Types
  <1>2. run[c].due \in Nat
    BY <1>1 DEF Runs
  <1>3. Request(c) \in Requests
    BY <1>1 DEF Request, Requests, Runs
  <1> QED BY <1>1, <1>2, <1>3, IoIs DEF Request

\* remaining_ms: what is left of the time.
LEMMA LeftIs ==
    ASSUME now \in Nat, NEW due \in Nat
    PROVE  /\ Left(due) \in Nat
           /\ Left(due) # 0 => now < due /\ Left(due) = due - now
           /\ Left(due) = 0 => due <= now
  BY DEF Left

LEMMA ConnectedStep ==
    ASSUME ExchInv, NEW c \in Coroutine, Connected(c)
    PROVE  ExchInv'
  <1>1. run[c].at = "connect" /\ Busy(c)
    BY DEF Connected, Busy
  <1>2. CASE Scan
    BY <1>1, <1>2, EndStep DEF Connected
  <1>3. CASE ~Scan
    <2> DEFINE h == Io(c)
               i == [io[h] EXCEPT !.sock = "open"]
               due == IF prog = "redis" THEN now + Timeout ELSE run[c].due
               q == [run[c] EXCEPT !.due = due]
               r == Waiting(q, "send", Left(due))
    <2>1. /\ run[c] \in Runs /\ now \in Nat /\ io \in [Holder -> Conns] /\ io[h] \in Conns /\ h \in Holder
          /\ run[c].got = <<>> /\ Clear(io[h])
      BY <1>1, Using DEF Stands
    <2>2. due \in Nat
      BY Using, <1>1, Numbers
    <2>3. run' = [run EXCEPT ![c] = r] /\ io' = [io EXCEPT ![h] = i]
      BY <1>3, <2>1 DEF Connected, Go
    <2>4. UNCHANGED <<alive, use, next, score>> /\ Same
      BY <1>3 DEF Connected, Quiet
    <2> HIDE DEF h, due
    <2>5. r \in Runs /\ r.at = "send" /\ r.be = run[c].be /\ r.slot = run[c].slot /\ r.got = <<>>
      <3>1. /\ q \in Runs /\ q.be = run[c].be /\ q.slot = run[c].slot /\ q.got = <<>>
            /\ Left(due) \in Nat
        BY <2>1, <2>2, LeftIs DEF Runs
      <3> HIDE DEF q
      <3>2. /\ r \in Runs /\ r.at = "send" /\ r.be = q.be /\ r.slot = q.slot /\ r.got = q.got
        <4>1. r \in Runs
          BY ONLY <2>1, <3>1, WaitingIs DEF r
        <4>2. r.at = "send" /\ r.be = q.be /\ r.slot = q.slot /\ r.got = q.got
          BY ONLY <3>1, WaitingHas DEF r
        <4> QED BY ONLY <4>1, <4>2
      <3> HIDE DEF r
      <3> QED BY <3>1, <3>2
    <2>6. i \in Conns /\ Clear(i) /\ i.sock = "open"
      BY <2>1 DEF Conns, Clear
    <2> HIDE DEF r, i
    <2>7. Stands(c, r, i) /\ r.at \in Calls
      BY <2>5, <2>6 DEF Stands, Calls
    <2> QED BY <1>1, <2>3, <2>4, <2>5, <2>6, <2>7, GoOn DEF h
  <1> QED BY <1>2, <1>3

\* A coroutine that is to receive stands well with what is left on its connection, or
\* its time is over.
LEMMA ReceiveStep ==
    ASSUME ExchInv, NEW c \in Coroutine, Busy(c), NEW due \in Nat, NEW got \in Seq(Piece),
           NEW i \in Conns, NEW rest,
           rest = [io EXCEPT ![Io(c)] = i], Receive(c, due, got, rest), Same, i.sock # "none",
           LET n == Len(got) + Len(i.in)
           IN  /\ got \o i.in = Reply(<<c, run[c].n>>, n)
               /\ \/ i.asked = <<>> /\ i.sent = 0
                  \/ i.asked = <<<<c, run[c].n>>>> /\ i.sent = n /\ n < Whole
    PROVE  ExchInv'
  <1>1. CASE Left(due) > 0 \/ (Hasty /\ due = now)
    <2> DEFINE q == [run[c] EXCEPT !.due = due, !.got = got]
               r == Waiting(q, "recv", Left(due))
    <2>1. /\ run' = [run EXCEPT ![c] = r] /\ io' = rest
          /\ UNCHANGED <<alive, use, next, score>>
      BY <1>1 DEF Receive, Go
    <2>2. run[c] \in Runs /\ now \in Nat /\ Left(due) \in Nat
      BY Using, LeftIs
    <2>3. /\ q \in Runs /\ q.be = run[c].be /\ q.slot = run[c].slot /\ q.got = got
          /\ q.n = run[c].n
      BY <2>2 DEF Runs
    <2> HIDE DEF q
    <2>4. /\ r \in Runs /\ r.at = "recv" /\ r.be = run[c].be /\ r.slot = run[c].slot /\ r.got = got
          /\ r.n = run[c].n
      <3>1. /\ r \in Runs /\ r.at = "recv" /\ r.be = q.be /\ r.slot = q.slot /\ r.got = q.got
            /\ r.n = q.n
        <4>1. r \in Runs
          BY ONLY <2>2, <2>3, WaitingIs DEF r
        <4>2. /\ r.at = "recv" /\ r.be = q.be /\ r.slot = q.slot /\ r.got = q.got /\ r.n = q.n
          BY ONLY <2>3, WaitingHas DEF r
        <4> QED BY ONLY <4>1, <4>2
      <3> HIDE DEF r
      <3> QED BY <2>3, <3>1
    <2> HIDE DEF r
    <2>5. Stands(c, r, i) /\ r.at \in Calls
      BY <2>4 DEF Stands, Calls
    <2> QED BY <2>1, <2>4, <2>5, GoOn
  <1>2. CASE ~(Left(due) > 0 \/ (Hasty /\ due = now))
    BY <1>2, EndStep DEF Receive
  <1> QED BY <1>1, <1>2

LEMMA TwoLens ==
    ASSUME NEW a \in Seq(Piece), NEW b \in Seq(Piece)
    PROVE  Len(a) + Len(b) \in Nat
  OBVIOUS

\* Lengths of replies, and one piece more.
LEMMA ReplyIs ==
    ASSUME NEW q \in Requests, NEW n \in Nat
    PROVE  Reply(q, n) \in Seq(Piece) /\ Len(Reply(q, n)) = n /\ Reply(q, 0) = <<>>
  <1>1. \A k \in 1..n : [of |-> q, k |-> k] \in Piece
    BY DEF Piece
  <1> QED BY <1>1 DEF Reply

LEMMA ReplyMore ==
    ASSUME NEW q \in Requests, NEW got \in Seq(Piece), NEW in \in Seq(Piece),
           got \o in = Reply(q, Len(got) + Len(in))
    PROVE  LET piece == [of |-> q, k |-> Len(got) + Len(in) + 1]
               more == Append(in, piece)
           IN  /\ more \in Seq(Piece) /\ Len(more) = Len(in) + 1
               /\ got \o more = Reply(q, Len(got) + Len(more))
  <1> DEFINE n == Len(got) + Len(in)
             piece == [of |-> q, k |-> n + 1]
             more == Append(in, piece)
  <1>1. n \in Nat /\ Len(got) \in Nat /\ Len(in) \in Nat
    OBVIOUS
  <1>2. piece \in Piece
    BY <1>1 DEF Piece
  <1>3. more \in Seq(Piece) /\ Len(more) = Len(in) + 1 /\ more[Len(in) + 1] = piece
        /\ \A k \in 1..Len(in) : more[k] = in[k]
    BY <1>1, <1>2, AppendProperties
  <1>4. \A k \in 1..n : (got \o in)[k] = [of |-> q, k |-> k]
    BY <1>1 DEF Reply
  <1> DEFINE a == got \o more
             b == Reply(q, n + 1)
  <1>5. b \in Seq(Piece) /\ Len(b) = n + 1 /\ \A k \in 1..(n + 1) : b[k] = [of |-> q, k |-> k]
    <2>1. n + 1 \in Nat
      BY <1>1
    <2>2. b \in Seq(Piece) /\ Len(b) = n + 1
      BY <2>1, ReplyIs
    <2>3. b = [k \in 1..(n + 1) |-> [of |-> q, k |-> k]]
      BY DEF Reply
    <2> HIDE DEF b
    <2> QED BY <2>2, <2>3
  <1> HIDE DEF more, n, piece
  <1>6. /\ a \in Seq(Piece) /\ Len(a) = n + 1
        /\ \A k \in 1..(n + 1) : a[k] = IF k <= Len(got) THEN got[k] ELSE more[k - Len(got)]
    <2>1. Len(got) + Len(more) = n + 1
      BY <1>1, <1>3 DEF n
    <2>2. got \in Seq(Piece) /\ more \in Seq(Piece)
      BY <1>3
    <2>3. /\ a \in Seq(Piece) /\ Len(a) = Len(got) + Len(more)
          /\ \A k \in 1..(Len(got) + Len(more)) :
                a[k] = IF k <= Len(got) THEN got[k] ELSE more[k - Len(got)]
      BY ONLY <2>2, ConcatProperties
    <2> HIDE DEF a
    <2> QED BY <2>1, <2>3
  <1>7. \A k \in 1..n : (got \o in)[k] = IF k <= Len(got) THEN got[k] ELSE in[k - Len(got)]
    BY <1>1, ConcatProperties DEF n
  <1>8. ASSUME NEW k \in 1..(n + 1)
        PROVE  a[k] = b[k]
    <2>1. CASE k = n + 1
      <3>1. k - Len(got) = Len(in) + 1 /\ ~(k <= Len(got))
        BY <1>1, <2>1 DEF n
      <3>2. a[k] = piece
        BY <1>3, <1>6, <3>1
      <3> QED BY <1>5, <2>1, <3>2 DEF piece
    <2>2. CASE k # n + 1
      <3>1. k \in 1..n
        BY <1>1, <2>2
      <3>2. ~(k <= Len(got)) => k - Len(got) \in 1..Len(in)
        BY <1>1, <3>1 DEF n
      <3>3. a[k] = IF k <= Len(got) THEN got[k] ELSE in[k - Len(got)]
        BY <1>3, <1>6, <3>1, <3>2
      <3>4. (got \o in)[k] = a[k]
        BY <1>7, <3>1, <3>3
      <3> QED BY <1>4, <1>5, <3>1, <3>4
    <2> QED BY <2>1, <2>2
  <1> HIDE DEF a, b
  <1>9. a = b
    BY <1>5, <1>6, <1>8, SeqEqual
  <1>10. Len(got) + Len(more) = n + 1
    BY <1>1, <1>3 DEF n
  <1> QED BY <1>3, <1>9, <1>10 DEF a, b, more, piece, n

LEMMA SentStep ==
    ASSUME ExchInv, NEW c \in Coroutine, Sent(c)
    PROVE  ExchInv'
  <1> DEFINE h == Io(c)
             asked == IF io[h].sock = "open" THEN Append(io[h].asked, Request(c)) ELSE io[h].asked
             i == [io[h] EXCEPT !.asked = asked]
  <1>1. run[c].at = "send" /\ Busy(c) /\ Same
    BY DEF Sent, Busy
  <1>2. /\ io \in [Holder -> Conns] /\ io[h] \in Conns /\ h \in Holder /\ io[h].sock # "none"
        /\ run[c].got = <<>> /\ Clear(io[h]) /\ Request(c) \in Requests /\ Request(c) = <<c, run[c].n>>
    BY <1>1, Using DEF Stands
  <1>3. asked \in Seq(Requests) /\ (asked = <<>> \/ asked = <<Request(c)>>)
    BY <1>2 DEF Clear
  <1>4. PICK due \in Nat : Receive(c, due, <<>>, [io EXCEPT ![h] = i])
    <2>1. [io EXCEPT ![h].asked = IF io[h].sock = "open" THEN Append(@, Request(c)) ELSE @]
          = [io EXCEPT ![h] = i]
      BY <1>2
    <2>2. (IF Hasty /\ run[c].due < now THEN now ELSE run[c].due) \in Nat
      BY <1>1, Using
    <2> QED BY <2>1, <2>2 DEF Sent
  <1> HIDE DEF asked
  <1>5. i \in Conns /\ i.asked = asked /\ i.sock # "none" /\ i.sent = 0 /\ i.in = <<>>
    BY <1>2, <1>3 DEF Conns, Clear
  <1> HIDE DEF i, h
  <1>6. /\ <<>> \in Seq(Piece) /\ Len(<<>>) + Len(i.in) = 0
        /\ <<>> \o i.in = Reply(<<c, run[c].n>>, 0) /\ 0 < Whole
    <2>1. <<>> \o <<>> = <<>>
      OBVIOUS
    <2> QED BY <1>2, <1>5, <2>1, ReplyIs, Numbers
  <1>7. LET n == Len(<<>>) + Len(i.in)
        IN  /\ <<>> \o i.in = Reply(<<c, run[c].n>>, n)
            /\ \/ i.asked = <<>> /\ i.sent = 0
               \/ i.asked = <<<<c, run[c].n>>>> /\ i.sent = n /\ n < Whole
    BY <1>2, <1>3, <1>5, <1>6
  <1> QED BY <1>1, <1>4, <1>5, <1>6, <1>7, ReceiveStep DEF h

LEMMA ReceivedStep ==
    ASSUME ExchInv, NEW c \in Coroutine, Received(c)
    PROVE  ExchInv'
  <1> DEFINE h == Io(c)
             q == Request(c)
             got == run[c].got \o io[h].in
             i == [io[h] EXCEPT !.in = <<>>]
  <1>1. run[c].at = "recv" /\ Busy(c) /\ Same
    BY DEF Received, Busy
  <1>2. /\ io \in [Holder -> Conns] /\ io[h] \in Conns /\ h \in Holder /\ run[c] \in Runs
        /\ Stands(c, run[c], io[h]) /\ q \in Requests /\ q = <<c, run[c].n>>
    BY <1>1, Using
  <1>3. run[c].got \in Seq(Piece) /\ io[h].in \in Seq(Piece)
    BY <1>2 DEF Runs, Conns
  <1> DEFINE n == Len(run[c].got) + Len(io[h].in)
  <1>4. /\ io[h].sock # "none" /\ n \in Nat /\ got = Reply(q, n)
        /\ \/ io[h].asked = <<>> /\ io[h].sent = 0
           \/ io[h].asked = <<q>> /\ io[h].sent = n /\ n < Whole
    <2>1. n \in Nat
      <3> HIDE DEF h
      <3> QED BY ONLY <1>3, TwoLens DEF n
    <2>2. /\ io[h].sock # "none" /\ got = Reply(<<c, run[c].n>>, n)
          /\ \/ io[h].asked = <<>> /\ io[h].sent = 0
             \/ io[h].asked = <<<<c, run[c].n>>>> /\ io[h].sent = n /\ n < Whole
      <3> HIDE DEF h
      <3> QED BY <1>1, <1>2 DEF Stands
    <2> HIDE DEF n, h, got, q
    <2> QED BY <1>2, <2>1, <2>2
  <1>5. got \in Seq(Piece) /\ Len(got) = n
    BY <1>2, <1>4, ReplyIs
  <1>6. CASE Len(got) >= Whole
    <2>1. io[h].asked = <<>> /\ io[h].sent = 0
      <3> HIDE DEF got, n
      <3> QED BY <1>4, <1>5, <1>6, Numbers
    <2>2. PICK keeps \in BOOLEAN : End(c, TRUE, keeps)
      BY <1>6 DEF Received
    <2> QED BY <1>1, <2>1, <2>2, EndStep
  <1>7. CASE ~(Len(got) >= Whole)
    <2>1. Receive(c, run[c].due, got, [io EXCEPT ![h] = i]) /\ run[c].due \in Nat
      <3>1. [io EXCEPT ![h].in = <<>>] = [io EXCEPT ![h] = i]
        BY <1>2
      <3> QED BY <1>1, <1>7, <3>1, Using DEF Received
    <2>2. /\ i \in Conns /\ i.sock = io[h].sock /\ i.in = <<>> /\ i.asked = io[h].asked
          /\ i.sent = io[h].sent
      <3>1. <<>> \in Seq(Piece)
        OBVIOUS
      <3> QED BY <1>2, <3>1 DEF Conns
    <2>3. got \o <<>> = got /\ Len(got) + Len(<<>>) = n
      <3> HIDE DEF got, n
      <3> QED BY <1>4, <1>5
    <2> HIDE DEF got, i, n
    <2>4. LET m == Len(got) + Len(i.in)
          IN  /\ got \o i.in = Reply(<<c, run[c].n>>, m)
              /\ \/ i.asked = <<>> /\ i.sent = 0
                 \/ i.asked = <<<<c, run[c].n>>>> /\ i.sent = m /\ m < Whole
      BY <1>2, <1>4, <2>2, <2>3
    <2> QED BY <1>1, <1>4, <1>5, <2>1, <2>2, <2>4, ReceiveStep DEF h
  <1> QED BY <1>6, <1>7

LEMMA FailedStep ==
    ASSUME ExchInv, NEW c \in Coroutine, Failed(c)
    PROVE  ExchInv'
  <1>1. Busy(c) /\ End(c, FALSE, FALSE) /\ Same
    BY DEF Failed, Busy
  <1> QED BY <1>1, EndStep
-----------------------------------------------------------------------------
(* The peers.                                                              *)

\* A peer that has a request to answer has that of the connection's user.
LEMMA AskedBy ==
    ASSUME ExchInv, NEW h \in Holder, io[h].asked # <<>>
    PROVE  \E c \in Coroutine :
              /\ Busy(c) /\ Io(c) = h /\ run[c].at = "recv"
              /\ \A d \in Coroutine : Busy(d) /\ Io(d) = h => d = c
              /\ io[h].asked = <<Request(c)>> /\ io[h].sent = Len(run[c].got) + Len(io[h].in)
              /\ io[h].sent < Whole /\ run[c].got \o io[h].in = Reply(Request(c), io[h].sent)
  <1>1. PICK c \in Coroutine : Busy(c) /\ Io(c) = h
    BY UnusedIs DEF Clear
  <1>2. Stands(c, run[c], io[h]) /\ Request(c) = <<c, run[c].n>>
    BY <1>1, Using
  <1>3. run[c].at = "recv"
    BY <1>2 DEF Stands, Clear
  <1>4. \A d \in Coroutine : Busy(d) /\ Io(d) = h => d = c
    BY <1>1 DEF ExchInv, OneEach
  <1>5. /\ io[h].asked = <<Request(c)>> /\ io[h].sent = Len(run[c].got) + Len(io[h].in)
        /\ io[h].sent < Whole /\ run[c].got \o io[h].in = Reply(Request(c), io[h].sent)
    BY <1>2, <1>3 DEF Stands
  <1> QED BY <1>1, <1>3, <1>4, <1>5

LEMMA AnswerStep ==
    ASSUME ExchInv, NEW h \in Holder, Answer(h)
    PROVE  ExchInv'
  <1> DEFINE piece == [of |-> Head(io[h].asked), k |-> io[h].sent + 1]
             last == piece.k = Whole
             in == Append(io[h].in, piece)
             sent == IF last THEN 0 ELSE piece.k
             asked == IF last THEN Tail(io[h].asked) ELSE io[h].asked
             i == [io[h] EXCEPT !.in = in, !.sent = sent, !.asked = asked]
  <1>1. PICK c \in Coroutine :
              /\ Busy(c) /\ Io(c) = h /\ run[c].at = "recv"
              /\ \A d \in Coroutine : Busy(d) /\ Io(d) = h => d = c
              /\ io[h].asked = <<Request(c)>> /\ io[h].sent = Len(run[c].got) + Len(io[h].in)
              /\ io[h].sent < Whole /\ run[c].got \o io[h].in = Reply(Request(c), io[h].sent)
    BY AskedBy DEF Answer
  <1> DEFINE q == Request(c)
             got == run[c].got
  <1>2. /\ io \in [Holder -> Conns] /\ io[h] \in Conns /\ run[c] \in Runs
        /\ q \in Requests /\ q = <<c, run[c].n>>
    BY <1>1, Using
  <1>3. io[h].sent \in Nat /\ io[h].in \in Seq(Piece) /\ got \in Seq(Piece) /\ io[h].sock = "open"
    BY <1>2 DEF Conns, Runs, Answer
  <1>4. io' = [io EXCEPT ![h] = i]
    BY <1>2 DEF Answer
  <1>5. piece = [of |-> q, k |-> io[h].sent + 1] /\ Tail(io[h].asked) = <<>>
    BY <1>1
  <1>6. /\ in \in Seq(Piece) /\ Len(in) = Len(io[h].in) + 1
        /\ got \o in = Reply(q, Len(got) + Len(in))
    <2> HIDE DEF got, q, piece
    <2>1. piece = [of |-> q, k |-> Len(got) + Len(io[h].in) + 1]
      BY <1>1, <1>5 DEF got
    <2>2. got \o io[h].in = Reply(q, Len(got) + Len(io[h].in))
      BY <1>1 DEF got, q
    <2> QED BY <1>2, <1>3, <2>1, <2>2, ReplyMore
  <1>7. Len(got) + Len(in) = io[h].sent + 1 /\ piece.k = io[h].sent + 1 /\ Whole \in Nat
    <2> HIDE DEF in, piece
    <2>1. Len(got) \in Nat /\ Len(io[h].in) \in Nat
      BY <1>3
    <2>2. Len(in) = Len(io[h].in) + 1 /\ io[h].sent = Len(got) + Len(io[h].in)
      BY <1>1, <1>6
    <2>3. Len(got) + Len(in) = io[h].sent + 1
      <3> HIDE DEF got
      <3> QED BY ONLY <2>1, <2>2
    <2> QED BY <1>5, <2>3, Numbers
  <1> HIDE DEF in, piece
  <1>8. /\ sent \in Nat /\ asked \in Seq(Requests)
        /\ \/ asked = <<>> /\ sent = 0
           \/ asked = <<q>> /\ sent = Len(got) + Len(in) /\ sent < Whole
    <2>1. io[h].asked = <<q>> /\ io[h].sent + 1 <= Whole
      <3>1. io[h].asked = <<q>> /\ io[h].sent < Whole /\ io[h].sent \in Nat /\ Whole \in Nat
        BY <1>1, <1>3, <1>7
      <3> QED BY ONLY <3>1
    <2>2. <<>> \in Seq(Requests) /\ <<q>> \in Seq(Requests)
      BY <1>2
    <2> HIDE DEF q, got
    <2> QED BY <1>3, <1>5, <1>7, <2>1, <2>2
  <1> HIDE DEF sent, asked
  <1>9. i \in Conns /\ i.in = in /\ i.sent = sent /\ i.asked = asked /\ i.sock = "open"
    BY <1>2, <1>3, <1>6, <1>8 DEF Conns
  <1> HIDE DEF i
  <1>10. Stands(c, run[c], i)
    BY <1>1, <1>2, <1>6, <1>8, <1>9 DEF Stands
  <1>11. Rest
    BY RestSame DEF Answer, Quiet, Same, ExchInv, Types, Picks
  <1>12. UNCHANGED <<prog, run, use>>
    BY DEF Answer, Quiet, Same
  <1> QED BY <1>1, <1>3, <1>4, <1>9, <1>10, <1>11, <1>12, PeerStep

LEMMA ShutStep ==
    ASSUME ExchInv, NEW h \in Holder, Shut(h)
    PROVE  ExchInv'
  <1> DEFINE i == [io[h] EXCEPT !.sock = "shut", !.asked = <<>>, !.sent = 0]
  <1>1. io \in [Holder -> Conns] /\ io[h] \in Conns /\ io[h].sock = "open"
    BY DEF ExchInv, Types, Shut
  <1>2. io' = [io EXCEPT ![h] = i]
    BY <1>1 DEF Shut
  <1>3. i \in Conns /\ i.sock = "shut" /\ i.asked = <<>> /\ i.sent = 0 /\ i.in = io[h].in
    <2>1. <<>> \in Seq(Requests)
      OBVIOUS
    <2> QED BY <1>1, <2>1 DEF Conns
  <1> HIDE DEF i
  <1>4. ASSUME NEW c \in Coroutine, Busy(c), Io(c) = h
        PROVE  Stands(c, run[c], i)
    <2>1. Stands(c, run[c], io[h])
      BY <1>4, IoIs
    <2> QED BY <1>1, <1>3, <2>1 DEF Stands, Clear
  <1>5. (\A c \in Coroutine : Busy(c) => Io(c) # h) => Clear(i)
    BY <1>3, UnusedIs DEF Clear
  <1>6. Rest
    BY RestSame DEF Shut, Quiet, Same, ExchInv, Types, Picks
  <1>7. UNCHANGED <<prog, run, use>>
    BY DEF Shut, Quiet, Same
  <1> QED BY <1>1, <1>2, <1>3, <1>4, <1>5, <1>6, <1>7, PeerStep
-----------------------------------------------------------------------------
(* The proxy.                                                              *)

\* pick_backend finds one if any is alive.
LEMMA FirstAliveIs ==
    ASSUME ExchInv, \E b \in Backend : alive[b]
    PROVE  FirstAlive \in Backend /\ alive[FirstAlive]
  <1> DEFINE A == {b \in Backend : alive[b]}
             S == {Order(b) : b \in A}
  <1>1. \A b \in Backend : Order(b) \in Nat
    <2>1. next \in Nat
      BY DEF ExchInv, Types
    <2> QED BY <2>1, Numbers DEF Order
  <1>2. S \in SUBSET Nat /\ S # {}
    BY <1>1
  <1>3. PICK x \in S : \A y \in S : x <= y
    BY <1>2, LeastIs
  <1>4. PICK b \in A : x = Order(b)
    OBVIOUS
  <1>5. b \in Backend /\ alive[b] /\ \A d \in Backend : alive[d] => Order(b) <= Order(d)
    BY <1>3, <1>4
  <1> QED BY <1>5 DEF FirstAlive

\* The loop for a slot finds one that nobody has, if there is one.
LEMMA TakeSlotStep ==
    ASSUME ExchInv, NEW c \in Coroutine, NEW r \in Runs, ~Busy(c), Proxied(c), r.be \in Backend,
           Free(r.be) # {}, TakeSlot(c, r), prog' = prog, Rest
    PROVE  ExchInv'
  <1> DEFINE F == Free(r.be)
             s == CHOOSE s \in F : \A t \in F : s <= t
             q == [r EXCEPT !.slot = s]
  <1>1. F \in SUBSET Nat /\ F \subseteq Slot /\ \A t \in F : ~use[<<r.be, t>>]
    BY Numbers DEF Free
  <1>2. s \in F
    <2>1. \E x \in F : \A y \in F : x <= y
      BY <1>1, LeastIs
    <2> HIDE DEF F
    <2> QED BY <2>1
  <1>3. use' = [use EXCEPT ![<<r.be, s>>] = TRUE] /\ Exchanging(c, q)
    BY DEF TakeSlot
  <1> HIDE DEF s
  <1>4. s \in Slot /\ s \in Nat /\ ~use[<<r.be, s>>]
    BY <1>1, <1>2
  <1> HIDE DEF F
  <1>5. q \in Runs /\ q.be = r.be /\ q.slot = s
    BY <1>4 DEF Runs
  <1> HIDE DEF q
  <1>6. use' = IF Proxied(c) THEN [use EXCEPT ![<<q.be, q.slot>>] = TRUE] ELSE use
    BY <1>3, <1>5
  <1>7. c # Probe
    BY DEF Proxied
  <1> QED BY <1>3, <1>4, <1>5, <1>6, <1>7, ExchangedStep

\* A coroutine outside an exchange goes somewhere else outside.
LEMMA WaitStep ==
    ASSUME ExchInv, NEW c \in Coroutine, NEW r \in Runs, ~Busy(c), run' = [run EXCEPT ![c] = r],
           UNCHANGED <<prog, io, use>>, r.at \notin Calls, At(c, r), prog = "proxy", Rest
    PROVE  ExchInv'
  <1>1. c \in Holder /\ c \notin Place
    BY Places
  <1>2. \A d \in Coroutine : Busy(d) => Io(d) # c
    BY IoIs
  <1>3. Clear(io[c]) /\ io[c] \in Conns
    BY <1>1, <1>2, UnusedIs
  <1>4. io[c].sock = "none"
    BY DEF ExchInv, Between
  <1>5. Fits(c, r, c, io[c])
    BY <1>2, <1>3, <1>4 DEF Fits
  <1>6. Changes(c, r, c, io[c])
    <2>1. io' = [io EXCEPT ![c] = io[c]]
      BY <1>1 DEF ExchInv, Types
    <2>2. use' = [p \in Place |-> use[p]]
      BY DEF ExchInv, Types
    <2>3. use' = [p \in Place |-> IF p = c THEN r.at \in Calls ELSE use[p]]
      BY <1>1, <2>2
    <2> QED BY <2>1, <2>3 DEF Changes
  <1> QED BY <1>1, <1>3, <1>5, <1>6, Stepped

LEMMA SleepStep ==
    ASSUME ExchInv, NEW c \in Coroutine, NEW r \in Runs, ~Busy(c), Proxied(c), r.be \in Backend,
           SleepForSlot(c, r), prog' = prog, Rest
    PROVE  ExchInv'
  <1> DEFINE q == Waiting(r, "slot", 1)
  <1>1. run' = [run EXCEPT ![c] = q] /\ UNCHANGED <<io, use>>
    BY DEF SleepForSlot, Go
  <1>2. q \in Runs /\ q.at = "slot" /\ q.be = r.be
    <2>1. now \in Nat
      BY DEF ExchInv, Types
    <2>2. q \in Runs
      BY <2>1, WaitingIs
    <2> QED BY <2>2, WaitingHas
  <1> HIDE DEF q
  <1>3. At(c, q) /\ q.at \notin Calls /\ prog = "proxy"
    BY <1>2 DEF At, Calls, Proxied
  <1> QED BY <1>1, <1>2, <1>3, WaitStep

LEMMA BadGatewayStep ==
    ASSUME ExchInv, NEW c \in Coroutine, ~Busy(c), Proxied(c), BadGateway(c), prog' = prog, Rest
    PROVE  ExchInv'
  <1> DEFINE q == [Idle EXCEPT !.n = run[c].n + 1]
  <1>1. run' = [run EXCEPT ![c] = q] /\ UNCHANGED <<io, use>>
    BY DEF BadGateway, Go
  <1>2. q \in Runs /\ q.at = "idle"
    <2>1. run[c].n + 1 \in Nat
      BY DEF ExchInv, Types, Runs
    <2> QED BY <2>1, IdleIs DEF Runs
  <1> HIDE DEF q
  <1>3. At(c, q) /\ q.at \notin Calls /\ prog = "proxy"
    BY <1>2 DEF At, Calls, Proxied
  <1> QED BY <1>1, <1>2, <1>3, WaitStep

LEMMA ForwardStep ==
    ASSUME ExchInv, NEW c \in Worker, Forward(c)
    PROVE  ExchInv'
  <1> DEFINE r == [run[c] EXCEPT !.began = now, !.be = FirstAlive]
  <1>1. /\ c \in Coroutine /\ run[c].at = "idle" /\ Proxied(c) /\ ~Busy(c) /\ prog' = prog
        /\ next' = (next + 1) % Backends
    BY Places DEF Forward, Same, Busy
  <1>2. Rest
    <2>1. next \in Nat
      BY DEF ExchInv, Types
    <2>2. next' \in Backend
      BY <1>1, <2>1, Numbers
    <2> QED BY <2>2, Numbers, RestSame DEF Forward, Same
  <1>3. CASE \A b \in Backend : ~alive[b]
    BY <1>1, <1>2, <1>3, BadGatewayStep DEF Forward
  <1>4. CASE ~(\A b \in Backend : ~alive[b])
    <2>1. FirstAlive \in Backend
      BY <1>4, FirstAliveIs
    <2>2. IF Free(r.be) # {} THEN TakeSlot(c, r) ELSE SleepForSlot(c, r)
      BY <1>4 DEF Forward
    <2>3. r \in Runs /\ r.be \in Backend
      <3>1. now \in Nat /\ run[c] \in Runs /\ FirstAlive \in Nat
        BY <1>1, <2>1, Numbers DEF ExchInv, Types
      <3> QED BY <2>1, <3>1 DEF Runs
    <2> HIDE DEF r
    <2> QED BY <1>1, <1>2, <2>2, <2>3, TakeSlotStep, SleepStep
  <1> QED BY <1>3, <1>4

LEMMA WaitedForSlotStep ==
    ASSUME ExchInv, NEW c \in Worker, WaitedForSlot(c)
    PROVE  ExchInv'
  <1>1. c \in Coroutine /\ run[c].at = "slot" /\ ~Busy(c) /\ prog' = prog
    BY Places DEF WaitedForSlot, Same, Busy
  <1>2. Proxied(c) /\ run[c].be \in Backend /\ run[c] \in Runs
    BY <1>1 DEF ExchInv, Standing, At, Types
  <1>3. Rest
    BY RestSame DEF WaitedForSlot, Same, ExchInv, Types, Picks
  <1>4. \/ Free(run[c].be) # {} /\ TakeSlot(c, run[c])
        \/ BadGateway(c)
        \/ SleepForSlot(c, run[c])
    BY DEF WaitedForSlot
  <1> QED BY <1>1, <1>2, <1>3, <1>4, TakeSlotStep, BadGatewayStep, SleepStep

LEMMA HealthStep ==
    ASSUME ExchInv, health_loop
    PROVE  ExchInv'
  <1>1. /\ Probe \in Coroutine /\ run[Probe].at = "asleep" /\ prog = "proxy" /\ ~Busy(Probe)
        /\ run' = [run EXCEPT ![Probe] = Idle] /\ UNCHANGED <<prog, io, use>>
    BY Places DEF health_loop, Go, Quiet, Same, Busy
  <1>2. Rest
    BY RestSame DEF health_loop, Quiet, Same, ExchInv, Types, Picks
  <1>3. At(Probe, Idle) /\ Idle.at \notin Calls /\ Idle \in Runs
    BY <1>1, IdleIs DEF At, Calls
  <1> QED BY <1>1, <1>2, <1>3, WaitStep
-----------------------------------------------------------------------------

LEMMA InitInv == Init => ExchInv
  <1> SUFFICES ASSUME Init PROVE ExchInv
    OBVIOUS
  <1> DEFINE asleep == Waiting(Idle, "asleep", Health)
  <1>1. asleep \in Runs /\ asleep.at = "asleep"
    <2>1. now \in Nat
      BY DEF Init
    <2>2. Idle \in Runs /\ Health \in Nat
      BY IdleIs, Numbers
    <2> QED BY ONLY <2>1, <2>2, WaitingIs, WaitingHas DEF asleep
  <1>2. NoIo \in Conns /\ Clear(NoIo) /\ NoIo.sock = "none"
    BY DEF NoIo, Conns, Clear
  <1>3. /\ run = [c \in Coroutine |-> IF c = Probe THEN asleep ELSE Idle]
        /\ io = [h \in Holder |-> NoIo] /\ use = [p \in Place |-> FALSE] /\ next = 0
    BY DEF Init
  <1> HIDE DEF asleep
  <1>4. \A c \in Coroutine : ~Busy(c)
    BY <1>1, <1>3, IdleIs DEF Busy
  <1>5. Types
    BY <1>1, <1>2, <1>3, IdleIs DEF Init, Types
  <1>6. Standing
    BY <1>1, <1>3, <1>4, IdleIs DEF Standing, At, Calls
  <1> QED BY <1>2, <1>3, <1>4, <1>5, <1>6, Places, Numbers
          DEF ExchInv, OneEach, InUse, Unused, Between, Picks

LEMMA SameStep ==
    ASSUME ExchInv, UNCHANGED <<prog, run, io, use>>, Rest
    PROVE  ExchInv'
  <1>1. \A c \in Coroutine : (Busy(c)' <=> Busy(c)) /\ Io(c)' = Io(c)
    BY DEF Busy, Io, Proxied
  <1>2. Types'
    BY DEF ExchInv, Types, Rest
  <1>3. OneEach' /\ InUse' /\ Unused' /\ Between'
    BY <1>1 DEF ExchInv, OneEach, InUse, Unused, Between, Clear
  <1>4. Standing'
    BY <1>1, SameProgram DEF ExchInv, Standing, At, Stands, Proxied
  <1>5. Picks'
    BY SameProgram DEF Picks, Rest
  <1> QED BY <1>2, <1>3, <1>4, <1>5 DEF ExchInv

LEMMA NextInv == ExchInv /\ [Next]_vars => ExchInv'
  <1> SUFFICES ASSUME ExchInv, [Next]_vars PROVE ExchInv'
    OBVIOUS
  <1>1. CASE UNCHANGED vars
    <2>1. Rest /\ UNCHANGED <<prog, run, io, use>>
      BY <1>1, RestSame DEF vars, ExchInv, Types, Picks
    <2> QED BY <2>1, SameStep
  <1>2. ASSUME NEW c \in Coroutine,
               Begin(c) \/ TakePort(c) \/ Connected(c) \/ Sent(c) \/ Received(c) \/ Failed(c)
        PROVE  ExchInv'
    BY <1>2, BeginStep, TakePortStep, ConnectedStep, SentStep, ReceivedStep, FailedStep
  <1>3. ASSUME NEW c \in Worker, Forward(c) \/ WaitedForSlot(c)
        PROVE  ExchInv'
    BY <1>3, ForwardStep, WaitedForSlotStep
  <1>4. ASSUME NEW h \in Holder, Answer(h) \/ Shut(h)
        PROVE  ExchInv'
    BY <1>4, AnswerStep, ShutStep
  <1>5. CASE health_loop
    BY <1>5, HealthStep
  <1>6. CASE Tick
    <2>1. Rest /\ UNCHANGED <<prog, run, io, use>>
      BY <1>6 DEF Tick, ExchInv, Types, Rest, Picks
    <2> QED BY <2>1, SameStep
  <1>7. CASE Report
    <2>1. Rest /\ UNCHANGED <<prog, run, io, use>>
      BY <1>7 DEF Report, ExchInv, Types, Rest, Picks
    <2> QED BY <2>1, SameStep
  <1> QED BY <1>1, <1>2, <1>3, <1>4, <1>5, <1>6, <1>7 DEF Next

\* What the other theorems follow from: the connections, what is outstanding on them and
\* who has them, in every state of every program.
THEOREM ExchInvariant == Spec => []ExchInv
  BY InitInv, NextInv, PTL DEF Spec
-----------------------------------------------------------------------------

LEMMA InvOwnReply == ExchInv => OwnReply
  <1> SUFFICES ASSUME ExchInv PROVE OwnReply
    OBVIOUS
  <1>1. ASSUME NEW c \in Coroutine, Busy(c),
               NEW k \in 1..Len(run[c].got \o io[Io(c)].in)
        PROVE  (run[c].got \o io[Io(c)].in)[k] = [of |-> Request(c), k |-> k]
    <2> DEFINE got == run[c].got
               in == io[Io(c)].in
    <2>1. /\ run[c] \in Runs /\ io[Io(c)] \in Conns /\ Stands(c, run[c], io[Io(c)])
          /\ Request(c) = <<c, run[c].n>> /\ Request(c) \in Requests
      BY <1>1, Using
    <2>2. got \in Seq(Piece) /\ in \in Seq(Piece)
      BY <2>1 DEF Runs, Conns
    <2>3. CASE got = <<>> /\ in = <<>>
      BY <1>1, <2>3
    <2>4. CASE got \o in = Reply(Request(c), Len(got) + Len(in))
      <3>1. Len(got) + Len(in) \in Nat
        <4> HIDE DEF got, in
        <4> QED BY ONLY <2>2, TwoLens
      <3>2. Len(got \o in) = Len(got) + Len(in)
        BY <2>2, ConcatProperties
      <3> QED BY <1>1, <2>4, <3>1, <3>2 DEF Reply
    <2> QED BY <2>1, <2>3, <2>4 DEF Stands, Clear
  <1>2. ASSUME NEW h \in Holder, Users(h) = {}
        PROVE  io[h].asked = <<>> /\ io[h].in = <<>>
    BY <1>2, UnusedIs DEF Users, Clear
  <1> QED BY <1>1, <1>2 DEF OwnReply

\* What a coroutine has read, and what lies ready for it, are pieces of the reply to its
\* own request, from the first on; on a connection nobody uses, no reply is outstanding
\* that the next one could take for its own.
THEOREM OwnReplyAlways == Spec => []OwnReply
  BY ExchInvariant, InvOwnReply, PTL

LEMMA InvHeld == ExchInv => Held
  <1> SUFFICES ASSUME ExchInv PROVE Held
    OBVIOUS
  <1>1. prog \in Program /\ main \in {"waits", "reports"} /\ (Scan \/ next \in Backend)
    BY DEF ExchInv, Types, Picks
  <1>2. ASSUME NEW h \in Holder
        PROVE  Cardinality(Users(h)) <= 1
    <2>1. \A c, d \in Users(h) : c = d
      BY DEF Users, ExchInv, OneEach
    <2>2. CASE Users(h) = {}
      BY <2>2, FS_EmptySet
    <2>3. CASE Users(h) # {}
      <3>1. PICK c : Users(h) = {c}
        BY <2>1, <2>3
      <3> QED BY <3>1, FS_Singleton
    <2> QED BY <2>2, <2>3
  <1>3. ASSUME NEW p \in Place
        PROVE  use[p] <=> Users(p) # {}
    BY DEF Users, ExchInv, InUse
  <1>4. ASSUME NEW c \in Coroutine, io[c].sock # "none"
        PROVE  c \in Users(c) \/ (prog = "keep" /\ ~Done(c))
    BY <1>4 DEF Users, ExchInv, Between, Done, Scan
  <1> QED BY <1>1, <1>2, <1>3, <1>4 DEF Held

\* A connection is used by one coroutine at a time, a slot of the proxy is taken exactly
\* while somebody uses its connection, and between exchanges a coroutine holds no socket,
\* unless -k keeps it for the next one.
THEOREM HeldAlways == Spec => []Held
  BY ExchInvariant, InvHeld, PTL
-----------------------------------------------------------------------------
(* The time an exchange takes, and what main counts.                       *)

\* The time of k exchanges that coroutine c makes one after the other.
Span(c, k) == k * Allowed(c)

\* Whose call can have nothing left of its time, and gets a millisecond.
Spare == IF Hasty THEN 1 ELSE 0

\* The time of the exchange of c is over soon enough for its last call to wait twice, or
\* it is over, and that call is the short one of tcp_sendrecv and udp_sendrecv.
Soon(c, r) ==
    \/ r.due <= r.began + Timeout + Timeout /\ r.due + Timeout + Spare <= r.began + Allowed(c)
    \/ Hasty /\ r.due <= now /\ r.due < r.began + Allowed(c)

\* Coroutine c has got to r: its call is not overdue, and what is to be added to the time
\* from here on leaves it within what it is allowed.
Timely(c, r) ==
    /\ r.at \in Calls \cup {"slot"} =>
           r.began <= now /\ now <= r.last /\ r.last <= r.began + Allowed(c)
    /\ r.at = "slot" \/ (r.at = "connect" /\ prog = "redis") => r.last <= r.began + Timeout
    /\ r.at \in Calls => r.due <= now + Timeout /\ (Scan \/ Soon(c, r))
    /\ r.at = "connect" => IF Hasty THEN r.last + 2 <= r.began + Allowed(c) ELSE r.last <= r.due
    /\ r.at = "send" /\ Hasty => r.last < r.began + Allowed(c)
    /\ Scan => r.at \notin {"send", "recv"}

\* The programs whose workers have their exchanges to themselves.
Single == prog \notin {"scan", "proxy"}

\* A worker c at r is not late: it has taken what is allowed for each exchange it has done,
\* and all workers of the scan together for each of the k ports that are taken.
Paced(c, r, k) ==
    /\ r.at # "asleep"
    /\ Scan => /\ r.at = "idle" /\ k < Ports => now <= Span(c, k)
               /\ r.at \in Calls => r.began + Allowed(c) <= Span(c, k)
    /\ ~Scan => r.n <= Count /\ (r.at # "idle" => r.n # Count)
    /\ Single => /\ r.at = "idle" /\ r.n # Count => now <= Span(c, r.n)
                 /\ r.at \in Calls => r.began <= Span(c, r.n)

Clocks ==
    /\ \A c \in Coroutine : Timely(c, run[c])
    /\ \A c \in Worker : Paced(c, run[c], next)
    /\ Scan => next <= Ports
Tally == prog # "proxy" => score.ok + score.fail = Taken
Patience ==
    main = "reports" => \A c \in Worker : Done(c) \/ Deadline <= Rounds * Allowed(c)

TimeInv == Clocks /\ Tally /\ Patience

LEMMA Allows ==
    ASSUME NEW c \in Coroutine
    PROVE  /\ Allowed(c) \in Nat /\ Timeout <= Allowed(c) /\ Spare \in Nat
           /\ Timeout \in Nat \ {0} /\ ConnectTime \in Nat /\ Count \in Nat \ {0} /\ Ports \in Nat
           /\ Slack \in Nat \ {0}
           /\ Scan => Allowed(c) = Timeout /\ ConnectTime = Timeout /\ ~Hasty
           /\ ~Scan => Timeout + Timeout + Spare <= Allowed(c)
           /\ Hasty => ConnectTime + 2 <= Allowed(c) \/ prog = "dns"
           /\ Hasty => Spare = 1 /\ Timeout + Timeout < Allowed(c)
           /\ ~Hasty => ConnectTime = Timeout /\ Spare = 0
           /\ prog = "redis" \/ Proxied(c) => Allowed(c) = Timeout + Timeout + Timeout /\ ~Hasty
  <1>1. /\ Timeout \in Nat \ {0} /\ Default \in Nat /\ Timeout <= Default /\ Count \in Nat \ {0}
        /\ Ports \in Nat /\ Slack \in Nat \ {0}
        /\ 2 * Timeout = Timeout + Timeout /\ 3 * Timeout = Timeout + Timeout + Timeout
    BY ExchangeAssumption
  <1>2. CASE prog = "echo"
    BY <1>1, <1>2 DEF Allowed, ConnectTime, Proxied, Scan, Hasty, Spare
  <1>3. CASE prog = "redis" \/ Proxied(c)
    BY <1>1, <1>3 DEF Allowed, ConnectTime, Proxied, Scan, Hasty, Spare
  <1>4. CASE prog # "echo" /\ ~(prog = "redis" \/ Proxied(c))
    BY <1>1, <1>4 DEF Allowed, ConnectTime, Scan, Hasty, Spare
  <1> QED BY <1>2, <1>3, <1>4

LEMMA Spans ==
    ASSUME NEW c \in Coroutine, NEW k \in Nat
    PROVE  /\ Span(c, k) \in Nat /\ Span(c, k + 1) = Span(c, k) + Allowed(c)
           /\ \A m \in Nat : k <= m => Span(c, k) <= Span(c, m)
  <1> DEFINE t == Allowed(c)
  <1>1. t \in Nat
    BY Allows
  <1> HIDE DEF t
  <1>2. \A i, j \in Nat : (i + j) * t = i * t + j * t /\ i * t \in Nat
    BY <1>1
  <1>3. (k + 1) * t = k * t + t /\ k * t \in Nat
    BY <1>1, <1>2
  <1>4. ASSUME NEW m \in Nat, k <= m PROVE k * t <= m * t
    <2>1. m - k \in Nat /\ m = k + (m - k)
      BY <1>4
    <2>2. m * t = k * t + (m - k) * t /\ (m - k) * t \in Nat
      BY <1>2, <2>1
    <2> QED BY <1>3, <2>2
  <1> QED BY <1>3, <1>4 DEF Span, t

\* A step of c that leaves the clock and the program alone.
LEMMA ClocksStep ==
    ASSUME ExchInv, Clocks, NEW c \in Coroutine, NEW q \in Runs, run' = [run EXCEPT ![c] = q],
           UNCHANGED <<prog, now>>, Timely(c, q), c \in Worker => Paced(c, q, next'),
           next' \in Nat, Scan => next <= next' /\ next' <= Ports
    PROVE  Clocks'
  <1>1. /\ run \in [Coroutine -> Runs] /\ now \in Nat /\ next \in Nat
        /\ run' \in [Coroutine -> Runs] /\ Ports \in Nat
    BY ExchangeAssumption DEF ExchInv, Types
  <1>2. run'[c] = q /\ \A d \in Coroutine \ {c} : run'[d] = run[d]
    BY <1>1
  <1>3. ASSUME NEW d \in Coroutine PROVE Timely(d, run[d])'
    <2>1. Timely(d, run'[d])
      BY <1>2 DEF Clocks
    <2> QED BY <1>1, <2>1 DEF Timely, Soon, Spare, Hasty, Scan, Allowed, Proxied
  <1>4. ASSUME NEW d \in Worker PROVE Paced(d, run[d], next)'
    <2>1. Paced(d, run'[d], next')
      <3>1. CASE d = c
        BY <1>2, <3>1
      <3>2. CASE d # c
        <4>1. Paced(d, run[d], next) /\ run'[d] = run[d] /\ run[d] \in Runs /\ d \in Coroutine
          BY <1>1, <1>2, <3>2, Places DEF Clocks
        <4>2. Scan => Span(d, next) <= Span(d, next') /\ Span(d, next) \in Nat /\ Span(d, next') \in Nat
          BY <1>1, <4>1, Spans
        <4>3. run[d].began + Allowed(d) \in Nat
          <5>1. \A r \in Runs : r.began \in Nat
            BY DEF Runs
          <5>2. run[d].began \in Nat
            BY <4>1, <5>1
          <5> QED BY <4>1, <5>2, Allows
        <4>4. CASE Scan
          <5>1. /\ run[d].at = "idle" /\ next < Ports => now <= Span(d, next)
                /\ run[d].at \in Calls => run[d].began + Allowed(d) <= Span(d, next)
                /\ run[d].at # "asleep" /\ ~Single
            BY <4>1, <4>4 DEF Paced, Scan, Single
          <5> QED BY <1>1, <4>1, <4>2, <4>3, <4>4, <5>1 DEF Paced
        <4>5. CASE ~Scan
          BY <4>1, <4>5 DEF Paced
        <4> QED BY <4>4, <4>5
      <3> QED BY <3>1, <3>2
    <2> QED BY <2>1 DEF Paced, Span, Allowed, Proxied, Scan, Single
  <1>5. Scan' => next' <= Ports
    BY DEF Scan
  <1> QED BY <1>3, <1>4, <1>5 DEF Clocks

\* The calls an exchange begins with.  The scan only connects.
LEMMA ExchangingIs ==
    ASSUME ExchInv, NEW c \in Coroutine, NEW r \in Runs, Exchanging(c, r), ~Busy(c)
    PROVE  \E q \in Runs :
              /\ run' = [run EXCEPT ![c] = q] /\ q.n = r.n /\ q.began = r.began
              /\ q.due = now + Timeout
              /\ \/ q.at = "connect" /\ q.last = now + ConnectTime /\ prog # "dns"
                 \/ q.at = "send" /\ q.last = now + Timeout + Timeout /\ ~Scan
  <1> DEFINE began == [r EXCEPT !.due = now + Timeout, !.got = <<>>]
             h == IF Proxied(c) THEN <<r.be, r.slot>> ELSE c
  <1>1. now \in Nat /\ Timeout \in Nat \ {0} /\ ConnectTime \in Nat /\ <<>> \in Seq(Piece)
    BY Allows DEF ExchInv, Types
  <1>2. began \in Runs /\ began.n = r.n /\ began.began = r.began /\ began.due = now + Timeout
    <2>1. now + Timeout \in Nat
      BY <1>1
    <2> QED BY <1>1, <2>1 DEF Runs
  <1> HIDE DEF began
  <1>3. CASE io[h].sock = "none" /\ Connects
    <2> DEFINE q == Waiting(began, "connect", ConnectTime)
    <2>1. run' = [run EXCEPT ![c] = q]
      BY <1>3 DEF Exchanging, Go, began
    <2>2. /\ q \in Runs /\ q.n = r.n /\ q.began = r.began /\ q.due = now + Timeout
          /\ q.at = "connect" /\ q.last = now + ConnectTime
      <3>1. Longest("connect", ConnectTime) = ConnectTime
        BY DEF Longest
      <3> QED BY <1>1, <1>2, <3>1, WaitingIs, WaitingHas, LastIs
    <2> HIDE DEF q
    <2> QED BY <1>3, <2>1, <2>2 DEF Connects
  <1>4. CASE ~(io[h].sock = "none" /\ Connects)
    <2> DEFINE q == Waiting(began, "send", Timeout)
    <2>1. run' = [run EXCEPT ![c] = q]
      BY <1>4 DEF Exchanging, Go, began
    <2>2. /\ q \in Runs /\ q.n = r.n /\ q.began = r.began /\ q.due = now + Timeout
          /\ q.at = "send" /\ q.last = now + Timeout + Timeout
      <3>1. Longest("send", Timeout) = Timeout + Timeout
        BY <1>1 DEF Longest
      <3> QED BY <1>1, <1>2, <3>1, WaitingIs, WaitingHas, LastIs
    <2>3. ~Scan
      <3>1. ASSUME Scan PROVE FALSE
        <4>1. h = c /\ Connects /\ prog # "keep"
          BY <3>1 DEF Scan, Proxied, Connects
        <4>2. io[c].sock = "none"
          BY <4>1 DEF ExchInv, Between
        <4> HIDE DEF h
        <4> QED BY <1>4, <4>1, <4>2
      <3> QED BY <3>1
    <2> HIDE DEF q
    <2> QED BY <2>1, <2>2, <2>3
  <1> QED BY <1>3, <1>4

\* An exchange that begins now, as far as its coroutine waited for a slot at most.
LEMMA ExchangingClocks ==
    ASSUME ExchInv, Clocks, NEW c \in Coroutine, NEW r \in Runs, Exchanging(c, r), ~Busy(c),
           UNCHANGED <<prog, now>>,
           r.began <= now, now = r.began \/ (Proxied(c) /\ now <= r.began + Timeout),
           next' \in Nat, Scan => next <= next' /\ next' <= Ports,
           c \in Worker => /\ Scan => now + Timeout <= Span(c, next') /\ now = r.began
                           /\ ~Scan => r.n <= Count /\ r.n # Count
                           /\ Single => r.began <= Span(c, r.n)
    PROVE  Clocks'
  <1>1. PICK q \in Runs :
           /\ run' = [run EXCEPT ![c] = q] /\ q.n = r.n /\ q.began = r.began
           /\ q.due = now + Timeout
           /\ \/ q.at = "connect" /\ q.last = now + ConnectTime /\ prog # "dns"
              \/ q.at = "send" /\ q.last = now + Timeout + Timeout /\ ~Scan
    BY ExchangingIs
  <1>2. now \in Nat /\ r.began \in Nat /\ q.due \in Nat /\ q.last \in Nat
    BY DEF ExchInv, Types, Runs
  <1>3. Timely(c, q)
    <2>1. q.at \in Calls /\ q.at # "slot" /\ (q.at = "connect" \/ q.at = "send")
      BY <1>1 DEF Calls
    <2>2. q.began <= now /\ now <= q.last
      BY <1>1, <1>2, Allows
    <2>3. q.last <= q.began + Allowed(c)
      <3>1. CASE now = r.began
        BY <1>1, <1>2, <3>1, Allows
      <3>2. CASE Proxied(c) /\ now <= r.began + Timeout
        BY <1>1, <1>2, <3>2, Allows
      <3> QED BY <3>1, <3>2
    <2>4. Scan \/ Soon(c, q)
      <3>1. CASE now = r.began
        BY <1>1, <1>2, <3>1, Allows DEF Soon
      <3>2. CASE Proxied(c) /\ now <= r.began + Timeout
        BY <1>1, <1>2, <3>2, Allows DEF Soon
      <3> QED BY <3>1, <3>2
    <2>5. ~Proxied(c) => now = r.began
      OBVIOUS
    <2>6. q.at = "connect" /\ prog = "redis" => q.last <= q.began + Timeout
      BY <1>1, <1>2, <2>5, Allows DEF Proxied
    <2>7. q.at = "connect" => IF Hasty THEN q.last + 2 <= q.began + Allowed(c) ELSE q.last <= q.due
      BY <1>1, <1>2, <2>5, Allows
    <2>8. q.at = "send" /\ Hasty => q.last < q.began + Allowed(c)
      BY <1>1, <1>2, <2>5, Allows
    <2>9. q.due <= now + Timeout
      BY <1>1, <1>2, Allows
    <2>10. Scan => q.at \notin {"send", "recv"}
      BY <1>1
    <2> QED BY <2>1, <2>2, <2>3, <2>4, <2>6, <2>7, <2>8, <2>9, <2>10 DEF Timely
  <1>4. c \in Worker => Paced(c, q, next')
    BY <1>1, Allows DEF Paced, Calls
  <1> QED BY <1>1, <1>3, <1>4, ClocksStep

\* The end of an exchange is in time for the next one.
LEMMA EndClocks ==
    ASSUME ExchInv, Clocks, NEW c \in Coroutine, Busy(c), NEW good \in BOOLEAN, NEW keeps \in BOOLEAN,
           End(c, good, keeps), Same
    PROVE  Clocks'
  <1> DEFINE q == IF c = Probe THEN AfterProbe ELSE [Idle EXCEPT !.n = run[c].n + 1]
  <1>1. /\ run' = [run EXCEPT ![c] = q] /\ UNCHANGED <<prog, now>> /\ next' = next
        /\ next \in Nat /\ now \in Nat
    <2>1. next' = next
      <3>1. CASE c = Probe
        BY <3>1 DEF End, Probed, Proxied
      <3>2. CASE Proxied(c)
        BY <3>2 DEF End, Forwarded, Proxied
      <3>3. CASE c # Probe /\ ~Proxied(c)
        BY <3>3 DEF End
      <3> QED BY <3>1, <3>2, <3>3
    <2> QED BY <2>1 DEF End, Go, Same, ExchInv, Types
  <1>2. /\ run[c] \in Runs /\ run[c].n \in Nat /\ run[c].began \in Nat /\ run[c].last \in Nat
        /\ run[c].at \in Calls /\ run[c].be \in Nat
    BY Using, IoIs DEF Runs
  <1>3. q \in Runs /\ q.at \in {"idle", "asleep"} /\ (c # Probe => q.at = "idle" /\ q.n = run[c].n + 1)
    <2>1. CASE c = Probe
      <3>1. run[Probe].be + 1 \in Nat
        <4> HIDE DEF q
        <4> QED BY <1>2, <2>1
      <3> QED BY <1>1, <2>1, <3>1, AfterProbeIs
    <2>2. CASE c # Probe
      <3>1. run[c].n + 1 \in Nat
        BY <1>2
      <3> QED BY <2>2, <3>1, IdleIs DEF Runs
    <2> QED BY <2>1, <2>2
  <1> HIDE DEF q
  <1>4. Timely(c, q)
    BY <1>3 DEF Timely, Calls
  <1>5. c \in Worker => Paced(c, q, next)
    <2> SUFFICES ASSUME c \in Worker PROVE Paced(c, q, next)
      OBVIOUS
    <2>1. c # Probe /\ q.at = "idle" /\ q.n = run[c].n + 1
      BY <1>3, Places
    <2>2. Paced(c, run[c], next) /\ now <= run[c].last /\ run[c].last <= run[c].began + Allowed(c)
      BY <1>2 DEF Clocks, Timely
    <2>3. Allowed(c) \in Nat
      BY Allows
    <2>4. Scan => now <= Span(c, next)
      <3>1. ASSUME Scan PROVE now <= Span(c, next)
        <4>1. run[c].began + Allowed(c) <= Span(c, next)
          BY <1>2, <2>2, <3>1 DEF Paced
        <4>2. Span(c, next) \in Nat
          BY <1>1, Spans
        <4> QED BY <1>1, <1>2, <2>2, <2>3, <4>1, <4>2
      <3> QED BY <3>1
    <2>5. ~Scan => q.n <= Count
      <3>1. ~Scan => run[c].n <= Count /\ run[c].n # Count
        BY <1>2, <2>2 DEF Paced, Calls
      <3> QED BY <1>2, <2>1, <3>1, Allows
    <2>6. Single => now <= Span(c, q.n)
      <3>1. ASSUME Single PROVE now <= Span(c, q.n)
        <4>1. run[c].began <= Span(c, run[c].n)
          BY <1>2, <2>2, <3>1 DEF Paced
        <4>2. /\ Span(c, run[c].n) \in Nat
              /\ Span(c, run[c].n + 1) = Span(c, run[c].n) + Allowed(c)
          BY <1>2, Spans
        <4> QED BY <1>1, <1>2, <2>1, <2>2, <2>3, <4>1, <4>2
      <3> QED BY <3>1
    <2> QED BY <2>1, <2>4, <2>5, <2>6 DEF Paced, Calls
  <1>6. next' \in Nat /\ (Scan => next <= next' /\ next' <= Ports)
    BY <1>1 DEF Clocks
  <1> QED BY <1>1, <1>3, <1>4, <1>5, <1>6, ClocksStep

LEMMA BeginClocks ==
    ASSUME ExchInv, Clocks, NEW c \in Coroutine, Begin(c)
    PROVE  Clocks'
  <1> DEFINE r == [run[c] EXCEPT !.began = now]
  <1>1. /\ run[c].at = "idle" /\ ~Busy(c) /\ ~Scan /\ Exchanging(c, r) /\ UNCHANGED <<prog, now, next>>
        /\ c = Probe \/ run[c].n < Count
    BY DEF Begin, Quiet, Same, Busy
  <1>2. run[c] \in Runs /\ now \in Nat /\ next \in Nat /\ run[c].n \in Nat
    BY DEF ExchInv, Types, Runs
  <1>3. r \in Runs /\ r.began = now /\ r.n = run[c].n
    BY <1>2 DEF Runs
  <1> HIDE DEF r
  <1>4. c \in Worker => /\ r.n <= Count /\ r.n # Count
                        /\ Single => r.began <= Span(c, r.n)
    <2> SUFFICES ASSUME c \in Worker PROVE /\ r.n <= Count /\ r.n # Count
                                           /\ Single => r.began <= Span(c, r.n)
      OBVIOUS
    <2>1. Paced(c, run[c], next) /\ run[c].n < Count
      BY <1>1, Places DEF Clocks
    <2>2. r.n <= Count /\ r.n # Count
      BY <1>2, <1>3, <2>1, Allows
    <2> QED BY <1>1, <1>3, <2>1, <2>2 DEF Paced
  <1> QED BY <1>1, <1>2, <1>3, <1>4, ExchangingClocks

LEMMA TakePortClocks ==
    ASSUME ExchInv, Clocks, NEW c \in Coroutine, TakePort(c)
    PROVE  Clocks'
  <1> DEFINE r == [run[c] EXCEPT !.began = now]
  <1>1. /\ run[c].at = "idle" /\ ~Busy(c) /\ Scan /\ ~Single /\ Exchanging(c, r) /\ UNCHANGED <<prog, now>>
        /\ c \in Worker /\ next < Ports /\ next' = next + 1
    BY Places DEF TakePort, Same, Single, Scan, Busy
  <1>2. run[c] \in Runs /\ now \in Nat /\ next \in Nat /\ Ports \in Nat /\ Timeout \in Nat
    BY Allows DEF ExchInv, Types
  <1>3. r \in Runs /\ r.began = now
    BY <1>2 DEF Runs
  <1> HIDE DEF r
  <1>4. next' \in Nat /\ next <= next' /\ next' <= Ports
    BY <1>1, <1>2
  <1>5. now + Timeout <= Span(c, next')
    <2>1. now <= Span(c, next)
      BY <1>1 DEF Clocks, Paced
    <2>2. Span(c, next) \in Nat /\ Span(c, next + 1) = Span(c, next) + Timeout
      BY <1>1, <1>2, Spans, Allows
    <2> QED BY <1>1, <1>2, <2>1, <2>2
  <1>6. r.began <= now
    BY <1>2, <1>3
  <1> QED BY <1>1, <1>3, <1>4, <1>5, <1>6, ExchangingClocks

\* Another call of the same exchange, with what is left of its time.
LEMMA GoOnClocks ==
    ASSUME ExchInv, Clocks, NEW c \in Coroutine, Busy(c), ~Scan, NEW r \in Runs,
           NEW at \in {"send", "recv"}, run' = [run EXCEPT ![c] = Waiting(r, at, Left(r.due))],
           UNCHANGED <<prog, now, next>>, r.n = run[c].n, r.began = run[c].began,
           r.due <= now + Timeout, Soon(c, r),
           Left(r.due) > 0 \/ r.due = now \/ (at = "send" /\ Hasty),
           at = "send" /\ Hasty => now + 1 < r.began + Allowed(c)
    PROVE  Clocks'
  <1> DEFINE left == Left(r.due)
             q == Waiting(r, at, left)
  <1>1. run[c].at \in Calls /\ next \in Nat /\ now \in Nat /\ r.due \in Nat /\ r.began \in Nat
    BY IoIs DEF ExchInv, Types, Runs
  <1>2. left \in Nat /\ (left # 0 => now < r.due /\ left = r.due - now) /\ (left = 0 => r.due <= now)
    BY <1>1, LeftIs
  <1>3. /\ q \in Runs /\ q.at = at /\ q.n = r.n /\ q.began = r.began /\ q.due = r.due
        /\ q.last = now + (IF left = 0 THEN 1 ELSE left + left)
    <2>1. Longest(at, left) = IF left = 0 THEN 1 ELSE left + left
      BY <1>2 DEF Longest
    <2> HIDE DEF left
    <2>2. q \in Runs
      BY ONLY <1>1, <1>2, WaitingIs DEF q
    <2>3. q.at = at /\ q.n = r.n /\ q.began = r.began /\ q.due = r.due
      BY WaitingHas
    <2>4. q.last = now + Longest(at, left)
      BY LastIs
    <2> QED BY ONLY <2>1, <2>2, <2>3, <2>4
  <1>4. run' = [run EXCEPT ![c] = q]
    OBVIOUS
  <1>5. left > 0 \/ r.due = now \/ (at = "send" /\ Hasty)
    OBVIOUS
  <1> HIDE DEF q, left
  <1>6. q.last \in Nat /\ now <= q.last
    BY <1>1, <1>2, <1>3
  <1>7. q.last <= q.began + Allowed(c) /\ (at = "send" /\ Hasty => q.last < q.began + Allowed(c))
    <2>1. CASE left # 0
      <3>1. r.due + Timeout + Spare <= r.began + Allowed(c)
        BY <1>1, <1>2, <2>1 DEF Soon
      <3>2. q.last <= r.due + Timeout
        BY <1>1, <1>2, <1>3, <2>1, Allows
      <3> QED BY <1>1, <1>3, <1>6, <3>1, <3>2, Allows
    <2>2. CASE left = 0
      <3>1. q.last = now + 1
        BY <1>3, <2>2
      <3>2. CASE at = "send" /\ Hasty
        BY <1>1, <1>3, <3>1, <3>2, Allows
      <3>3. CASE r.due = now /\ ~(at = "send" /\ Hasty)
        <4>1. r.due + 1 <= r.began + Allowed(c)
          BY <1>1, Allows DEF Soon
        <4> QED BY <1>1, <1>3, <3>1, <3>3, <4>1
      <3> QED BY <1>5, <2>2, <3>2, <3>3
    <2> QED BY <2>1, <2>2
  <1>8. Timely(c, q)
    <2>1. q.began <= now
      BY <1>1, <1>3 DEF Clocks, Timely
    <2>2. Soon(c, q)
      BY <1>3 DEF Soon
    <2>3. q.at \in Calls /\ q.at # "slot" /\ q.at # "connect"
      BY <1>3 DEF Calls
    <2> QED BY <1>3, <1>6, <1>7, <2>1, <2>2, <2>3 DEF Timely
  <1>9. c \in Worker => Paced(c, q, next)
    <2>1. q.at \in Calls /\ q.at # "idle" /\ q.at # "asleep"
      BY <1>3 DEF Calls
    <2>2. c \in Worker => Paced(c, run[c], next) /\ run[c].at # "idle"
      BY <1>1 DEF Clocks, Calls
    <2> QED BY <1>1, <1>3, <2>1, <2>2 DEF Paced
  <1>10. next' \in Nat /\ (Scan => next <= next' /\ next' <= Ports)
    BY <1>1
  <1> QED BY <1>3, <1>4, <1>8, <1>9, <1>10, ClocksStep

LEMMA ConnectedClocks ==
    ASSUME ExchInv, Clocks, NEW c \in Coroutine, Connected(c)
    PROVE  Clocks'
  <1>1. run[c].at = "connect" /\ Busy(c)
    BY DEF Connected, Busy
  <1>2. CASE Scan
    BY <1>1, <1>2, EndClocks DEF Connected
  <1>3. CASE ~Scan
    <2> DEFINE due == IF prog = "redis" THEN now + Timeout ELSE run[c].due
               r == [run[c] EXCEPT !.due = due]
    <2>1. /\ run[c] \in Runs /\ now \in Nat /\ run[c].due \in Nat /\ run[c].last \in Nat
          /\ run[c].began \in Nat
      BY <1>1, Using DEF Runs
    <2>2. /\ run[c].began <= now /\ now <= run[c].last /\ Soon(c, run[c])
          /\ run[c].due <= now + Timeout
          /\ IF Hasty THEN run[c].last + 2 <= run[c].began + Allowed(c) ELSE run[c].last <= run[c].due
          /\ prog = "redis" => run[c].last <= run[c].began + Timeout
      BY <1>1, <1>3 DEF Clocks, Timely, Calls
    <2>3. run' = [run EXCEPT ![c] = Waiting(r, "send", Left(due))] /\ UNCHANGED <<prog, now, next>>
      BY <1>3 DEF Connected, Quiet, Same, Go
    <2>4. due \in Nat /\ due <= now + Timeout
      BY <2>1, <2>2, Allows
    <2>5. Hasty \/ Left(due) > 0 \/ due = now
      <3>1. ~Hasty => now <= due
        BY <2>1, <2>2, Allows
      <3> HIDE DEF due
      <3> QED BY <2>1, <2>4, <3>1 DEF Left
    <2>6. \/ due <= run[c].began + Timeout + Timeout /\ due + Timeout + Spare <= run[c].began + Allowed(c)
          \/ Hasty /\ due <= now /\ due < run[c].began + Allowed(c)
      <3>1. CASE prog = "redis"
        BY <2>1, <2>2, <3>1, Allows
      <3>2. CASE prog # "redis"
        BY <2>2, <3>2 DEF Soon
      <3> QED BY <3>1, <3>2
    <2>7. Hasty => now + 1 < run[c].began + Allowed(c)
      BY <2>1, <2>2, Allows
    <2> HIDE DEF due
    <2>8. /\ r \in Runs /\ r.n = run[c].n /\ r.began = run[c].began /\ r.due = due
      BY <2>1, <2>4 DEF Runs
    <2> HIDE DEF r
    <2>9. Soon(c, r)
      BY <2>6, <2>8 DEF Soon
    <2> QED BY <1>1, <1>3, <2>3, <2>4, <2>5, <2>7, <2>8, <2>9, GoOnClocks
  <1> QED BY <1>2, <1>3

\* What is known of the time of a coroutine in a call.
LEMMA InCall ==
    ASSUME ExchInv, Clocks, NEW c \in Coroutine, Busy(c)
    PROVE  /\ run[c] \in Runs /\ now \in Nat /\ run[c].due \in Nat /\ run[c].last \in Nat
           /\ run[c].began \in Nat /\ run[c].at \in Calls
           /\ run[c].began <= now /\ now <= run[c].last /\ run[c].due <= now + Timeout
           /\ run[c].at # "connect" => ~Scan /\ Soon(c, run[c])
           /\ run[c].at = "send" /\ Hasty => run[c].last < run[c].began + Allowed(c)
  <1>1. /\ run[c] \in Runs /\ now \in Nat /\ run[c].due \in Nat /\ run[c].last \in Nat
        /\ run[c].began \in Nat /\ run[c].at \in Calls
    BY Using, IoIs DEF Runs
  <1> QED BY <1>1 DEF Clocks, Timely, Calls

LEMMA ReceiveClocks ==
    ASSUME ExchInv, Clocks, NEW c \in Coroutine, Busy(c), ~Scan, NEW due \in Nat,
           NEW got \in Seq(Piece), NEW rest, Receive(c, due, got, rest), Same,
           due <= now + Timeout,
           \/ due <= run[c].began + Timeout + Timeout /\ due + Timeout + Spare <= run[c].began + Allowed(c)
           \/ Hasty /\ due <= now /\ due < run[c].began + Allowed(c)
    PROVE  Clocks'
  <1>1. CASE Left(due) > 0 \/ (Hasty /\ due = now)
    <2> DEFINE r == [run[c] EXCEPT !.due = due, !.got = got]
    <2>1. run' = [run EXCEPT ![c] = Waiting(r, "recv", Left(due))] /\ UNCHANGED <<prog, now, next>>
      BY <1>1 DEF Receive, Go, Same
    <2>2. run[c] \in Runs
      BY Using
    <2>3. r \in Runs /\ r.n = run[c].n /\ r.began = run[c].began /\ r.due = due
      BY <2>2 DEF Runs
    <2> HIDE DEF r
    <2>4. Soon(c, r)
      BY <2>3 DEF Soon
    <2> QED BY <1>1, <2>1, <2>3, <2>4, GoOnClocks
  <1>2. CASE ~(Left(due) > 0 \/ (Hasty /\ due = now))
    BY <1>2, EndClocks DEF Receive
  <1> QED BY <1>1, <1>2

LEMMA SentClocks ==
    ASSUME ExchInv, Clocks, NEW c \in Coroutine, Sent(c)
    PROVE  Clocks'
  <1> DEFINE due == IF Hasty /\ run[c].due < now THEN now ELSE run[c].due
  <1>1. Busy(c) /\ run[c].at = "send" /\ Same /\ <<>> \in Seq(Piece)
    BY DEF Sent, Busy
  <1>2. \E rest : Receive(c, due, <<>>, rest)
    BY DEF Sent
  <1>3. /\ now \in Nat /\ run[c].due \in Nat /\ run[c].last \in Nat /\ run[c].began \in Nat
        /\ now <= run[c].last /\ run[c].due <= now + Timeout /\ Soon(c, run[c]) /\ ~Scan
        /\ Hasty => run[c].last < run[c].began + Allowed(c)
    BY <1>1, InCall
  <1>4. due \in Nat /\ due <= now + Timeout
    BY <1>3, Allows
  <1>5. \/ due <= run[c].began + Timeout + Timeout /\ due + Timeout + Spare <= run[c].began + Allowed(c)
        \/ Hasty /\ due <= now /\ due < run[c].began + Allowed(c)
    <2>1. CASE Hasty /\ run[c].due < now
      BY <1>3, <2>1, Allows
    <2>2. CASE ~(Hasty /\ run[c].due < now)
      BY <1>3, <2>2 DEF Soon
    <2> QED BY <2>1, <2>2
  <1> HIDE DEF due
  <1> QED BY <1>1, <1>2, <1>3, <1>4, <1>5, ReceiveClocks

LEMMA ReceivedClocks ==
    ASSUME ExchInv, Clocks, NEW c \in Coroutine, Received(c)
    PROVE  Clocks'
  <1> DEFINE got == run[c].got \o io[Io(c)].in
  <1>1. Busy(c) /\ run[c].at = "recv" /\ Same
    BY DEF Received, Busy
  <1>2. got \in Seq(Piece)
    <2>1. run[c].got \in Seq(Piece) /\ io[Io(c)].in \in Seq(Piece)
      BY <1>1, Using DEF Runs, Conns
    <2> QED BY <2>1
  <1>3. \/ \E keeps \in BOOLEAN : End(c, TRUE, keeps)
        \/ \E rest : Receive(c, run[c].due, got, rest)
    BY DEF Received
  <1>4. /\ run[c].due \in Nat /\ run[c].due <= now + Timeout /\ Soon(c, run[c]) /\ ~Scan
    BY <1>1, InCall
  <1>5. \/ /\ run[c].due <= run[c].began + Timeout + Timeout
           /\ run[c].due + Timeout + Spare <= run[c].began + Allowed(c)
        \/ Hasty /\ run[c].due <= now /\ run[c].due < run[c].began + Allowed(c)
    BY <1>4 DEF Soon
  <1> HIDE DEF got
  <1> QED BY <1>1, <1>2, <1>3, <1>4, <1>5, EndClocks, ReceiveClocks

LEMMA FailedClocks ==
    ASSUME ExchInv, Clocks, NEW c \in Coroutine, Failed(c)
    PROVE  Clocks'
  <1>1. Busy(c) /\ End(c, FALSE, FALSE) /\ Same
    BY DEF Failed, Busy
  <1> QED BY <1>1, EndClocks

\* The proxy's slots.  A handler waits for one Timeout at most.
LEMMA TakeSlotClocks ==
    ASSUME ExchInv, Clocks, NEW c \in Worker, NEW r \in Runs, Proxied(c), ~Busy(c), TakeSlot(c, r),
           Free(r.be) # {}, UNCHANGED <<prog, now>>, next' \in Nat,
           r.began <= now, now <= r.began + Timeout, r.n <= Count, r.n # Count
    PROVE  Clocks'
  <1> DEFINE F == Free(r.be)
             s == CHOOSE s \in F : \A t \in F : s <= t
             q == [r EXCEPT !.slot = s]
  <1>1. s \in Nat
    <2>1. F \in SUBSET Nat
      BY Numbers DEF Free
    <2>2. \E x \in F : \A y \in F : x <= y
      BY <2>1, LeastIs
    <2> HIDE DEF F
    <2> QED BY <2>1, <2>2
  <1>2. Exchanging(c, q)
    BY DEF TakeSlot
  <1> HIDE DEF s, F
  <1>3. q \in Runs /\ q.began = r.began /\ q.n = r.n
    BY <1>1 DEF Runs
  <1> HIDE DEF q
  <1>4. c \in Coroutine /\ ~Scan /\ ~Single
    BY Places DEF Proxied, Scan, Single
  <1> QED BY <1>2, <1>3, <1>4, ExchangingClocks

\* A handler waits on, or has done with this request.
LEMMA WaitClocks ==
    ASSUME ExchInv, Clocks, NEW c \in Worker, NEW q \in Runs, Proxied(c),
           run' = [run EXCEPT ![c] = q], UNCHANGED <<prog, now>>, next' \in Nat, q.n <= Count,
           \/ q.at = "idle"
           \/ q.at = "slot" /\ q.n # Count /\ q.last = now + 1 /\ q.began <= now
                            /\ now + 1 <= q.began + Timeout
    PROVE  Clocks'
  <1>1. c \in Coroutine /\ ~Scan /\ ~Single /\ Allowed(c) \in Nat /\ Timeout <= Allowed(c) /\ Timeout \in Nat
    BY Places, Allows DEF Proxied, Scan, Single
  <1>2. now \in Nat /\ q.began \in Nat /\ q.last \in Nat
    BY DEF ExchInv, Types, Runs
  <1>3. Timely(c, q)
    <2>1. CASE q.at = "idle"
      BY <2>1 DEF Timely, Calls
    <2>2. CASE q.at = "slot" /\ q.last = now + 1 /\ q.began <= now /\ now + 1 <= q.began + Timeout
      <3>1. now <= q.last /\ q.last <= q.began + Timeout /\ q.last <= q.began + Allowed(c)
        BY <1>1, <1>2, <2>2
      <3> QED BY <2>2, <3>1 DEF Timely, Calls
    <2> QED BY <2>1, <2>2
  <1>4. Paced(c, q, next')
    BY <1>1 DEF Paced
  <1> QED BY <1>1, <1>3, <1>4, ClocksStep

LEMMA BadGatewayClocks ==
    ASSUME ExchInv, Clocks, NEW c \in Worker, Proxied(c), BadGateway(c), UNCHANGED <<prog, now>>,
           next' \in Nat, run[c].n < Count
    PROVE  Clocks'
  <1> DEFINE q == [Idle EXCEPT !.n = run[c].n + 1]
  <1>1. run' = [run EXCEPT ![c] = q] /\ run[c].n \in Nat /\ Count \in Nat
    BY Places, Numbers DEF BadGateway, Go, ExchInv, Types, Runs
  <1>2. run[c].n + 1 \in Nat /\ run[c].n + 1 <= Count
    BY <1>1
  <1>3. q \in Runs /\ q.at = "idle" /\ q.n = run[c].n + 1
    BY <1>2, IdleIs DEF Runs
  <1> HIDE DEF q
  <1> QED BY <1>1, <1>2, <1>3, WaitClocks

LEMMA SleepClocks ==
    ASSUME ExchInv, Clocks, NEW c \in Worker, NEW r \in Runs, Proxied(c), SleepForSlot(c, r),
           UNCHANGED <<prog, now>>, next' \in Nat, r.n <= Count, r.n # Count,
           r.began <= now, now + 1 <= r.began + Timeout
    PROVE  Clocks'
  <1> DEFINE q == Waiting(r, "slot", 1)
  <1>1. run' = [run EXCEPT ![c] = q] /\ now \in Nat
    BY DEF SleepForSlot, Go, ExchInv, Types
  <1>2. q \in Runs /\ q.at = "slot" /\ q.last = now + 1 /\ q.n = r.n /\ q.began = r.began
    <2>1. Longest("slot", 1) = 1
      BY DEF Longest
    <2> QED BY <1>1, <2>1, WaitingIs, WaitingHas, LastIs
  <1> HIDE DEF q
  <1> QED BY <1>1, <1>2, WaitClocks

LEMMA ForwardClocks ==
    ASSUME ExchInv, Clocks, NEW c \in Worker, Forward(c)
    PROVE  Clocks'
  <1> DEFINE r == [run[c] EXCEPT !.began = now, !.be = FirstAlive]
  <1>1. /\ run[c].at = "idle" /\ ~Busy(c) /\ Proxied(c) /\ UNCHANGED <<prog, now>>
        /\ run[c].n < Count /\ run[c] \in Runs /\ now \in Nat /\ run[c].n \in Nat /\ Count \in Nat
    BY Places, Numbers DEF Forward, Same, ExchInv, Types, Runs, Busy
  <1>2. next' \in Nat
    <2>1. next \in Nat /\ next' = (next + 1) % Backends
      BY DEF Forward, ExchInv, Types
    <2> QED BY <2>1, Numbers
  <1>3. CASE \A b \in Backend : ~alive[b]
    BY <1>1, <1>2, <1>3, BadGatewayClocks DEF Forward
  <1>4. CASE ~(\A b \in Backend : ~alive[b])
    <2>1. FirstAlive \in Backend /\ FirstAlive \in Nat
      BY <1>4, FirstAliveIs, Numbers
    <2>2. IF Free(r.be) # {} THEN TakeSlot(c, r) ELSE SleepForSlot(c, r)
      BY <1>4 DEF Forward
    <2>3. r \in Runs /\ r.began = now /\ r.n = run[c].n
      BY <1>1, <2>1 DEF Runs
    <2> HIDE DEF r
    <2>4. /\ r.began <= now /\ now <= r.began + Timeout /\ now + 1 <= r.began + Timeout
          /\ r.n <= Count /\ r.n # Count
      <3>1. Timeout \in Nat \ {0}
        BY ExchangeAssumption
      <3> QED BY <1>1, <2>3, <3>1
    <2> QED BY <1>1, <1>2, <2>2, <2>3, <2>4, TakeSlotClocks, SleepClocks
  <1> QED BY <1>3, <1>4

LEMMA WaitedForSlotClocks ==
    ASSUME ExchInv, Clocks, NEW c \in Worker, WaitedForSlot(c)
    PROVE  Clocks'
  <1>1. /\ c \in Coroutine /\ run[c].at = "slot" /\ ~Busy(c) /\ UNCHANGED <<prog, now, next>>
        /\ run[c] \in Runs /\ now \in Nat /\ run[c].began \in Nat /\ run[c].n \in Nat /\ next' \in Nat
        /\ run[c].last \in Nat
    BY Places DEF WaitedForSlot, Same, ExchInv, Types, Runs, Busy
  <1>2. Proxied(c) /\ ~Scan /\ Count \in Nat /\ Timeout \in Nat
    BY <1>1, Numbers DEF ExchInv, Standing, At, Proxied, Scan
  <1>3. /\ run[c].began <= now /\ now <= run[c].began + Timeout
        /\ run[c].n <= Count /\ run[c].n # Count
    BY <1>1, <1>2 DEF Clocks, Timely, Paced
  <1>4. \/ Free(run[c].be) # {} /\ TakeSlot(c, run[c])
        \/ BadGateway(c)
        \/ ~(now - run[c].began >= Timeout) /\ SleepForSlot(c, run[c])
    BY DEF WaitedForSlot
  <1>5. CASE Free(run[c].be) # {} /\ TakeSlot(c, run[c])
    BY <1>1, <1>2, <1>3, <1>5, TakeSlotClocks
  <1>6. CASE BadGateway(c)
    <2>1. run[c].n < Count
      BY <1>1, <1>2, <1>3
    <2> QED BY <1>1, <1>2, <1>6, <2>1, BadGatewayClocks
  <1>7. CASE ~(now - run[c].began >= Timeout) /\ SleepForSlot(c, run[c])
    <2>1. now + 1 <= run[c].began + Timeout
      BY <1>1, <1>2, <1>7
    <2> QED BY <1>1, <1>2, <1>3, <1>7, <2>1, SleepClocks
  <1> QED BY <1>4, <1>5, <1>6, <1>7

LEMMA HealthClocks ==
    ASSUME ExchInv, Clocks, health_loop
    PROVE  Clocks'
  <1>1. /\ Probe \in Coroutine /\ Probe \notin Worker /\ run' = [run EXCEPT ![Probe] = Idle]
        /\ UNCHANGED <<prog, now, next>> /\ prog = "proxy" /\ next' \in Nat
    BY Places DEF health_loop, Go, Quiet, Same, ExchInv, Types
  <1>2. Idle \in Runs /\ Timely(Probe, Idle) /\ ~Scan
    BY <1>1, IdleIs DEF Timely, Calls, Scan
  <1> QED BY <1>1, <1>2, ClocksStep

LEMMA StillClocks ==
    ASSUME Clocks, UNCHANGED <<prog, now, run, next>>
    PROVE  Clocks'
  BY DEF Clocks, Timely, Soon, Spare, Hasty, Paced, Span, Allowed, Proxied, Single, Scan

\* Time passes: whoever is in a call is not due yet, and a worker that is not in one has
\* done all there is for it.
LEMMA TickClocks ==
    ASSUME ExchInv, Clocks, Tick
    PROVE  Clocks'
  <1>1. /\ now' = now + 1 /\ UNCHANGED <<prog, run, next>> /\ now \in Nat
        /\ \A c \in Worker : Done(c) \/ Suspended(c)
        /\ prog = "proxy" => Suspended(Probe)
        /\ \A c \in Coroutine : /\ run[c] \in Runs /\ run[c].last \in Nat /\ run[c].began \in Nat
                               /\ run[c].due \in Nat
    BY DEF Tick, ExchInv, Types, Runs
  <1>2. ASSUME NEW c \in Coroutine
        PROVE  Timely(c, run[c])'
    <2>1. CASE run[c].at \notin Calls \cup {"slot"}
      BY <1>1, <2>1 DEF Timely, Calls, Scan
    <2>2. CASE run[c].at \in Calls \cup {"slot"}
      <3>1. Suspended(c)
        <4>1. CASE c = Probe
          <5>1. run[c].at # "asleep"
            BY <2>2 DEF Calls
          <5> QED BY <1>1, <4>1, <5>1 DEF ExchInv, Standing, At
        <4>2. CASE c # Probe
          <5>1. c \in Worker /\ Paced(c, run[c], next) /\ run[c].at # "idle"
            BY <2>2, <4>2, Places DEF Clocks, Calls
          <5>2. ~Done(c)
            BY <5>1 DEF Paced, Done
          <5> QED BY <1>1, <5>1, <5>2
        <4> QED BY <4>1, <4>2
      <3>2. now' <= run[c].last /\ (run[c].began <= now => run[c].began <= now')
        BY <1>1, <3>1 DEF Suspended
      <3>3. Timely(c, run[c])
        BY DEF Clocks
      <3>4. run[c].due <= now + Timeout => run[c].due <= now' + Timeout
        BY <1>1, Allows
      <3>5. Soon(c, run[c]) => Soon(c, run[c])'
        <4>1. run[c].due <= now => run[c].due <= now'
          BY <1>1
        <4>2. Allowed(c)' = Allowed(c) /\ Spare' = Spare /\ (Hasty' <=> Hasty) /\ run' = run
          BY <1>1 DEF Allowed, Proxied, Scan, Spare, Hasty
        <4> QED BY <4>1, <4>2 DEF Soon
      <3>6. Allowed(c)' = Allowed(c) /\ (Hasty' <=> Hasty) /\ (Scan' <=> Scan)
        BY <1>1 DEF Allowed, Proxied, Scan, Hasty
      <3> QED BY <1>1, <2>2, <3>2, <3>3, <3>4, <3>5, <3>6 DEF Timely
    <2> QED BY <2>1, <2>2
  <1>3. ASSUME NEW c \in Worker
        PROVE  Paced(c, run[c], next)'
    <2>1. Paced(c, run[c], next) /\ (Done(c) \/ Suspended(c))
      BY <1>1 DEF Clocks
    <2>2. CASE run[c].at = "idle"
      <3>1. Done(c)
        BY <2>1, <2>2 DEF Suspended
      <3>2. Scan => next = Ports
        BY <3>1 DEF Done
      <3>3. ~Scan => run[c].n = Count
        BY <3>1 DEF Done
      <3>4. Single => ~Scan
        BY DEF Single, Scan
      <3>5. Ports \in Nat
        BY ExchangeAssumption
      <3> QED BY <1>1, <2>1, <2>2, <3>2, <3>3, <3>4, <3>5 DEF Paced, Single, Scan, Calls, Span, Allowed, Proxied
    <2>3. CASE run[c].at # "idle"
      BY <1>1, <2>1, <2>3 DEF Paced, Single, Scan, Span, Allowed, Proxied
    <2> QED BY <2>2, <2>3
  <1> QED BY <1>1, <1>2, <1>3 DEF Clocks, Scan
-----------------------------------------------------------------------------
(* What is counted.                                                        *)

\* The workers of the scan that have taken a port and are not done with it.
Scanning == {c \in Worker : Busy(c)}

LEMMA ScanningIs ==
    /\ IsFiniteSet(Worker) /\ IsFiniteSet(Scanning) /\ Cardinality(Scanning) \in Nat
    /\ Taken = IF Scan THEN next - Cardinality(Scanning) ELSE SumFunction([c \in Worker |-> run[c].n])
  <1>1. IsFiniteSet(Worker) /\ Scanning \subseteq Worker
    BY ExchangeAssumption DEF Scanning
  <1>2. IsFiniteSet(Scanning)
    BY <1>1, FS_Subset
  <1> QED BY <1>1, <1>2, FS_CardinalityType DEF Taken, Scanning

\* A step that no exchange ends with, or that is the proxy's.
LEMMA TallySame ==
    ASSUME Tally, prog' = prog, score' = score,
           prog # "proxy" /\ ~Scan => \A c \in Worker : run'[c].n = run[c].n,
           Scan => next' = next /\ \A c \in Worker : Busy(c)' <=> Busy(c)
    PROVE  Tally'
  <1> SUFFICES ASSUME prog # "proxy" PROVE score.ok + score.fail = Taken'
    BY DEF Tally
  <1>1. score.ok + score.fail = Taken
    BY DEF Tally
  <1>2. CASE Scan
    <2>1. Scan' /\ {c \in Worker : Busy(c)}' = {c \in Worker : Busy(c)} /\ next' = next
      BY <1>2 DEF Scan
    <2> QED BY <1>1, <1>2, <2>1 DEF Taken
  <1>3. CASE ~Scan
    <2>1. ~Scan' /\ [c \in Worker |-> run'[c].n] = [c \in Worker |-> run[c].n]
      BY <1>3 DEF Scan
    <2> QED BY <1>1, <1>3, <2>1 DEF Taken
  <1> QED BY <1>2, <1>3

\* A step of c alone.
LEMMA TallyGoesOn ==
    ASSUME ExchInv, Tally, NEW c \in Coroutine, NEW q \in Runs, run' = [run EXCEPT ![c] = q],
           UNCHANGED <<prog, score, next>>, q.n = run[c].n, Scan => (q.at \in Calls <=> Busy(c))
    PROVE  Tally'
  <1>1. run \in [Coroutine -> Runs] /\ Worker \subseteq Coroutine
    BY Places DEF ExchInv, Types
  <1>2. \A d \in Worker : run'[d].n = run[d].n
    BY <1>1
  <1>3. Scan => \A d \in Worker : Busy(d)' <=> Busy(d)
    <2>1. \A d \in Worker : Busy(d)' <=> run'[d].at \in Calls
      BY DEF Busy, Calls
    <2>2. \A d \in Worker : d # c => run'[d] = run[d]
      BY <1>1
    <2>3. run'[c] = q
      BY <1>1
    <2> QED BY <2>1, <2>2, <2>3 DEF Busy, Calls
  <1> QED BY <1>2, <1>3, TallySame

\* The port that a worker takes is one that it is busy with.
LEMMA TakePortTally ==
    ASSUME ExchInv, Tally, NEW c \in Coroutine, TakePort(c)
    PROVE  Tally'
  <1> DEFINE r == [run[c] EXCEPT !.began = now]
  <1>1. /\ Scan /\ Scan' /\ c \in Worker /\ ~Busy(c) /\ next' = next + 1 /\ next \in Nat
        /\ Exchanging(c, r) /\ run[c] \in Runs /\ now \in Nat /\ score' = score
        /\ score.ok + score.fail = Taken /\ run \in [Coroutine -> Runs] /\ Worker \subseteq Coroutine
    BY Places DEF TakePort, Same, Scan, Busy, ExchInv, Types, Tally
  <1>2. r \in Runs
    BY <1>1 DEF Runs
  <1>3. PICK q \in Runs : run' = [run EXCEPT ![c] = q] /\ q.at \in Calls
    <2> HIDE DEF r
    <2> QED BY <1>1, <1>2, ExchangingIs DEF Calls
  <1>4. Scanning' = Scanning \cup {c}
    <2>1. run'[c] = q /\ \A d \in Worker \ {c} : run'[d] = run[d]
      BY <1>1, <1>3
    <2>2. Busy(c)' /\ \A d \in Worker \ {c} : Busy(d)' <=> Busy(d)
      BY <1>3, <2>1 DEF Busy, Calls
    <2> QED BY <1>1, <2>2 DEF Scanning
  <1>5. c \notin Scanning /\ IsFiniteSet(Scanning)
    BY <1>1, ScanningIs DEF Scanning
  <1>6. Cardinality(Scanning \cup {c}) = Cardinality(Scanning) + 1
    BY <1>5, FS_AddElement
  <1>7. Taken' = next' - Cardinality(Scanning') /\ Taken = next - Cardinality(Scanning)
    BY <1>1 DEF Taken, Scanning
  <1>8. Taken' = Taken
    BY <1>1, <1>4, <1>6, <1>7, ScanningIs
  <1> QED BY <1>1, <1>8 DEF Tally

\* Every exchange that ends is counted.
LEMMA EndTally ==
    ASSUME ExchInv, Tally, NEW c \in Coroutine, Busy(c), NEW good \in BOOLEAN, NEW keeps \in BOOLEAN,
           End(c, good, keeps), Same
    PROVE  Tally'
  <1> SUFFICES ASSUME prog # "proxy" PROVE score'.ok + score'.fail = Taken'
    BY DEF Tally, Same
  <1> DEFINE q == [Idle EXCEPT !.n = run[c].n + 1]
  <1>1. /\ c # Probe /\ c \in Worker /\ ~Proxied(c) /\ prog' = prog /\ Worker \subseteq Coroutine
        /\ run \in [Coroutine -> Runs] /\ run[c] \in Runs /\ next \in Nat
        /\ score \in [ok : Nat, fail : Nat] /\ score.ok + score.fail = Taken
    BY IoIs, Places DEF ExchInv, Standing, At, Types, Proxied, Same, Tally, Calls
  <1>2. run' = [run EXCEPT ![c] = q] /\ Counted(good) /\ next' = next
    BY <1>1 DEF End, Go
  <1>3. run[c].n \in Nat /\ q.at = "idle" /\ q.n = run[c].n + 1
    BY <1>1, IdleIs DEF Runs
  <1>4. score'.ok + score'.fail = score.ok + score.fail + 1
    BY <1>1, <1>2 DEF Counted
  <1> HIDE DEF q
  <1>5. run'[c] = q /\ \A d \in Worker \ {c} : run'[d] = run[d]
    BY <1>1, <1>2
  <1>6. CASE Scan
    <2>1. Scanning' = Scanning \ {c}
      <3>1. ~Busy(c)' /\ \A d \in Worker \ {c} : Busy(d)' <=> Busy(d)
        BY <1>3, <1>5 DEF Busy
      <3> QED BY <1>1, <3>1 DEF Scanning
    <2>2. Cardinality(Scanning \ {c}) = Cardinality(Scanning) - 1
      <3>1. c \in Scanning /\ IsFiniteSet(Scanning)
        BY <1>1, ScanningIs DEF Scanning
      <3> QED BY <3>1, FS_RemoveElement
    <2>3. Taken' = next' - Cardinality(Scanning') /\ Taken = next - Cardinality(Scanning)
      BY <1>1, <1>6 DEF Taken, Scanning, Scan
    <2>4. Taken' = Taken + 1
      <3>1. Cardinality(Scanning) \in Nat
        BY ScanningIs
      <3> QED BY <1>1, <1>2, <2>1, <2>2, <2>3, <3>1
    <2> QED BY <1>1, <1>4, <2>4
  <1>7. CASE ~Scan
    <2> DEFINE f == [d \in Worker |-> run[d].n]
               g == [d \in Worker |-> run'[d].n]
    <2>1. Taken = SumFunction(f) /\ Taken' = SumFunction(g)
      BY <1>1, <1>7 DEF Taken, Scan
    <2>2. f \in [Worker -> Nat] /\ g \in [Worker -> Nat]
      <3>1. \A d \in Worker : run[d].n \in Nat
        BY <1>1 DEF Runs
      <3>2. \A d \in Worker : run'[d].n \in Nat
        BY <1>3, <1>5, <3>1
      <3> QED BY <3>1, <3>2
    <2>3. g[c] = f[c] + 1 /\ \A d \in Worker \ {c} : g[d] = f[d]
      BY <1>1, <1>3, <1>5
    <2> HIDE DEF f, g
    <2>4. SumFunction(g) = SumFunction(f) + 1
      BY <1>1, <2>2, <2>3, SumOneMore, ScanningIs
    <2> QED BY <1>1, <1>4, <2>1, <2>4
  <1> QED BY <1>6, <1>7

LEMMA BeginTally ==
    ASSUME ExchInv, Tally, NEW c \in Coroutine, Begin(c)
    PROVE  Tally'
  <1> DEFINE r == [run[c] EXCEPT !.began = now]
  <1>1. /\ ~Scan /\ ~Busy(c) /\ Exchanging(c, r) /\ UNCHANGED <<prog, score, next>>
        /\ run[c] \in Runs /\ now \in Nat
    BY DEF Begin, Quiet, Same, ExchInv, Types, Busy
  <1>2. r \in Runs /\ r.n = run[c].n
    BY <1>1 DEF Runs
  <1> HIDE DEF r
  <1>3. PICK q \in Runs : run' = [run EXCEPT ![c] = q] /\ q.n = r.n
    BY <1>1, <1>2, ExchangingIs
  <1> QED BY <1>1, <1>2, <1>3, TallyGoesOn

LEMMA ConnectedTally ==
    ASSUME ExchInv, Tally, NEW c \in Coroutine, Connected(c)
    PROVE  Tally'
  <1>1. run[c].at = "connect" /\ Busy(c)
    BY DEF Connected, Busy
  <1>2. CASE Scan
    BY <1>1, <1>2, EndTally DEF Connected
  <1>3. CASE ~Scan
    <2> DEFINE due == IF prog = "redis" THEN now + Timeout ELSE run[c].due
               r == [run[c] EXCEPT !.due = due]
               q == Waiting(r, "send", Left(due))
    <2>1. run' = [run EXCEPT ![c] = q] /\ UNCHANGED <<prog, score, next>>
      BY <1>3 DEF Connected, Quiet, Same, Go
    <2>2. due \in Nat /\ Left(due) \in Nat /\ run[c] \in Runs /\ now \in Nat
      <3>1. run[c] \in Runs /\ now \in Nat /\ due \in Nat
        BY <1>1, Using, Numbers
      <3> HIDE DEF due
      <3> QED BY <3>1, LeftIs
    <2> HIDE DEF due
    <2>3. r \in Runs /\ r.n = run[c].n
      BY <2>2 DEF Runs
    <2> HIDE DEF r
    <2>4. q \in Runs /\ q.n = run[c].n
      <3>1. q \in Runs
        BY ONLY <2>2, <2>3, WaitingIs DEF q
      <3>2. q.n = r.n
        BY ONLY <2>3, WaitingHas DEF q
      <3> QED BY ONLY <2>3, <3>1, <3>2
    <2> HIDE DEF q
    <2> QED BY <1>3, <2>1, <2>4, TallyGoesOn
  <1> QED BY <1>2, <1>3

LEMMA ReceiveTally ==
    ASSUME ExchInv, Tally, NEW c \in Coroutine, Busy(c), NEW due \in Nat, NEW got \in Seq(Piece),
           NEW rest, Receive(c, due, got, rest), Same
    PROVE  Tally'
  <1>1. CASE Left(due) > 0 \/ (Hasty /\ due = now)
    <2> DEFINE r == [run[c] EXCEPT !.due = due, !.got = got]
               q == Waiting(r, "recv", Left(due))
    <2>1. run' = [run EXCEPT ![c] = q] /\ UNCHANGED <<prog, score, next>>
      BY <1>1 DEF Receive, Go, Same
    <2>2. run[c] \in Runs /\ now \in Nat /\ Left(due) \in Nat
      BY Using, LeftIs
    <2>3. r \in Runs /\ r.n = run[c].n
      BY <2>2 DEF Runs
    <2> HIDE DEF r
    <2>4. q \in Runs /\ q.n = run[c].n /\ q.at \in Calls
      <3>1. q \in Runs
        BY ONLY <2>2, <2>3, WaitingIs DEF q
      <3>2. q.n = r.n /\ q.at = "recv"
        BY ONLY <2>3, WaitingHas DEF q
      <3> QED BY ONLY <2>3, <3>1, <3>2 DEF Calls
    <2> HIDE DEF q
    <2> QED BY <2>1, <2>4, TallyGoesOn
  <1>2. CASE ~(Left(due) > 0 \/ (Hasty /\ due = now))
    BY <1>2, EndTally DEF Receive
  <1> QED BY <1>1, <1>2

LEMMA CallTally ==
    ASSUME ExchInv, Tally, NEW c \in Coroutine, Sent(c) \/ Received(c) \/ Failed(c)
    PROVE  Tally'
  <1>1. Busy(c) /\ Same
    BY DEF Sent, Received, Failed, Busy
  <1>2. CASE Sent(c)
    <2>1. <<>> \in Seq(Piece) /\ \E due \in Nat : \E rest : Receive(c, due, <<>>, rest)
      <3>1. (IF Hasty /\ run[c].due < now THEN now ELSE run[c].due) \in Nat
        BY <1>1, Using
      <3> QED BY <1>2, <3>1 DEF Sent
    <2> QED BY <1>1, <2>1, ReceiveTally
  <1>3. CASE Received(c)
    <2> DEFINE got == run[c].got \o io[Io(c)].in
    <2>1. got \in Seq(Piece)
      <3>1. run[c].got \in Seq(Piece) /\ io[Io(c)].in \in Seq(Piece)
        BY <1>1, Using DEF Runs, Conns
      <3> QED BY <3>1
    <2>2. \/ \E keeps \in BOOLEAN : End(c, TRUE, keeps)
          \/ \E rest : Receive(c, run[c].due, got, rest)
      BY <1>3 DEF Received
    <2>3. run[c].due \in Nat
      BY <1>1, Using
    <2> HIDE DEF got
    <2> QED BY <1>1, <2>1, <2>2, <2>3, EndTally, ReceiveTally
  <1>4. CASE Failed(c)
    BY <1>1, <1>4, EndTally DEF Failed
  <1> QED BY <1>2, <1>3, <1>4
-----------------------------------------------------------------------------
(* The time and the tally together.                                        *)

LEMMA InitTime == Init => TimeInv
  <1> SUFFICES ASSUME Init PROVE TimeInv
    OBVIOUS
  <1> DEFINE asleep == Waiting(Idle, "asleep", Health)
  <1>1. /\ run = [c \in Coroutine |-> IF c = Probe THEN asleep ELSE Idle]
        /\ next = 0 /\ now = 0 /\ main = "waits" /\ score.ok = 0 /\ score.fail = 0
        /\ asleep.at = "asleep" /\ Idle.at = "idle" /\ Idle.n = 0
    <2>1. now \in Nat
      BY DEF Init
    <2>2. asleep.at = "asleep"
      BY <2>1, IdleIs, Numbers, WaitingIs, WaitingHas
    <2> HIDE DEF asleep
    <2> QED BY <2>2 DEF Init, Idle, asleep
  <1> HIDE DEF asleep
  <1>2. \A c \in Worker : c \in Coroutine /\ run[c] = Idle /\ ~Busy(c)
    BY <1>1, Places DEF Busy
  <1>3. \A c \in Worker : Span(c, 0) \in Nat
    BY <1>2, Spans
  <1>4. Clocks
    <2>1. \A c \in Coroutine : run[c].at \notin Calls \cup {"slot"}
      BY <1>1 DEF Calls
    <2>2. \A c \in Worker : Paced(c, run[c], next)
      <3>1. 0 <= Count /\ \A c \in Worker : 0 <= Span(c, 0)
        BY <1>3, Numbers
      <3> QED BY <1>1, <1>2, <3>1 DEF Paced, Calls
    <2>3. next <= Ports
      BY <1>1, ExchangeAssumption
    <2>4. \A c \in Coroutine : run[c].at \in {"idle", "asleep"}
      BY <1>1
    <2> QED BY <2>1, <2>2, <2>3, <2>4 DEF Clocks, Timely, Calls
  <1>5. Tally
    <2>1. CASE Scan
      <3>1. {c \in Worker : Busy(c)} = {}
        BY <1>2
      <3>2. Taken = 0 - 0
        BY <1>1, <2>1, <3>1, FS_EmptySet DEF Taken
      <3> QED BY <1>1, <3>2 DEF Tally
    <2>2. CASE ~Scan
      <3> DEFINE f == [c \in Worker |-> run[c].n]
      <3>1. f \in [Worker -> Nat] /\ \A c \in Worker : f[c] = 0
        BY <1>1, <1>2
      <3>2. Taken = SumFunction(f)
        BY <2>2 DEF Taken
      <3> HIDE DEF f
      <3>3. SumFunction(f) = 0
        BY <3>1, SumOfZeros, ScanningIs
      <3> QED BY <1>1, <3>2, <3>3 DEF Tally
    <2> QED BY <2>1, <2>2
  <1>6. Patience
    BY <1>1 DEF Patience
  <1> QED BY <1>4, <1>5, <1>6 DEF TimeInv

\* Where main does not wait for its workers, they may take as long as it waits.
LEMMA ReportPatience ==
    ASSUME ExchInv, Clocks, Report
    PROVE  Patience'
  <1> SUFFICES ASSUME NEW c \in Worker, ~Done(c), now >= Deadline
               PROVE  Deadline <= Rounds * Allowed(c)
    BY DEF Report, Patience, Done, Scan, Deadline, Rounds, Allowed, Proxied
  <1>1. /\ prog # "proxy" /\ c \in Coroutine /\ run[c] \in Runs /\ now \in Nat
        /\ next \in Nat /\ run[c].n \in Nat /\ run[c].began \in Nat /\ run[c].last \in Nat
        /\ At(c, run[c])
    BY Places DEF Report, ExchInv, Types, Runs, Standing
  <1>2. /\ Timeout \in Nat /\ Ports \in Nat /\ Count \in Nat /\ Allowed(c) \in Nat
        /\ Deadline \in Int /\ Rounds \in Nat
    <2>1. Timeout \in Nat /\ Ports \in Nat /\ Count \in Nat /\ Slack \in Nat /\ Allowed(c) \in Nat
      BY <1>1, Allows
    <2> QED BY <2>1 DEF Deadline, Rounds
  <1>3. run[c].at = "idle" \/ run[c].at \in Calls
    BY <1>1 DEF Clocks, Paced, Runs, At, Proxied, Calls
  <1>4. /\ Paced(c, run[c], next)
        /\ Scan => next <= Ports
        /\ run[c].at \in Calls => now <= run[c].last /\ run[c].last <= run[c].began + Allowed(c)
    BY <1>1 DEF Clocks, Timely
  <1>5. Scan \/ Single
    BY <1>1 DEF Single, Scan
  <1>6. now <= Span(c, Rounds)
    <2>1. CASE Scan
      <3>1. Span(c, next) \in Nat /\ Span(c, Ports) \in Nat /\ Span(c, next) <= Span(c, Ports)
        BY <1>1, <1>2, <1>4, <2>1, Spans
      <3>2. now <= Span(c, next)
        <4>1. CASE run[c].at = "idle"
          <5>1. next < Ports
            BY <1>1, <1>2, <1>4, <2>1, <4>1 DEF Done
          <5> QED BY <1>4, <2>1, <4>1, <5>1 DEF Paced
        <4>2. CASE run[c].at \in Calls
          <5>1. run[c].began + Allowed(c) <= Span(c, next)
            BY <1>4, <2>1, <4>2 DEF Paced
          <5> QED BY <1>1, <1>2, <1>4, <3>1, <4>2, <5>1
        <4> QED BY <1>3, <4>1, <4>2
      <3> QED BY <1>1, <2>1, <3>1, <3>2 DEF Rounds
    <2>2. CASE Single /\ ~Scan
      <3>1. run[c].n <= Count /\ run[c].n # Count
        BY <1>1, <1>4, <2>2 DEF Paced, Done
      <3>2. /\ Span(c, run[c].n) \in Nat /\ Span(c, run[c].n + 1) = Span(c, run[c].n) + Allowed(c)
            /\ Span(c, Count) \in Nat /\ Span(c, run[c].n + 1) <= Span(c, Count)
        <4>1. run[c].n + 1 \in Nat /\ run[c].n + 1 <= Count
          BY <1>1, <1>2, <3>1
        <4> QED BY <1>1, <1>2, <4>1, Spans
      <3>3. now <= Span(c, run[c].n + 1)
        <4>1. CASE run[c].at = "idle"
          <5>1. now <= Span(c, run[c].n)
            BY <1>4, <2>2, <3>1, <4>1 DEF Paced
          <5> QED BY <1>1, <1>2, <3>2, <5>1
        <4>2. CASE run[c].at \in Calls
          <5>1. run[c].began <= Span(c, run[c].n)
            BY <1>4, <2>2, <4>2 DEF Paced
          <5> QED BY <1>1, <1>2, <1>4, <3>2, <4>2, <5>1
        <4> QED BY <1>3, <4>1, <4>2
      <3> QED BY <1>1, <1>2, <2>2, <3>2, <3>3 DEF Rounds
    <2> QED BY <1>5, <2>1, <2>2
  <1>7. Span(c, Rounds) = Rounds * Allowed(c) /\ Span(c, Rounds) \in Nat
    BY <1>1, <1>2, Spans DEF Span
  <1> QED BY <1>1, <1>2, <1>6, <1>7

LEMMA NextTime == ExchInv /\ TimeInv /\ [Next]_vars => TimeInv'
  <1> SUFFICES ASSUME ExchInv, TimeInv, [Next]_vars PROVE TimeInv'
    OBVIOUS
  <1>1. Clocks /\ Tally /\ Patience
    BY DEF TimeInv
  <1>2. CASE UNCHANGED vars
    <2>1. Clocks' /\ Tally'
      BY <1>1, <1>2, StillClocks, TallySame DEF vars, Busy
    <2>2. Patience'
      BY <1>1, <1>2 DEF Patience, vars, Done, Scan, Deadline, Rounds, Allowed, Proxied
    <2> QED BY <2>1, <2>2 DEF TimeInv
  <1>3. ASSUME main = "waits", main' = main PROVE Patience'
    BY <1>3 DEF Patience
  <1>4. ASSUME NEW c \in Coroutine, main = "waits",
               Begin(c) \/ TakePort(c) \/ Connected(c) \/ Sent(c) \/ Received(c) \/ Failed(c)
        PROVE  TimeInv'
    <2>1. Clocks'
      BY <1>1, <1>4, BeginClocks, TakePortClocks, ConnectedClocks, SentClocks, ReceivedClocks, FailedClocks
    <2>2. Tally'
      BY <1>1, <1>4, BeginTally, TakePortTally, ConnectedTally, CallTally
    <2>3. main' = main
      BY <1>4 DEF Begin, TakePort, Connected, Sent, Received, Failed, Quiet, Same
    <2> QED BY <1>3, <1>4, <2>1, <2>2, <2>3 DEF TimeInv
  <1>5. ASSUME NEW c \in Worker, main = "waits", Forward(c) \/ WaitedForSlot(c)
        PROVE  TimeInv'
    <2>1. Clocks'
      BY <1>1, <1>5, ForwardClocks, WaitedForSlotClocks
    <2>2. prog = "proxy"
      BY <1>5, Places DEF Forward, WaitedForSlot, Proxied, ExchInv, Standing, At
    <2>3. main' = main /\ prog' = prog
      BY <1>5 DEF Forward, WaitedForSlot, Same
    <2> QED BY <1>3, <1>5, <2>1, <2>2, <2>3 DEF TimeInv, Tally
  <1>6. ASSUME NEW h \in Holder, main = "waits", Answer(h) \/ Shut(h)
        PROVE  TimeInv'
    <2>1. UNCHANGED <<prog, now, run, next, main, score>>
      BY <1>6 DEF Answer, Shut, Quiet, Same
    <2>2. Clocks' /\ Tally'
      BY <1>1, <2>1, StillClocks, TallySame DEF Busy
    <2> QED BY <1>3, <1>6, <2>1, <2>2 DEF TimeInv
  <1>7. CASE main = "waits" /\ health_loop
    <2>1. Clocks' /\ main' = main /\ prog' = prog /\ prog = "proxy"
      BY <1>1, <1>7, HealthClocks DEF health_loop, Quiet, Same
    <2> QED BY <1>3, <1>7, <2>1 DEF TimeInv, Tally
  <1>8. CASE main = "waits" /\ Tick
    <2>1. UNCHANGED <<prog, run, next, main, score>>
      BY <1>8 DEF Tick
    <2>2. Clocks' /\ Tally'
      BY <1>1, <1>8, <2>1, TickClocks, TallySame DEF Busy
    <2> QED BY <1>3, <1>8, <2>1, <2>2 DEF TimeInv
  <1>9. CASE main = "waits" /\ Report
    <2>1. UNCHANGED <<prog, now, run, next, score>>
      BY <1>9 DEF Report
    <2>2. Clocks' /\ Tally'
      BY <1>1, <2>1, StillClocks, TallySame DEF Busy
    <2> QED BY <1>1, <1>9, <2>2, ReportPatience DEF TimeInv
  <1> QED BY <1>2, <1>4, <1>5, <1>6, <1>7, <1>8, <1>9 DEF Next

LEMMA InvInTime == ExchInv /\ TimeInv => InTime
  <1> SUFFICES ASSUME ExchInv, TimeInv PROVE InTime
    OBVIOUS
  <1>1. ASSUME NEW c \in Coroutine, run[c].at \notin {"idle", "asleep"}
        PROVE  now - run[c].began <= Allowed(c)
    <2>1. /\ run[c].at \in Calls \cup {"slot"} /\ now \in Nat /\ run[c].began \in Nat
          /\ run[c].last \in Nat /\ Allowed(c) \in Nat
      BY <1>1, Allows DEF ExchInv, Types, Runs, Calls
    <2>2. now <= run[c].last /\ run[c].last <= run[c].began + Allowed(c)
      BY <2>1 DEF TimeInv, Clocks, Timely
    <2> QED BY <2>1, <2>2
  <1> QED BY <1>1 DEF InTime, TimeInv, Tally, Patience

\* Every exchange ends in the time that two waits of its calls leave it; main reports before
\* its workers are done only if their exchanges may take as long as it waits; and what it
\* reports counts every exchange, and every port that was taken, once.
THEOREM InTimeAlways == Spec => []InTime
  <1>1. Init => ExchInv /\ TimeInv
    BY InitInv, InitTime
  <1>2. ExchInv /\ TimeInv /\ [Next]_vars => (ExchInv /\ TimeInv)'
    BY NextInv, NextTime
  <1>3. ExchInv /\ TimeInv => InTime
    BY InvInTime
  <1> QED BY <1>1, <1>2, <1>3, PTL DEF Spec
=============================================================================

-------------------------- MODULE Scheduler_proofs --------------------------
(***************************************************************************)
(* scheduler.go keeps the promise of TimedQueue for any units and times.   *)
(* Two things are inductive: the table and the heap are inverse to each    *)
(* other (Tabled), and no entry is due before the one above it (Ordered).  *)
(* While container/heap moves an entry the order holds except around it    *)
(* (RisesIn, SinksIn).  A climb or a descent is a recursive function of    *)
(* the number of levels gone; what holds at every level is shown by the    *)
(* first level where it would not.                                         *)
(***************************************************************************)
EXTENDS Scheduler, WellFoundedInduction, SequenceTheorems, TLAPS

\* When the entry at place k is due.
At(s, k) == s.event[s.heap[k]].when

Due(s) == [u \in DOMAIN s.event |-> s.event[u].when]

Tabled(s) ==
  /\ s.heap \in Seq(Units) /\ DOMAIN s.event \subseteq Units
  /\ s.event \in [DOMAIN s.event -> [when : Times, index : Nat]]
  /\ \A k \in 1 .. Len(s.heap) :
        s.heap[k] \in DOMAIN s.event /\ s.event[s.heap[k]].index = k
  /\ \A u \in DOMAIN s.event :
        s.event[u].index \in 1 .. Len(s.heap) /\ s.heap[s.event[u].index] = u

\* Among the first n places no entry is due before the one above it.
Ordered(s, n) == \A k \in 2 .. n : At(s, k \div 2) <= At(s, k)

\* The entries below place i are not due before the one above i.
Bridges(s, i, n) ==
  i > 1 => \A k \in 2 .. n : k \div 2 = i => At(s, i \div 2) <= At(s, k)

\* The entry at place i may be due too soon for its place.
RisesIn(s, i, n) ==
  /\ \A k \in 2 .. n : k # i => At(s, k \div 2) <= At(s, k)
  /\ Bridges(s, i, n)

\* The entry that started at place i and is at place j may be due too late for it,
\* or, where it started, too soon.
SinksIn(s, i, j, n) ==
  /\ \A k \in 2 .. n : k \div 2 # j /\ (k # j \/ j # i) => At(s, k \div 2) <= At(s, k)
  /\ Bridges(s, j, n)

-----------------------------------------------------------------------------
(* Numbers *)

(* Among indices there is always a first.                                  *)
LEMMA FirstIndex ==
  ASSUME NEW S \in SUBSET Nat, S # {}
  PROVE  \E x \in S : \A y \in S : x <= y
<1> DEFINE R == {ss \in Nat \X Nat : ss[1] < ss[2]}
<1>1. OpToRel(<, Nat) = R
  BY DEF OpToRel
<1>2. IsWellFoundedOn(R, Nat)
  BY <1>1, NatLessThanWellFounded, Zenon
<1> HIDE DEF R
<1>3. PICK x \in S : \A y \in S : <<y, x>> \notin R
  BY <1>2, WFMin
<1>4. \A y \in S : ~(y < x)
  BY <1>3 DEF R
<1> QED
  BY <1>4

(* The place above another: Go's (j-1)/2 for places that start at 0.       *)
LEMMA Above ==
  ASSUME NEW k \in Nat, k > 1
  PROVE  /\ k \div 2 \in 1 .. k - 1
         /\ k = 2 * (k \div 2) \/ k = 2 * (k \div 2) + 1
<1>1. k \div 2 \in Nat /\ 2 * (k \div 2) <= k /\ k <= 2 * (k \div 2) + 1
  OBVIOUS
<1> QED
  BY <1>1

LEMMA Below ==
  ASSUME NEW j \in Nat, NEW k \in Nat, k = 2 * j \/ k = 2 * j + 1
  PROVE  k \div 2 = j
  OBVIOUS

(* The head of an ordered heap is due first.                               *)
LEMMA HeadIsFirst ==
  ASSUME NEW s, NEW n \in Nat, n > 0, Ordered(s, n), \A k \in 1 .. n : At(s, k) \in Int
  PROVE  \A k \in 1 .. n : At(s, 1) <= At(s, k)
<1> DEFINE Bad == {k \in 1 .. n : ~(At(s, 1) <= At(s, k))}
<1>1. SUFFICES ASSUME Bad # {}
               PROVE  FALSE
  OBVIOUS
<1>2. PICK k \in Bad : \A j \in Bad : k <= j
  <2>1. Bad \in SUBSET Nat
    OBVIOUS
  <2> HIDE DEF Bad
  <2> QED
    BY <1>1, <2>1, FirstIndex
<1>3. k \in 2 .. n
  BY <1>2
<1>4. k \div 2 \in 1 .. k - 1
  BY <1>3, Above
<1>5. At(s, 1) <= At(s, k \div 2)
  BY <1>2, <1>3, <1>4
<1>6. At(s, k \div 2) <= At(s, k)
  BY <1>3 DEF Ordered
<1> QED
  BY <1>2, <1>3, <1>4, <1>5, <1>6

-----------------------------------------------------------------------------
(* eventHeap *)

(* What is numbered from 1 to n is a sequence of n.                        *)
LEMMA IsSequence ==
  ASSUME NEW S, NEW n \in Nat, NEW h \in [1 .. n -> S]
  PROVE  h \in Seq(S) /\ Len(h) = n
<1>1. h \in Seq(S)
  BY SeqDef
<1> QED
  BY <1>1, LenProperties

(* An entry is told its place.                                             *)
LEMMA PlaceTold ==
  ASSUME NEW e, NEW S, e \in [S -> [when : Times, index : Nat]], NEW x \in S, NEW i \in Nat
  PROVE  LET g == [e EXCEPT ![x].index = i] IN
         /\ g \in [S -> [when : Times, index : Nat]]
         /\ \A u \in S : /\ g[u].when = e[u].when
                        /\ g[u].index = IF u = x THEN i ELSE e[u].index
<1> DEFINE g == [e EXCEPT ![x].index = i]
<1>1. \A u \in S : e[u] \in [when : Times, index : Nat]
  OBVIOUS
<1>2. g[x] = [e[x] EXCEPT !.index = i] /\ DOMAIN g = S
  OBVIOUS
<1>3. g[x] \in [when : Times, index : Nat] /\ g[x].when = e[x].when /\ g[x].index = i
  BY <1>1, <1>2
<1>4. \A u \in S : u # x => g[u] = e[u]
  OBVIOUS
<1>5. g = [u \in S |-> g[u]]
  OBVIOUS
<1> HIDE DEF g
<1>6. \A u \in S : g[u] \in [when : Times, index : Nat]
  BY <1>1, <1>3, <1>4
<1>7. g \in [S -> [when : Times, index : Nat]]
  BY <1>5, <1>6
<1> QED
  BY <1>3, <1>4, <1>7 DEF g

(* Swap moves two entries with their places and nothing else.              *)
LEMMA SwapMoves ==
  ASSUME NEW s, Tabled(s), NEW i \in 1 .. Len(s.heap), NEW j \in 1 .. Len(s.heap)
  PROVE  LET t == Swap(s, i, j) IN
         /\ Tabled(t) /\ Len(t.heap) = Len(s.heap) /\ Due(t) = Due(s)
         /\ \A k \in 1 .. Len(s.heap) :
              t.heap[k] = IF k = i THEN s.heap[j] ELSE IF k = j THEN s.heap[i] ELSE s.heap[k]
         /\ \A k \in 1 .. Len(s.heap) :
              At(t, k) = IF k = i THEN At(s, j) ELSE IF k = j THEN At(s, i) ELSE At(s, k)
<1> DEFINE t == Swap(s, i, j)
           n == Len(s.heap)
<1>1. /\ n \in Nat /\ s.heap \in [1 .. n -> Units] /\ i \in 1 .. n /\ j \in 1 .. n
      /\ \A k \in 1 .. n : s.heap[k] \in DOMAIN s.event /\ s.event[s.heap[k]].index = k
  BY LenProperties DEF Tabled
<1>2. t.heap = [s.heap EXCEPT ![i] = s.heap[j], ![j] = s.heap[i]]
  BY DEF Swap
<1>3. t.event = [s.event EXCEPT ![s.heap[j]].index = i, ![s.heap[i]].index = j]
  BY DEF Swap
<1> HIDE DEF t
<1>4. /\ t.heap \in [1 .. n -> Units]
      /\ \A k \in 1 .. n :
           t.heap[k] = IF k = i THEN s.heap[j] ELSE IF k = j THEN s.heap[i] ELSE s.heap[k]
  <2> DEFINE h == s.heap
  <2>1. h \in [1 .. n -> Units] /\ i \in 1 .. n /\ j \in 1 .. n
    BY <1>1
  <2>2. t.heap = [h EXCEPT ![i] = h[j], ![j] = h[i]]
    BY <1>2
  <2> HIDE DEF h, n
  <2>3. \A k \in 1 .. n :
          t.heap[k] = IF k = i THEN h[j] ELSE IF k = j THEN h[i] ELSE h[k]
    BY <2>1, <2>2
  <2>4. t.heap \in [1 .. n -> Units]
    BY <2>1, <2>2
  <2> QED
    BY <2>3, <2>4 DEF h
<1>5. t.heap \in Seq(Units) /\ Len(t.heap) = n
  <2>1. n \in Nat /\ t.heap \in [1 .. n -> Units]
    BY <1>1, <1>4
  <2> HIDE DEF n
  <2> QED
    BY <2>1, IsSequence
<1>6. /\ DOMAIN t.event = DOMAIN s.event
      /\ t.event \in [DOMAIN s.event -> [when : Times, index : Nat]]
      /\ \A u \in DOMAIN s.event :
           /\ t.event[u].when = s.event[u].when
           /\ t.event[u].index = IF u = s.heap[i] THEN j
                                 ELSE IF u = s.heap[j] THEN i ELSE s.event[u].index
  <2> DEFINE e == [s.event EXCEPT ![s.heap[j]].index = i]
  <2>1. i \in Nat /\ j \in Nat /\ s.heap[i] \in DOMAIN s.event /\ s.heap[j] \in DOMAIN s.event
    BY <1>1
  <2>2. s.event \in [DOMAIN s.event -> [when : Times, index : Nat]]
    BY DEF Tabled
  <2>3. /\ e \in [DOMAIN s.event -> [when : Times, index : Nat]]
        /\ \A u \in DOMAIN s.event :
             /\ e[u].when = s.event[u].when
             /\ e[u].index = IF u = s.heap[j] THEN i ELSE s.event[u].index
    BY <2>1, <2>2, PlaceTold
  <2>4. t.event = [e EXCEPT ![s.heap[i]].index = j]
    BY <1>3
  <2> HIDE DEF e
  <2>5. /\ t.event \in [DOMAIN s.event -> [when : Times, index : Nat]]
        /\ \A u \in DOMAIN s.event :
             /\ t.event[u].when = e[u].when
             /\ t.event[u].index = IF u = s.heap[i] THEN j ELSE e[u].index
    BY <2>1, <2>3, <2>4, PlaceTold
  <2> QED
    BY <2>3, <2>5
<1>7. Tabled(t)
  <2>1. ASSUME NEW k \in 1 .. n
        PROVE  t.heap[k] \in DOMAIN t.event /\ t.event[t.heap[k]].index = k
    <3>1. PICK l \in 1 .. n : /\ t.heap[k] = s.heap[l]
                              /\ k = IF l = i THEN j ELSE IF l = j THEN i ELSE l
      BY <1>1, <1>4
    <3>2. s.heap[l] \in DOMAIN s.event /\ s.event[s.heap[l]].index = l
      BY <1>1
    <3>3. (s.heap[l] = s.heap[i] => l = i) /\ (s.heap[l] = s.heap[j] => l = j)
      BY <1>1
    <3> QED
      BY <1>6, <3>1, <3>2, <3>3
  <2>2. ASSUME NEW u \in DOMAIN t.event
        PROVE  t.event[u].index \in 1 .. n /\ t.heap[t.event[u].index] = u
    <3>1. s.event[u].index \in 1 .. n /\ s.heap[s.event[u].index] = u
      BY <1>6 DEF Tabled
    <3> DEFINE l == s.event[u].index
    <3>2. l \in 1 .. n /\ u = s.heap[l]
      BY <3>1
    <3>3. t.event[u].index = IF u = s.heap[i] THEN j ELSE IF u = s.heap[j] THEN i ELSE l
      BY <1>6
    <3> HIDE DEF l
    <3>4. CASE u = s.heap[i]
      <4>1. t.heap[j] = s.heap[i]
        BY <1>1, <1>4
      <4> QED
        BY <1>1, <3>3, <3>4, <4>1
    <3>5. CASE u # s.heap[i] /\ u = s.heap[j]
      <4>1. t.heap[i] = s.heap[j]
        BY <1>1, <1>4
      <4> QED
        BY <1>1, <3>3, <3>5, <4>1
    <3>6. CASE u # s.heap[i] /\ u # s.heap[j]
      <4>1. t.heap[l] = s.heap[l]
        BY <1>4, <3>2, <3>6
      <4> QED
        BY <3>2, <3>3, <3>6, <4>1
    <3> QED
      BY <3>4, <3>5, <3>6
  <2> QED
    BY <1>5, <1>6, <2>1, <2>2 DEF Tabled
<1>8. Due(t) = Due(s)
  BY <1>6 DEF Due
<1>9. ASSUME NEW k \in 1 .. n
      PROVE  At(t, k) = IF k = i THEN At(s, j) ELSE IF k = j THEN At(s, i) ELSE At(s, k)
  <2>1. \A l \in 1 .. n : t.event[s.heap[l]].when = s.event[s.heap[l]].when
    BY <1>1, <1>6
  <2>2. t.heap[k] = IF k = i THEN s.heap[j] ELSE IF k = j THEN s.heap[i] ELSE s.heap[k]
    BY <1>4
  <2>3. i \in 1 .. n /\ j \in 1 .. n
    BY <1>1
  <2> QED
    BY <2>1, <2>2, <2>3 DEF At
<1> QED
  BY <1>4, <1>5, <1>7, <1>8, <1>9 DEF t

(* What is due is a number.                                                *)
LEMMA AtTyped ==
  ASSUME NEW s, Tabled(s)
  PROVE  \A k \in 1 .. Len(s.heap) : At(s, k) \in Int /\ At(s, k) \in Times
  BY TimesAssumption DEF At, Tabled

-----------------------------------------------------------------------------
(* container/heap: one level *)

\* q is p after moves among the first n places: the same launches at the same times.
Moved(p, q, n) ==
  /\ Tabled(q) /\ Len(q.heap) = Len(p.heap) /\ Due(q) = Due(p)
  /\ \A k \in 1 .. Len(p.heap) : k > n => q.heap[k] = p.heap[k]

LEMMA MovedOnce ==
  ASSUME NEW s, Tabled(s), NEW n \in 1 .. Len(s.heap), NEW i \in 1 .. n, NEW j \in 1 .. n
  PROVE  Moved(s, Swap(s, i, j), n)
<1>1. Len(s.heap) \in Nat
  BY LenProperties DEF Tabled
<1>2. i \in 1 .. Len(s.heap) /\ j \in 1 .. Len(s.heap)
  BY <1>1
<1> QED
  BY <1>1, <1>2, SwapMoves DEF Moved

\* No level is left to rise or to sink.
Risen(p) == ~(p.at > 1 /\ Less(p.s, p.at, p.at \div 2))
Sunk(p, n) == \A k \in 2 .. n : k \div 2 = p.at => At(p.s, p.at) <= At(p.s, k)

(* up, one level: the entry changes places with the one above it, which is *)
(* due later; everything else keeps its order.                             *)
LEMMA RiseKeeps ==
  ASSUME NEW p, Tabled(p.s), NEW n \in 1 .. Len(p.s.heap), p.at \in 1 .. n,
         RisesIn(p.s, p.at, n)
  PROVE  /\ Moved(p.s, Rise(p).s, n) /\ Rise(p).at \in 1 .. n
         /\ RisesIn(Rise(p).s, Rise(p).at, n)
         /\ IF Risen(p) THEN Rise(p) = p ELSE Rise(p).at < p.at
<1> DEFINE s == p.s
           j == p.at
           up == j \div 2
           t == Swap(s, up, j)
<1>1. Len(s.heap) \in Nat /\ n \in Nat /\ j \in Nat
  BY LenProperties DEF Tabled
<1>2. \A k \in 1 .. n : At(s, k) \in Int
  BY <1>1, AtTyped
<1>3. CASE Risen(p)
  <2>1. Rise(p) = p
    BY <1>3 DEF Risen, Rise
  <2> QED
    BY <1>3, <2>1 DEF Moved
<1>4. CASE ~Risen(p)
  <2>1. j > 1 /\ Rise(p).s = t /\ Rise(p).at = up
    BY <1>4 DEF Risen, Rise
  <2>2. up \in 1 .. j - 1 /\ up \in 1 .. n
    BY <1>1, <2>1, Above
  <2>3. At(s, j) < At(s, up)
    BY <1>4 DEF Risen, Less, At
  <2>4. Moved(s, t, n)
    BY <2>2, MovedOnce
  <2>5. \A k \in 1 .. n :
          At(t, k) = IF k = up THEN At(s, j) ELSE IF k = j THEN At(s, up) ELSE At(s, k)
    <3>1. up \in 1 .. Len(s.heap) /\ j \in 1 .. Len(s.heap)
      BY <1>1, <2>2
    <3>2. \A k \in 1 .. n : k \in 1 .. Len(s.heap)
      BY <1>1
    <3> QED
      BY <3>1, <3>2, SwapMoves
  <2> HIDE DEF t
  <2>6. ASSUME NEW k \in 2 .. n
        PROVE  k \in 1 .. n /\ k \div 2 \in 1 .. n /\ k \div 2 < k /\ (k # j => At(s, k \div 2) <= At(s, k))
    BY <1>1, Above DEF RisesIn
  <2>7. ASSUME NEW k \in 2 .. n, k \div 2 = j
        PROVE  At(s, up) <= At(s, k)
    BY <2>1, <2>7 DEF RisesIn, Bridges
  <2> HIDE DEF up, j, s
  <2>8. ASSUME NEW k \in 2 .. n, k # up
        PROVE  At(t, k \div 2) <= At(t, k)
    <3>1. CASE k = j
      BY <1>2, <2>2, <2>3, <2>5, <2>6, <3>1 DEF up
    <3>2. CASE k # j /\ k \div 2 = j
      <4>1. At(t, k) = At(s, k) /\ At(t, j) = At(s, up)
        BY <2>2, <2>5, <2>6, <2>8, <3>2
      <4> QED
        BY <2>7, <3>2, <4>1
    <3>3. CASE k # j /\ k \div 2 = up
      <4>1. At(t, k) = At(s, k) /\ At(t, up) = At(s, j) /\ At(s, up) <= At(s, k)
        BY <2>2, <2>5, <2>6, <2>8, <3>3
      <4>2. At(s, k) \in Int /\ At(s, j) \in Int /\ At(s, up) \in Int
        BY <1>2, <2>2, <2>6 DEF j
      <4> QED
        BY <2>3, <3>3, <4>1, <4>2
    <3>4. CASE k # j /\ k \div 2 # up /\ k \div 2 # j
      BY <2>5, <2>6, <2>8, <3>4
    <3> QED
      BY <3>1, <3>2, <3>3, <3>4
  <2>9. Bridges(t, up, n)
    <3>1. SUFFICES ASSUME up > 1, NEW k \in 2 .. n, k \div 2 = up
                   PROVE  At(t, up \div 2) <= At(t, k)
      BY DEF Bridges
    <3>2. up \in 2 .. n /\ up # j
      BY <1>1, <2>2, <3>1
    <3>3. up \div 2 \in 1 .. n /\ up \div 2 < up /\ At(s, up \div 2) <= At(s, up)
      BY <2>6, <3>2
    <3>4. At(t, up \div 2) = At(s, up \div 2)
      BY <1>1, <2>2, <2>5, <3>3
    <3>5. CASE k = j
      BY <2>2, <2>5, <2>6, <3>3, <3>4, <3>5
    <3>6. CASE k # j
      <4>1. At(t, k) = At(s, k) /\ At(s, up) <= At(s, k)
        BY <2>2, <2>5, <2>6, <3>1, <3>6
      <4> QED
        BY <1>2, <2>2, <2>6, <3>3, <3>4, <4>1
    <3> QED
      BY <3>5, <3>6
  <2> QED
    BY <1>4, <2>1, <2>2, <2>4, <2>8, <2>9 DEF RisesIn, s, j
<1> QED
  BY <1>3, <1>4

(* down, one level: the entry changes places with the one below it that is *)
(* due first, if that is due sooner.                                       *)
LEMMA SinkKeeps ==
  ASSUME NEW p, Tabled(p.s), NEW n \in 1 .. Len(p.s.heap), NEW i \in 1 .. n, p.at \in i .. n,
         SinksIn(p.s, i, p.at, n)
  PROVE  /\ Moved(p.s, Sink(p, n).s, n) /\ Sink(p, n).at \in i .. n
         /\ SinksIn(Sink(p, n).s, i, Sink(p, n).at, n)
         /\ IF Sunk(p, n) THEN Sink(p, n) = p ELSE Sink(p, n).at > p.at
<1> DEFINE s == p.s
           j == p.at
           left == 2 * j
           child == IF left + 1 <= n /\ Less(s, left + 1, left) THEN left + 1 ELSE left
           t == Swap(s, j, child)
<1>1. Len(s.heap) \in Nat /\ n \in Nat /\ j \in 1 .. n /\ i \in 1 .. n /\ i <= j
  BY LenProperties DEF Tabled
<1>2. \A k \in 1 .. n : At(s, k) \in Int
  BY <1>1, AtTyped
<1>3. \A k \in 2 .. n : /\ k \in 1 .. n /\ k \div 2 \in 1 .. n /\ k \div 2 < k
                       /\ k \div 2 = j => k = left \/ k = left + 1
  BY <1>1, Above
<1>4. CASE left <= n
  <2>1. /\ child \in 2 .. n /\ (child = left \/ child = left + 1)
        /\ \A k \in {left, left + 1} : k <= n => ~Less(s, k, child)
    <3>1. left \in 2 .. n /\ left \in Int
      BY <1>1, <1>4
    <3>2. \A k \in {left, left + 1} : k <= n => At(s, k) \in Int
      BY <1>2, <3>1
    <3>3. CASE left + 1 <= n /\ Less(s, left + 1, left)
      <4>1. child = left + 1
        BY <3>3
      <4>2. At(s, left + 1) < At(s, left)
        BY <3>3 DEF Less, At
      <4> HIDE DEF left, child, s
      <4>3. ~(At(s, left) < At(s, left + 1)) /\ ~(At(s, left + 1) < At(s, left + 1))
        BY <3>1, <3>2, <3>3, <4>2
      <4> QED
        BY <1>1, <3>1, <3>3, <4>1, <4>3 DEF Less, At
    <3>4. CASE ~(left + 1 <= n /\ Less(s, left + 1, left))
      <4>1. child = left
        BY <3>4
      <4> HIDE DEF left, child, s
      <4>2. ~(At(s, left) < At(s, left))
        BY <3>1, <3>2
      <4> QED
        BY <1>1, <3>1, <3>4, <4>1, <4>2 DEF Less, At
    <3> QED
      BY <3>3, <3>4
  <2>2. child \in 1 .. n /\ child \div 2 = j /\ j < child /\ child # i
    <3>1. left = 2 * j
      OBVIOUS
    <3> HIDE DEF left, child, j
    <3>2. child \in Nat /\ j \in Nat /\ (child = 2 * j \/ child = 2 * j + 1)
      BY <1>1, <2>1, <3>1
    <3> QED
      BY <1>1, <2>1, <3>2, Below
  <2>3. \A k \in 2 .. n : k \div 2 = j => At(s, child) <= At(s, k)
    <3>1. ASSUME NEW k \in 2 .. n, k \div 2 = j
          PROVE  At(s, child) <= At(s, k)
      <4>1. k \in {left, left + 1} /\ k <= n
        BY <1>3, <3>1
      <4>2. ~(At(s, k) < At(s, child))
        BY <2>1, <4>1 DEF Less, At
      <4>3. At(s, k) \in Int /\ At(s, child) \in Int
        BY <1>2, <1>3, <2>2
      <4> QED
        BY <4>2, <4>3
    <3> QED
      BY <3>1
  <2>4. CASE ~Less(s, child, j)
    <3>1. ~(At(s, child) < At(s, j))
      BY <2>4 DEF Less, At
    <3>2. Sink(p, n) = p
      BY <2>4 DEF Sink
    <3> HIDE DEF child, left
    <3>3. Sunk(p, n)
      <4>1. At(s, j) <= At(s, child)
        BY <1>1, <1>2, <2>2, <3>1
      <4>2. ASSUME NEW k \in 2 .. n, k \div 2 = j
            PROVE  At(s, j) <= At(s, k)
        BY <1>1, <1>2, <1>3, <2>2, <2>3, <4>1, <4>2
      <4> QED
        BY <4>2 DEF Sunk
    <3> QED
      BY <3>2, <3>3 DEF Moved
  <2>5. CASE Less(s, child, j)
    <3>1. Sink(p, n).s = t /\ Sink(p, n).at = child
      BY <1>4, <2>5 DEF Sink
    <3>2. At(s, child) < At(s, j)
      BY <2>5 DEF Less, At
    <3> HIDE DEF child, left
    <3>3. Moved(s, t, n)
      BY <1>1, <2>2, MovedOnce
    <3>4. \A k \in 1 .. n :
            At(t, k) = IF k = j THEN At(s, child) ELSE IF k = child THEN At(s, j) ELSE At(s, k)
      <4>1. child \in 1 .. Len(s.heap) /\ j \in 1 .. Len(s.heap)
        BY <1>1, <2>2
      <4>2. \A k \in 1 .. n : k \in 1 .. Len(s.heap)
        BY <1>1
      <4> QED
        BY <4>1, <4>2, SwapMoves
    <3>5. ~Sunk(p, n)
      <4>1. ~(At(s, j) <= At(s, child))
        BY <1>1, <1>2, <2>2, <3>2
      <4> QED
        BY <2>1, <2>2, <4>1 DEF Sunk
    <3> HIDE DEF t
    <3>6. ASSUME NEW k \in 2 .. n, k \div 2 # j, k # j
          PROVE  At(s, k \div 2) <= At(s, k)
      BY <3>6 DEF SinksIn
    <3>7. ASSUME NEW k \in 2 .. n, k \div 2 = j, j > 1
          PROVE  At(s, j \div 2) <= At(s, k)
      BY <3>7 DEF SinksIn, Bridges
    <3> HIDE DEF s, j
    <3>8. ASSUME NEW k \in 2 .. n, k \div 2 # child
          PROVE  At(t, k \div 2) <= At(t, k)
      <4>1. k \in 1 .. n /\ k \div 2 \in 1 .. n /\ k \div 2 < k
        BY <1>3
      <4>2. CASE k = child
        <5>1. At(t, k) = At(s, j) /\ At(t, k \div 2) = At(s, child)
          BY <1>1, <2>2, <3>4, <4>2
        <5> QED
          BY <1>1, <1>2, <2>2, <3>2, <5>1
      <4>3. CASE k # child /\ k \div 2 = j
        <5>1. At(t, k) = At(s, k) /\ At(t, k \div 2) = At(s, child)
          BY <1>1, <3>4, <4>1, <4>3
        <5> QED
          BY <2>3, <4>3, <5>1
      <4>4. CASE k = j
        <5>1. At(t, k) = At(s, child) /\ At(t, k \div 2) = At(s, j \div 2)
          BY <1>1, <3>4, <3>8, <4>1, <4>4
        <5> QED
          BY <2>1, <2>2, <3>7, <4>4, <5>1
      <4>5. CASE k # child /\ k # j /\ k \div 2 # j
        <5>1. At(t, k) = At(s, k) /\ At(t, k \div 2) = At(s, k \div 2)
          BY <3>4, <3>8, <4>1, <4>5
        <5> QED
          BY <3>6, <4>5, <5>1
      <4> QED
        BY <4>2, <4>3, <4>4, <4>5
    <3>9. ASSUME NEW k \in 2 .. n, k \div 2 = child
          PROVE  At(t, child \div 2) <= At(t, k)
      <4>1. k \in 1 .. n /\ k # j /\ k # child /\ k \div 2 # j
        BY <1>1, <1>3, <2>2, <3>9
      <4>2. At(t, k) = At(s, k) /\ At(t, child \div 2) = At(s, child)
        BY <1>1, <2>2, <3>4, <4>1
      <4> QED
        BY <3>6, <3>9, <4>1, <4>2
    <3>10. SinksIn(t, i, child, n)
      BY <3>8, <3>9 DEF SinksIn, Bridges
    <3>11. child \in i .. n
      BY <1>1, <2>2
    <3> QED
      BY <2>2, <3>1, <3>3, <3>5, <3>10, <3>11 DEF s, j
  <2> QED
    BY <2>4, <2>5
<1>5. CASE ~(left <= n)
  <2>1. Sink(p, n) = p
    BY <1>5 DEF Sink
  <2>2. Sunk(p, n)
    BY <1>1, <1>3, <1>5 DEF Sunk
  <2> QED
    BY <2>1, <2>2 DEF Moved
<1> QED
  BY <1>4, <1>5

-----------------------------------------------------------------------------
(* container/heap: all levels *)

\* f is the climb of the entry at place j, and the descent of the one at i, for m levels.
Climb(f, s, j, m) ==
  f = [k \in 0 .. m |-> IF k = 0 THEN [s |-> s, at |-> j] ELSE Rise(f[k - 1])]
Descent(f, s, i, n, m) ==
  f = [k \in 0 .. m |-> IF k = 0 THEN [s |-> s, at |-> i] ELSE Sink(f[k - 1], n)]

(* up and down are defined: they end at the last level of a climb, and of  *)
(* a descent.                                                              *)
LEMMA ClimbExists ==
  ASSUME NEW s, NEW j \in Nat
  PROVE  \E f : Climb(f, s, j, j) /\ SiftUp(s, j) = f[j].s
<1> DEFINE None == {m \in Nat : ~\E f : Climb(f, s, j, m)}
<1>1. None = {}
  <2> SUFFICES ASSUME None # {}
               PROVE  FALSE
    OBVIOUS
  <2>1. PICK m \in None : \A l \in None : m <= l
    <3>1. None \in SUBSET Nat
      OBVIOUS
    <3> HIDE DEF None
    <3> QED
      BY <3>1, FirstIndex
  <2>2. m # 0
    <3> DEFINE f == [k \in 0 .. 0 |-> [s |-> s, at |-> j]]
    <3>1. Climb(f, s, j, 0)
      BY DEF Climb
    <3> QED
      BY <3>1
  <2>3. m - 1 \in Nat /\ m - 1 \notin None
    BY <2>1, <2>2
  <2>4. PICK f : Climb(f, s, j, m - 1)
    BY <2>3
  <2> DEFINE g == [k \in 0 .. m |-> IF k < m THEN f[k] ELSE Rise(f[m - 1])]
  <2>5. Climb(g, s, j, m)
    <3>1. \A k \in 0 .. m - 1 : f[k] = IF k = 0 THEN [s |-> s, at |-> j] ELSE Rise(f[k - 1])
      BY <2>4 DEF Climb
    <3>2. ASSUME NEW k \in 0 .. m
          PROVE  g[k] = IF k = 0 THEN [s |-> s, at |-> j] ELSE Rise(g[k - 1])
      BY <2>3, <3>1, <3>2
    <3>3. g = [k \in 0 .. m |-> g[k]]
      OBVIOUS
    <3> HIDE DEF g
    <3> QED
      BY <3>2, <3>3 DEF Climb
  <2> QED
    BY <2>1, <2>5
<1> DEFINE f == CHOOSE f : Climb(f, s, j, j)
<1>2. Climb(f, s, j, j)
  BY <1>1
<1>3. SiftUp(s, j) = f[j].s
  BY DEF SiftUp, Climb
<1> QED
  BY <1>2, <1>3

LEMMA DescentExists ==
  ASSUME NEW s, NEW i, NEW n \in Nat
  PROVE  \E f : Descent(f, s, i, n, n) /\ SiftDown(s, i, n) = f[n]
<1> DEFINE None == {m \in Nat : ~\E f : Descent(f, s, i, n, m)}
<1>1. None = {}
  <2> SUFFICES ASSUME None # {}
               PROVE  FALSE
    OBVIOUS
  <2>1. PICK m \in None : \A l \in None : m <= l
    <3>1. None \in SUBSET Nat
      OBVIOUS
    <3> HIDE DEF None
    <3> QED
      BY <3>1, FirstIndex
  <2>2. m # 0
    <3> DEFINE f == [k \in 0 .. 0 |-> [s |-> s, at |-> i]]
    <3>1. Descent(f, s, i, n, 0)
      BY DEF Descent
    <3> QED
      BY <3>1
  <2>3. m - 1 \in Nat /\ m - 1 \notin None
    BY <2>1, <2>2
  <2>4. PICK f : Descent(f, s, i, n, m - 1)
    BY <2>3
  <2> DEFINE g == [k \in 0 .. m |-> IF k < m THEN f[k] ELSE Sink(f[m - 1], n)]
  <2>5. Descent(g, s, i, n, m)
    <3>1. \A k \in 0 .. m - 1 : f[k] = IF k = 0 THEN [s |-> s, at |-> i] ELSE Sink(f[k - 1], n)
      BY <2>4 DEF Descent
    <3>2. ASSUME NEW k \in 0 .. m
          PROVE  g[k] = IF k = 0 THEN [s |-> s, at |-> i] ELSE Sink(g[k - 1], n)
      BY <2>3, <3>1, <3>2
    <3>3. g = [k \in 0 .. m |-> g[k]]
      OBVIOUS
    <3> HIDE DEF g
    <3> QED
      BY <3>2, <3>3 DEF Descent
  <2> QED
    BY <2>1, <2>5
<1> DEFINE f == CHOOSE f : Descent(f, s, i, n, n)
<1>2. Descent(f, s, i, n, n)
  BY <1>1
<1>3. SiftDown(s, i, n) = f[n]
  BY DEF SiftDown, Descent
<1> QED
  BY <1>2, <1>3

(* Moves add up.                                                           *)
LEMMA MovedTwice ==
  ASSUME NEW p, NEW q, NEW r, NEW n, Moved(p, q, n), Moved(q, r, n)
  PROVE  Moved(p, r, n)
  BY DEF Moved

(* up ends with the heap in order: the entry has risen until the one above *)
(* it is due no later.                                                     *)
LEMMA SiftUpOrders ==
  ASSUME NEW s, Tabled(s), NEW n \in 1 .. Len(s.heap), NEW j \in 1 .. n, RisesIn(s, j, n)
  PROVE  Moved(s, SiftUp(s, j), n) /\ Ordered(SiftUp(s, j), n)
<1>1. Len(s.heap) \in Nat /\ n \in Nat /\ j \in Nat
  BY LenProperties DEF Tabled
<1>2. PICK f : Climb(f, s, j, j) /\ SiftUp(s, j) = f[j].s
  BY <1>1, ClimbExists
<1>3. f[0] = [s |-> s, at |-> j] /\ \A k \in 1 .. j : f[k] = Rise(f[k - 1])
  BY <1>1, <1>2 DEF Climb
<1> DEFINE Good(k) == /\ Moved(s, f[k].s, n) /\ f[k].at \in 1 .. n
                      /\ RisesIn(f[k].s, f[k].at, n)
                      /\ Risen(f[k]) \/ f[k].at + k <= j
           Bad == {k \in 0 .. j : ~Good(k)}
<1>4. Good(0)
  BY <1>1, <1>3 DEF Moved
<1>5. ASSUME NEW k \in 1 .. j, Good(k - 1)
      PROVE  Good(k)
  <2> DEFINE p == f[k - 1]
             q == f[k]
  <2>1. q = Rise(p)
    BY <1>3
  <2>2. Tabled(p.s) /\ n \in 1 .. Len(p.s.heap)
    BY <1>5 DEF Moved
  <2>3. Moved(s, p.s, n) /\ p.at \in 1 .. n /\ RisesIn(p.s, p.at, n)
    BY <1>5
  <2>4. Risen(p) \/ p.at + (k - 1) <= j
    BY <1>5
  <2> HIDE DEF p, q
  <2>5. /\ Moved(p.s, q.s, n) /\ q.at \in 1 .. n /\ RisesIn(q.s, q.at, n)
        /\ IF Risen(p) THEN q = p ELSE q.at < p.at
    BY <2>1, <2>2, <2>3, RiseKeeps
  <2>6. Moved(s, q.s, n)
    BY <2>3, <2>5, MovedTwice
  <2>7. Risen(q) \/ q.at + k <= j
    BY <1>1, <2>3, <2>4, <2>5
  <2> QED
    BY <2>5, <2>6, <2>7 DEF q
<1>6. Good(j)
  <2> SUFFICES ASSUME ~Good(j)
               PROVE  FALSE
    OBVIOUS
  <2>1. Bad \in SUBSET Nat /\ Bad # {}
    BY <1>1
  <2> HIDE DEF Good
  <2>2. PICK k \in Bad : \A l \in Bad : k <= l
    <3> HIDE DEF Bad
    <3> QED
      BY <2>1, FirstIndex
  <2>3. k \in 1 .. j
    BY <1>1, <1>4, <2>2
  <2>4. Good(k - 1)
    BY <1>1, <2>2, <2>3
  <2> QED
    BY <1>5, <2>2, <2>3, <2>4
<1> DEFINE q == f[j]
<1>7. Moved(s, q.s, n) /\ q.at \in 1 .. n /\ RisesIn(q.s, q.at, n) /\ Risen(q)
  BY <1>1, <1>6
<1>8. SiftUp(s, j) = q.s
  BY <1>2
<1> HIDE DEF q, Good
<1>9. Ordered(q.s, n)
  <2>1. ASSUME NEW k \in 2 .. n
        PROVE  At(q.s, k \div 2) <= At(q.s, k)
    <3>1. CASE k # q.at
      BY <1>7, <3>1 DEF RisesIn
    <3>2. CASE k = q.at
      <4>1. ~(At(q.s, k) < At(q.s, k \div 2))
        BY <1>1, <1>7, <3>2 DEF Risen, Less, At
      <4>2. k \in 1 .. Len(q.s.heap) /\ k \div 2 \in 1 .. Len(q.s.heap)
        <5>1. Len(q.s.heap) = Len(s.heap) /\ k \in 1 .. n
          BY <1>1, <1>7 DEF Moved
        <5>2. k \div 2 \in 1 .. k - 1
          BY Above
        <5> QED
          BY <1>1, <5>1, <5>2
      <4>3. At(q.s, k) \in Int /\ At(q.s, k \div 2) \in Int
        BY <1>7, <4>2, AtTyped DEF Moved
      <4> QED
        BY <4>1, <4>3
    <3> QED
      BY <3>1, <3>2
  <2> QED
    BY <2>1 DEF Ordered
<1> QED
  BY <1>7, <1>8, <1>9

(* down ends with the heap in order, or with the entry where it started    *)
(* and nothing below it due sooner.                                        *)
LEMMA SiftDownOrders ==
  ASSUME NEW s, Tabled(s), NEW n \in 1 .. Len(s.heap), NEW i \in 1 .. n, SinksIn(s, i, i, n)
  PROVE  LET q == SiftDown(s, i, n) IN
         /\ Moved(s, q.s, n)
         /\ IF q.at # i THEN Ordered(q.s, n) ELSE RisesIn(q.s, i, n)
<1>1. Len(s.heap) \in Nat /\ n \in Nat /\ i \in Nat /\ i \in i .. n
  BY LenProperties DEF Tabled
<1>2. PICK f : Descent(f, s, i, n, n) /\ SiftDown(s, i, n) = f[n]
  BY <1>1, DescentExists
<1>3. f[0] = [s |-> s, at |-> i] /\ \A k \in 1 .. n : f[k] = Sink(f[k - 1], n)
  BY <1>1, <1>2 DEF Descent
<1> DEFINE Good(k) == /\ Moved(s, f[k].s, n) /\ f[k].at \in i .. n
                      /\ SinksIn(f[k].s, i, f[k].at, n)
                      /\ Sunk(f[k], n) \/ f[k].at >= i + k
           Bad == {k \in 0 .. n : ~Good(k)}
<1>4. Good(0)
  BY <1>1, <1>3 DEF Moved
<1>5. ASSUME NEW k \in 1 .. n, Good(k - 1)
      PROVE  Good(k)
  <2> DEFINE p == f[k - 1]
             q == f[k]
  <2>1. q = Sink(p, n)
    BY <1>3
  <2>2. Tabled(p.s) /\ n \in 1 .. Len(p.s.heap)
    BY <1>5 DEF Moved
  <2>3. Moved(s, p.s, n) /\ p.at \in i .. n /\ SinksIn(p.s, i, p.at, n)
    BY <1>5
  <2>4. Sunk(p, n) \/ p.at >= i + (k - 1)
    BY <1>5
  <2> HIDE DEF p, q
  <2>5. /\ Moved(p.s, q.s, n) /\ q.at \in i .. n /\ SinksIn(q.s, i, q.at, n)
        /\ IF Sunk(p, n) THEN q = p ELSE q.at > p.at
    BY <2>1, <2>2, <2>3, SinkKeeps
  <2>6. Moved(s, q.s, n)
    BY <2>3, <2>5, MovedTwice
  <2>7. Sunk(q, n) \/ q.at >= i + k
    BY <1>1, <2>3, <2>4, <2>5
  <2> QED
    BY <2>5, <2>6, <2>7 DEF q
<1>6. Good(n)
  <2> SUFFICES ASSUME ~Good(n)
               PROVE  FALSE
    OBVIOUS
  <2>1. Bad \in SUBSET Nat /\ Bad # {}
    BY <1>1
  <2> HIDE DEF Good
  <2>2. PICK k \in Bad : \A l \in Bad : k <= l
    <3> HIDE DEF Bad
    <3> QED
      BY <2>1, FirstIndex
  <2>3. k \in 1 .. n
    BY <1>1, <1>4, <2>2
  <2>4. Good(k - 1)
    BY <1>1, <2>2, <2>3
  <2> QED
    BY <1>5, <2>2, <2>3, <2>4
<1> DEFINE q == f[n]
<1>7. Moved(s, q.s, n) /\ q.at \in i .. n /\ SinksIn(q.s, i, q.at, n) /\ Sunk(q, n)
  BY <1>1, <1>6
<1>8. SiftDown(s, i, n) = q
  BY <1>2
<1> HIDE DEF q, Good
<1>9. q.at # i => Ordered(q.s, n)
  BY <1>7 DEF Ordered, SinksIn, Sunk
<1>10. q.at = i => RisesIn(q.s, i, n)
  BY <1>7 DEF RisesIn, SinksIn, Sunk
<1> QED
  BY <1>7, <1>8, <1>9, <1>10

-----------------------------------------------------------------------------
(* container/heap: Remove and Push *)

Heaped(s) == Tabled(s) /\ Ordered(s, Len(s.heap))

(* Pop forgets the last place, and the entry that was there.               *)
LEMMA PopForgets ==
  ASSUME NEW s, Tabled(s), NEW n \in Nat, Len(s.heap) = n + 1, Ordered(s, n)
  PROVE  /\ Heaped(HeapPop(s))
         /\ Due(HeapPop(s)) = [v \in DOMAIN s.event \ {s.heap[n + 1]} |-> s.event[v].when]
<1> DEFINE t == HeapPop(s)
           last == s.heap[n + 1]
<1>1. s.heap \in Seq(Units) /\ \A k \in 1 .. n + 1 : s.heap[k] \in Units
  <2>1. s.heap \in Seq(Units)
    BY DEF Tabled
  <2> QED
    BY <2>1, LenProperties
<1>2. t.heap = SubSeq(s.heap, 1, n) /\ t.event = [v \in DOMAIN s.event \ {last} |-> s.event[v]]
  BY DEF HeapPop
<1> HIDE DEF t
<1>3. t.heap \in Seq(Units) /\ Len(t.heap) = n /\ \A k \in 1 .. n : t.heap[k] = s.heap[k]
  <2>1. 1 \in 1 .. n + 1 /\ n \in 1 - 1 .. n + 1 /\ n - 1 + 1 = n
    OBVIOUS
  <2>2. \A k \in 1 .. n : s.heap[k] \in Units
    BY <1>1
  <2>3. SubSeq(s.heap, 1, n) = [k \in 1 .. n |-> s.heap[k]]
    BY <1>1, <2>1
  <2>4. t.heap \in [1 .. n -> Units]
    BY <1>2, <2>2, <2>3
  <2>5. t.heap \in Seq(Units)
    BY <2>4, SeqDef
  <2>6. Len(t.heap) = n
    BY <2>4, <2>5, LenProperties
  <2> QED
    BY <1>2, <2>3, <2>5, <2>6
<1>4. \A k \in 1 .. n + 1 : s.heap[k] \in DOMAIN s.event /\ s.event[s.heap[k]].index = k
  BY DEF Tabled
<1>5. \A k \in 1 .. n : s.heap[k] # last
  <2>1. \A k \in 1 .. n : k \in 1 .. n + 1 /\ k # n + 1
    OBVIOUS
  <2>2. s.event[last].index = n + 1
    BY <1>4
  <2> HIDE DEF last
  <2> QED
    BY <1>4, <2>1, <2>2
<1>6. \A k \in 1 .. n : s.heap[k] \in DOMAIN t.event /\ t.event[s.heap[k]] = s.event[s.heap[k]]
  BY <1>2, <1>4, <1>5
<1>7. DOMAIN t.event = DOMAIN s.event \ {last} /\ \A u \in DOMAIN t.event : t.event[u] = s.event[u]
  BY <1>2
<1>8. Tabled(t)
  <2>1. t.event \in [DOMAIN t.event -> [when : Times, index : Nat]] /\ DOMAIN t.event \subseteq Units
    BY <1>2, <1>7 DEF Tabled
  <2>2. ASSUME NEW u \in DOMAIN t.event
        PROVE  t.event[u].index \in 1 .. n /\ t.heap[t.event[u].index] = u
    <3>1. s.event[u].index \in 1 .. n + 1 /\ s.heap[s.event[u].index] = u /\ u # last
      BY <1>7 DEF Tabled
    <3>2. s.event[u].index # n + 1
      BY <3>1
    <3> QED
      BY <1>3, <1>7, <3>1, <3>2
  <2>3. ASSUME NEW k \in 1 .. n
        PROVE  t.heap[k] \in DOMAIN t.event /\ t.event[t.heap[k]].index = k
    BY <1>3, <1>4, <1>6
  <2> QED
    BY <1>3, <2>1, <2>2, <2>3 DEF Tabled
<1>9. Ordered(t, n)
  <2>1. \A k \in 1 .. n : At(t, k) = At(s, k)
    BY <1>3, <1>6 DEF At
  <2>2. \A k \in 2 .. n : k \in 1 .. n /\ k \div 2 \in 1 .. n
    BY Above
  <2> QED
    BY <2>1, <2>2 DEF Ordered
<1>10. Due(t) = [v \in DOMAIN s.event \ {last} |-> s.event[v].when]
  BY <1>7 DEF Due
<1> QED
  BY <1>3, <1>8, <1>9, <1>10 DEF Heaped, t

(* heap.Remove takes out the entry at the place it is told, and only that. *)
LEMMA RemoveDrops ==
  ASSUME NEW s, Heaped(s), NEW i \in 1 .. Len(s.heap)
  PROVE  /\ Heaped(HeapRemove(s, i))
         /\ Due(HeapRemove(s, i)) = [v \in DOMAIN s.event \ {s.heap[i]} |-> s.event[v].when]
<1> DEFINE n == Len(s.heap)
           t == Swap(s, i, n)
           q == SiftDown(t, i, n - 1)
<1>1. n \in Nat /\ i \in 1 .. n /\ n \in 1 .. n /\ n - 1 \in Nat /\ n = (n - 1) + 1
  BY LenProperties DEF Heaped, Tabled
<1>2. Tabled(s) /\ Ordered(s, n)
  BY DEF Heaped
<1>3. CASE i = n
  <2>1. Ordered(s, n - 1)
    BY <1>1, <1>2 DEF Ordered
  <2>2. HeapRemove(s, i) = HeapPop(s)
    BY <1>3 DEF HeapRemove
  <2> QED
    BY <1>1, <1>2, <1>3, <2>1, <2>2, PopForgets
<1>4. CASE i # n
  <2>1. i \in 1 .. n - 1
    BY <1>1, <1>4
  <2>2. /\ Tabled(t) /\ Len(t.heap) = n /\ Due(t) = Due(s) /\ t.heap[n] = s.heap[i]
        /\ \A k \in 1 .. n - 1 : k # i => At(t, k) = At(s, k)
    BY <1>1, <1>2, <1>4, SwapMoves
  <2> HIDE DEF t
  <2>3. SinksIn(t, i, i, n - 1)
    <3>1. \A k \in 2 .. n - 1 : /\ k \in 2 .. n /\ k \in 1 .. n - 1 /\ k \div 2 \in 1 .. n - 1
                               /\ k \div 2 < k
      BY <1>1, Above
    <3>2. ASSUME NEW k \in 2 .. n - 1, k \div 2 # i, k # i
          PROVE  At(t, k \div 2) <= At(t, k)
      BY <1>2, <2>2, <3>1, <3>2 DEF Ordered
    <3>3. ASSUME i > 1, NEW k \in 2 .. n - 1, k \div 2 = i
          PROVE  At(t, i \div 2) <= At(t, k)
      <4>1. i \in 2 .. n /\ i \div 2 \in 1 .. n - 1 /\ i \div 2 # i /\ k # i
        BY <1>1, <2>1, <3>1, <3>3
      <4>2. At(s, i \div 2) <= At(s, i) /\ At(s, i) <= At(s, k)
        BY <1>2, <3>1, <3>3, <4>1 DEF Ordered
      <4>3. At(s, i \div 2) \in Int /\ At(s, i) \in Int /\ At(s, k) \in Int
        BY <1>1, <1>2, <3>1, <4>1, AtTyped
      <4> QED
        BY <2>2, <3>1, <4>1, <4>2, <4>3
    <3> QED
      BY <3>2, <3>3 DEF SinksIn, Bridges
  <2>4. n - 1 \in 1 .. Len(t.heap)
    BY <1>1, <2>1, <2>2
  <2>5. Moved(t, q.s, n - 1) /\ IF q.at # i THEN Ordered(q.s, n - 1) ELSE RisesIn(q.s, i, n - 1)
    BY <2>1, <2>2, <2>3, <2>4, SiftDownOrders
  <2> DEFINE r == IF q.at # i THEN q.s ELSE SiftUp(q.s, i)
  <2>6. HeapRemove(s, i) = HeapPop(r)
    BY <1>4 DEF HeapRemove, t
  <2> HIDE DEF q
  <2>7. Moved(t, r, n - 1) /\ Ordered(r, n - 1)
    <3>1. CASE q.at # i
      BY <2>5, <3>1
    <3>2. CASE q.at = i
      <4>1. Tabled(q.s) /\ n - 1 \in 1 .. Len(q.s.heap)
        BY <2>4, <2>5 DEF Moved
      <4>2. Moved(q.s, SiftUp(q.s, i), n - 1) /\ Ordered(SiftUp(q.s, i), n - 1)
        BY <2>1, <2>5, <3>2, <4>1, SiftUpOrders
      <4> QED
        BY <2>5, <3>2, <4>2, MovedTwice
    <3> QED
      BY <3>1, <3>2
  <2> HIDE DEF r
  <2>8. Tabled(r) /\ Len(r.heap) = n /\ Due(r) = Due(s) /\ r.heap[n] = s.heap[i]
    BY <1>1, <2>2, <2>7 DEF Moved
  <2>9. /\ Heaped(HeapPop(r))
        /\ Due(HeapPop(r)) = [v \in DOMAIN r.event \ {s.heap[i]} |-> r.event[v].when]
    <3>1. Len(r.heap) = (n - 1) + 1 /\ r.heap[(n - 1) + 1] = s.heap[i]
      BY <1>1, <2>8
    <3> QED
      BY <1>1, <2>7, <2>8, <3>1, PopForgets
  <2>10. DOMAIN r.event = DOMAIN s.event /\ \A v \in DOMAIN s.event : r.event[v].when = s.event[v].when
    <3>1. DOMAIN Due(r) = DOMAIN r.event /\ DOMAIN Due(s) = DOMAIN s.event
      BY DEF Due
    <3>2. \A v \in DOMAIN s.event : Due(s)[v] = s.event[v].when
      BY DEF Due
    <3>3. \A v \in DOMAIN r.event : Due(r)[v] = r.event[v].when
      BY DEF Due
    <3> QED
      BY <2>8, <3>1, <3>2, <3>3
  <2> QED
    BY <2>6, <2>9, <2>10
<1> QED
  BY <1>3, <1>4

(* heap.Push adds a launch and leaves the others as they are.              *)
LEMMA PushAdds ==
  ASSUME NEW s, Heaped(s), NEW u \in Units, u \notin DOMAIN s.event, NEW when \in Times
  PROVE  LET p == HeapPush(s, u, when)
             q == SiftUp(p, Len(p.heap))
         IN  /\ Heaped(q)
             /\ Due(q) = [v \in DOMAIN s.event \union {u} |->
                            IF v = u THEN when ELSE s.event[v].when]
<1> DEFINE p == HeapPush(s, u, when)
           q == SiftUp(p, Len(p.heap))
           n == Len(s.heap)
<1>1. s.heap \in Seq(Units) /\ n \in Nat /\ Tabled(s) /\ Ordered(s, n)
  BY LenProperties DEF Heaped, Tabled
<1>2. /\ p.heap = Append(s.heap, u)
      /\ p.event = [v \in DOMAIN s.event \union {u} |->
                      IF v = u THEN [when |-> when, index |-> n + 1] ELSE s.event[v]]
  BY DEF HeapPush
<1> HIDE DEF p
<1>3. /\ p.heap \in Seq(Units) /\ Len(p.heap) = n + 1 /\ p.heap[n + 1] = u
      /\ \A k \in 1 .. n : p.heap[k] = s.heap[k]
  BY <1>1, <1>2, AppendProperties
<1>4. /\ DOMAIN p.event = DOMAIN s.event \union {u}
      /\ p.event[u] = [when |-> when, index |-> n + 1]
      /\ \A v \in DOMAIN s.event : p.event[v] = s.event[v]
  BY <1>2
<1>5. Tabled(p)
  <2>1. p.event \in [DOMAIN p.event -> [when : Times, index : Nat]] /\ DOMAIN p.event \subseteq Units
    <3>1. [when |-> when, index |-> n + 1] \in [when : Times, index : Nat]
      BY <1>1
    <3>2. \A v \in DOMAIN s.event : s.event[v] \in [when : Times, index : Nat]
      BY <1>1 DEF Tabled
    <3>3. DOMAIN s.event \subseteq Units
      BY <1>1 DEF Tabled
    <3>4. p.event = [v \in DOMAIN p.event |-> p.event[v]]
      BY <1>2
    <3>5. \A v \in DOMAIN p.event : p.event[v] \in [when : Times, index : Nat]
      BY <1>4, <3>1, <3>2
    <3> QED
      BY <1>4, <3>3, <3>4, <3>5
  <2>2. ASSUME NEW k \in 1 .. n + 1
        PROVE  p.heap[k] \in DOMAIN p.event /\ p.event[p.heap[k]].index = k
    <3>1. CASE k = n + 1
      BY <1>3, <1>4, <3>1
    <3>2. CASE k # n + 1
      <4>1. k \in 1 .. n
        BY <1>1, <3>2
      <4>2. s.heap[k] \in DOMAIN s.event /\ s.event[s.heap[k]].index = k
        BY <1>1, <4>1 DEF Tabled
      <4> QED
        BY <1>3, <1>4, <4>1, <4>2
    <3> QED
      BY <3>1, <3>2
  <2>3. ASSUME NEW v \in DOMAIN p.event
        PROVE  p.event[v].index \in 1 .. n + 1 /\ p.heap[p.event[v].index] = v
    <3>1. CASE v = u
      BY <1>1, <1>3, <1>4, <3>1
    <3>2. CASE v # u
      <4>1. v \in DOMAIN s.event
        BY <1>4, <3>2
      <4>2. s.event[v].index \in 1 .. n /\ s.heap[s.event[v].index] = v
        BY <1>1, <4>1 DEF Tabled
      <4> QED
        BY <1>1, <1>3, <1>4, <4>1, <4>2
    <3> QED
      BY <3>1, <3>2
  <2> QED
    BY <1>3, <2>1, <2>2, <2>3 DEF Tabled
<1>6. RisesIn(p, n + 1, n + 1)
  <2>1. \A k \in 2 .. n + 1 : k \in 1 .. n + 1 /\ k \div 2 \in 1 .. n + 1 /\ k \div 2 < k
    BY <1>1, Above
  <2>2. \A k \in 1 .. n : At(p, k) = At(s, k)
    <3>1. \A k \in 1 .. n : s.heap[k] \in DOMAIN s.event
      BY <1>1 DEF Tabled
    <3> QED
      BY <1>3, <1>4, <3>1 DEF At
  <2>3. ASSUME NEW k \in 2 .. n + 1, k # n + 1
        PROVE  At(p, k \div 2) <= At(p, k)
    <3>1. k \in 2 .. n /\ k \in 1 .. n /\ k \div 2 \in 1 .. n
      BY <1>1, <2>1, <2>3
    <3> QED
      BY <1>1, <2>2, <3>1 DEF Ordered
  <2>4. \A k \in 2 .. n + 1 : k \div 2 # n + 1
    BY <1>1, <2>1
  <2> QED
    BY <2>3, <2>4 DEF RisesIn, Bridges
<1>7. Moved(p, q, n + 1) /\ Ordered(q, n + 1)
  <2>1. n + 1 \in 1 .. Len(p.heap) /\ n + 1 \in 1 .. n + 1 /\ q = SiftUp(p, n + 1)
    BY <1>1, <1>3
  <2> QED
    BY <1>5, <1>6, <2>1, SiftUpOrders
<1>8. Due(p) = [v \in DOMAIN s.event \union {u} |-> IF v = u THEN when ELSE s.event[v].when]
  BY <1>4 DEF Due
<1> HIDE DEF q
<1>9. Heaped(q) /\ Due(q) = Due(p)
  BY <1>3, <1>7 DEF Moved, Heaped
<1> QED
  BY <1>8, <1>9 DEF p, q

-----------------------------------------------------------------------------
(* The scheduler *)

\* Heap and table are inverse to each other, and the heap is in order.
Sorted == Heaped(Sched)

(* A new scheduler.                                                        *)
LEMMA SortedInit == SchedulerInit => Sorted
<1> SUFFICES ASSUME SchedulerInit
             PROVE  Sorted
  OBVIOUS
<1>1. heap = <<>> /\ event = <<>>
  BY DEF SchedulerInit
<1>2. Sched.heap = <<>> /\ Sched.event = <<>>
  BY <1>1 DEF Sched
<1>3. <<>> \in Seq(Units) /\ Len(<<>>) = 0 /\ DOMAIN <<>> = {}
  OBVIOUS
<1>4. <<>> \in [{} -> [when : Times, index : Nat]]
  OBVIOUS
<1> QED
  BY <1>2, <1>3, <1>4 DEF Sorted, Heaped, Tabled, Ordered

(* push, pop and remove keep the heap in order, and do to the launches     *)
(* exactly what they are named for.                                        *)
LEMMA PushAsks ==
  ASSUME Sorted, NEW u \in Units, NEW when \in Times, Push(u, when)
  PROVE  /\ Sorted'
         /\ Due(Sched') = [v \in DOMAIN event \union {u} |->
                             IF v = u THEN when ELSE event[v].when]
<1> DEFINE cleared == IF u \in DOMAIN event THEN HeapRemove(Sched, event[u].index) ELSE Sched
           p == HeapPush(cleared, u, when)
           q == SiftUp(p, Len(p.heap))
<1>1. Heaped(Sched) /\ Sched.heap = heap /\ Sched.event = event
  BY DEF Sorted, Sched
<1>2. heap' = q.heap /\ event' = q.event
  BY DEF Push, Becomes
<1>3. Heaped(cleared) /\ Due(cleared) = [v \in DOMAIN event \ {u} |-> event[v].when]
  <2>1. CASE u \in DOMAIN event
    <3>1. event[u].index \in 1 .. Len(Sched.heap) /\ Sched.heap[event[u].index] = u
      BY <1>1, <2>1 DEF Heaped, Tabled
    <3>2. cleared = HeapRemove(Sched, event[u].index)
      BY <2>1
    <3> DEFINE i == event[u].index
    <3>3. i \in 1 .. Len(Sched.heap)
      BY <3>1
    <3>4. /\ Heaped(HeapRemove(Sched, i))
          /\ Due(HeapRemove(Sched, i))
               = [v \in DOMAIN Sched.event \ {Sched.heap[i]} |-> Sched.event[v].when]
      BY <1>1, <3>3, RemoveDrops
    <3>5. Heaped(cleared) /\ Due(cleared) = [v \in DOMAIN Sched.event \ {u} |-> Sched.event[v].when]
      BY <3>1, <3>2, <3>4
    <3> HIDE DEF cleared, i
    <3> QED
      BY <1>1, <3>5
  <2>2. CASE u \notin DOMAIN event
    <3>1. cleared = Sched /\ DOMAIN event = DOMAIN event \ {u}
      BY <2>2
    <3> HIDE DEF cleared
    <3> QED
      BY <1>1, <3>1 DEF Due
  <2> QED
    BY <2>1, <2>2
<1> HIDE DEF cleared
<1>4. DOMAIN cleared.event = DOMAIN event \ {u}
      /\ \A v \in DOMAIN event \ {u} : cleared.event[v].when = event[v].when
  <2>1. DOMAIN Due(cleared) = DOMAIN cleared.event
        /\ \A v \in DOMAIN cleared.event : Due(cleared)[v] = cleared.event[v].when
    BY DEF Due
  <2>2. DOMAIN Due(cleared) = DOMAIN event \ {u}
    BY <1>3
  <2>3. \A v \in DOMAIN event \ {u} : Due(cleared)[v] = event[v].when
    BY <1>3
  <2> QED
    BY <2>1, <2>2, <2>3
<1>5. u \notin DOMAIN cleared.event
  BY <1>4
<1>6. /\ Heaped(q)
      /\ Due(q) = [v \in DOMAIN cleared.event \union {u} |->
                     IF v = u THEN when ELSE cleared.event[v].when]
  BY <1>3, <1>5, PushAdds
<1> HIDE DEF q
<1>7. Sched'.heap = q.heap /\ Sched'.event = q.event
  BY <1>2 DEF Sched
<1>8. Sorted' /\ Due(Sched') = Due(q)
  BY <1>6, <1>7 DEF Sorted, Heaped, Tabled, Ordered, At, Due
<1> QED
  BY <1>4, <1>6, <1>8

LEMMA RemovedIs ==
  ASSUME Sorted, NEW i \in 1 .. Len(heap), Becomes(HeapRemove(Sched, i))
  PROVE  Sorted' /\ Due(Sched') = [v \in DOMAIN event \ {heap[i]} |-> event[v].when]
<1> DEFINE q == HeapRemove(Sched, i)
<1>1. Heaped(Sched) /\ Sched.heap = heap /\ Sched.event = event
  BY DEF Sorted, Sched
<1>2. Heaped(q) /\ Due(q) = [v \in DOMAIN event \ {heap[i]} |-> event[v].when]
  <2>1. i \in 1 .. Len(Sched.heap)
    BY <1>1
  <2>2. Heaped(q) /\ Due(q) = [v \in DOMAIN Sched.event \ {Sched.heap[i]} |-> Sched.event[v].when]
    BY <1>1, <2>1, RemoveDrops
  <2> HIDE DEF q
  <2> QED
    BY <1>1, <2>2
<1>3. Sched'.heap = q.heap /\ Sched'.event = q.event
  BY DEF Becomes, Sched
<1> HIDE DEF q
<1>4. Sorted' /\ Due(Sched') = Due(q)
  BY <1>2, <1>3 DEF Sorted, Heaped, Tabled, Ordered, At, Due
<1> QED
  BY <1>2, <1>4

(* The head is due first, and there is one whenever a launch is pending.   *)
LEMMA HeadIsDue == Sorted => Queue!HeadIsSoonest
<1> SUFFICES ASSUME Sorted
             PROVE  Queue!HeadIsSoonest
  OBVIOUS
<1> DEFINE n == Len(heap)
           due == [u \in DOMAIN event |-> event[u].when]
<1>1. /\ heap \in Seq(Units) /\ n \in Nat /\ Tabled(Sched) /\ Ordered(Sched, n)
      /\ Sched.heap = heap /\ Sched.event = event
  BY LenProperties DEF Sorted, Heaped, Tabled, Sched
<1>2. \A u \in DOMAIN event : event[u].index \in 1 .. n /\ heap[event[u].index] = u
  BY <1>1 DEF Tabled
<1>3. \A k \in 1 .. n : heap[k] \in DOMAIN event
  BY <1>1 DEF Tabled
<1>4. CASE n = 0
  <2>1. DOMAIN event = {}
    BY <1>2, <1>4
  <2>2. heap = <<>>
    BY <1>1, <1>4, EmptySeq
  <2> QED
    BY <2>1, <2>2 DEF Queue!HeadIsSoonest, NextUnit
<1>5. CASE n > 0
  <2>1. heap # <<>> /\ NextUnit = heap[1] /\ heap[1] \in DOMAIN event
    BY <1>1, <1>3, <1>5 DEF NextUnit
  <2>2. \A k \in 1 .. n : At(Sched, 1) <= At(Sched, k)
    <3>1. \A k \in 1 .. n : At(Sched, k) \in Int
      BY <1>1, AtTyped
    <3> QED
      BY <1>1, <1>5, <3>1, HeadIsFirst
  <2>3. ASSUME NEW u \in DOMAIN event
        PROVE  event[heap[1]].when <= event[u].when
    BY <1>1, <1>2, <2>2 DEF At
  <2> QED
    BY <2>1, <2>3 DEF Queue!HeadIsSoonest
<1> QED
  BY <1>1, <1>4, <1>5

(* Across pushes over an older launch, pops and removals from the middle   *)
(* of the heap, each unit has the one launch that was asked for last, and  *)
(* next() answers the one that is due first (scheduler.go:33-71).          *)
THEOREM SchedulerImplementsQueue == SchedulerSpec => SchedulerIsQueue
<1> DEFINE due == [u \in DOMAIN event |-> event[u].when]
<1>1. SchedulerInit => Queue!Init
  <2> SUFFICES ASSUME SchedulerInit
               PROVE  Queue!Init
    OBVIOUS
  <2>1. heap = <<>> /\ event = <<>> /\ DOMAIN event = {}
    BY DEF SchedulerInit
  <2> QED
    BY <2>1 DEF Queue!Init, NextUnit
<1>2. Sorted /\ [SchedulerNext]_schedVars => Sorted' /\ [Queue!Next]_(Queue!vars)
  <2> SUFFICES ASSUME Sorted, [SchedulerNext]_schedVars
               PROVE  Sorted' /\ [Queue!Next]_(Queue!vars)
    OBVIOUS
  <2>1. Due(Sched') = due'
    BY DEF Due, Sched
  <2>2. \A k \in 1 .. Len(heap) : heap[k] \in DOMAIN event /\ heap[k] \in Units
    <3>1. DOMAIN event \subseteq Units
      BY DEF Sorted, Heaped, Tabled, Sched
    <3>2. \A k \in 1 .. Len(heap) : heap[k] \in DOMAIN event
      BY DEF Sorted, Heaped, Tabled, Sched
    <3> QED
      BY <3>1, <3>2
  <2>3. ASSUME NEW u \in Units, NEW when \in Times, Push(u, when)
        PROVE  Sorted' /\ Queue!Ask(u, when)
    <3>1. Sorted' /\ due' = [v \in DOMAIN event \union {u} |->
                               IF v = u THEN when ELSE event[v].when]
      BY <2>1, <2>3, PushAsks
    <3> QED
      BY <3>1 DEF Queue!Ask
  <2>4. ASSUME NEW u \in Units, RemoveEvent(u)
        PROVE  Sorted' /\ Queue!Scrub(u)
    <3>1. u \in DOMAIN event /\ event[u].index \in 1 .. Len(heap) /\ heap[event[u].index] = u
      BY <2>4 DEF RemoveEvent, Sorted, Heaped, Tabled, Sched
    <3>2. Sorted' /\ due' = [v \in DOMAIN event \ {u} |-> event[v].when]
      BY <2>1, <2>4, <3>1, RemovedIs DEF RemoveEvent
    <3> QED
      BY <3>1, <3>2 DEF Queue!Scrub, Queue!Without
  <2>5. ASSUME Pop
        PROVE  Sorted' /\ Queue!TakeHead
    <3>1. heap \in Seq(Units) /\ heap # <<>>
      BY <2>5 DEF Pop, Sorted, Heaped, Tabled, Sched
    <3>2. 1 \in 1 .. Len(heap)
      BY <3>1, EmptySeq, LenProperties
    <3>3. NextUnit = heap[1] /\ heap[1] # NoUnit
      BY <2>2, <3>1, <3>2, NoUnitAssumption DEF NextUnit
    <3>4. Sorted' /\ due' = [v \in DOMAIN event \ {heap[1]} |-> event[v].when]
      BY <2>1, <2>5, <3>2, RemovedIs DEF Pop
    <3> QED
      BY <3>3, <3>4 DEF Queue!TakeHead, Queue!Without
  <2>6. CASE UNCHANGED schedVars
    BY <2>6 DEF schedVars, Sorted, Sched, Queue!vars, NextUnit
  <2>7. CASE SchedulerNext
    <3>1. Sorted' /\ \/ \E u \in Units : \/ Queue!Scrub(u)
                                         \/ \E when \in Times : Queue!Ask(u, when)
                     \/ Queue!TakeHead
      BY <2>3, <2>4, <2>5, <2>7 DEF SchedulerNext
    <3>2. Queue!HeadIsSoonest'
      BY <3>1, HeadIsDue, PTL
    <3> QED
      BY <3>1, <3>2 DEF Queue!Next
  <2> QED
    BY <2>6, <2>7
<1> QED
  BY SortedInit, <1>1, <1>2, PTL DEF SchedulerSpec, SchedulerIsQueue, Queue!Spec

=============================================================================

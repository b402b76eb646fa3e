------------------------ MODULE Infrastructure_proofs ------------------------
(***************************************************************************)
(* The log buffer, the cache of the host's addresses, the slot pool and a  *)
(* process with its goroutines, each for any size.  They share no state;   *)
(* the theorems of each are about its own specification.                   *)
(***************************************************************************)
EXTENDS LogBuffer, LocalAddr, SlotPoolClients, Process,
        FiniteSetTheorems, SequenceTheorems, TLAPS

-----------------------------------------------------------------------------
(* Log buffer *)

(* Places are taken modulo the size of the ring, once around at most.      *)
LEMMA PlacesWrap ==
  ASSUME NEW x \in 0 .. 2 * Cap - 1
  PROVE  x % Cap = IF x < Cap THEN x ELSE x - Cap
<1>1. Cap \in Nat \ {0}
  BY CapAssumption
<1>2. CASE x < Cap
  BY <1>1, <1>2
<1>3. CASE x >= Cap
  <2>1. x = 1 * Cap + (x - Cap) /\ x - Cap \in 0 .. Cap - 1
    BY <1>1, <1>3
  <2> QED
    BY <1>1, <1>3, <2>1
<1> QED
  BY <1>1, <1>2, <1>3

\* What a ring holds after n lines: before head the newest, from head on,
\* once it is full, those of the lap before.
RingHolds(b, n) ==
  /\ b.entries \in [0 .. Cap - 1 -> Nat]
  /\ b.head \in 0 .. Cap - 1 /\ b.full \in BOOLEAN
  /\ IF b.full THEN n >= Cap /\ b.size = Cap ELSE n < Cap /\ b.size = n /\ b.head = n
  /\ \A p \in 0 .. Cap - 1 :
       /\ p < b.head => b.entries[p] = n - b.head + p + 1
       /\ b.full /\ p >= b.head => b.entries[p] = n - Cap - b.head + p + 1

Rings ==
  /\ appended \in [Channels -> Nat]
  /\ \A c \in Channels : RingHolds(Get(c), appended[c])

(* A new ring holds nothing, and nothing was appended.                     *)
LEMMA NewRing == RingHolds(NewBuffer, 0)
BY CapAssumption DEF RingHolds, NewBuffer

(* One line more, over the oldest one if the ring is full.                 *)
LEMMA LineAdded ==
  ASSUME NEW b, NEW n \in Nat, RingHolds(b, n)
  PROVE  RingHolds(AfterAppend(b, n + 1), n + 1)
<1> DEFINE a == AfterAppend(b, n + 1)
<1>1. Cap \in Nat \ {0}
  BY CapAssumption
<1>2. /\ b.entries \in [0 .. Cap - 1 -> Nat]
      /\ b.head \in 0 .. Cap - 1 /\ b.full \in BOOLEAN
      /\ b.full => n >= Cap /\ b.size = Cap
      /\ ~b.full => n < Cap /\ b.size = n /\ b.head = n
      /\ \A p \in 0 .. Cap - 1 : p < b.head => b.entries[p] = n - b.head + p + 1
      /\ b.full => \A p \in 0 .. Cap - 1 :
                     p >= b.head => b.entries[p] = n - Cap - b.head + p + 1
  BY DEF RingHolds
<1>3. /\ a.entries = [b.entries EXCEPT ![b.head] = n + 1]
      /\ a.head = (b.head + 1) % Cap
      /\ a.size = IF b.full THEN b.size ELSE b.size + 1
      /\ a.full \in BOOLEAN /\ (a.full <=> b.full \/ b.size + 1 = Cap)
  <2>1. a.full = (b.full \/ b.size + 1 = Cap)
    BY DEF AfterAppend
  <2>2. a.full \in BOOLEAN /\ (a.full <=> b.full \/ b.size + 1 = Cap)
    BY <2>1, Zenon
  <2> QED
    BY <2>2 DEF AfterAppend
<1>4. a.head = IF b.head + 1 = Cap THEN 0 ELSE b.head + 1
  <2>1. b.head + 1 \in 0 .. 2 * Cap - 1
    BY <1>1, <1>2
  <2>2. PICK x \in 0 .. 2 * Cap - 1 : x = b.head + 1
    BY <2>1
  <2>3. a.head = x % Cap
    BY <1>3, <2>2, Zenon
  <2>4. x % Cap = IF x < Cap THEN x ELSE x - Cap
    BY PlacesWrap
  <2>5. a.head = IF x < Cap THEN x ELSE x - Cap
    BY <2>3, <2>4, Zenon
  <2>6. b.head \in Nat /\ Cap \in Nat /\ b.head + 1 <= Cap
    BY <1>1, <1>2
  <2> QED
    BY <2>2, <2>5, <2>6
<1> HIDE DEF a
<1>5. a.entries \in [0 .. Cap - 1 -> Nat] /\ a.head \in 0 .. Cap - 1
  <2>1. a.entries \in [0 .. Cap - 1 -> Nat]
    BY <1>2, <1>3
  <2>2. a.head \in 0 .. Cap - 1
    BY <1>1, <1>2, <1>4
  <2> QED
    BY <2>1, <2>2
<1>6. a.full \in BOOLEAN /\ (a.full <=> n + 1 >= Cap)
  <2>1. CASE b.full
    BY <1>1, <1>2, <1>3, <2>1
  <2>2. CASE ~b.full
    BY <1>1, <1>2, <1>3, <2>2
  <2> QED
    BY <2>1, <2>2
<1>7. IF a.full THEN a.size = Cap ELSE a.size = n + 1 /\ a.head = n + 1
  <2>1. CASE b.full
    BY <1>1, <1>2, <1>3, <1>6, <2>1
  <2>2. CASE ~b.full
    BY <1>1, <1>2, <1>3, <1>4, <1>6, <2>2
  <2> QED
    BY <2>1, <2>2
<1>8. ASSUME NEW p \in 0 .. Cap - 1
      PROVE  a.entries[p] = IF p = b.head THEN n + 1 ELSE b.entries[p]
  BY <1>2, <1>3
<1>9. PICK h \in 0 .. Cap - 1 : /\ h = b.head
                               /\ a.head = IF h + 1 = Cap THEN 0 ELSE h + 1
  BY <1>2, <1>4
<1>10. ASSUME NEW p \in 0 .. Cap - 1, p < a.head
       PROVE  a.entries[p] = (n + 1) - a.head + p + 1
  <2>1. a.head = h + 1 /\ p <= h
    BY <1>1, <1>9, <1>10
  <2>2. CASE p = h
    BY <1>8, <1>9, <2>1, <2>2
  <2>3. CASE p < h
    <3>1. a.entries[p] = n - h + p + 1
      BY <1>2, <1>8, <1>9, <2>3
    <3> QED
      BY <1>1, <2>1, <3>1
  <2> QED
    BY <1>1, <2>1, <2>2, <2>3
<1>11. ASSUME NEW p \in 0 .. Cap - 1, a.full, p >= a.head
       PROVE  a.entries[p] = (n + 1) - Cap - a.head + p + 1
  <2>1. CASE h + 1 = Cap
    <3>1. a.head = 0 /\ (p = h \/ p < h)
      BY <1>1, <1>9, <2>1
    <3>2. CASE p = h
      BY <1>1, <1>8, <1>9, <2>1, <3>1, <3>2
    <3>3. CASE p < h
      <4>1. a.entries[p] = n - h + p + 1
        BY <1>2, <1>8, <1>9, <3>3
      <4> QED
        BY <1>1, <2>1, <3>1, <4>1
    <3> QED
      BY <3>1, <3>2, <3>3
  <2>2. CASE h + 1 # Cap
    <3>1. a.head = h + 1 /\ p > h
      BY <1>1, <1>9, <1>11, <2>2
    <3>2. b.full
      BY <1>2, <1>3, <1>9, <1>11, <2>2
    <3>3. a.entries[p] = n - Cap - h + p + 1
      BY <1>1, <1>2, <1>8, <1>9, <3>1, <3>2
    <3> QED
      BY <1>1, <3>1, <3>3
  <2> QED
    BY <2>1, <2>2
<1>12. RingHolds(a, n + 1)
  BY <1>1, <1>5, <1>6, <1>7, <1>10, <1>11 DEF RingHolds
<1> QED
  BY <1>12 DEF a

(* Every line, and every request for the lines of a channel that never     *)
(* ran, leaves the rings holding what they should.                         *)
LEMMA RingsKept == LogsSpec => []Rings
<1>1. LogsInit => Rings
  BY NewRing DEF LogsInit, Rings, Get
<1>2. Rings /\ [LogsNext]_logVars => Rings'
  <2> SUFFICES ASSUME Rings, [LogsNext]_logVars
               PROVE  Rings'
    OBVIOUS
  <2>1. ASSUME NEW c \in Channels, AppendLine(c)
        PROVE  Rings'
    <3>1. /\ appended' = [appended EXCEPT ![c] = @ + 1]
          /\ bufs' = Stored(c, AfterAppend(Get(c), appended[c] + 1))
      BY <2>1 DEF AppendLine
    <3>2. appended' \in [Channels -> Nat]
      BY <3>1 DEF Rings
    <3>3. ASSUME NEW d \in Channels
          PROVE  RingHolds(Get(d)', appended'[d])
      <4>1. CASE d = c
        <5>1. Get(d)' = AfterAppend(Get(c), appended[c] + 1)
          BY <3>1, <4>1 DEF Get, Stored
        <5>2. appended'[d] = appended[c] + 1 /\ appended[c] \in Nat
          BY <3>1, <4>1 DEF Rings
        <5>3. RingHolds(Get(c), appended[c])
          BY DEF Rings
        <5> QED
          BY <5>1, <5>2, <5>3, LineAdded
      <4>2. CASE d # c
        <5>1. Get(d)' = Get(d)
          BY <3>1, <4>2 DEF Get, Stored
        <5>2. appended'[d] = appended[d]
          BY <3>1, <4>2 DEF Rings
        <5> QED
          BY <5>1, <5>2 DEF Rings
      <4> QED
        BY <4>1, <4>2
    <3> QED
      BY <3>2, <3>3 DEF Rings
  <2>2. ASSUME NEW c \in Channels, OpenLogs(c)
        PROVE  Rings'
    <3>1. c \notin DOMAIN bufs /\ bufs' = Stored(c, NewBuffer) /\ appended' = appended
      BY <2>2 DEF OpenLogs
    <3>2. \A d \in Channels : Get(d)' = Get(d)
      BY <3>1 DEF Get, Stored
    <3> QED
      BY <3>1, <3>2 DEF Rings
  <2>3. CASE UNCHANGED logVars
    BY <2>3 DEF logVars, Rings, Get
  <2> QED
    BY <2>1, <2>2, <2>3 DEF LogsNext
<1> QED
  BY <1>1, <1>2, PTL DEF LogsSpec

(* The k-th newest line is k - 1 places before the newest, around the ring. *)
LEMMA LinesInOrder ==
  ASSUME NEW b, NEW n \in Nat, RingHolds(b, n), NEW k \in 1 .. b.size
  PROVE  b.entries[(Newest(b) - (k - 1) + Cap) % Cap] = n - (k - 1)
<1>1. Cap \in Nat \ {0}
  BY CapAssumption
<1>2. PICK h \in 0 .. Cap - 1 : h = b.head
  BY DEF RingHolds
<1>3. /\ b.full => b.size = Cap
      /\ ~b.full => n < Cap /\ b.size = n /\ h = n
      /\ \A p \in 0 .. Cap - 1 : p < h => b.entries[p] = n - h + p + 1
      /\ b.full => \A p \in 0 .. Cap - 1 : p >= h => b.entries[p] = n - Cap - h + p + 1
  BY <1>2 DEF RingHolds
<1>4. CASE ~b.full
  <2>1. Newest(b) = n - 1 /\ k \in 1 .. n /\ h = n
    BY <1>3, <1>4 DEF Newest
  <2>2. (n - 1) - (k - 1) + Cap \in 0 .. 2 * Cap - 1 /\ ~((n - 1) - (k - 1) + Cap < Cap)
    BY <1>1, <1>3, <1>4, <2>1
  <2>3. ((n - 1) - (k - 1) + Cap) % Cap = n - k
    BY <1>1, <2>1, <2>2, PlacesWrap
  <2>4. n - k \in 0 .. Cap - 1 /\ n - k < h
    BY <1>1, <1>3, <1>4, <2>1
  <2>5. b.entries[n - k] = n - h + (n - k) + 1
    BY <1>3, <2>4
  <2> QED
    BY <2>1, <2>3, <2>5
<1>5. CASE b.full
  <2>1. k \in 1 .. Cap
    BY <1>3, <1>5
  <2>2. PICK m \in 0 .. Cap - 1 : m = Newest(b) /\ m = IF h = 0 THEN Cap - 1 ELSE h - 1
    <3>1. h - 1 + Cap \in 0 .. 2 * Cap - 1
      BY <1>1
    <3>2. (h - 1 + Cap) % Cap = IF h = 0 THEN Cap - 1 ELSE h - 1
      BY <1>1, <3>1, PlacesWrap
    <3>3. Newest(b) = (h - 1 + Cap) % Cap
      BY <1>2, <1>5 DEF Newest
    <3> QED
      BY <1>1, <3>2, <3>3
  <2>3. PICK p \in 0 .. Cap - 1 : /\ p = (m - (k - 1) + Cap) % Cap
                                  /\ p = IF k - 1 <= m THEN m - (k - 1) ELSE m - (k - 1) + Cap
    <3>1. m - (k - 1) + Cap \in 0 .. 2 * Cap - 1
      BY <1>1, <2>1
    <3>2. (m - (k - 1) + Cap) % Cap = IF k - 1 <= m THEN m - (k - 1) ELSE m - (k - 1) + Cap
      BY <1>1, <2>1, <3>1, PlacesWrap
    <3> QED
      BY <1>1, <2>1, <3>1, <3>2
  <2>4. CASE p < h
    <3>1. b.entries[p] = n - h + p + 1
      BY <1>3, <2>4
    <3>2. p = h - k
      BY <1>1, <2>1, <2>2, <2>3, <2>4
    <3> QED
      BY <2>2, <2>3, <3>1, <3>2
  <2>5. CASE p >= h
    <3>1. b.entries[p] = n - Cap - h + p + 1
      BY <1>3, <1>5, <2>5
    <3>2. p = h - k + Cap
      BY <1>1, <2>1, <2>2, <2>3, <2>5
    <3> QED
      BY <1>1, <2>2, <2>3, <3>1, <3>2
  <2> QED
    BY <2>4, <2>5
<1> QED
  BY <1>4, <1>5, Zenon DEF RingHolds

(* ReadIsNewest: a read gives the newest lines, the newest first, however  *)
(* often the ring has wrapped and whatever its size (log_buffer.go:60).    *)
THEOREM ReadsAreNewest == LogsSpec => []ReadIsNewest
<1>1. Rings => ReadIsNewest
  <2>1. ASSUME Rings, NEW c \in Channels, NEW lines \in -1 .. Cap + 1
        PROVE  LET answer == ReadLines(Get(c), lines)
                   wanted == IF lines \in 1 .. Cap THEN lines ELSE Cap
               IN  /\ Len(answer) = IF appended[c] < wanted THEN appended[c] ELSE wanted
                   /\ \A k \in DOMAIN answer : answer[k] = appended[c] - (k - 1)
    <3>0. PICK b : b = Get(c)
      OBVIOUS
    <3>1. PICK n \in Nat : n = appended[c] /\ b = Get(c) /\ RingHolds(b, n)
      BY <2>1, <3>0 DEF Rings
    <3>2. Cap \in Nat \ {0} /\ b.size = IF n >= Cap THEN Cap ELSE n
      BY <3>1, CapAssumption DEF RingHolds
    <3>3. PICK w \in 1 .. Cap : /\ w = IF lines \in 1 .. Cap THEN lines ELSE Cap
                                /\ w = IF lines <= 0 \/ lines > Cap THEN Cap ELSE lines
      BY <3>2
    <3>4. PICK m \in 0 .. b.size : /\ m = IF b.size > w THEN w ELSE b.size
                                   /\ m = IF n < w THEN n ELSE w
      BY <3>2
    <3> DEFINE answer == [k \in 1 .. m |-> b.entries[(Newest(b) - (k - 1) + Cap) % Cap]]
    <3>5. ReadLines(b, lines) = answer
      BY <3>3, <3>4 DEF ReadLines
    <3>6. \A k \in 1 .. m : answer[k] = n - (k - 1)
      <4>1. \A k \in 1 .. m : k \in 1 .. b.size
        BY <3>2
      <4> QED
        BY <3>1, <4>1, LinesInOrder
    <3>7. answer \in [1 .. m -> Int] /\ m \in Nat
      <4>1. m \in Nat /\ \A k \in 1 .. m : n - (k - 1) \in Int
        BY <3>2
      <4> QED
        BY <3>6, <4>1
    <3> HIDE DEF answer
    <3>8. Len(answer) = m /\ DOMAIN answer = 1 .. m
      <4>1. answer \in Seq(Int)
        BY <3>7, SeqDef
      <4> QED
        BY <3>7, <4>1, LenProperties
    <3> QED
      BY <3>1, <3>3, <3>4, <3>5, <3>6, <3>8
  <2> QED
    BY <2>1 DEF ReadIsNewest
<1> QED
  BY RingsKept, <1>1, PTL

-----------------------------------------------------------------------------
(* Local addresses: any number of callers, and of changes to the interfaces *)

Lists == [kind : {"nil", "some", "empty", "failed"}, data : Nat]
Refreshing == {"list", "publish"}
Places == Refreshing \union {"idle", "look", "lock", "answered"}

AddrTypes ==
  /\ addrs \in Lists /\ addrs.kind \in {"nil", "some"}
  /\ fresh \in BOOLEAN /\ bare \in BOOLEAN
  /\ holder \in Callers \union {Nobody}
  /\ at \in [Callers -> Places] /\ got \in [Callers -> Lists]
  /\ replugs \in Nat
  /\ seen \in [returned : Nat, dropped : Nat]
  /\ least \in [Callers -> Nat]

\* Who refreshes has the write lock.
OneRefreshes == \A c \in Callers : at[c] \in Refreshing => holder = c

\* A list that is as new as d satisfies everybody: all earlier answers, the
\* last Invalidate, and all who are waiting.
Satisfies(d) ==
  /\ seen.returned <= d /\ seen.dropped <= d
  /\ \A c \in Callers :
       /\ least[c] <= d
       /\ at[c] = "answered" => got[c].data <= d

AddrsKnown ==
  /\ AddrTypes /\ OneRefreshes
  /\ Satisfies(replugs)
  /\ HasFresh => addrs.data <= replugs /\ Satisfies(addrs.data)
  /\ \A c \in Callers :
       at[c] = "publish" => /\ got[c].kind \in {"some", "empty"}
                            /\ got[c].data <= replugs /\ Satisfies(got[c].data)
  /\ AddrsAreCurrent

(* Nothing is cached and nobody calls at the start.                        *)
LEMMA AddrsKnownInit == AddrsInit => AddrsKnown
<1> SUFFICES ASSUME AddrsInit
             PROVE  AddrsKnown
  OBVIOUS
<1> USE DEF AddrsInit
<1>1. AddrTypes
  BY DEF AddrTypes, NoList, Lists, Refreshing, Places
<1>2. OneRefreshes
  BY DEF OneRefreshes, Refreshing
<1>3. Satisfies(replugs)
  BY DEF Satisfies
<1>4. AddrsAreCurrent
  BY DEF AddrsAreCurrent
<1> QED
  BY <1>1, <1>2, <1>3, <1>4 DEF AddrsKnown, HasFresh

(* Every step of a caller keeps it, and so do Invalidate, the clock and    *)
(* whoever plugs interfaces.                                               *)
LEMMA AddrsKnownNext == AddrsKnown /\ [AddrsNext]_addrVars => AddrsKnown'
<1> SUFFICES ASSUME AddrsKnown, [AddrsNext]_addrVars
             PROVE  AddrsKnown'
  OBVIOUS
<1> USE NobodyAssumption
    DEF AddrsKnown, AddrTypes, OneRefreshes, Satisfies, AddrsAreCurrent, HasFresh, NoList, List,
        Lists, Refreshing, Places, Move, Larger
<1>1. ASSUME NEW c \in Callers, Call(c)
      PROVE  AddrsKnown'
  BY <1>1 DEF Call
<1>2. ASSUME NEW c \in Callers, Hit(c)
      PROVE  AddrsKnown'
  BY <1>2 DEF Hit
<1>3. ASSUME NEW c \in Callers, Miss(c)
      PROVE  AddrsKnown'
  BY <1>3 DEF Miss
<1>4. ASSUME NEW c \in Callers, LockHit(c)
      PROVE  AddrsKnown'
  BY <1>4 DEF LockHit
<1>5. ASSUME NEW c \in Callers, LockCancelled(c)
      PROVE  AddrsKnown'
  BY <1>5 DEF LockCancelled
<1>6. ASSUME NEW c \in Callers, LockMiss(c)
      PROVE  AddrsKnown'
  BY <1>6 DEF LockMiss
<1>7. ASSUME NEW c \in Callers, ListInterfaces(c)
      PROVE  AddrsKnown'
  BY <1>7 DEF ListInterfaces
<1>8. ASSUME NEW c \in Callers, ListFails(c)
      PROVE  AddrsKnown'
  BY <1>8 DEF ListFails
<1>9. ASSUME NEW c \in Callers, PublishAddrs(c)
      PROVE  AddrsKnown'
  BY <1>9 DEF PublishAddrs
<1>10. ASSUME NEW c \in Callers, Leave(c)
      PROVE  AddrsKnown'
  <2> USE <1>10 DEF Leave
  <2>1. /\ seen' \in [returned : Nat, dropped : Nat]
        /\ seen'.dropped = seen.dropped
        /\ seen'.returned \in {seen.returned, got[c].data}
    OBVIOUS
  <2>2. AddrTypes' /\ OneRefreshes'
    BY <2>1
  <2>3. ASSUME NEW d \in Nat, Satisfies(d)
        PROVE  Satisfies(d)'
    BY <2>1, <2>3
  <2>4. Satisfies(replugs)'
    BY <2>3
  <2>5. (HasFresh => addrs.data <= replugs /\ Satisfies(addrs.data))'
    <3>1. addrs.data \in Nat /\ UNCHANGED <<addrs, fresh, replugs>>
      OBVIOUS
    <3> QED
      BY <2>3, <3>1
  <2>6. ASSUME NEW q \in Callers, at'[q] = "publish"
        PROVE  /\ got'[q].kind \in {"some", "empty"}
               /\ got'[q].data <= replugs' /\ Satisfies(got[q].data)'
    <3>1. q # c /\ at[q] = "publish" /\ got'[q] = got[q] /\ got[q].data \in Nat
      BY <2>6
    <3> QED
      BY <2>3, <3>1
  <2>7. AddrsAreCurrent'
    OBVIOUS
  <2> HIDE DEF AddrTypes, OneRefreshes, Satisfies, AddrsAreCurrent, HasFresh
  <2> QED
    BY <2>2, <2>4, <2>5, <2>6, <2>7
<1>11. CASE InvalidateAddrs
  <2> USE <1>11 DEF InvalidateAddrs
  <2>1. /\ seen' \in [returned : Nat, dropped : Nat]
        /\ seen'.returned = seen.returned /\ seen'.dropped = replugs
    OBVIOUS
  <2>2. AddrTypes' /\ OneRefreshes'
    BY <2>1
  <2>3. Satisfies(replugs)'
    BY <2>1
  <2>4. ~HasFresh' /\ \A c \in Callers : at'[c] # "publish"
    OBVIOUS
  <2>5. AddrsAreCurrent'
    OBVIOUS
  <2> HIDE DEF AddrTypes, OneRefreshes, Satisfies, AddrsAreCurrent, HasFresh
  <2> QED
    BY <2>2, <2>3, <2>4, <2>5
<1>12. CASE Replug
  BY <1>12 DEF Replug
<1>13. CASE AddrsExpire
  BY <1>13 DEF AddrsExpire
<1>14. CASE UNCHANGED addrVars
  BY <1>14 DEF addrVars
<1> QED
  BY <1>1, <1>2, <1>3, <1>4, <1>5, <1>6, <1>7, <1>8, <1>9, <1>10, <1>11, <1>12, <1>13, <1>14
     DEF AddrsNext, Looks, Locks, Runs

(* AddrsAreCurrent: nobody is given addresses older than an earlier answer, *)
(* the last Invalidate (localaddr.go:79), or its own call if that found    *)
(* nothing fresh.                                                          *)
THEOREM AddrsStayCurrent == AddrsSpec => []AddrsAreCurrent
<1>1. AddrsKnown => AddrsAreCurrent
  BY DEF AddrsKnown
<1> QED
  BY AddrsKnownInit, AddrsKnownNext, <1>1, PTL DEF AddrsSpec

-----------------------------------------------------------------------------
(* Slot pool, for any set of owners, waiters and limits *)

\* UsageIsOwners is inductive together with TypeOK; finiteness of the owner set comes
\* from IdsAssumption.
PoolInv == TypeOK /\ UsageIsOwners

(* Adding an owner that is not there, or taking away one that is, changes  *)
(* the cardinality of the ownership table by exactly one.                  *)
LEMMA OwnersCount ==
  ASSUME NEW S \in SUBSET Ids, NEW id \in Ids
  PROVE  /\ Cardinality(S) \in Nat
         /\ id \notin S => Cardinality(S \union {id}) = Cardinality(S) + 1
         /\ id \in S => Cardinality(S \ {id}) = Cardinality(S) - 1
<1>1. IsFiniteSet(S)
  BY IdsAssumption, FS_Subset
<1>2. Cardinality(S) \in Nat
  BY <1>1, FS_CardinalityType
<1>3. id \notin S => Cardinality(S \union {id}) = Cardinality(S) + 1
  BY <1>1, FS_AddElement
<1>4. id \in S => Cardinality(S \ {id}) = Cardinality(S) - 1
  BY <1>1, FS_RemoveElement
<1> QED
  BY <1>2, <1>3, <1>4

(* The initial pool is empty and counts nothing.                           *)
LEMMA PoolInvInit == ClientsInit => PoolInv
<1>1. Cardinality({}) = 0
  BY FS_EmptySet
<1> QED
  BY <1>1, LimitsAssumption DEF ClientsInit, Init, PoolInv, TypeOK, UsageIsOwners

(* acquire, tryAcquire and release keep table and counter together;        *)
(* parking, waking and updateLimit touch neither.                          *)
LEMMA PoolInvNext == PoolInv /\ [Next]_vars => PoolInv'
<1> SUFFICES ASSUME PoolInv, [Next]_vars
             PROVE  PoolInv'
  OBVIOUS
<1> USE DEF PoolInv, TypeOK, UsageIsOwners
<1>1. ASSUME NEW id \in Ids, Grant(id),
             looping' \subseteq Sleepers, waiting \subseteq looping'
      PROVE  PoolInv'
  <2>1. Cardinality(acquiredBy \union {id}) = Cardinality(acquiredBy) + 1
    BY <1>1, OwnersCount DEF Grant, DoubleAcquire
  <2> QED
    BY <1>1, <2>1 DEF Grant
<1>2. ASSUME NEW id \in Ids, TryAcquire(id)
      PROVE  PoolInv'
  <2>1. CASE Grant(id)
    <3>1. looping' = looping
      BY <1>2 DEF TryAcquire
    <3> QED
      BY <1>1, <2>1, <3>1
  <2>2. CASE Refuse(id)
    BY <1>2, <2>2 DEF TryAcquire, Refuse, pool
  <2> QED
    BY <1>2, <2>1, <2>2 DEF TryAcquire
<1>3. ASSUME NEW id \in Ids, ReleaseOwned(id)
      PROVE  PoolInv'
  <2>1. Cardinality(acquiredBy \ {id}) = Cardinality(acquiredBy) - 1
    BY <1>3, OwnersCount DEF ReleaseOwned
  <2>2. waiting' \subseteq waiting
    BY <1>3 DEF ReleaseOwned, Release, Signal
  <2> QED
    BY <1>3, <2>1, <2>2 DEF ReleaseOwned, Release
<1>4. ASSUME NEW g \in Sleepers, EnterLoop(g)
      PROVE  PoolInv'
  BY <1>4 DEF EnterLoop, pool
<1>5. ASSUME NEW g \in Sleepers, AcquireReturns(g)
      PROVE  PoolInv'
  <2>1. g \in Ids /\ Grant(g)
    BY <1>5, IdsAssumption DEF AcquireReturns
  <2>2. looping' \subseteq Sleepers /\ waiting \subseteq looping'
    BY <1>5 DEF AcquireReturns, Awake
  <2> QED
    BY <1>1, <2>1, <2>2
<1>6. ASSUME NEW g \in Sleepers, WaitSlotReturns(g)
      PROVE  PoolInv'
  BY <1>6 DEF WaitSlotReturns, Pass, pool, Awake
<1>7. ASSUME NEW g \in Sleepers, FallAsleep(g)
      PROVE  PoolInv'
  BY <1>7 DEF FallAsleep, Park, Awake
<1>8. ASSUME NEW n \in Limits, SetLimit(n)
      PROVE  PoolInv'
  BY <1>8, LimitsAssumption DEF SetLimit, UpdateLimit, Clamp
<1>9. CASE UNCHANGED vars
  BY <1>9 DEF vars
<1> QED
  BY <1>2, <1>3, <1>4, <1>5, <1>6, <1>7, <1>8, <1>9 DEF Next, LoopStep

(* UsageIsOwners holds in every reachable state of every pool: usage, which *)
(* all capacity tests read, counts the owners (slot_pool.go:40, 58, 84).    *)
THEOREM UsageIsOwnersTheorem == Spec => []UsageIsOwners
<1>1. PoolInv => UsageIsOwners
  BY DEF PoolInv
<1> QED
  BY PoolInvInit, PoolInvNext, <1>1, PTL DEF Spec

(* GrantWithinLimit: only a step guarded by usage < maxCap raises usage.    *)
THEOREM GrantWithinLimitTheorem == Spec => GrantWithinLimit
<1>1. PoolInv /\ [Next]_vars => [usage' > usage => usage' <= maxCap']_vars
  <2> SUFFICES ASSUME PoolInv, Next, usage' > usage
               PROVE  usage' <= maxCap'
    BY DEF vars
  <2> USE DEF PoolInv, TypeOK
  <2>1. ASSUME NEW id \in Ids, Grant(id)
        PROVE  usage' <= maxCap'
    BY <2>1 DEF Grant, HasSlot
  <2>2. ASSUME UNCHANGED usage
        PROVE  FALSE
    BY <2>2
  <2>3. ASSUME NEW id \in Ids, ReleaseOwned(id)
        PROVE  FALSE
    BY <2>3 DEF ReleaseOwned, Release
  <2>4. PICK id \in Ids : Grant(id)
    <3>1. ASSUME NEW id \in Ids, TryAcquire(id)
          PROVE  \E x \in Ids : Grant(x)
      BY <2>2, <3>1 DEF TryAcquire, Refuse, pool
    <3>2. ASSUME NEW g \in Sleepers, EnterLoop(g) \/ LoopStep(g)
          PROVE  \E x \in Ids : Grant(x)
      BY <2>2, <3>2, IdsAssumption
         DEF EnterLoop, LoopStep, AcquireReturns, WaitSlotReturns, FallAsleep, Pass, Park, pool
    <3>3. ASSUME NEW n \in Limits, SetLimit(n)
          PROVE  FALSE
      BY <2>2, <3>3 DEF SetLimit, UpdateLimit
    <3> QED
      BY <2>3, <3>1, <3>2, <3>3 DEF Next
  <2> QED
    BY <2>1, <2>4
<1> QED
  BY PoolInvInit, PoolInvNext, <1>1, PTL DEF Spec, GrantWithinLimit

(* Both: usage counts the owners, and grants keep to the capacity.          *)
THEOREM CapacityIsKept == Spec => CapacityKept
<1>1. UsageIsOwners /\ UsageIsOwners' /\ [usage' > usage => usage' <= maxCap']_vars
        => [UsageIsOwners' /\ (usage' > usage => usage' <= maxCap')]_vars
  OBVIOUS
<1> QED
  BY <1>1, UsageIsOwnersTheorem, GrantWithinLimitTheorem, PTL
     DEF CapacityKept, GrantWithinLimit

-----------------------------------------------------------------------------
(* Process: the invariants of supervise and, step by step, the refinement of *)
(* ProcessContract (its safety; that Close ends a process is a liveness      *)
(* property and stays with TLC)                                              *)

\* What the position of supervise says about everything else.
Supervision ==
  /\ started = "yes" <=> sup # "none"
  /\ started # "yes" => /\ closer = "none" /\ reading = {} /\ ~ready
                        /\ leader = "none" /\ watcher = "none" /\ ~heirs
  /\ sup \in {"lock", "wait", "cleanup", "gone"} => reading = {}
  /\ leader = "reaped" <=> sup \in {"cleanup", "gone"}
  /\ done <=> sup = "gone"
  /\ stdin <=> sup # "gone"

ChildInv == ChildTypeOK /\ Supervision

(* Holds before Start.                                                     *)
LEMMA ChildInvInit == ChildInit => ChildInv
  BY DEF ChildInit, ChildInv, ChildTypeOK, Supervision, SupAt, CloserAt

(* Each goroutine keeps it.                                                *)
LEMMA ChildInvNext == ChildInv /\ [ChildNext]_childVars => ChildInv'
<1> SUFFICES ASSUME ChildInv, [ChildNext]_childVars
             PROVE  ChildInv'
  OBVIOUS
<1> USE DEF ChildInv, ChildTypeOK, Supervision, SupAt, CloserAt, group, channels
<1>1. CASE StartFails \/ Start \/ Enter \/ CallClose
  BY <1>1 DEF StartFails, Start, Enter, CallClose
<1>2. CASE CloserStep \/ CloserTimesOut
  <2>1. CASE CloserChecks
    BY <2>1 DEF CloserChecks
  <2>2. CASE CloserTerms
    BY <2>2 DEF CloserTerms
  <2>3. CASE CloserSeesDone
    BY <2>3 DEF CloserSeesDone
  <2>4. CASE CloserKills
    BY <2>4 DEF CloserKills
  <2>5. CASE CloserTimesOut
    BY <2>5 DEF CloserTimesOut
  <2> QED
    BY <1>2, <2>1, <2>2, <2>3, <2>4, <2>5 DEF CloserStep
<1>3. CASE ReadReadiness
  BY <1>3 DEF ReadReadiness
<1>4. ASSUME NEW p \in Pipes, ReaderEnds(p) \/ ReaderFails(p)
      PROVE  ChildInv'
  BY <1>4 DEF ReaderEnds, ReaderFails
<1>5. CASE SupStep \/ SupGraceOver
  <2>1. CASE SupFirstPipe
    BY <2>1 DEF SupFirstPipe
  <2>2. CASE SupBothPipes
    BY <2>2 DEF SupBothPipes
  <2>3. CASE SupSecondPipe
    BY <2>3 DEF SupSecondPipe
  <2>4. CASE SupLocks
    BY <2>4 DEF SupLocks
  <2>5. CASE SupReaps
    BY <2>5 DEF SupReaps
  <2>6. CASE SupFiresDone
    BY <2>6 DEF SupFiresDone
  <2>7. CASE SupGraceOver
    BY <2>7 DEF SupGraceOver
  <2> QED
    BY <1>5, <2>1, <2>2, <2>3, <2>4, <2>5, <2>6, <2>7 DEF SupStep
<1>6. CASE WatcherSeesDone
  BY <1>6 DEF WatcherSeesDone
<1>7. CASE WatcherCloses
  BY <1>7 DEF WatcherCloses
<1>8. CASE LeaderForks \/ LeaderExits \/ HeirsExit
  <2>1. CASE LeaderForks
    BY <2>1 DEF LeaderForks
  <2>2. CASE LeaderExits
    BY <2>2 DEF LeaderExits
  <2>3. CASE HeirsExit
    <3>1. heirs' = FALSE /\ held' \subseteq Pipes
      BY <2>3 DEF HeirsExit
    <3>2. UNCHANGED <<started, leader, reading, sup, watcher, closer, killed, stdin, ready, done,
                      entered>>
      BY <2>3 DEF HeirsExit
    <3>3. ChildTypeOK'
      <4> HIDE DEF SupAt, CloserAt, Supervision
      <4>1. /\ started' \in {"no", "yes", "failed"}
            /\ leader' \in {"none", "running", "zombie", "reaped"}
            /\ sup' \in SupAt /\ closer' \in CloserAt /\ watcher' \in {"none", "armed", "gone"}
            /\ entered' \in {"none", "ok", "error"}
        BY <3>2
      <4>2. /\ heirs' \in BOOLEAN /\ killed' \in BOOLEAN /\ stdin' \in BOOLEAN
            /\ ready' \in BOOLEAN /\ done' \in BOOLEAN /\ reading' \subseteq Pipes
        BY <3>1, <3>2
      <4> QED
        BY <3>1, <4>1, <4>2
    <3>4. Supervision'
      BY <3>1, <3>2
    <3> QED
      BY <3>3, <3>4
  <2> QED
    BY <1>8, <2>1, <2>2, <2>3
<1>9. ASSUME NEW p \in Pipes, GroupClosesPipe(p)
      PROVE  ChildInv'
  BY <1>9 DEF GroupClosesPipe
<1>10. CASE UNCHANGED childVars
  BY <1>10 DEF childVars
<1> QED
  BY <1>1, <1>2, <1>3, <1>4, <1>5, <1>6, <1>7, <1>8, <1>9, <1>10 DEF ChildNext

(* Done() fires only after the child was reaped, both pipes were drained   *)
(* and stdin was closed.                                                   *)
THEOREM DoneIsFinal == ChildSpec => []DoneMeansReaped
<1>1. ChildInv => DoneMeansReaped
  BY DEF ChildInv, Supervision, DoneMeansReaped
<1> QED
  BY ChildInvInit, ChildInvNext, <1>1, PTL DEF ChildSpec

(* The child is only reaped once both pipes are drained.                   *)
THEOREM DrainedBeforeReap == ChildSpec => []ReapAfterDrain
<1>1. ChildInv => ReapAfterDrain
  BY DEF ChildInv, Supervision, ReapAfterDrain
<1> QED
  BY ChildInvInit, ChildInvNext, <1>1, PTL DEF ChildSpec

(* A child ends in order: drained, reaped, stdin closed, done.             *)
THEOREM EndsInOrderAlways == ChildSpec => []EndsInOrder
<1>1. DoneMeansReaped /\ ReapAfterDrain => EndsInOrder
  BY Zenon DEF EndsInOrder, DoneMeansReaped, ReapAfterDrain
<1> QED
  BY DoneIsFinal, DrainedBeforeReap, <1>1, PTL

(* Every step of the goroutines is a step of ProcessContract or none.      *)
THEOREM KeepsContract == ChildSpec => Contract!Spec
<1> USE DEF Contract!vars
<1>1. ChildInit => Contract!Init
  BY DEF ChildInit, Contract!Init
<1>2. ChildInv /\ [ChildNext]_childVars => [Contract!Next]_(Contract!vars)
  <2> SUFFICES ASSUME ChildInv, [ChildNext]_childVars
               PROVE  Contract!Next \/ UNCHANGED Contract!vars
    OBVIOUS
  <2> USE DEF ChildInv, ChildTypeOK, Supervision, group, channels
  <2>1. CASE StartFails
    <3>1. Contract!StartFails
      BY <2>1 DEF StartFails, Contract!StartFails
    <3> QED
      BY <3>1 DEF Contract!Next
  <2>2. CASE Start
    <3>1. Contract!StartSucceeds
      BY <2>2 DEF Start, Contract!StartSucceeds
    <3> QED
      BY <3>1 DEF Contract!Next
  <2>3. CASE CallClose
    <3>1. Contract!Close
      BY <2>3 DEF CallClose, Contract!Close
    <3> QED
      BY <3>1 DEF Contract!Next
  <2>4. CASE SupGraceOver
    <3>1. Contract!Close
      BY <2>4 DEF SupGraceOver, Contract!Close
    <3> QED
      BY <3>1 DEF Contract!Next
  <2>5. CASE WatcherCloses
    <3>1. CASE started = "yes"
      <4>1. Contract!Close
        BY <2>5, <3>1 DEF WatcherCloses, Contract!Close
      <4> QED
        BY <4>1 DEF Contract!Next
    <3>2. CASE started # "yes"
      BY <2>5, <3>2 DEF WatcherCloses
    <3> QED
      BY <3>1, <3>2
  <2>6. CASE ReadReadiness
    <3>1. Contract!BecomesReady
      BY <2>6 DEF ReadReadiness, Contract!BecomesReady
    <3> QED
      BY <3>1 DEF Contract!Next
  <2>7. CASE SupFiresDone
    <3>1. Contract!Ends
      BY <2>7 DEF SupFiresDone, Contract!Ends
    <3> QED
      BY <3>1 DEF Contract!Next
  <2>8. CASE Enter \/ SupFirstPipe \/ SupBothPipes \/ SupSecondPipe \/ SupLocks \/ SupReaps
             \/ WatcherSeesDone \/ LeaderForks \/ LeaderExits \/ HeirsExit
    BY <2>8 DEF Enter, SupFirstPipe, SupBothPipes, SupSecondPipe, SupLocks, SupReaps,
       WatcherSeesDone, LeaderForks, LeaderExits, HeirsExit
  <2>9. CASE CloserStep \/ CloserTimesOut
    BY <2>9 DEF CloserStep, CloserChecks, CloserTerms, CloserSeesDone, CloserKills, CloserTimesOut
  <2>10. ASSUME NEW p \in Pipes, ReaderEnds(p) \/ ReaderFails(p) \/ GroupClosesPipe(p)
         PROVE  UNCHANGED Contract!vars
    BY <2>10 DEF ReaderEnds, ReaderFails, GroupClosesPipe
  <2>11. CASE UNCHANGED childVars
    BY <2>11 DEF childVars
  <2> QED
    BY <2>1, <2>2, <2>3, <2>4, <2>5, <2>6, <2>7, <2>8, <2>9, <2>10, <2>11 DEF ChildNext, SupStep
<1> QED
  BY ChildInvInit, ChildInvNext, <1>1, <1>2, PTL DEF ChildSpec, Contract!Spec

=============================================================================

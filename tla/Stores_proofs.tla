------------------------- MODULE Stores_proofs -------------------------
(***************************************************************************)
(* The object store and the data store, each a map with a listing in       *)
(* ascending order, for any ids, values and number of them.  They share no *)
(* state; what both do to a slice of ids and to the positions in it is     *)
(* proved once.                                                            *)
(***************************************************************************)
EXTENDS ObjectStore, DataStore, WellFoundedInduction, SequenceTheorems, TLAPS

-----------------------------------------------------------------------------
(* Slices *)

(* Among indices there is always a first.                                  *)
LEMMA FirstIndex ==
  ASSUME NEW S \in SUBSET Nat, S # {}
  PROVE  \E x \in S : \A y \in S : x <= y
<1> DEFINE R == {ss \in Nat \X Nat : ss[1] < ss[2]}
<1>1. OpToRel(<, Nat) = R
  BY DEF OpToRel
<1>2. IsWellFoundedOn(R, Nat)
  BY <1>1, NatLessThanWellFounded, Zenon
<1> HIDE DEF R
<1>3. PICK x \in S : \A y \in S : <<y, x>> \notin R
  BY <1>2, WFMin
<1>4. \A y \in S : ~(y < x)
  BY <1>3 DEF R
<1> QED
  BY <1>4

(* A slice with an element more, and with one less.                        *)
LEMMA Inserted ==
  ASSUME NEW S, NEW s \in Seq(S), NEW i \in 1 .. Len(s) + 1, NEW e \in S
  PROVE  /\ Insert(s, i, e) \in Seq(S) /\ Len(Insert(s, i, e)) = Len(s) + 1
<1> DEFINE t == [k \in 1 .. Len(s) + 1 |-> IF k < i THEN s[k] ELSE IF k = i THEN e ELSE s[k - 1]]
<1>1. Len(s) \in Nat /\ \A k \in 1 .. Len(s) : s[k] \in S
  BY LenProperties
<1>2. t \in [1 .. Len(s) + 1 -> S]
  BY <1>1
<1>3. t \in Seq(S) /\ Len(t) = Len(s) + 1
  <2>1. Len(s) + 1 \in Nat
    BY <1>1
  <2> HIDE DEF t
  <2>2. t \in Seq(S)
    BY <1>2, <2>1, SeqDef
  <2> QED
    BY <1>2, <2>1, <2>2, LenProperties
<1> QED
  BY <1>3 DEF Insert

(* What Cut returns is one shorter and holds nothing new.                  *)
LEMMA WithoutOne ==
  ASSUME NEW S, NEW s \in Seq(S), NEW i \in 1 .. Len(s)
  PROVE  /\ Cut(s, i) \in Seq(S) /\ Len(Cut(s, i)) = Len(s) - 1
<1> DEFINE t == [k \in 1 .. Len(s) - 1 |-> IF k < i THEN s[k] ELSE s[k + 1]]
<1>1. Len(s) \in Nat /\ \A k \in 1 .. Len(s) : s[k] \in S
  BY LenProperties
<1>2. t \in [1 .. Len(s) - 1 -> S]
  BY <1>1
<1>3. t \in Seq(S) /\ Len(t) = Len(s) - 1
  <2>1. Len(s) - 1 \in Nat
    BY <1>1
  <2> HIDE DEF t
  <2>2. t \in Seq(S)
    BY <1>2, <2>1, SeqDef
  <2> QED
    BY <1>2, <2>1, <2>2, LenProperties
<1> QED
  BY <1>3 DEF Cut

(* sort.Search finds where the id is or belongs.                           *)
LEMMA SearchFinds ==
  ASSUME NEW s \in Seq(Int), NEW id \in Int,
         \A j, k \in 1 .. Len(s) : j < k => s[j] < s[k]
  PROVE  /\ SearchIndex(s, id) \in 1 .. Len(s) + 1
         /\ \A k \in 1 .. Len(s) : IF k < SearchIndex(s, id) THEN s[k] < id ELSE s[k] >= id
<1> DEFINE N == Len(s)
           Up == {k \in 1 .. N : s[k] >= id} \union {N + 1}
           Fits(i) == /\ \A k \in 1 .. i - 1 : s[k] < id
                      /\ i <= N => s[i] >= id
<1>1. N \in Nat /\ \A k \in 1 .. N : s[k] \in Int
  BY LenProperties
<1>2. PICK i \in Up : \A k \in Up : i <= k
  <2>1. Up \in SUBSET Nat /\ Up # {}
    BY <1>1
  <2> HIDE DEF Up
  <2> QED
    BY <2>1, FirstIndex
<1>3. i \in 1 .. N + 1 /\ Fits(i)
  BY <1>1, <1>2
<1> DEFINE f == CHOOSE x \in 1 .. N + 1 : Fits(x)
<1>4. f \in 1 .. N + 1 /\ Fits(f)
  BY <1>3
<1>5. SearchIndex(s, id) = f
  BY DEF SearchIndex
<1> HIDE DEF f
<1>6. ASSUME NEW k \in 1 .. N
      PROVE  IF k < f THEN s[k] < id ELSE s[k] >= id
  <2>1. CASE k < f
    BY <1>1, <1>4, <2>1
  <2>2. CASE k >= f
    <3>1. f <= N /\ s[f] >= id
      BY <1>1, <1>4, <2>2
    <3>2. k = f \/ s[f] < s[k]
      BY <1>1, <1>4, <2>2, <3>1
    <3> QED
      BY <1>1, <1>4, <2>2, <3>1, <3>2
  <2> QED
    BY <1>1, <1>4, <2>1, <2>2
<1> QED
  BY <1>4, <1>5, <1>6

(* Writing the positions from i on anew, in a slice without repetitions.   *)
LEMMA PositionsWritten ==
  ASSUME NEW S, NEW s \in Seq(S), NEW f, NEW i \in 1 .. Len(s) + 1,
         \A j, k \in 1 .. Len(s) : s[j] = s[k] => j = k
  PROVE  LET g == Repositioned(f, s, i) IN
         /\ \A x : x \in DOMAIN g <=> x \in DOMAIN f \/ \E k \in i .. Len(s) : x = s[k]
         /\ \A k \in 1 .. Len(s) : k >= i => g[s[k]] = k
         /\ \A x \in DOMAIN f : (\A k \in i .. Len(s) : s[k] # x) => g[x] = f[x]
<1>1. Len(s) \in Nat
  BY LenProperties
<1>2. ASSUME NEW k \in 1 .. Len(s), k >= i
      PROVE  Repositioned(f, s, i)[s[k]] = k
  <2> DEFINE Last(j) == s[j] = s[k] /\ \A l \in j + 1 .. Len(s) : s[l] # s[k]
  <2>1. k \in i .. Len(s) /\ \A j \in i .. Len(s) : s[j] = s[k] => j = k
    BY <1>1, <1>2
  <2>2. Last(k)
    BY <1>1
  <2>3. (CHOOSE j \in i .. Len(s) : Last(j)) = k
    BY <2>1, <2>2
  <2> QED
    BY <2>1, <2>3 DEF Repositioned
<1> QED
  BY <1>2 DEF Repositioned

-----------------------------------------------------------------------------
(* The ids in order, and the positions in them *)

Indexes(s, p) ==
  /\ s \in Seq(Int)
  /\ \A j, k \in 1 .. Len(s) : j < k => s[j] < s[k]
  /\ \A x \in DOMAIN p : p[x] \in 1 .. Len(s) /\ s[p[x]] = x
  /\ \A k \in 1 .. Len(s) : s[k] \in DOMAIN p /\ p[s[k]] = k

(* What is in order has no repetitions.                                    *)
LEMMA AscendingOnce ==
  ASSUME NEW s \in Seq(Int), \A j, k \in 1 .. Len(s) : j < k => s[j] < s[k]
  PROVE  \A j, k \in 1 .. Len(s) : s[j] = s[k] => j = k
<1>1. Len(s) \in Nat /\ \A k \in 1 .. Len(s) : s[k] \in Int
  BY LenProperties
<1>2. ASSUME NEW j \in 1 .. Len(s), NEW k \in 1 .. Len(s), s[j] = s[k]
      PROVE  j = k
  <2>1. ~(s[j] < s[k]) /\ ~(s[k] < s[j])
    BY <1>1, <1>2
  <2>2. ~(j < k) /\ ~(k < j)
    BY <2>1
  <2> QED
    BY <1>1, <2>2
<1> QED
  BY <1>2

(* A new id in its place keeps the order.                                  *)
LEMMA InsertOrdered ==
  ASSUME NEW s \in Seq(Int), NEW i \in 1 .. Len(s) + 1, NEW e \in Int,
         \A j, k \in 1 .. Len(s) : j < k => s[j] < s[k],
         \A k \in 1 .. Len(s) : IF k < i THEN s[k] < e ELSE s[k] > e
  PROVE  \A j, k \in 1 .. Len(s) + 1 : j < k => Insert(s, i, e)[j] < Insert(s, i, e)[k]
<1> DEFINE t == Insert(s, i, e)
<1>1. Len(s) \in Nat /\ \A k \in 1 .. Len(s) : s[k] \in Int
  BY LenProperties
<1>2. \A k \in 1 .. Len(s) + 1 : t[k] = IF k < i THEN s[k] ELSE IF k = i THEN e ELSE s[k - 1]
  BY DEF Insert
<1> HIDE DEF t
<1>3. ASSUME NEW j \in 1 .. Len(s) + 1, NEW k \in 1 .. Len(s) + 1, j < k
      PROVE  t[j] < t[k]
  <2>1. CASE k < i
    BY <1>1, <1>2, <1>3, <2>1
  <2>2. CASE k = i
    BY <1>1, <1>2, <1>3, <2>2
  <2>3. CASE k > i
    <3>1. t[k] = s[k - 1] /\ k - 1 \in 1 .. Len(s)
      BY <1>1, <1>2, <1>3, <2>3
    <3>2. CASE j < i
      <4>1. t[j] = s[j] /\ j \in 1 .. Len(s)
        BY <1>1, <1>2, <1>3, <2>3, <3>2
      <4>2. j < k - 1
        BY <1>1, <2>3, <3>2
      <4> QED
        BY <3>1, <4>1, <4>2
    <3>3. CASE j = i
      BY <1>1, <1>2, <1>3, <2>3, <3>1, <3>3
    <3>4. CASE j > i
      <4>1. t[j] = s[j - 1] /\ j - 1 \in 1 .. Len(s) /\ j - 1 < k - 1
        BY <1>1, <1>2, <1>3, <2>3, <3>4
      <4> QED
        BY <3>1, <4>1
    <3> QED
      BY <1>1, <3>2, <3>3, <3>4
  <2> QED
    BY <1>1, <2>1, <2>2, <2>3
<1> QED
  BY <1>3 DEF t
(* A new id in its place, and the positions moved to match.               *)
LEMMA IndexWith ==
  ASSUME NEW s, NEW p, Indexes(s, p), NEW id \in Int, NEW q,
         NEW i \in 1 .. Len(s) + 1,
         \A k \in 1 .. Len(s) : IF k < i THEN s[k] < id ELSE s[k] > id,
         DOMAIN q = DOMAIN p \union {id}, q[id] = i,
         \A k \in 1 .. Len(s) : q[s[k]] = IF k < i THEN k ELSE k + 1
  PROVE  Indexes(Insert(s, i, id), q)
<1> DEFINE N == Len(s)
           t == Insert(s, i, id)
<1>1. N \in Nat /\ s \in Seq(Int) /\ \A k \in 1 .. N : s[k] \in Int
  BY LenProperties DEF Indexes
<1>2. /\ t \in Seq(Int) /\ Len(t) = N + 1
      /\ \A k \in 1 .. N + 1 : t[k] = IF k < i THEN s[k] ELSE IF k = i THEN id ELSE s[k - 1]
  <2>1. t \in Seq(Int) /\ Len(t) = N + 1
    BY <1>1, Inserted
  <2> QED
    BY <2>1 DEF Insert
<1>3. \A j, k \in 1 .. N + 1 : j < k => t[j] < t[k]
  <2>1. \A j, k \in 1 .. N : j < k => s[j] < s[k]
    BY DEF Indexes
  <2> QED
    BY <1>1, <2>1, InsertOrdered
<1> HIDE DEF t
<1>4. ASSUME NEW x \in DOMAIN q
      PROVE  q[x] \in 1 .. N + 1 /\ t[q[x]] = x
  <2>1. CASE x = id
    BY <1>1, <1>2, <2>1
  <2>2. CASE x # id
    <3>1. PICK k \in 1 .. N : x = s[k]
      BY <2>2 DEF Indexes
    <3>2. CASE k < i
      BY <1>1, <1>2, <3>1, <3>2
    <3>3. CASE ~(k < i)
      <4>1. k + 1 \in 1 .. N + 1 /\ ~(k + 1 < i) /\ k + 1 # i /\ (k + 1) - 1 = k
        BY <1>1, <3>3
      <4>2. t[k + 1] = s[k]
        BY <1>2, <4>1
      <4> QED
        BY <3>1, <3>3, <4>1, <4>2
    <3> QED
      BY <3>2, <3>3
  <2> QED
    BY <2>1, <2>2
<1>5. ASSUME NEW k \in 1 .. N + 1
      PROVE  t[k] \in DOMAIN q /\ q[t[k]] = k
  <2>1. CASE k = i
    BY <1>1, <1>2, <2>1
  <2>2. CASE k < i
    <3>1. k \in 1 .. N /\ t[k] = s[k]
      BY <1>1, <1>2, <2>2
    <3> QED
      BY <2>2, <3>1 DEF Indexes
  <2>3. CASE k > i
    <3>1. k - 1 \in 1 .. N /\ t[k] = s[k - 1] /\ ~(k - 1 < i) /\ (k - 1) + 1 = k
      BY <1>1, <1>2, <2>3
    <3> QED
      BY <3>1 DEF Indexes
  <2> QED
    BY <1>1, <2>1, <2>2, <2>3
<1>6. Indexes(t, q)
  BY <1>2, <1>3, <1>4, <1>5 DEF Indexes
<1> QED
  BY <1>6 DEF t

\* t and q index what p does, and id.
Gains(t, q, p, id) == Indexes(t, q) /\ DOMAIN q = DOMAIN p \union {id}

(* Where sort.Search puts a new id everything before is below it and       *)
(* everything from there on above; writing the positions from there on     *)
(* anew is enough.                                                         *)
LEMMA IndexGains ==
  ASSUME NEW s, NEW p, Indexes(s, p), NEW id \in Int, id \notin DOMAIN p
  PROVE  \E i \in 1 .. Len(s) + 1 :
           /\ i = SearchIndex(s, id)
           /\ i <= Len(s) => s[i] # id
           /\ Gains(Insert(s, i, id), Repositioned(p, Insert(s, i, id), i), p, id)
<1> DEFINE N == Len(s)
<1>1. /\ N \in Nat /\ s \in Seq(Int)
      /\ \A k \in 1 .. N : s[k] \in Int /\ s[k] \in DOMAIN p /\ p[s[k]] = k
      /\ \A j, k \in 1 .. N : j < k => s[j] < s[k]
  BY LenProperties DEF Indexes
<1>2. PICK i \in 1 .. N + 1 : i = SearchIndex(s, id)
  BY <1>1, SearchFinds
<1> DEFINE t == Insert(s, i, id)
           q == Repositioned(p, t, i)
<1>3. \A k \in 1 .. N : IF k < i THEN s[k] < id ELSE s[k] > id
  <2>1. \A k \in 1 .. N : IF k < i THEN s[k] < id ELSE s[k] >= id
    BY <1>1, <1>2, SearchFinds
  <2>2. \A k \in 1 .. N : s[k] # id
    BY <1>1
  <2> QED
    BY <1>1, <2>1, <2>2
<1>4. /\ t \in Seq(Int) /\ Len(t) = N + 1
      /\ \A k \in 1 .. N + 1 : t[k] = IF k < i THEN s[k] ELSE IF k = i THEN id ELSE s[k - 1]
  <2>1. t \in Seq(Int) /\ Len(t) = N + 1
    BY <1>1, Inserted
  <2> QED
    BY <2>1 DEF Insert
<1>5. \A j, k \in 1 .. N + 1 : t[j] = t[k] => j = k
  <2>1. \A j, k \in 1 .. N + 1 : j < k => t[j] < t[k]
    BY <1>1, <1>3, InsertOrdered
  <2> HIDE DEF t
  <2> QED
    BY <1>4, <2>1, AscendingOnce
<1> HIDE DEF t
<1>6. /\ \A x : x \in DOMAIN q <=> x \in DOMAIN p \/ \E k \in i .. N + 1 : x = t[k]
      /\ \A k \in 1 .. N + 1 : k >= i => q[t[k]] = k
      /\ \A x \in DOMAIN p : (\A k \in i .. N + 1 : t[k] # x) => q[x] = p[x]
  <2>1. i \in 1 .. Len(t) + 1 /\ Len(t) = N + 1 /\ t \in Seq(Int)
    BY <1>1, <1>4
  <2>2. \A j, k \in 1 .. Len(t) : t[j] = t[k] => j = k
    BY <1>5, <2>1
  <2>3. /\ \A x : x \in DOMAIN q <=> x \in DOMAIN p \/ \E k \in i .. Len(t) : x = t[k]
        /\ \A k \in 1 .. Len(t) : k >= i => q[t[k]] = k
        /\ \A x \in DOMAIN p : (\A k \in i .. Len(t) : t[k] # x) => q[x] = p[x]
    BY <2>1, <2>2, PositionsWritten
  <2> HIDE DEF q
  <2> QED
    BY <2>1, <2>3
<1> HIDE DEF q
<1>7. DOMAIN q = DOMAIN p \union {id} /\ q[id] = i
  <2>1. i \in 1 .. N + 1 /\ i \in i .. N + 1 /\ i >= i /\ t[i] = id
    BY <1>1, <1>4
  <2>2. ASSUME NEW k \in i .. N + 1
        PROVE  t[k] \in DOMAIN p \union {id}
    <3>1. k \in 1 .. N + 1 /\ (k = i \/ (~(k < i) /\ k # i /\ k - 1 \in 1 .. N))
      BY <1>1
    <3>2. CASE k = i
      BY <1>4, <3>1, <3>2
    <3>3. CASE ~(k < i) /\ k # i /\ k - 1 \in 1 .. N
      <4>1. t[k] = s[k - 1]
        BY <1>4, <3>1, <3>3
      <4> QED
        BY <1>1, <3>3, <4>1
    <3> QED
      BY <3>1, <3>2, <3>3
  <2>3. \A x : x \in DOMAIN q <=> x \in DOMAIN p \union {id}
    BY <1>6, <2>1, <2>2
  <2>4. DOMAIN q = DOMAIN p \union {id}
    BY <2>3
  <2> QED
    BY <1>6, <2>1, <2>4
<1>8. ASSUME NEW k \in 1 .. N
      PROVE  q[s[k]] = IF k < i THEN k ELSE k + 1
  <2>1. CASE k < i
    <3>1. k \in 1 .. N + 1 /\ t[k] = s[k]
      <4>1. k \in 1 .. N + 1
        BY <1>1
      <4> QED
        BY <1>4, <2>1, <4>1
    <3>2. \A j \in i .. N + 1 : t[j] # s[k]
      <4>1. \A j \in i .. N + 1 : j \in 1 .. N + 1 /\ j # k
        BY <1>1, <2>1
      <4> QED
        BY <1>5, <3>1, <4>1
    <3> QED
      BY <1>1, <1>6, <2>1, <3>2
  <2>2. CASE k >= i
    <3>1. k + 1 \in 1 .. N + 1 /\ k + 1 > i /\ k + 1 >= i /\ (k + 1) - 1 = k /\ ~(k < i)
      BY <1>1, <2>2
    <3>2. t[k + 1] = s[k]
      BY <1>1, <1>4, <3>1
    <3> QED
      BY <1>6, <3>1, <3>2
  <2> QED
    BY <1>1, <2>1, <2>2
<1>9. Indexes(t, q)
  <2>1. Indexes(Insert(s, i, id), q)
    BY <1>3, <1>7, <1>8, IndexWith
  <2> QED
    BY <2>1 DEF t
<1>10. i <= N => s[i] # id
  BY <1>1
<1> QED
  BY <1>2, <1>7, <1>9, <1>10 DEF t, q, Gains

(* Without one id, the gap closed and the positions behind it moved.       *)
LEMMA IndexLoses ==
  ASSUME NEW s, NEW p, Indexes(s, p), NEW i \in 1 .. Len(s)
  PROVE  LET t == Cut(s, i)
             q == Repositioned(Drop(p, s[i]), t, i)
         IN  Indexes(t, q) /\ DOMAIN q = DOMAIN p \ {s[i]}
<1> DEFINE N == Len(s)
           f == Drop(p, s[i])
           t == Cut(s, i)
           q == Repositioned(f, t, i)
<1>1. /\ N \in Nat /\ s \in Seq(Int)
      /\ \A k \in 1 .. N : s[k] \in Int
  BY LenProperties DEF Indexes
<1>2. /\ \A j, k \in 1 .. N : j < k => s[j] < s[k]
      /\ \A k \in 1 .. N : s[k] \in DOMAIN p /\ p[s[k]] = k
      /\ \A x \in DOMAIN p : p[x] \in 1 .. N /\ s[p[x]] = x
  BY DEF Indexes
<1>3. DOMAIN f = DOMAIN p \ {s[i]} /\ \A x \in DOMAIN f : f[x] = p[x]
  BY DEF Drop
<1> HIDE DEF f
<1>4. /\ t \in Seq(Int) /\ Len(t) = N - 1
      /\ \A k \in 1 .. N - 1 : t[k] = IF k < i THEN s[k] ELSE s[k + 1]
  <2>1. t \in Seq(Int) /\ Len(t) = N - 1
    BY <1>1, WithoutOne
  <2> QED
    BY <2>1 DEF Cut
<1> HIDE DEF t
\* Where each of the others was, and where it is.
<1>5. ASSUME NEW k \in 1 .. N - 1
      PROVE  \E j \in 1 .. N : j # i /\ t[k] = s[j] /\ k = IF j < i THEN j ELSE j - 1
  <2>1. CASE k < i
    <3>1. k \in 1 .. N /\ k # i
      BY <1>1, <2>1
    <3> QED
      BY <1>4, <2>1, <3>1
  <2>2. CASE ~(k < i)
    <3>1. k + 1 \in 1 .. N /\ k + 1 # i /\ ~(k + 1 < i) /\ k = (k + 1) - 1
      BY <1>1, <2>2
    <3>2. t[k] = s[k + 1]
      BY <1>4, <2>2
    <3> QED
      BY <3>1, <3>2
  <2> QED
    BY <2>1, <2>2
<1>6. ASSUME NEW j \in 1 .. N, j # i
      PROVE  \E k \in 1 .. N - 1 : t[k] = s[j]
  <2>1. CASE j < i
    <3>1. j \in 1 .. N - 1
      BY <1>1, <2>1
    <3> QED
      BY <1>4, <2>1, <3>1
  <2>2. CASE ~(j < i)
    <3>1. j - 1 \in 1 .. N - 1 /\ ~(j - 1 < i) /\ (j - 1) + 1 = j
      BY <1>1, <1>6, <2>2
    <3>2. t[j - 1] = s[j]
      BY <1>4, <3>1
    <3> QED
      BY <3>1, <3>2
  <2> QED
    BY <2>1, <2>2
<1>7. \A j, k \in 1 .. N - 1 : j < k => t[j] < t[k]
  <2>1. ASSUME NEW j \in 1 .. N - 1, NEW k \in 1 .. N - 1, j < k
        PROVE  t[j] < t[k]
    <3>1. PICK a \in 1 .. N : t[j] = s[a] /\ j = IF a < i THEN a ELSE a - 1
      BY <1>5
    <3>2. PICK b \in 1 .. N : t[k] = s[b] /\ k = IF b < i THEN b ELSE b - 1
      BY <1>5
    <3>3. a < b
      BY <1>1, <2>1, <3>1, <3>2
    <3> QED
      BY <1>2, <3>1, <3>2, <3>3
  <2> QED
    BY <2>1
<1>8. \A j, k \in 1 .. N - 1 : t[j] = t[k] => j = k
  BY <1>4, <1>7, AscendingOnce
<1>9. /\ \A x : x \in DOMAIN q <=> x \in DOMAIN f \/ \E k \in i .. N - 1 : x = t[k]
      /\ \A k \in 1 .. N - 1 : k >= i => q[t[k]] = k
      /\ \A x \in DOMAIN f : (\A k \in i .. N - 1 : t[k] # x) => q[x] = f[x]
  <2>0. Len(t) = N - 1
    BY <1>4
  <2>1. i \in 1 .. Len(t) + 1 /\ t \in Seq(Int)
    BY <1>1, <1>4
  <2>2. \A j, k \in 1 .. Len(t) : t[j] = t[k] => j = k
    BY <1>8, <2>0
  <2>3. /\ \A x : x \in DOMAIN q <=> x \in DOMAIN f \/ \E k \in i .. Len(t) : x = t[k]
        /\ \A k \in 1 .. Len(t) : k >= i => q[t[k]] = k
        /\ \A x \in DOMAIN f : (\A k \in i .. Len(t) : t[k] # x) => q[x] = f[x]
    BY <2>1, <2>2, PositionsWritten
  <2> HIDE DEF q
  <2> QED
    BY <2>0, <2>3
<1> HIDE DEF q
<1>10. ASSUME NEW k \in 1 .. N - 1
       PROVE  t[k] \in DOMAIN f /\ q[t[k]] = k
  <2>1. PICK j \in 1 .. N : j # i /\ t[k] = s[j] /\ k = IF j < i THEN j ELSE j - 1
    BY <1>5
  <2>2. s[j] # s[i] /\ s[j] \in DOMAIN f /\ f[s[j]] = j
    BY <1>2, <1>3, <2>1
  <2>3. CASE k >= i
    BY <1>9, <2>1, <2>2, <2>3
  <2>4. CASE ~(k >= i)
    <3>1. j = k
      BY <1>1, <2>1, <2>4
    <3>2. \A m \in i .. N - 1 : m \in 1 .. N - 1 /\ m # k
      BY <1>1, <2>4
    <3>3. \A m \in i .. N - 1 : t[m] # t[k]
      BY <1>8, <3>2
    <3> QED
      BY <1>9, <2>1, <2>2, <3>1, <3>3
  <2> QED
    BY <2>3, <2>4
<1>11. DOMAIN q = DOMAIN f
  <2>1. \A k \in i .. N - 1 : k \in 1 .. N - 1
    BY <1>1
  <2>2. \A x : x \in DOMAIN q <=> x \in DOMAIN f
    BY <1>9, <1>10, <2>1
  <2> QED
    BY <2>2
<1>12. ASSUME NEW x \in DOMAIN q
       PROVE  q[x] \in 1 .. N - 1 /\ t[q[x]] = x
  <2>1. x \in DOMAIN p /\ x # s[i]
    BY <1>3, <1>11
  <2>2. PICK j \in 1 .. N : j # i /\ s[j] = x
    BY <1>2, <2>1
  <2>3. PICK k \in 1 .. N - 1 : t[k] = x
    BY <1>6, <2>2
  <2> QED
    BY <1>10, <2>3
<1>13. Indexes(t, q)
  BY <1>4, <1>7, <1>10, <1>11, <1>12 DEF Indexes
<1> QED
  BY <1>3, <1>11, <1>13 DEF f, t, q

-----------------------------------------------------------------------------
(* Object store: Upsert and Delete *)

(* What FormsAgree says of the ids, and of the objects.                    *)
LEMMA FormsAre ==
  FormsAgree <=> /\ Indexes(ids, pos)
                 /\ ids \in Seq(ObjectIds) /\ vals \in Seq(Objects) /\ Len(vals) = Len(ids)
                 /\ DOMAIN pos = DOMAIN byID
                 /\ \A k \in 1 .. Len(ids) : byID[ids[k]] = vals[k]
<1>1. ASSUME ids \in Seq(ObjectIds)
      PROVE  ids \in Seq(Int)
  <2>1. Len(ids) \in Nat /\ ids \in [1 .. Len(ids) -> ObjectIds]
    BY <1>1, LenProperties, Zenon
  <2>2. ids \in [1 .. Len(ids) -> Int]
    BY <2>1, ObjectIdsAssumption
  <2> QED
    BY <2>1, <2>2, SeqDef
<1> QED
  BY <1>1 DEF FormsAgree, Indexes

(* The three forms with a new id, once the index has it.                   *)
LEMMA InsertKeeps ==
  ASSUME FormsAgree, NEW id \in ObjectIds, id \notin DOMAIN pos, NEW v \in Objects,
         NEW i \in 1 .. Len(ids) + 1,
         ids' = Insert(ids, i, id), vals' = Insert(vals, i, v), byID' = Put(byID, id, v),
         Indexes(ids', pos'), DOMAIN pos' = DOMAIN pos \union {id}
  PROVE  FormsAgree'
<1> DEFINE N == Len(ids)
<1>1. /\ N \in Nat /\ ids \in Seq(ObjectIds) /\ vals \in Seq(Objects) /\ Len(vals) = N
      /\ DOMAIN pos = DOMAIN byID
      /\ \A k \in 1 .. N : ids[k] \in DOMAIN byID /\ byID[ids[k]] = vals[k]
  BY LenProperties DEF FormsAgree
<1>2. /\ ids' \in Seq(ObjectIds) /\ Len(ids') = N + 1
      /\ \A k \in 1 .. N + 1 :
           ids'[k] = IF k < i THEN ids[k] ELSE IF k = i THEN id ELSE ids[k - 1]
  <2>1. ids' \in Seq(ObjectIds) /\ Len(ids') = N + 1
    BY <1>1, Inserted
  <2> QED
    BY <2>1 DEF Insert
<1>3. /\ vals' \in Seq(Objects) /\ Len(vals') = N + 1
      /\ \A k \in 1 .. N + 1 :
           vals'[k] = IF k < i THEN vals[k] ELSE IF k = i THEN v ELSE vals[k - 1]
  <2>1. i \in 1 .. Len(vals) + 1
    BY <1>1
  <2>2. vals' \in Seq(Objects) /\ Len(vals') = N + 1
    BY <1>1, <2>1, Inserted
  <2> QED
    BY <1>1, <2>2 DEF Insert
<1>4. DOMAIN byID' = DOMAIN byID \union {id} /\ byID'[id] = v
      /\ \A x \in DOMAIN byID : x # id => byID'[x] = byID[x]
  BY DEF Put
<1>5. ASSUME NEW k \in 1 .. N + 1
      PROVE  byID'[ids'[k]] = vals'[k]
  <2>1. CASE k = i
    BY <1>1, <1>2, <1>3, <1>4, <2>1
  <2>2. CASE k < i
    <3>1. k \in 1 .. N /\ ids'[k] = ids[k] /\ vals'[k] = vals[k]
      BY <1>1, <1>2, <1>3, <2>2
    <3> QED
      BY <1>1, <1>4, <3>1
  <2>3. CASE k > i
    <3>1. k - 1 \in 1 .. N /\ ids'[k] = ids[k - 1] /\ vals'[k] = vals[k - 1]
      BY <1>1, <1>2, <1>3, <2>3
    <3> QED
      BY <1>1, <1>4, <3>1
  <2> QED
    BY <1>1, <2>1, <2>2, <2>3
<1> QED
  BY <1>1, <1>2, <1>3, <1>4, <1>5 DEF FormsAgree, Indexes

(* Upsert of a new id that is the highest.                                 *)
LEMMA PushBackKeeps ==
  ASSUME FormsAgree, NEW id \in ObjectIds, NEW v \in Objects, PushBack(id, v)
  PROVE  FormsAgree'
<1> DEFINE N == Len(ids)
<1>1. /\ Indexes(ids, pos) /\ N \in Nat /\ Len(vals) = N /\ id \in Int
      /\ \A k \in 1 .. N : ids[k] \in Int /\ ids[k] \in DOMAIN pos /\ pos[ids[k]] = k
      /\ \A j, k \in 1 .. N : j < k => ids[j] < ids[k]
  <2>1. Indexes(ids, pos) /\ Len(vals) = N
    BY FormsAre
  <2> QED
    BY <2>1, LenProperties, ObjectIdsAssumption DEF Indexes
<1>2. PICK i \in 1 .. N + 1 : i = N + 1
  BY <1>1
<1>3. \A k \in 1 .. N : ids[k] < id
  <2>1. \A k \in 1 .. N : k = N => id > ids[k]
    BY DEF PushBack, IsHighest
  <2>2. \A k \in 1 .. N : k = N \/ (k < N /\ N \in 1 .. N)
    BY <1>1
  <2> QED
    BY <1>1, <2>1, <2>2
<1>4. \A k \in 1 .. N : IF k < i THEN ids[k] < id ELSE ids[k] > id
  BY <1>1, <1>2, <1>3
<1>5. /\ id \notin DOMAIN pos
      /\ ids' = Insert(ids, i, id) /\ vals' = Insert(vals, i, v) /\ byID' = Put(byID, id, v)
      /\ pos' = Put(pos, id, i)
  BY <1>1, <1>2 DEF PushBack
<1>6. /\ DOMAIN pos' = DOMAIN pos \union {id} /\ pos'[id] = i
      /\ \A k \in 1 .. N : pos'[ids[k]] = IF k < i THEN k ELSE k + 1
  BY <1>1, <1>2, <1>5 DEF Put
<1>7. Indexes(ids', pos')
  <2> DEFINE q == Put(pos, id, i)
  <2>1. /\ DOMAIN q = DOMAIN pos \union {id} /\ q[id] = i
        /\ \A k \in 1 .. N : q[ids[k]] = IF k < i THEN k ELSE k + 1
    BY <1>5, <1>6
  <2> HIDE DEF q
  <2>2. Indexes(Insert(ids, i, id), q)
    <3>1. Indexes(ids, pos) /\ id \in Int /\ i \in 1 .. Len(ids) + 1
      BY <1>1
    <3> QED
      BY <1>4, <2>1, <3>1, IndexWith
  <2> QED
    BY <1>5, <2>2 DEF q
<1> QED
  BY <1>5, <1>6, <1>7, InsertKeeps

(* Upsert of a new id that belongs before another: sort.Search finds its   *)
(* place and the positions behind it are written anew.                     *)
LEMMA InsertInsideKeeps ==
  ASSUME FormsAgree, NEW id \in ObjectIds, NEW v \in Objects, InsertInside(id, v)
  PROVE  FormsAgree'
<1>1. Indexes(ids, pos) /\ id \in Int /\ id \notin DOMAIN pos
  BY FormsAre, ObjectIdsAssumption DEF InsertInside
<1>2. PICK i \in 1 .. Len(ids) + 1 :
        /\ i = SearchIndex(ids, id)
        /\ Gains(Insert(ids, i, id), Repositioned(pos, Insert(ids, i, id), i), pos, id)
  BY <1>1, IndexGains
<1>3. /\ ids' = Insert(ids, i, id) /\ vals' = Insert(vals, i, v) /\ byID' = Put(byID, id, v)
      /\ pos' = Repositioned(pos, Insert(ids, i, id), i)
  BY <1>2 DEF InsertInside
<1>4. Indexes(ids', pos') /\ DOMAIN pos' = DOMAIN pos \union {id}
  BY <1>2, <1>3 DEF Gains
<1> QED
  BY <1>1, <1>3, <1>4, InsertKeeps

(* Upsert of an id that is there writes at its position.                   *)
LEMMA OverwriteKeeps ==
  ASSUME FormsAgree, NEW id \in ObjectIds, NEW v \in Objects, Overwrite(id, v)
  PROVE  FormsAgree'
<1>1. /\ Len(ids) \in Nat /\ Len(vals) = Len(ids) /\ vals \in [1 .. Len(ids) -> Objects]
      /\ id \in DOMAIN pos /\ pos[id] \in 1 .. Len(ids) /\ ids[pos[id]] = id
      /\ DOMAIN pos = DOMAIN byID
      /\ \A k \in 1 .. Len(ids) : pos[ids[k]] = k /\ byID[ids[k]] = vals[k]
  BY LenProperties DEF FormsAgree, Overwrite
<1>2. /\ byID' = Put(byID, id, v) /\ vals' = [vals EXCEPT ![pos[id]] = v]
      /\ ids' = ids /\ pos' = pos
  BY DEF Overwrite
<1>3. vals' \in Seq(Objects) /\ Len(vals') = Len(ids)
  <2>1. vals' \in [1 .. Len(ids) -> Objects]
    BY <1>1, <1>2
  <2>2. vals' \in Seq(Objects)
    BY <1>1, <2>1, SeqDef
  <2> QED
    BY <1>1, <2>1, <2>2, LenProperties
<1>4. DOMAIN byID' = DOMAIN byID
  BY <1>1, <1>2 DEF Put
<1>5. \A k \in 1 .. Len(ids) : byID'[ids[k]] = vals'[k]
  <2>1. ASSUME NEW k \in 1 .. Len(ids)
        PROVE  byID'[ids[k]] = vals'[k]
    <3>1. CASE k = pos[id]
      BY <1>1, <1>2, <3>1 DEF Put
    <3>2. CASE k # pos[id]
      <4>1. ids[k] # id /\ ids[k] \in DOMAIN byID
        BY <1>1, <3>2 DEF FormsAgree
      <4> QED
        BY <1>1, <1>2, <3>2, <4>1 DEF Put
    <3> QED
      BY <3>1, <3>2
  <2> QED
    BY <2>1
<1> QED
  BY <1>1, <1>2, <1>3, <1>4, <1>5 DEF FormsAgree
(* Delete closes the gap and moves the positions behind it.                *)
LEMMA DeleteKeeps ==
  ASSUME FormsAgree, NEW id \in ObjectIds, DeleteObject(id)
  PROVE  FormsAgree'
<1> DEFINE N == Len(ids)
<1>1. /\ N \in Nat /\ Indexes(ids, pos)
      /\ ids \in Seq(ObjectIds) /\ vals \in Seq(Objects) /\ Len(vals) = N
      /\ DOMAIN pos = DOMAIN byID
      /\ \A k \in 1 .. N : byID[ids[k]] = vals[k]
  BY FormsAre, LenProperties
<1>2. PICK i \in 1 .. N : i = pos[id] /\ ids[i] = id
  BY <1>1 DEF DeleteObject, Indexes
<1>3. /\ byID' = Drop(byID, id) /\ ids' = Cut(ids, i) /\ vals' = Cut(vals, i)
      /\ pos' = Repositioned(Drop(pos, id), ids', i)
  BY <1>2 DEF DeleteObject
<1>4. Indexes(ids', pos') /\ DOMAIN pos' = DOMAIN pos \ {id}
  <2> DEFINE t == Cut(ids, i)
             q == Repositioned(Drop(pos, ids[i]), t, i)
  <2>1. Indexes(t, q) /\ DOMAIN q = DOMAIN pos \ {ids[i]}
    BY <1>1, IndexLoses
  <2> QED
    BY <1>2, <1>3, <2>1
<1>5. /\ ids' \in Seq(ObjectIds) /\ Len(ids') = N - 1
      /\ \A k \in 1 .. N - 1 : ids'[k] = IF k < i THEN ids[k] ELSE ids[k + 1]
  <2>1. ids' \in Seq(ObjectIds) /\ Len(ids') = N - 1
    BY <1>1, <1>3, WithoutOne
  <2> QED
    BY <1>3, <2>1 DEF Cut
<1>6. /\ vals' \in Seq(Objects) /\ Len(vals') = N - 1
      /\ \A k \in 1 .. N - 1 : vals'[k] = IF k < i THEN vals[k] ELSE vals[k + 1]
  <2>1. i \in 1 .. Len(vals)
    BY <1>1
  <2>2. vals' \in Seq(Objects) /\ Len(vals') = N - 1
    BY <1>1, <1>3, <2>1, WithoutOne
  <2> QED
    BY <1>1, <1>3, <2>2 DEF Cut
<1>7. /\ DOMAIN byID' = DOMAIN byID \ {id}
      /\ \A x \in DOMAIN byID' : byID'[x] = byID[x]
  BY <1>3 DEF Drop
<1>8. ASSUME NEW k \in 1 .. N - 1
      PROVE  byID'[ids'[k]] = vals'[k]
  <2>1. ids'[k] \in DOMAIN byID'
    BY <1>1, <1>4, <1>5, <1>7 DEF Indexes
  <2>2. PICK j \in 1 .. N : ids'[k] = ids[j] /\ vals'[k] = vals[j]
    <3>1. k \in 1 .. N /\ k + 1 \in 1 .. N
      BY <1>1
    <3> QED
      BY <1>5, <1>6, <3>1
  <2> QED
    BY <1>1, <1>7, <2>1, <2>2
<1>9. /\ ids' \in Seq(ObjectIds) /\ vals' \in Seq(Objects) /\ Len(vals') = Len(ids')
      /\ DOMAIN pos' = DOMAIN byID'
      /\ \A k \in 1 .. Len(ids') : byID'[ids'[k]] = vals'[k]
  BY <1>1, <1>4, <1>5, <1>6, <1>7, <1>8
<1> QED
  BY <1>4, <1>9 DEF FormsAgree, Indexes

(* FormsAgree: map, slices and positions stay in step through every write, *)
(* for any ids, objects and number of them (objectstore.go:85, 149).       *)
THEOREM FormsStayInStep == ObjectsSpec => []FormsAgree
<1>1. ObjectsInit => FormsAgree
  <2> SUFFICES ASSUME ObjectsInit
               PROVE  FormsAgree
    OBVIOUS
  <2>1. /\ ids = <<>> /\ vals = <<>>
        /\ DOMAIN pos = {} /\ DOMAIN byID = {}
    BY DEF ObjectsInit
  <2>2. ids \in Seq(ObjectIds) /\ vals \in Seq(Objects) /\ Len(ids) = 0 /\ Len(vals) = 0
    BY <2>1
  <2>3. 1 .. Len(ids) = {}
    BY <2>2
  <2> QED
    BY <2>1, <2>2, <2>3 DEF FormsAgree
<1>2. FormsAgree /\ [ObjectsNext]_objectVars => FormsAgree'
  <2> SUFFICES ASSUME FormsAgree, [ObjectsNext]_objectVars
               PROVE  FormsAgree'
    OBVIOUS
  <2>1. ASSUME NEW id \in ObjectIds, DeleteObject(id)
        PROVE  FormsAgree'
    BY <2>1, DeleteKeeps
  <2>2. ASSUME NEW id \in ObjectIds, NEW v \in Objects, Upsert(id, v)
        PROVE  FormsAgree'
    BY <2>2, OverwriteKeeps, PushBackKeeps, InsertInsideKeeps DEF Upsert
  <2>3. CASE UNCHANGED objectVars
    BY <2>3 DEF objectVars, FormsAgree
  <2> QED
    BY <2>1, <2>2, <2>3 DEF ObjectsNext
<1> QED
  BY <1>1, <1>2, PTL DEF ObjectsSpec

(* What GetList copies lists the map in ascending order.                   *)
LEMMA SlicesListTheMap == FormsAgree => KeyedObjects!IsListing(ObjectList, Lookup)
<1> SUFFICES ASSUME FormsAgree
             PROVE  KeyedObjects!IsListing(ObjectList, Lookup)
  OBVIOUS
<1> DEFINE N == Len(ids)
<1>1. /\ N \in Nat /\ ids \in [1 .. N -> ObjectIds] /\ vals \in [1 .. N -> Objects]
      /\ DOMAIN ids = 1 .. N
  BY LenProperties DEF FormsAgree
<1>2. /\ DOMAIN ObjectList = 1 .. N
      /\ \A k \in 1 .. N : ObjectList[k] = <<ids[k], vals[k]>>
  BY <1>1 DEF ObjectList
<1>3. ObjectList \in Seq(ObjectIds \X Objects)
  <2>1. ObjectList \in [1 .. N -> ObjectIds \X Objects]
    BY <1>1 DEF ObjectList
  <2> QED
    BY <1>1, <2>1, SeqDef
<1>4. {ObjectList[k] : k \in DOMAIN ObjectList} = {<<id, byID[id]>> : id \in DOMAIN byID}
  <2>1. \A k \in 1 .. N : ids[k] \in DOMAIN byID /\ byID[ids[k]] = vals[k]
    BY DEF FormsAgree
  <2>2. \A id \in DOMAIN byID : \E k \in 1 .. N : ids[k] = id
    BY DEF FormsAgree
  <2>3. ASSUME NEW x \in {ObjectList[k] : k \in DOMAIN ObjectList}
        PROVE  x \in {<<id, byID[id]>> : id \in DOMAIN byID}
    <3>1. PICK k \in 1 .. N : x = <<ids[k], vals[k]>>
      BY <1>2
    <3> QED
      BY <2>1, <3>1
  <2>4. ASSUME NEW x \in {<<id, byID[id]>> : id \in DOMAIN byID}
        PROVE  x \in {ObjectList[k] : k \in DOMAIN ObjectList}
    <3>1. PICK id \in DOMAIN byID : x = <<id, byID[id]>>
      OBVIOUS
    <3>2. PICK k \in 1 .. N : ids[k] = id
      BY <2>2
    <3>3. x = ObjectList[k]
      BY <1>2, <2>1, <3>1, <3>2
    <3> QED
      BY <1>2, <3>3
  <2> QED
    BY <2>3, <2>4
<1>5. \A j, k \in DOMAIN ObjectList : j < k => ObjectList[j][1] < ObjectList[k][1]
  BY <1>2 DEF FormsAgree
<1> QED
  BY <1>3, <1>4, <1>5 DEF KeyedObjects!IsListing, Lookup

(* Every write of the object store is one of a map with a listing in       *)
(* ascending order, for any ids, objects and number of them.               *)
THEOREM ObjectStoreImplementsMap == ObjectsSpec => ObjectStoreIsKeyed
<1>1. ObjectsInit => KeyedObjects!Init
  BY DEF ObjectsInit, KeyedObjects!Init, Lookup, ObjectList
<1>2. FormsAgree' /\ [ObjectsNext]_objectVars => [KeyedObjects!Next]_(KeyedObjects!vars)
  <2> SUFFICES ASSUME FormsAgree', [ObjectsNext]_objectVars
               PROVE  [KeyedObjects!Next]_(KeyedObjects!vars)
    OBVIOUS
  <2>1. KeyedObjects!IsListing(ObjectList, Lookup)'
    BY SlicesListTheMap, PTL
  <2>2. ASSUME NEW id \in ObjectIds, DeleteObject(id)
        PROVE  KeyedObjects!Next
    <3>1. Lookup' = KeyedObjects!Without(Lookup, {id})
      BY <2>2 DEF DeleteObject, Drop, Lookup, KeyedObjects!Without, KeyedObjects!Restrict
    <3>2. KeyedObjects!Forget({id})
      BY <3>1 DEF KeyedObjects!Forget, KeyedObjects!Without, KeyedObjects!Restrict
    <3> QED
      BY <2>1, <3>2 DEF KeyedObjects!Next
  <2>3. ASSUME NEW id \in ObjectIds, NEW v \in Objects, Upsert(id, v)
        PROVE  KeyedObjects!Next
    <3>1. byID' = Put(byID, id, v)
      BY <2>3 DEF Upsert, Overwrite, PushBack, InsertInside
    <3>2. KeyedObjects!Put(id, v)
      BY <3>1 DEF KeyedObjects!Put, KeyedObjects!With, Put, Lookup
    <3> QED
      BY <2>1, <3>2 DEF KeyedObjects!Next
  <2>4. CASE UNCHANGED objectVars
    BY <2>4 DEF objectVars, KeyedObjects!vars, Lookup, ObjectList
  <2> QED
    BY <2>2, <2>3, <2>4 DEF ObjectsNext
<1> QED
  BY <1>1, <1>2, FormsStayInStep, PTL DEF ObjectsSpec, ObjectStoreIsKeyed, KeyedObjects!Spec

-----------------------------------------------------------------------------
(* Data store: the index *)

(* indexInsert of an id that is not there.                                 *)
LEMMA IndexInsertGains ==
  ASSUME NEW ix, Indexes(ix.ids, ix.pos), NEW id \in Int, id \notin DOMAIN ix.pos
  PROVE  Gains(IndexInsert(ix, id).ids, IndexInsert(ix, id).pos, ix.pos, id)
<1>1. PICK i \in 1 .. Len(ix.ids) + 1 :
        /\ i = SearchIndex(ix.ids, id)
        /\ i <= Len(ix.ids) => ix.ids[i] # id
        /\ Gains(Insert(ix.ids, i, id), Repositioned(ix.pos, Insert(ix.ids, i, id), i),
                 ix.pos, id)
  BY IndexGains
<1>2. IndexInsert(ix, id) = [ids |-> Insert(ix.ids, i, id),
                             pos |-> Repositioned(ix.pos, Insert(ix.ids, i, id), i)]
  BY <1>1 DEF IndexInsert
<1> QED
  BY <1>1, <1>2

(* indexRemoveAt: the places before the one removed stay as they are.      *)
LEMMA IndexRemoveLoses ==
  ASSUME NEW ix, Indexes(ix.ids, ix.pos), NEW i \in 1 .. Len(ix.ids)
  PROVE  /\ Indexes(IndexRemoveAt(ix, i).ids, IndexRemoveAt(ix, i).pos)
         /\ DOMAIN IndexRemoveAt(ix, i).pos = DOMAIN ix.pos \ {ix.ids[i]}
         /\ Len(IndexRemoveAt(ix, i).ids) = Len(ix.ids) - 1
         /\ \A k \in 1 .. i - 1 : IndexRemoveAt(ix, i).ids[k] = ix.ids[k]
<1> DEFINE t == Cut(ix.ids, i)
           q == Repositioned(Drop(ix.pos, ix.ids[i]), t, i)
<1>1. Indexes(t, q) /\ DOMAIN q = DOMAIN ix.pos \ {ix.ids[i]}
  BY IndexLoses
<1>2. Len(t) = Len(ix.ids) - 1
  BY WithoutOne DEF Indexes
<1>3. \A k \in 1 .. i - 1 : t[k] = ix.ids[k]
  <2>1. Len(ix.ids) \in Nat
    BY LenProperties DEF Indexes
  <2> QED
    BY <2>1 DEF Cut
<1>4. IndexRemoveAt(ix, i).ids = t /\ IndexRemoveAt(ix, i).pos = q
  BY DEF IndexRemoveAt
<1> HIDE DEF t, q
<1> QED
  BY <1>1, <1>2, <1>3, <1>4

(* indexRemoveAt at the position of an id.                                 *)
LEMMA IndexRemoveId ==
  ASSUME NEW ix, Indexes(ix.ids, ix.pos), NEW id \in DOMAIN ix.pos
  PROVE  /\ Indexes(IndexRemoveAt(ix, ix.pos[id]).ids, IndexRemoveAt(ix, ix.pos[id]).pos)
         /\ DOMAIN IndexRemoveAt(ix, ix.pos[id]).pos = DOMAIN ix.pos \ {id}
<1>1. ix.pos[id] \in 1 .. Len(ix.ids) /\ ix.ids[ix.pos[id]] = id
  BY DEF Indexes
<1> QED
  BY <1>1, IndexRemoveLoses

-----------------------------------------------------------------------------
(* Data store: healing *)

(* What holds of 0 and passes on to the next holds of every number.        *)
LEMMA EveryNumber ==
  ASSUME NEW S \in SUBSET Nat, 0 \in S, \A n \in Nat : n \in S => n + 1 \in S
  PROVE  S = Nat
<1> SUFFICES ASSUME Nat \ S # {}
             PROVE  FALSE
  OBVIOUS
<1>1. PICK n \in Nat \ S : \A m \in Nat \ S : n <= m
  BY FirstIndex
<1>2. n - 1 \in Nat /\ n - 1 \in S
  BY <1>1
<1> QED
  BY <1>1, <1>2

\* jx is ix without some ids that are not in Redis.
Healed(jx, ix) ==
  /\ Indexes(jx.ids, jx.pos)
  /\ DOMAIN jx.pos \subseteq DOMAIN ix.pos
  /\ \A id \in DOMAIN ix.pos \ DOMAIN jx.pos : id \notin DOMAIN recs

\* f is the healing of m ids that are asked for, and of the last m places.
Asking(f, ix, asked, m) ==
  f = [n \in 0 .. m |->
         IF n = 0 THEN ix
         ELSE IF asked[n] \in DOMAIN f[n - 1].pos \ DOMAIN recs
           THEN IndexRemoveAt(f[n - 1], f[n - 1].pos[asked[n]])
           ELSE f[n - 1]]
Sweep(f, ix, m) ==
  f = [n \in 0 .. m |->
         IF n = 0 THEN ix
         ELSE IF ix.ids[Len(ix.ids) - n + 1] \notin DOMAIN recs
           THEN IndexRemoveAt(f[n - 1], Len(ix.ids) - n + 1)
           ELSE f[n - 1]]

(* Both are defined.                                                       *)
LEMMA AskingExists ==
  ASSUME NEW ix, NEW asked, Len(asked) \in Nat
  PROVE  \E f : Asking(f, ix, asked, Len(asked)) /\ HealAsked(ix, asked) = f[Len(asked)]
<1> DEFINE S == {m \in Nat : \E f : Asking(f, ix, asked, m)}
           Next1(e, n) == IF asked[n] \in DOMAIN e.pos \ DOMAIN recs
                            THEN IndexRemoveAt(e, e.pos[asked[n]]) ELSE e
<1>1. 0 \in S
  <2> DEFINE f == [n \in 0 .. 0 |-> ix]
  <2>1. Asking(f, ix, asked, 0)
    BY DEF Asking
  <2> QED
    BY <2>1
<1>2. ASSUME NEW m \in Nat, m \in S
      PROVE  m + 1 \in S
  <2>1. PICK f : Asking(f, ix, asked, m)
    BY <1>2
  <2> DEFINE g == [n \in 0 .. m + 1 |-> IF n <= m THEN f[n] ELSE Next1(f[m], m + 1)]
  <2>2. Asking(g, ix, asked, m + 1)
    <3>1. \A n \in 0 .. m : f[n] = IF n = 0 THEN ix ELSE Next1(f[n - 1], n)
      BY <2>1 DEF Asking
    <3> HIDE DEF Next1
    <3>2. ASSUME NEW n \in 0 .. m + 1
          PROVE  g[n] = IF n = 0 THEN ix ELSE Next1(g[n - 1], n)
      BY <3>1, <3>2
    <3>3. g = [n \in 0 .. m + 1 |-> g[n]]
      OBVIOUS
    <3> HIDE DEF g
    <3> QED
      BY <3>2, <3>3 DEF Asking, Next1
  <2> QED
    BY <2>2
<1>3. S = Nat
  <2>1. S \in SUBSET Nat
    OBVIOUS
  <2> HIDE DEF S
  <2> QED
    BY <1>1, <1>2, <2>1, EveryNumber
<1> DEFINE f == CHOOSE f : Asking(f, ix, asked, Len(asked))
<1>4. Asking(f, ix, asked, Len(asked))
  BY <1>3
<1>5. HealAsked(ix, asked) = f[Len(asked)]
  BY DEF HealAsked, Asking
<1> QED
  BY <1>4, <1>5

LEMMA SweepExists ==
  ASSUME NEW ix, Len(ix.ids) \in Nat
  PROVE  \E f : Sweep(f, ix, Len(ix.ids)) /\ HealAll(ix) = f[Len(ix.ids)]
<1> DEFINE S == {m \in Nat : \E f : Sweep(f, ix, m)}
           Next1(e, n) == IF ix.ids[Len(ix.ids) - n + 1] \notin DOMAIN recs
                            THEN IndexRemoveAt(e, Len(ix.ids) - n + 1) ELSE e
<1>1. 0 \in S
  <2> DEFINE f == [n \in 0 .. 0 |-> ix]
  <2>1. Sweep(f, ix, 0)
    BY DEF Sweep
  <2> QED
    BY <2>1
<1>2. ASSUME NEW m \in Nat, m \in S
      PROVE  m + 1 \in S
  <2>1. PICK f : Sweep(f, ix, m)
    BY <1>2
  <2> DEFINE g == [n \in 0 .. m + 1 |-> IF n <= m THEN f[n] ELSE Next1(f[m], m + 1)]
  <2>2. Sweep(g, ix, m + 1)
    <3>1. \A n \in 0 .. m : f[n] = IF n = 0 THEN ix ELSE Next1(f[n - 1], n)
      BY <2>1 DEF Sweep
    <3> HIDE DEF Next1
    <3>2. ASSUME NEW n \in 0 .. m + 1
          PROVE  g[n] = IF n = 0 THEN ix ELSE Next1(g[n - 1], n)
      BY <3>1, <3>2
    <3>3. g = [n \in 0 .. m + 1 |-> g[n]]
      OBVIOUS
    <3> HIDE DEF g
    <3> QED
      BY <3>2, <3>3 DEF Sweep, Next1
  <2> QED
    BY <2>2
<1>3. S = Nat
  <2>1. S \in SUBSET Nat
    OBVIOUS
  <2> HIDE DEF S
  <2> QED
    BY <1>1, <1>2, <2>1, EveryNumber
<1> DEFINE f == CHOOSE f : Sweep(f, ix, Len(ix.ids))
<1>4. Sweep(f, ix, Len(ix.ids))
  BY <1>3
<1>5. HealAll(ix) = f[Len(ix.ids)]
  BY DEF HealAll, Sweep
<1> QED
  BY <1>4, <1>5

(* GetMany takes out what was asked for and is not in Redis.               *)
LEMMA AskedHealed ==
  ASSUME NEW ix, Indexes(ix.ids, ix.pos), NEW asked, Len(asked) \in Nat
  PROVE  Healed(HealAsked(ix, asked), ix)
<1> DEFINE M == Len(asked)
<1>1. PICK f : Asking(f, ix, asked, M) /\ HealAsked(ix, asked) = f[M]
  BY AskingExists
<1>2. f[0] = ix
  BY <1>1 DEF Asking
<1> DEFINE S == {n \in Nat : n <= M => Healed(f[n], ix)}
<1>3. 0 \in S
  BY <1>2 DEF Healed
<1>4. ASSUME NEW n \in Nat, n \in S
      PROVE  n + 1 \in S
  <2> SUFFICES ASSUME n + 1 <= M
               PROVE  Healed(f[n + 1], ix)
    OBVIOUS
  <2>1. Healed(f[n], ix)
    BY <1>4
  <2>2. f[n + 1] = IF asked[n + 1] \in DOMAIN f[n].pos \ DOMAIN recs
                     THEN IndexRemoveAt(f[n], f[n].pos[asked[n + 1]])
                     ELSE f[n]
    <3>1. n + 1 \in 0 .. M /\ n + 1 # 0 /\ (n + 1) - 1 = n
      OBVIOUS
    <3> QED
      BY <1>1, <3>1 DEF Asking
  <2>3. CASE asked[n + 1] \in DOMAIN f[n].pos \ DOMAIN recs
    <3>1. /\ Indexes(f[n + 1].ids, f[n + 1].pos)
          /\ DOMAIN f[n + 1].pos = DOMAIN f[n].pos \ {asked[n + 1]}
      BY <2>1, <2>2, <2>3, IndexRemoveId DEF Healed
    <3> QED
      BY <2>1, <2>3, <3>1 DEF Healed
  <2>4. CASE asked[n + 1] \notin DOMAIN f[n].pos \ DOMAIN recs
    BY <2>1, <2>2, <2>4
  <2> QED
    BY <2>3, <2>4
<1>5. S = Nat
  <2>1. S \in SUBSET Nat
    OBVIOUS
  <2> HIDE DEF S
  <2> QED
    BY <1>3, <1>4, <2>1, EveryNumber
<1> QED
  BY <1>1, <1>5

(* GetList works back to front: the places it has yet to look at are those *)
(* it read before it removed anything.                                     *)
LEMMA AllHealed ==
  ASSUME NEW ix, Indexes(ix.ids, ix.pos)
  PROVE  Healed(HealAll(ix), ix)
<1> DEFINE M == Len(ix.ids)
<1>1. M \in Nat
  BY LenProperties DEF Indexes
<1>2. PICK f : Sweep(f, ix, M) /\ HealAll(ix) = f[M]
  BY <1>1, SweepExists
<1>3. f[0] = ix
  BY <1>1, <1>2 DEF Sweep
<1> DEFINE Swept(n) == /\ Healed(f[n], ix)
                       /\ M - n <= Len(f[n].ids)
                       /\ \A k \in 1 .. M - n : f[n].ids[k] = ix.ids[k]
           S == {n \in Nat : n <= M => Swept(n)}
<1>4. 0 \in S
  <2>1. Swept(0)
    BY <1>1, <1>3 DEF Healed
  <2> HIDE DEF Swept
  <2> QED
    BY <2>1
<1> HIDE DEF Swept
<1>5. ASSUME NEW n \in Nat, n \in S
      PROVE  n + 1 \in S
  <2> SUFFICES ASSUME n + 1 <= M
               PROVE  Swept(n + 1)
    OBVIOUS
  <2>0. n <= M
    BY <1>1
  <2>1. Swept(n)
    BY <1>5, <2>0
  <2>2. PICK i \in 1 .. M : i = M - n
    <3>1. \A m \in Nat : n + 1 <= m => m - n \in 1 .. m
      OBVIOUS
    <3>2. M - n \in 1 .. M
      BY <1>1, <3>1
    <3> QED
      BY <3>2, Zenon
  <2>3. f[n + 1] = IF ix.ids[i] \notin DOMAIN recs THEN IndexRemoveAt(f[n], i) ELSE f[n]
    <3>1. n + 1 \in 0 .. M /\ n + 1 # 0 /\ (n + 1) - 1 = n /\ M - (n + 1) + 1 = i
      BY <1>1, <2>2
    <3>2. \A m \in 0 .. M :
            f[m] = IF m = 0 THEN ix
                   ELSE IF ix.ids[M - m + 1] \notin DOMAIN recs
                     THEN IndexRemoveAt(f[m - 1], M - m + 1)
                     ELSE f[m - 1]
      BY <1>2 DEF Sweep
    <3>3. f[n + 1] = IF ix.ids[M - (n + 1) + 1] \notin DOMAIN recs
                       THEN IndexRemoveAt(f[(n + 1) - 1], M - (n + 1) + 1)
                       ELSE f[(n + 1) - 1]
      BY <3>1, <3>2, Zenon
    <3> QED
      BY <3>1, <3>3, Zenon
  <2>4. M - (n + 1) = i - 1 /\ Len(f[n].ids) \in Nat
    <3>1. M - (n + 1) = i - 1
      BY <1>1, <2>2
    <3>2. f[n].ids \in Seq(Int)
      BY <2>1 DEF Swept, Healed, Indexes
    <3> QED
      BY <3>1, <3>2, LenProperties
  <2>5. CASE ix.ids[i] \notin DOMAIN recs
    <3>1. Indexes(f[n].ids, f[n].pos) /\ i \in 1 .. Len(f[n].ids) /\ f[n].ids[i] = ix.ids[i]
      <4>1. Indexes(f[n].ids, f[n].pos) /\ i <= Len(f[n].ids)
        BY <2>1, <2>2 DEF Swept, Healed
      <4>2. \A k \in 1 .. i : f[n].ids[k] = ix.ids[k]
        BY <2>1, <2>2 DEF Swept
      <4>3. i \in 1 .. i /\ i \in Nat /\ i >= 1
        BY <1>1
      <4> QED
        BY <2>4, <4>1, <4>2, <4>3
    <3>2. /\ Indexes(f[n + 1].ids, f[n + 1].pos)
          /\ DOMAIN f[n + 1].pos = DOMAIN f[n].pos \ {ix.ids[i]}
          /\ Len(f[n + 1].ids) = Len(f[n].ids) - 1
          /\ \A k \in 1 .. i - 1 : f[n + 1].ids[k] = f[n].ids[k]
      <4>1. f[n + 1] = IndexRemoveAt(f[n], i)
        BY <2>3, <2>5
      <4>2. /\ Indexes(IndexRemoveAt(f[n], i).ids, IndexRemoveAt(f[n], i).pos)
            /\ DOMAIN IndexRemoveAt(f[n], i).pos = DOMAIN f[n].pos \ {f[n].ids[i]}
            /\ Len(IndexRemoveAt(f[n], i).ids) = Len(f[n].ids) - 1
            /\ \A k \in 1 .. i - 1 : IndexRemoveAt(f[n], i).ids[k] = f[n].ids[k]
        BY <3>1, IndexRemoveLoses
      <4> QED
        BY <3>1, <4>1, <4>2
    <3>3. Healed(f[n + 1], ix)
      BY <2>1, <2>5, <3>2 DEF Swept, Healed
    <3>4. \A k \in 1 .. i - 1 : f[n].ids[k] = ix.ids[k]
      BY <1>1, <2>1, <2>2 DEF Swept
    <3> QED
      BY <1>1, <2>4, <3>1, <3>2, <3>3, <3>4 DEF Swept
  <2>6. CASE ix.ids[i] \in DOMAIN recs
    <3>1. f[n + 1] = f[n]
      BY <2>3, <2>6
    <3>2. i - 1 <= Len(f[n].ids) /\ \A k \in 1 .. i - 1 : f[n].ids[k] = ix.ids[k]
      BY <1>1, <2>1, <2>2, <2>4 DEF Swept
    <3> QED
      BY <2>1, <2>4, <3>1, <3>2 DEF Swept
  <2> QED
    BY <2>5, <2>6
<1>6. S = Nat
  <2>1. S \in SUBSET Nat
    OBVIOUS
  <2> HIDE DEF S
  <2> QED
    BY <1>4, <1>5, <2>1, EveryNumber
<1>7. Swept(M)
  BY <1>1, <1>6
<1> QED
  BY <1>2, <1>7 DEF Swept

-----------------------------------------------------------------------------
(* Data store: every operation *)

DataInv ==
  /\ seq \in 0 .. MaxRecords
  /\ DOMAIN recs \subseteq 1 .. seq /\ \A id \in DOMAIN recs : recs[id] \in Values
  /\ Indexed \subseteq 1 .. seq
  /\ Indexes(index.ids, index.pos)

(* Create: the new id is that of no record and not in the index.           *)
LEMMA CreateKeeps ==
  ASSUME DataInv, NEW v \in Values, NEW result \in Results, Create(v, result)
  PROVE  /\ DataInv'
         /\ seq + 1 \in RecordIds \ (DOMAIN recs \union Indexed)
         /\ Indexed' = IF result = "ok" THEN Indexed \union {seq + 1} ELSE Indexed
<1> DEFINE id == seq + 1
<1>1. seq \in Nat /\ id \in 1 .. MaxRecords /\ seq' = id /\ id \notin 1 .. seq
  BY MaxRecordsAssumption DEF Create, DataInv
<1>2. id \notin DOMAIN recs /\ id \notin Indexed /\ id \in Int
  BY <1>1 DEF DataInv
<1>3. /\ Indexes(index'.ids, index'.pos)
      /\ Indexed' = IF result = "ok" THEN Indexed \union {id} ELSE Indexed
  <2>1. CASE result = "ok"
    <3>1. Gains(IndexInsert(index, id).ids, IndexInsert(index, id).pos, index.pos, id)
      <4>1. Indexes(index.ids, index.pos) /\ id \in Int /\ id \notin DOMAIN index.pos
        BY <1>2 DEF DataInv, Indexed
      <4> HIDE DEF id
      <4> QED
        BY <4>1, IndexInsertGains
    <3>2. index' = IndexInsert(index, id)
      BY <2>1 DEF Create
    <3> QED
      BY <2>1, <3>1, <3>2 DEF Gains, Indexed
  <2>2. CASE result # "ok"
    BY <2>2 DEF Create, DataInv, Indexed
  <2> QED
    BY <2>1, <2>2
<1>4. DOMAIN recs' \subseteq DOMAIN recs \union {id} /\ \A x \in DOMAIN recs' : recs'[x] \in Values
  BY DEF Create, Put, DataInv
<1>5. 1 .. seq' = 1 .. seq \union {id} /\ seq' \in 0 .. MaxRecords
  BY <1>1
<1>6. DataInv'
  BY <1>3, <1>4, <1>5 DEF DataInv
<1> QED
  BY <1>1, <1>2, <1>3, <1>6 DEF RecordIds

(* Delete of an id, in the index or not.                                   *)
LEMMA RecordDeleted ==
  ASSUME DataInv, NEW id \in RecordIds, NEW result \in Results, Delete(id, result)
  PROVE  /\ DataInv'
         /\ Indexed' = IF result = "ok" THEN Indexed \ {id} ELSE Indexed
<1>1. /\ Indexes(index'.ids, index'.pos)
      /\ Indexed' = IF result = "ok" THEN Indexed \ {id} ELSE Indexed
  <2>1. CASE result = "ok" /\ id \in Indexed
    <3>1. index' = IndexRemoveAt(index, index.pos[id])
      BY <2>1 DEF Delete
    <3>2. Indexes(index.ids, index.pos) /\ id \in DOMAIN index.pos
      BY <2>1 DEF DataInv, Indexed
    <3> QED
      BY <2>1, <3>1, <3>2, IndexRemoveId DEF Indexed
  <2>2. CASE ~(result = "ok" /\ id \in Indexed)
    <3>1. index' = index
      BY <2>2 DEF Delete
    <3> QED
      BY <2>2, <3>1 DEF DataInv, Indexed
  <2> QED
    BY <2>1, <2>2
<1>2. DOMAIN recs' \subseteq DOMAIN recs /\ \A x \in DOMAIN recs' : recs'[x] = recs[x]
  BY DEF Delete, Drop
<1> QED
  BY <1>1, <1>2 DEF DataInv, Delete

\* A read that heals: ids that are not in Redis leave the index.
Heals == /\ recs' = recs /\ seq' = seq
         /\ Healed(index', index)

(* Every read heals, and the index stays in order.                         *)
LEMMA ReadsHeal ==
  ASSUME DataInv,
         \/ \E id \in RecordIds : GetOne(id)
         \/ \E j, k \in RecordIds : GetMany(<<j, k>>)
         \/ GetList
  PROVE  Heals
<1>1. Indexes(index.ids, index.pos)
  BY DEF DataInv
<1>2. ASSUME NEW id \in RecordIds, GetOne(id)
      PROVE  Heals
  <2>1. id \in DOMAIN index.pos /\ id \notin DOMAIN recs
    BY <1>2 DEF GetOne, Indexed
  <2>2. index' = IndexRemoveAt(index, index.pos[id]) /\ recs' = recs /\ seq' = seq
    BY <1>2 DEF GetOne
  <2> QED
    BY <1>1, <2>1, <2>2, IndexRemoveId DEF Heals, Healed
<1>3. ASSUME NEW j \in RecordIds, NEW k \in RecordIds, GetMany(<<j, k>>)
      PROVE  Heals
  <2>1. Len(<<j, k>>) \in Nat
    OBVIOUS
  <2>2. PICK asked : asked = <<j, k>>
    OBVIOUS
  <2>3. Healed(HealAsked(index, asked), index)
    BY <1>1, <2>1, <2>2, AskedHealed
  <2> QED
    BY <1>3, <2>2, <2>3 DEF GetMany, Heals
<1>4. CASE GetList
  BY <1>1, <1>4, AllHealed DEF GetList, Heals
<1> QED
  BY <1>2, <1>3, <1>4

(* A heal keeps the order of the index.                                    *)
LEMMA HealKeeps ==
  ASSUME DataInv, Heals
  PROVE  /\ DataInv' /\ Indexed' \subseteq Indexed
         /\ \A id \in Indexed \ Indexed' : id \notin DOMAIN recs
BY DEF DataInv, Heals, Healed, Indexed

(* A SCAN that returns each key once, in order, makes a new index of the   *)
(* records, and its last id is the highest.                                *)
LEMMA ScanIndexes ==
  ASSUME DataInv, ~ScanRepeats, NEW scan \in Scans
  PROVE  /\ Indexes(scan, Repositioned(<<>>, scan, 1))
         /\ DOMAIN Repositioned(<<>>, scan, 1) = DOMAIN recs
         /\ MaxID(scan) \in 0 .. MaxRecords /\ DOMAIN recs \subseteq 1 .. MaxID(scan)
<1> DEFINE q == Repositioned(<<>>, scan, 1)
<1>1. seq \in Nat /\ MaxRecords \in Nat /\ seq <= MaxRecords /\ DOMAIN recs \subseteq 1 .. seq
  BY MaxRecordsAssumption DEF DataInv
<1>2. PICK n \in 0 .. MaxRecords : scan \in [1 .. n -> DOMAIN recs]
  BY DEF Scans, MaxScanned
<1>3. /\ n \in Nat /\ DOMAIN scan = 1 .. n
      /\ \A id \in DOMAIN recs : \E k \in 1 .. n : scan[k] = id
      /\ \A j, k \in 1 .. n : j < k => scan[j] < scan[k]
  <2>1. /\ \A id \in DOMAIN recs : \E k \in DOMAIN scan : scan[k] = id
        /\ \A j, k \in DOMAIN scan : j < k => scan[j] < scan[k]
    BY DEF Scans
  <2>2. n \in Nat /\ DOMAIN scan = 1 .. n
    BY <1>1, <1>2
  <2> QED
    BY <2>1, <2>2
<1>4. scan \in Seq(Int) /\ Len(scan) = n
  <2>1. scan \in [1 .. n -> Int]
    BY <1>1, <1>2
  <2>2. scan \in Seq(Int)
    BY <1>3, <2>1, SeqDef
  <2> QED
    BY <1>3, <2>1, <2>2, LenProperties
<1>5. \A j, k \in 1 .. n : scan[j] = scan[k] => j = k
  BY <1>3, <1>4, AscendingOnce
<1>6. /\ \A x : x \in DOMAIN q <=> x \in {} \/ \E k \in 1 .. n : x = scan[k]
      /\ \A k \in 1 .. n : k >= 1 => q[scan[k]] = k
  <2> DEFINE f == <<>>
  <2>1. scan \in Seq(Int) /\ 1 \in 1 .. Len(scan) + 1 /\ \A j, k \in 1 .. Len(scan) : scan[j] = scan[k] => j = k
    BY <1>3, <1>4, <1>5
  <2>2. DOMAIN f = {}
    OBVIOUS
  <2> HIDE DEF f
  <2>3. LET g == Repositioned(f, scan, 1) IN
        /\ \A x : x \in DOMAIN g <=> x \in DOMAIN f \/ \E k \in 1 .. Len(scan) : x = scan[k]
        /\ \A k \in 1 .. Len(scan) : k >= 1 => g[scan[k]] = k
    BY <2>1, PositionsWritten
  <2>4. q = Repositioned(f, scan, 1)
    BY DEF f
  <2> HIDE DEF q
  <2> QED
    BY <1>4, <2>2, <2>3, <2>4
<1> HIDE DEF q
<1>7. \A k \in 1 .. n : scan[k] \in DOMAIN q /\ q[scan[k]] = k
  BY <1>3, <1>6
<1>8. DOMAIN q = DOMAIN recs
  <2>1. \A x : x \in DOMAIN q <=> x \in DOMAIN recs
    BY <1>2, <1>3, <1>6
  <2> QED
    BY <2>1
<1>9. \A x \in DOMAIN q : q[x] \in 1 .. n /\ scan[q[x]] = x
  <2>1. ASSUME NEW x \in DOMAIN q
        PROVE  q[x] \in 1 .. n /\ scan[q[x]] = x
    <3>1. PICK k \in 1 .. n : x = scan[k]
      BY <1>6
    <3> QED
      BY <1>7, <3>1
  <2> QED
    BY <2>1
<1>10. Indexes(scan, q)
  BY <1>3, <1>4, <1>7, <1>9 DEF Indexes
<1>11. MaxID(scan) \in 0 .. MaxRecords /\ DOMAIN recs \subseteq 1 .. MaxID(scan)
  <2>1. CASE n = 0
    <3>1. scan = <<>>
      BY <1>4, <2>1, EmptySeq
    <3> QED
      BY <1>1, <1>3, <2>1, <3>1 DEF MaxID
  <2>2. CASE n # 0
    <3>1. scan # <<>> /\ n \in 1 .. n
      BY <1>3, <1>4, <2>2
    <3>2. MaxID(scan) = scan[n] /\ scan[n] \in 1 .. seq
      BY <1>1, <1>2, <1>4, <3>1 DEF MaxID
    <3>3. ASSUME NEW id \in DOMAIN recs
          PROVE  id \in 1 .. scan[n]
      <4>1. PICK k \in 1 .. n : scan[k] = id
        BY <1>3
      <4>2. k = n \/ scan[k] < scan[n]
        BY <1>3, <3>1
      <4> QED
        BY <1>1, <3>2, <4>1, <4>2
    <3> QED
      BY <1>1, <3>2, <3>3
  <2> QED
    BY <2>1, <2>2
<1> QED
  BY <1>8, <1>10, <1>11 DEF q

(* Reconcile indexes what Redis has, whatever became of the counter.       *)
LEMMA ReconcileKeeps ==
  ASSUME DataInv, ~ScanRepeats, NEW scan \in Scans, NEW counter \in {0, seq},
         Reconcile(scan, counter)
  PROVE  DataInv' /\ recs' = recs /\ Indexed' = DOMAIN recs
<1>1. /\ Indexes(scan, Repositioned(<<>>, scan, 1))
      /\ DOMAIN Repositioned(<<>>, scan, 1) = DOMAIN recs
      /\ MaxID(scan) \in 0 .. MaxRecords /\ DOMAIN recs \subseteq 1 .. MaxID(scan)
  BY ScanIndexes
<1>2. /\ index' = [ids |-> scan, pos |-> Repositioned(<<>>, scan, 1)]
      /\ recs' = recs
      /\ seq' = IF counter < MaxID(scan) THEN MaxID(scan) ELSE counter
  BY DEF Reconcile
<1>3. index'.ids = scan /\ index'.pos = Repositioned(<<>>, scan, 1)
  BY <1>2
<1>4. Indexes(index'.ids, index'.pos) /\ Indexed' = DOMAIN recs
  BY <1>1, <1>3 DEF Indexed
<1>5. seq' \in 0 .. MaxRecords /\ MaxID(scan) <= seq'
  BY <1>1, <1>2, MaxRecordsAssumption DEF DataInv
<1>6. DOMAIN recs \subseteq 1 .. seq'
  BY <1>1, <1>5, MaxRecordsAssumption
<1> QED
  BY <1>2, <1>4, <1>5, <1>6 DEF DataInv

(* Every step keeps the index in order and within what was allocated.      *)
LEMMA DataStep ==
  ASSUME DataInv, ~ScanRepeats, [DataNext]_dataVars
  PROVE  DataInv'
<1>1. CASE IncrFails
  <2>1. seq \in Nat /\ seq' = seq + 1 /\ seq' \in 0 .. MaxRecords /\ recs' = recs /\ index' = index
    BY <1>1, MaxRecordsAssumption DEF IncrFails, DataInv
  <2>2. 1 .. seq \subseteq 1 .. seq'
    BY <2>1
  <2> QED
    BY <2>1, <2>2 DEF DataInv, Indexed
<1>2. ASSUME NEW result \in Results, NEW v \in Values, Create(v, result)
      PROVE  DataInv'
  BY <1>2, CreateKeeps
<1>3. ASSUME NEW result \in Results, NEW id \in RecordIds, NEW v \in Values, Update(id, v, result)
      PROVE  DataInv'
  BY <1>3 DEF Update, DataInv, Put, Indexed
<1>4. ASSUME NEW result \in Results, NEW id \in RecordIds, Delete(id, result)
      PROVE  DataInv'
  BY <1>4, RecordDeleted
<1>5. CASE \/ \E id \in RecordIds : GetOne(id)
           \/ \E j, k \in RecordIds : GetMany(<<j, k>>)
           \/ GetList
  BY <1>5, ReadsHeal, HealKeeps
<1>6. ASSUME NEW scan \in Scans, Reconcile(scan, 0) \/ Reconcile(scan, seq)
      PROVE  DataInv'
  BY <1>6, ReconcileKeeps
<1>7. CASE UNCHANGED dataVars
  BY <1>7 DEF dataVars, DataInv, Indexed
<1> QED
  BY <1>1, <1>2, <1>3, <1>4, <1>5, <1>6, <1>7 DEF DataNext

(* DataInv holds always, when a SCAN returns each key once.                *)
LEMMA IndexInOrder == ASSUME ~ScanRepeats PROVE DataSpec => []DataInv
<1>1. DataInit => DataInv
  <2> SUFFICES ASSUME DataInit
               PROVE  DataInv
    OBVIOUS
  <2>1. recs = <<>> /\ seq = 0 /\ index.ids = <<>> /\ index.pos = <<>>
    BY DEF DataInit, Empty
  <2>2. DOMAIN recs = {} /\ Indexed = {} /\ DOMAIN index.pos = {}
    BY <2>1 DEF Indexed
  <2>3. index.ids \in Seq(Int) /\ Len(index.ids) = 0
    BY <2>1
  <2>4. Indexes(index.ids, index.pos)
    <3>1. 1 .. Len(index.ids) = {}
      BY <2>3
    <3> QED
      BY <2>2, <2>3, <3>1 DEF Indexes
  <2> QED
    BY <2>1, <2>2, <2>4, MaxRecordsAssumption DEF DataInv
<1>2. DataInv /\ [DataNext]_dataVars => DataInv'
  BY DataStep
<1> QED
  BY <1>1, <1>2, PTL DEF DataSpec

(* ListsEachOnce: GetList returns every id once and in ascending order,    *)
(* for any number of records, as long as a SCAN returns every key once     *)
(* (datastore.go:428; when it does not, the run data_store_scan).          *)
THEOREM RecordsListedOnce == ASSUME ~ScanRepeats PROVE DataSpec => []ListsEachOnce
<1>1. DataInv => ListsEachOnce
  BY LenProperties DEF DataInv, Indexes, ListsEachOnce
<1> QED
  BY <1>1, IndexInOrder, PTL

(* OnlyNamedRecordsChange: a new id is never that of a stored record, and  *)
(* no healing, however many places it moves, takes a record out of the     *)
(* index that Redis has; for any number of records and values.             *)
THEOREM OthersUntouched == ASSUME ~ScanRepeats PROVE DataSpec => OnlyNamedRecordsChange
<1> DEFINE A == /\ \A id \in DOMAIN recs :
                     (id \notin DOMAIN recs' \/ recs'[id] # recs[id]) => id \in named'
                /\ \A id \in Indexed \ DOMAIN index'.pos : id \notin DOMAIN recs'
<1>1. DataInv /\ [DataNext]_dataVars => [A]_dataVars
  <2> SUFFICES ASSUME DataInv, DataNext
               PROVE  A
    OBVIOUS
  <2>1. CASE IncrFails
    BY <2>1 DEF IncrFails, Indexed
  <2>2. ASSUME NEW result \in Results, NEW v \in Values, Create(v, result)
        PROVE  A
    <3>1. seq + 1 \notin DOMAIN recs /\ Indexed \subseteq Indexed'
      BY <2>2, CreateKeeps
    <3>2. recs' = recs \/ recs' = Put(recs, seq + 1, v)
      BY <2>2 DEF Create
    <3> QED
      BY <3>1, <3>2 DEF Put, Indexed
  <2>3. ASSUME NEW result \in Results, NEW id \in RecordIds, NEW v \in Values,
               Update(id, v, result)
        PROVE  A
    BY <2>3 DEF Update, Put, Indexed
  <2>4. ASSUME NEW result \in Results, NEW id \in RecordIds, Delete(id, result)
        PROVE  A
    <3>1. Indexed' = IF result = "ok" THEN Indexed \ {id} ELSE Indexed
      BY <2>4, RecordDeleted
    <3>2. recs' = IF result = "refused" THEN recs ELSE Drop(recs, id)
      BY <2>4 DEF Delete
    <3>3. named' = {id}
      BY <2>4 DEF Delete
    <3> QED
      BY <3>1, <3>2, <3>3 DEF Drop, Indexed
  <2>5. CASE \/ \E id \in RecordIds : GetOne(id)
             \/ \E j, k \in RecordIds : GetMany(<<j, k>>)
             \/ GetList
    BY <2>5, ReadsHeal DEF Heals, Healed, Indexed
  <2>6. ASSUME NEW scan \in Scans, Reconcile(scan, 0) \/ Reconcile(scan, seq)
        PROVE  A
    <3>1. recs' = recs
      BY <2>6 DEF Reconcile
    <3>2. Indexed' = DOMAIN recs
      <4>1. CASE ScanRepeats
        BY <4>1
      <4> QED
        BY <2>6, ReconcileKeeps
    <3> QED
      BY <3>1, <3>2 DEF Indexed
  <2> QED
    BY <2>1, <2>2, <2>3, <2>4, <2>5, <2>6 DEF DataNext
<1> QED
  BY <1>1, IndexInOrder, PTL DEF DataSpec, OnlyNamedRecordsChange

-----------------------------------------------------------------------------
(* Data store: what GetList answers *)

\* f lists the first m ids of s that are in r.
ListRun(f, s, r, m) ==
  f = [n \in 0 .. m |->
         IF n = 0 THEN <<>>
         ELSE IF s[n] \in DOMAIN r THEN Append(f[n - 1], <<s[n], r[s[n]]>>)
         ELSE f[n - 1]]

(* A listing is defined.                                                   *)
LEMMA ListRunExists ==
  ASSUME NEW s, NEW r, Len(s) \in Nat
  PROVE  \E f : ListRun(f, s, r, Len(s)) /\ Listing(s, r) = f[Len(s)]
<1> DEFINE S == {m \in Nat : \E f : ListRun(f, s, r, m)}
           Longer(e, n) == IF s[n] \in DOMAIN r THEN Append(e, <<s[n], r[s[n]]>>) ELSE e
<1>1. 0 \in S
  <2> DEFINE f == [n \in 0 .. 0 |-> <<>>]
  <2>1. ListRun(f, s, r, 0)
    BY DEF ListRun
  <2> QED
    BY <2>1
<1>2. ASSUME NEW m \in Nat, m \in S
      PROVE  m + 1 \in S
  <2>1. PICK f : ListRun(f, s, r, m)
    BY <1>2
  <2> DEFINE g == [n \in 0 .. m + 1 |-> IF n <= m THEN f[n] ELSE Longer(f[m], m + 1)]
  <2>2. ListRun(g, s, r, m + 1)
    <3>1. \A n \in 0 .. m : f[n] = IF n = 0 THEN <<>> ELSE Longer(f[n - 1], n)
      BY <2>1 DEF ListRun
    <3> HIDE DEF Longer
    <3>2. ASSUME NEW n \in 0 .. m + 1
          PROVE  g[n] = IF n = 0 THEN <<>> ELSE Longer(g[n - 1], n)
      BY <3>1, <3>2
    <3>3. g = [n \in 0 .. m + 1 |-> g[n]]
      OBVIOUS
    <3> HIDE DEF g
    <3> QED
      BY <3>2, <3>3 DEF ListRun, Longer
  <2> QED
    BY <2>2
<1>3. S = Nat
  <2>1. S \in SUBSET Nat
    OBVIOUS
  <2> HIDE DEF S
  <2> QED
    BY <1>1, <1>2, <2>1, EveryNumber
<1> DEFINE f == CHOOSE f : ListRun(f, s, r, Len(s))
<1>4. ListRun(f, s, r, Len(s))
  BY <1>3
<1>5. Listing(s, r) = f[Len(s)]
  BY DEF Listing, ListRun
<1> QED
  BY <1>4, <1>5

(* The listing has the records of s that r has, in the order of s.         *)
LEMMA ListingOfIndex ==
  ASSUME NEW s \in Seq(RecordIds), NEW r, \A id \in DOMAIN r : r[id] \in Values,
         \A j, k \in 1 .. Len(s) : j < k => s[j] < s[k]
  PROVE  /\ Listing(s, r) \in Seq(RecordIds \X Values)
         /\ {Listing(s, r)[k] : k \in DOMAIN Listing(s, r)}
              = {<<s[k], r[s[k]]>> : k \in {m \in 1 .. Len(s) : s[m] \in DOMAIN r}}
         /\ \A j, k \in DOMAIN Listing(s, r) : j < k => Listing(s, r)[j][1] < Listing(s, r)[k][1]
<1> DEFINE M == Len(s)
<1>1. /\ M \in Nat
      /\ \A k \in 1 .. M : s[k] \in RecordIds /\ s[k] \in Int
  <2>1. M \in Nat /\ \A k \in 1 .. M : s[k] \in RecordIds
    BY LenProperties
  <2> QED
    BY <2>1 DEF RecordIds
<1>2. PICK f : ListRun(f, s, r, M) /\ Listing(s, r) = f[M]
  BY <1>1, ListRunExists
<1>3. f[0] = <<>>
  BY <1>1, <1>2 DEF ListRun
<1> DEFINE In(n) == {m \in 1 .. n : s[m] \in DOMAIN r}
           Entry(m) == <<s[m], r[s[m]]>>
           Good(n) == /\ f[n] \in Seq(RecordIds \X Values)
                      /\ \A k \in 1 .. Len(f[n]) : \E m \in In(n) : f[n][k] = Entry(m)
                      /\ \A m \in In(n) : \E k \in 1 .. Len(f[n]) : f[n][k] = Entry(m)
                      /\ \A j, k \in 1 .. Len(f[n]) : j < k => f[n][j][1] < f[n][k][1]
           S == {n \in Nat : n <= M => Good(n)}
<1>4. 0 \in S
  <2>1. f[0] \in Seq(RecordIds \X Values) /\ Len(f[0]) = 0 /\ 1 .. 0 = {}
    BY <1>3
  <2>2. In(0) = {}
    BY <2>1
  <2> HIDE DEF In
  <2> QED
    BY <2>1, <2>2
<1> HIDE DEF Good
<1>5. ASSUME NEW n \in Nat, n \in S
      PROVE  n + 1 \in S
  <2> SUFFICES ASSUME n + 1 <= M
               PROVE  Good(n + 1)
    OBVIOUS
  <2>1. Good(n)
    BY <1>1, <1>5
  <2> DEFINE L == Len(f[n])
             a == n + 1
  <2>2. a \in 1 .. M /\ L \in Nat /\ a \in Nat
    BY <1>1, <2>1, LenProperties DEF Good
  <2>3. f[n + 1] = IF s[a] \in DOMAIN r THEN Append(f[n], Entry(a)) ELSE f[n]
    <3>1. n + 1 \in 0 .. M /\ n + 1 # 0 /\ (n + 1) - 1 = n
      BY <1>1
    <3> QED
      BY <1>2, <3>1 DEF ListRun
  <2>4. CASE s[a] \notin DOMAIN r
    <3>1. In(n + 1) = In(n) /\ f[n + 1] = f[n]
      BY <2>3, <2>4
    <3> HIDE DEF In, Entry
    <3> QED
      BY <2>1, <3>1 DEF Good
  <2>5. CASE s[a] \in DOMAIN r
    <3>1. Entry(a) \in RecordIds \X Values
      BY <1>1, <2>2, <2>5
    <3>2. /\ f[n + 1] \in Seq(RecordIds \X Values) /\ Len(f[n + 1]) = L + 1
          /\ \A k \in 1 .. L : f[n + 1][k] = f[n][k]
          /\ f[n + 1][L + 1] = Entry(a)
      <4>1. f[n + 1] = Append(f[n], Entry(a))
        BY <2>3, <2>5
      <4> HIDE DEF Entry
      <4> QED
        BY <2>1, <2>2, <3>1, <4>1, AppendProperties DEF Good
    <3>3. \A m : m \in In(n + 1) <=> m \in In(n) \/ m = a
      BY <2>2, <2>5
    <3>4. \A m \in In(n) : m \in 1 .. M /\ m < a /\ s[m] < s[a]
      BY <1>1, <2>2
    <3>5. \A m : Entry(m)[1] = s[m]
      OBVIOUS
    <3> HIDE DEF In, Entry
    <3>6. \A k \in 1 .. L + 1 : k \in 1 .. L \/ k = L + 1
      BY <2>2
    <3>7. \A k \in 1 .. L : k \in 1 .. L + 1
      BY <2>2
    <3>8. L + 1 \in 1 .. L + 1
      BY <2>2
    <3>9. \A k \in 1 .. L + 1 : \E m \in In(n + 1) : f[n + 1][k] = Entry(m)
      BY <2>1, <3>2, <3>3, <3>6 DEF Good
    <3>10. \A m \in In(n + 1) : \E k \in 1 .. L + 1 : f[n + 1][k] = Entry(m)
      BY <2>1, <3>2, <3>3, <3>7, <3>8 DEF Good
    <3>11. ASSUME NEW j \in 1 .. L + 1, NEW k \in 1 .. L + 1, j < k
           PROVE  f[n + 1][j][1] < f[n + 1][k][1]
      <4>1. j \in 1 .. L
        BY <2>2, <3>11
      <4>2. CASE k \in 1 .. L
        <5>1. f[n][j][1] < f[n][k][1]
          BY <2>1, <3>11, <4>1, <4>2 DEF Good
        <5>2. f[n + 1][j] = f[n][j] /\ f[n + 1][k] = f[n][k]
          BY <3>2, <4>1, <4>2
        <5> QED
          BY <5>1, <5>2
      <4>3. CASE k = L + 1
        <5>1. PICK m \in In(n) : f[n][j] = Entry(m)
          BY <2>1, <4>1 DEF Good
        <5> QED
          <6>1. f[n + 1][j] = Entry(m) /\ f[n + 1][k] = Entry(a)
            BY <3>2, <4>1, <4>3, <5>1
          <6>2. s[m] < s[a]
            BY <3>4
          <6> QED
            BY <3>5, <6>1, <6>2
      <4> QED
        BY <3>6, <4>2, <4>3
    <3> QED
      BY <3>2, <3>9, <3>10, <3>11 DEF Good
  <2> QED
    BY <2>4, <2>5
<1>6. S = Nat
  <2>1. S \in SUBSET Nat
    OBVIOUS
  <2> HIDE DEF S
  <2> QED
    BY <1>4, <1>5, <2>1, EveryNumber
<1>7. Good(M)
  BY <1>1, <1>6
<1>8. DOMAIN f[M] = 1 .. Len(f[M])
  BY <1>7, LenProperties DEF Good
<1>9. {f[M][k] : k \in DOMAIN f[M]} = {Entry(m) : m \in In(M)}
  <2> HIDE DEF In, Entry
  <2> QED
    BY <1>7, <1>8 DEF Good
<1>10. /\ f[M] \in Seq(RecordIds \X Values)
       /\ \A j, k \in DOMAIN f[M] : j < k => f[M][j][1] < f[M][k][1]
  BY <1>7, <1>8 DEF Good
<1>11. Listing(s, r) = f[M]
  BY <1>2
<1> QED
  BY <1>9, <1>10, <1>11

\* The map the data store is, and what only Redis knows of.
Known == [id \in Indexed \intersect DOMAIN recs |-> recs[id]]
Unknown == [id \in DOMAIN recs \ Indexed |-> recs[id]]

(* GetList lists what is in the index and in Redis, in ascending order.    *)
LEMMA IndexListsTheMap == DataInv => KeyedRecords!IsListing(Listed, Known)
<1> SUFFICES ASSUME DataInv
             PROVE  KeyedRecords!IsListing(Listed, Known)
  OBVIOUS
<1> DEFINE s == index.ids
           M == Len(s)
<1>1. /\ s \in Seq(Int) /\ M \in Nat
      /\ \A j, k \in 1 .. M : j < k => s[j] < s[k]
      /\ \A id \in Indexed : \E k \in 1 .. M : s[k] = id
      /\ \A k \in 1 .. M : s[k] \in Indexed
  BY LenProperties DEF DataInv, Indexes, Indexed
<1>2. s \in Seq(RecordIds)
  <2>1. Indexed \subseteq RecordIds
    BY MaxRecordsAssumption DEF DataInv, RecordIds
  <2>2. s \in [1 .. M -> RecordIds]
    <3>1. s \in [1 .. M -> Int]
      BY <1>1, LenProperties
    <3> HIDE DEF s
    <3> QED
      BY <1>1, <2>1, <3>1
  <2>3. M \in Nat
    BY <1>1
  <2> HIDE DEF s
  <2>4. s \in UNION {[1 .. n -> RecordIds] : n \in Nat}
    BY <2>2, <2>3
  <2> QED
    BY <2>4, SeqDef
<1>3. \A id \in DOMAIN recs : recs[id] \in Values
  BY DEF DataInv
<1> HIDE DEF s
<1>4. /\ Listed \in Seq(RecordIds \X Values)
      /\ {Listed[k] : k \in DOMAIN Listed}
           = {<<s[k], recs[s[k]]>> : k \in {m \in 1 .. M : s[m] \in DOMAIN recs}}
      /\ \A j, k \in DOMAIN Listed : j < k => Listed[j][1] < Listed[k][1]
  <2>1. Listed = Listing(s, recs)
    BY DEF Listed, s
  <2>2. \A j, k \in 1 .. Len(s) : j < k => s[j] < s[k]
    BY <1>1
  <2>3. /\ Listing(s, recs) \in Seq(RecordIds \X Values)
        /\ {Listing(s, recs)[k] : k \in DOMAIN Listing(s, recs)}
             = {<<s[k], recs[s[k]]>> : k \in {m \in 1 .. Len(s) : s[m] \in DOMAIN recs}}
        /\ \A j, k \in DOMAIN Listing(s, recs) :
             j < k => Listing(s, recs)[j][1] < Listing(s, recs)[k][1]
    BY <1>2, <1>3, <2>2, ListingOfIndex
  <2> QED
    BY <2>1, <2>3
<1>5. {<<s[k], recs[s[k]]>> : k \in {m \in 1 .. M : s[m] \in DOMAIN recs}}
        = {<<id, Known[id]>> : id \in DOMAIN Known}
  <2>1. DOMAIN Known = Indexed \intersect DOMAIN recs /\ \A id \in DOMAIN Known : Known[id] = recs[id]
    BY DEF Known
  <2>2. ASSUME NEW k \in {m \in 1 .. M : s[m] \in DOMAIN recs}
        PROVE  s[k] \in DOMAIN Known /\ Known[s[k]] = recs[s[k]]
    BY <1>1, <2>1
  <2>3. ASSUME NEW id \in DOMAIN Known
        PROVE  \E k \in {m \in 1 .. M : s[m] \in DOMAIN recs} : s[k] = id /\ recs[s[k]] = Known[id]
    BY <1>1, <2>1
  <2> QED
    BY <2>2, <2>3
<1> QED
  BY <1>4, <1>5 DEF KeyedRecords!IsListing

(* Nothing the map or the hidden records change, once some ids have left.  *)
LEMMA NothingForgotten ==
  ASSUME recs' = recs, Indexed' \intersect DOMAIN recs = Indexed \intersect DOMAIN recs
  PROVE  KeyedRecords!Forget({})
<1>1. DOMAIN recs \ Indexed' = DOMAIN recs \ Indexed
  OBVIOUS
<1>2. Known' = Known /\ Unknown' = Unknown
  BY <1>1 DEF Known, Unknown
<1>3. Known = KeyedRecords!Without(Known, {}) /\ Unknown = KeyedRecords!Without(Unknown, {})
  BY DEF Known, Unknown, KeyedRecords!Without, KeyedRecords!Restrict
<1> QED
  BY <1>2, <1>3 DEF KeyedRecords!Forget, Known, Unknown

(* DataStoreIsKeyed: whatever answers get lost, every operation of the     *)
(* data store is one of a map with a listing in ascending order; a record  *)
(* whose creation seemed to fail stays hidden until a restart.  For any    *)
(* number of records and values, as long as a SCAN returns every key once. *)
THEOREM DataStoreImplementsMap == ASSUME ~ScanRepeats PROVE DataSpec => DataStoreIsKeyed
<1>1. DataInit /\ DataInv => KeyedRecords!Init
  <2> SUFFICES ASSUME DataInit, DataInv
               PROVE  KeyedRecords!Init
    OBVIOUS
  <2>1. recs = <<>> /\ index.pos = <<>>
    BY DEF DataInit, Empty
  <2>2. DOMAIN recs = {} /\ Indexed = {}
    BY <2>1 DEF Indexed
  <2>3. DOMAIN Known = {} /\ DOMAIN Unknown = {}
    BY <2>2 DEF Known, Unknown
  <2>4. Listed = <<>>
    <3>1. /\ Listed \in Seq(RecordIds \X Values)
          /\ {Listed[k] : k \in DOMAIN Listed} = {<<id, Known[id]>> : id \in DOMAIN Known}
      BY IndexListsTheMap DEF KeyedRecords!IsListing
    <3>2. DOMAIN Listed = {}
      BY <2>3, <3>1
    <3>3. Len(Listed) = 0
      <4>1. Len(Listed) \in Nat /\ DOMAIN Listed = 1 .. Len(Listed)
        BY <3>1, LenProperties
      <4> QED
        BY <3>2, <4>1
    <3> QED
      BY <3>1, <3>3, EmptySeq
  <2> QED
    BY <2>3, <2>4 DEF KeyedRecords!Init, Known, Unknown
<1>2. DataInv /\ DataInv' /\ [DataNext]_dataVars => [KeyedRecords!Next]_(KeyedRecords!vars)
  <2> SUFFICES ASSUME DataInv, DataInv', [DataNext]_dataVars
               PROVE  [KeyedRecords!Next]_(KeyedRecords!vars)
    OBVIOUS
  <2>1. KeyedRecords!IsListing(Listed, Known)'
    BY IndexListsTheMap, PTL
  <2>2. KeyedRecords!IsListing(Listed', Known')
    BY <2>1
  <2>3. ASSUME \/ \E id \in RecordIds, v \in Values : KeyedRecords!Put(id, v) \/ KeyedRecords!Hide(id, v)
               \/ \E S \in SUBSET RecordIds : KeyedRecords!Forget(S)
               \/ KeyedRecords!Reveal
        PROVE  KeyedRecords!Next
    BY <2>2, <2>3 DEF KeyedRecords!Next, Known
  <2>4. ASSUME KeyedRecords!Forget({})
        PROVE  KeyedRecords!Next
    BY <2>3, <2>4
  <2>5. CASE IncrFails
    BY <2>4, <2>5, NothingForgotten DEF IncrFails, Indexed
  <2>6. ASSUME NEW result \in Results, NEW v \in Values, Create(v, result)
        PROVE  KeyedRecords!Next
    <3>1. PICK id \in RecordIds : id = seq + 1
      BY <2>6, CreateKeeps
    <3>2. /\ id \notin DOMAIN recs /\ id \notin Indexed
          /\ Indexed' = IF result = "ok" THEN Indexed \union {id} ELSE Indexed
      BY <2>6, <3>1, CreateKeeps
    <3>3. recs' = IF result = "refused" THEN recs ELSE Put(recs, id, v)
      BY <2>6, <3>1 DEF Create
    <3>4. CASE result = "ok"
      <4>1. recs' = Put(recs, id, v) /\ Indexed' = Indexed \union {id}
        BY <3>2, <3>3, <3>4
      <4>2. Known' = KeyedRecords!With(Known, id, v) /\ Unknown' = Unknown
        BY <3>2, <4>1 DEF Known, Unknown, Put, KeyedRecords!With
      <4>3. KeyedRecords!Put(id, v)
        BY <4>2 DEF KeyedRecords!Put, Known, Unknown
      <4> QED
        BY <2>3, <4>3
    <3>5. CASE result = "unknown"
      <4>1. recs' = Put(recs, id, v) /\ Indexed' = Indexed
        BY <3>2, <3>3, <3>5
      <4>2. Known' = Known /\ Unknown' = KeyedRecords!With(Unknown, id, v) /\ id \notin DOMAIN Known
        BY <3>2, <4>1 DEF Known, Unknown, Put, KeyedRecords!With
      <4>3. KeyedRecords!Hide(id, v)
        BY <4>2 DEF KeyedRecords!Hide, Known, Unknown
      <4> QED
        BY <2>3, <4>3
    <3>6. CASE result = "refused"
      BY <2>4, <3>2, <3>3, <3>6, NothingForgotten
    <3> QED
      BY <3>4, <3>5, <3>6 DEF Results
  <2>7. ASSUME NEW result \in Results, NEW id \in RecordIds, NEW v \in Values,
               Update(id, v, result)
        PROVE  KeyedRecords!Next
    <3>1. id \in Indexed /\ Indexed' = Indexed
      BY <2>7 DEF Update, Indexed
    <3>2. CASE result = "refused"
      <4>1. recs' = recs
        BY <2>7, <3>2 DEF Update
      <4> QED
        BY <2>4, <3>1, <4>1, NothingForgotten
    <3>3. CASE result # "refused"
      <4>1. recs' = Put(recs, id, v)
        BY <2>7, <3>3 DEF Update
      <4>2. Known' = KeyedRecords!With(Known, id, v) /\ Unknown' = Unknown
        BY <3>1, <4>1 DEF Known, Unknown, Put, KeyedRecords!With
      <4>3. KeyedRecords!Put(id, v)
        BY <4>2 DEF KeyedRecords!Put, Known, Unknown
      <4> QED
        BY <2>3, <4>3
    <3> QED
      BY <3>2, <3>3
  <2>8. ASSUME NEW result \in Results, NEW id \in RecordIds, Delete(id, result)
        PROVE  KeyedRecords!Next
    <3>1. Indexed' = IF result = "ok" THEN Indexed \ {id} ELSE Indexed
      BY <2>8, RecordDeleted
    <3>2. recs' = IF result = "refused" THEN recs ELSE Drop(recs, id)
      BY <2>8 DEF Delete
    <3>3. CASE result = "refused"
      BY <2>4, <3>1, <3>2, <3>3, NothingForgotten
    <3>4. CASE result # "refused"
      <4>1. recs' = Drop(recs, id) /\ Indexed \ {id} \subseteq Indexed' /\ Indexed' \subseteq Indexed
        BY <3>1, <3>2, <3>4
      <4>2. /\ Known' = KeyedRecords!Without(Known, {id})
            /\ Unknown' = KeyedRecords!Without(Unknown, {id})
        BY <4>1 DEF Known, Unknown, Drop, KeyedRecords!Without, KeyedRecords!Restrict
      <4>3. KeyedRecords!Forget({id})
        BY <4>2 DEF KeyedRecords!Forget, Known, Unknown
      <4> QED
        BY <2>3, <4>3
    <3> QED
      BY <3>3, <3>4
  <2>9. CASE \/ \E id \in RecordIds : GetOne(id)
             \/ \E j, k \in RecordIds : GetMany(<<j, k>>)
             \/ GetList
    <3>1. recs' = recs /\ Indexed' \subseteq Indexed /\ \A id \in Indexed \ Indexed' : id \notin DOMAIN recs
      BY <2>9, ReadsHeal, HealKeeps DEF Heals
    <3> QED
      BY <2>4, <3>1, NothingForgotten
  <2>10. ASSUME NEW scan \in Scans, Reconcile(scan, 0) \/ Reconcile(scan, seq)
         PROVE  KeyedRecords!Next
    <3>1. recs' = recs /\ Indexed' = DOMAIN recs
      BY <2>10, ReconcileKeeps
    <3>2. /\ DOMAIN Unknown' = {}
          /\ Known' = [id \in DOMAIN Known \union DOMAIN Unknown |->
                         IF id \in DOMAIN Known THEN Known[id] ELSE Unknown[id]]
      BY <3>1 DEF Known, Unknown
    <3>3. KeyedRecords!Reveal
      BY <3>2 DEF KeyedRecords!Reveal, Known, Unknown
    <3> QED
      BY <2>3, <3>3
  <2>11. CASE UNCHANGED dataVars
    BY <2>11 DEF dataVars, KeyedRecords!vars, Indexed, Listed
  <2> QED
    BY <2>5, <2>6, <2>7, <2>8, <2>9, <2>10, <2>11 DEF DataNext
<1> QED
  BY <1>1, <1>2, IndexInOrder, PTL DEF DataSpec, DataStoreIsKeyed, KeyedRecords!Spec

=============================================================================

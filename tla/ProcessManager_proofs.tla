------------------------ MODULE ProcessManager_proofs ------------------------
(***************************************************************************)
(* The safety of ProcessManager for any number of channels, PIDs and       *)
(* processes.                                                              *)
(*                                                                         *)
(* The scheduler is a sequence; what its operations do to the PIDs in it   *)
(* is said once, in the lemmas about InsertAt, RemoveAt and Tail, and the  *)
(* steps are then followed on the set Scheduled.  The invariant is Typed   *)
(* (TypeOK, with a queue that has no PID twice) and Hands: the queue, the  *)
(* tables and the exit handlers agree on who has which PID.                *)
(***************************************************************************)
EXTENDS ProcessManager, SequenceTheorems, FiniteSetTheorems, TLAPS

-----------------------------------------------------------------------------
(* Queues *)

Members(s) == {s[k] : k \in DOMAIN s}
Unique(s) == \A k, l \in DOMAIN s : s[k] = s[l] => k = l

(* An element more, at its place.                                          *)
LEMMA InsertedAt ==
  ASSUME NEW S, NEW s \in Seq(S), NEW k \in 1 .. Len(s) + 1, NEW e \in S
  PROVE  LET t == SeqOps!InsertAt(s, k, e) IN
         /\ t \in Seq(S) /\ Len(t) = Len(s) + 1
         /\ \A j \in 1 .. Len(s) + 1 :
              t[j] = IF j < k THEN s[j] ELSE IF j = k THEN e ELSE s[j - 1]
<1> DEFINE a == SubSeq(s, 1, k - 1)
           b == SubSeq(s, k, Len(s))
           c == a \o <<e>>
           t == c \o b
<1>1. Len(s) \in Nat /\ \A i \in 1 .. Len(s) : s[i] \in S
  BY LenProperties
<1>2. /\ a \in Seq(S) /\ Len(a) = k - 1 /\ \A i \in 1 .. k - 1 : a[i] = s[i]
  <2>1. /\ 1 \in Int /\ k - 1 \in Int /\ \A i \in 1 .. k - 1 : s[i] \in S
    BY <1>1
  <2>2. /\ a \in Seq(S) /\ Len(a) = IF 1 <= k - 1 THEN k - 1 - 1 + 1 ELSE 0
        /\ \A i \in 1 .. k - 1 - 1 + 1 : a[i] = s[1 + i - 1]
    BY <2>1, SubSeqProperties
  <2> QED
    BY <1>1, <2>2
<1>3. /\ b \in Seq(S) /\ Len(b) = Len(s) - k + 1
      /\ \A i \in 1 .. Len(s) - k + 1 : b[i] = s[k + i - 1]
  <2>1. k \in Int /\ Len(s) \in Int /\ \A i \in k .. Len(s) : s[i] \in S
    BY <1>1
  <2>2. /\ b \in Seq(S) /\ Len(b) = IF k <= Len(s) THEN Len(s) - k + 1 ELSE 0
        /\ \A i \in 1 .. Len(s) - k + 1 : b[i] = s[k + i - 1]
    BY <2>1, SubSeqProperties
  <2> QED
    BY <1>1, <2>2
<1>4. <<e>> \in Seq(S) /\ Len(<<e>>) = 1 /\ <<e>>[1] = e
  OBVIOUS
<1> HIDE DEF a, b
<1>5. /\ c \in Seq(S) /\ Len(c) = k
      /\ \A j \in 1 .. k : c[j] = IF j < k THEN s[j] ELSE e
  <2>1. /\ c \in Seq(S) /\ Len(c) = Len(a) + Len(<<e>>)
        /\ \A i \in 1 .. Len(a) + Len(<<e>>) :
             c[i] = IF i <= Len(a) THEN a[i] ELSE <<e>>[i - Len(a)]
    BY <1>2, <1>4, ConcatProperties
  <2>2. Len(a) + Len(<<e>>) = k
    BY <1>1, <1>2, <1>4
  <2>3. ASSUME NEW j \in 1 .. k
        PROVE  c[j] = IF j < k THEN s[j] ELSE e
    <3>1. c[j] = IF j <= k - 1 THEN a[j] ELSE <<e>>[j - (k - 1)]
      BY <1>2, <2>1, <2>2
    <3>2. k \in Nat /\ j \in Nat /\ (j < k \/ j = k)
      BY <1>1
    <3> HIDE DEF c
    <3>3. CASE j < k
      <4>1. j <= k - 1 /\ j \in 1 .. k - 1
        BY <3>2, <3>3
      <4> QED
        BY <1>2, <3>1, <3>3, <4>1
    <3>4. CASE j = k
      <4>1. ~(j <= k - 1) /\ j - (k - 1) = 1 /\ ~(j < k)
        BY <3>2, <3>4
      <4>2. c[j] = <<e>>[1]
        BY <3>1, <4>1
      <4> QED
        BY <1>4, <4>1, <4>2
    <3> QED
      BY <3>2, <3>3, <3>4
  <2> QED
    BY <2>1, <2>2, <2>3
<1> HIDE DEF c
<1>6. /\ t \in Seq(S) /\ Len(t) = Len(s) + 1
      /\ \A j \in 1 .. Len(s) + 1 : t[j] = IF j <= k THEN c[j] ELSE b[j - k]
  <2>1. /\ t \in Seq(S) /\ Len(t) = Len(c) + Len(b)
        /\ \A i \in 1 .. Len(c) + Len(b) :
             t[i] = IF i <= Len(c) THEN c[i] ELSE b[i - Len(c)]
    BY <1>3, <1>5, ConcatProperties
  <2>2. Len(c) = k /\ Len(c) + Len(b) = Len(s) + 1
    BY <1>1, <1>3, <1>5
  <2> QED
    BY <2>1, <2>2
<1> HIDE DEF t
<1>7. ASSUME NEW j \in 1 .. Len(s) + 1
      PROVE  t[j] = IF j < k THEN s[j] ELSE IF j = k THEN e ELSE s[j - 1]
  <2>1. CASE j <= k
    BY <1>1, <1>5, <1>6, <2>1
  <2>2. CASE j > k
    <3>1. j - k \in 1 .. Len(s) - k + 1 /\ k + (j - k) - 1 = j - 1
      BY <1>1, <2>2
    <3>2. b[j - k] = s[j - 1]
      BY <1>3, <3>1
    <3>3. t[j] = b[j - k]
      BY <1>1, <1>6, <2>2
    <3> QED
      BY <1>1, <2>2, <3>2, <3>3
  <2> QED
    BY <1>1, <2>1, <2>2
<1>8. SeqOps!InsertAt(s, k, e) = t
  BY DEF SeqOps!InsertAt, a, b, c, t
<1> QED
  BY <1>6, <1>7, <1>8

(* An element less.                                                        *)
LEMMA RemovedAt ==
  ASSUME NEW S, NEW s \in Seq(S), NEW k \in 1 .. Len(s)
  PROVE  LET t == SeqOps!RemoveAt(s, k) IN
         /\ t \in Seq(S) /\ Len(t) = Len(s) - 1
         /\ \A j \in 1 .. Len(s) - 1 : t[j] = IF j < k THEN s[j] ELSE s[j + 1]
<1> DEFINE a == SubSeq(s, 1, k - 1)
           b == SubSeq(s, k + 1, Len(s))
           t == a \o b
<1>1. Len(s) \in Nat /\ \A i \in 1 .. Len(s) : s[i] \in S
  BY LenProperties
<1>2. /\ a \in Seq(S) /\ Len(a) = k - 1 /\ \A i \in 1 .. k - 1 : a[i] = s[i]
  <2>1. /\ 1 \in Int /\ k - 1 \in Int /\ \A i \in 1 .. k - 1 : s[i] \in S
    BY <1>1
  <2>2. /\ a \in Seq(S) /\ Len(a) = IF 1 <= k - 1 THEN k - 1 - 1 + 1 ELSE 0
        /\ \A i \in 1 .. k - 1 - 1 + 1 : a[i] = s[1 + i - 1]
    BY <2>1, SubSeqProperties
  <2> QED
    BY <1>1, <2>2
<1>3. /\ b \in Seq(S) /\ Len(b) = Len(s) - k
      /\ \A i \in 1 .. Len(s) - k : b[i] = s[k + i]
  <2>1. k + 1 \in Int /\ Len(s) \in Int /\ \A i \in k + 1 .. Len(s) : s[i] \in S
    BY <1>1
  <2>2. /\ b \in Seq(S) /\ Len(b) = IF k + 1 <= Len(s) THEN Len(s) - (k + 1) + 1 ELSE 0
        /\ \A i \in 1 .. Len(s) - (k + 1) + 1 : b[i] = s[(k + 1) + i - 1]
    BY <2>1, SubSeqProperties
  <2> QED
    BY <1>1, <2>2
<1> HIDE DEF a, b
<1>4. /\ t \in Seq(S) /\ Len(t) = Len(s) - 1
      /\ \A j \in 1 .. Len(s) - 1 : t[j] = IF j <= k - 1 THEN a[j] ELSE b[j - (k - 1)]
  <2>1. /\ t \in Seq(S) /\ Len(t) = Len(a) + Len(b)
        /\ \A i \in 1 .. Len(a) + Len(b) : t[i] = IF i <= Len(a) THEN a[i] ELSE b[i - Len(a)]
    BY <1>2, <1>3, ConcatProperties
  <2>2. Len(a) = k - 1 /\ Len(a) + Len(b) = Len(s) - 1
    BY <1>1, <1>2, <1>3
  <2> QED
    BY <2>1, <2>2
<1> HIDE DEF t
<1>5. ASSUME NEW j \in 1 .. Len(s) - 1
      PROVE  t[j] = IF j < k THEN s[j] ELSE s[j + 1]
  <2>1. CASE j < k
    BY <1>1, <1>2, <1>4, <2>1
  <2>2. CASE j >= k
    <3>1. j - (k - 1) \in 1 .. Len(s) - k /\ k + (j - (k - 1)) = j + 1
      BY <1>1, <2>2
    <3>2. b[j - (k - 1)] = s[j + 1]
      BY <1>3, <3>1
    <3>3. t[j] = b[j - (k - 1)]
      BY <1>1, <1>4, <2>2
    <3> QED
      BY <1>1, <2>2, <3>2, <3>3
  <2> QED
    BY <1>1, <2>1, <2>2
<1>6. SeqOps!RemoveAt(s, k) = t
  BY DEF SeqOps!RemoveAt, a, b, t
<1> QED
  BY <1>4, <1>5, <1>6

(* What is in a queue, and that nothing is in it twice, after each change. *)
LEMMA Inserting ==
  ASSUME NEW S, NEW s \in Seq(S), NEW k \in 1 .. Len(s) + 1, NEW e \in S
  PROVE  LET t == SeqOps!InsertAt(s, k, e) IN
         /\ t \in Seq(S) /\ Len(t) = Len(s) + 1
         /\ Members(t) = Members(s) \union {e}
         /\ Unique(s) /\ e \notin Members(s) => Unique(t)
<1> DEFINE t == SeqOps!InsertAt(s, k, e)
<1>1. /\ t \in Seq(S) /\ Len(t) = Len(s) + 1
      /\ \A j \in 1 .. Len(s) + 1 :
           t[j] = IF j < k THEN s[j] ELSE IF j = k THEN e ELSE s[j - 1]
  BY InsertedAt
<1> HIDE DEF t
<1>2. /\ Len(s) \in Nat /\ DOMAIN s = 1 .. Len(s)
      /\ DOMAIN t = 1 .. Len(s) + 1
  BY <1>1, LenProperties
<1>3. Members(t) \subseteq Members(s) \union {e}
  <2> SUFFICES ASSUME NEW j \in 1 .. Len(s) + 1
               PROVE  t[j] \in Members(s) \union {e}
    BY <1>2 DEF Members
  <2>1. CASE j < k
    <3>1. t[j] = s[j] /\ j \in DOMAIN s
      BY <1>1, <1>2, <2>1
    <3> QED
      BY <3>1 DEF Members
  <2>2. CASE j = k
    BY <1>1, <2>2
  <2>3. CASE j > k
    <3>1. t[j] = s[j - 1] /\ j - 1 \in DOMAIN s
      BY <1>1, <1>2, <2>3
    <3> QED
      BY <3>1 DEF Members
  <2> QED
    BY <2>1, <2>2, <2>3
<1>4. Members(s) \union {e} \subseteq Members(t)
  <2>1. e \in Members(t)
    <3>1. t[k] = e /\ k \in DOMAIN t
      BY <1>1, <1>2
    <3> QED
      BY <3>1 DEF Members
  <2>2. ASSUME NEW j \in 1 .. Len(s)
        PROVE  s[j] \in Members(t)
    <3>1. CASE j < k
      <4>1. t[j] = s[j] /\ j \in DOMAIN t
        BY <1>1, <1>2, <3>1
      <4> QED
        BY <4>1 DEF Members
    <3>2. CASE j >= k
      <4>1. j + 1 \in 1 .. Len(s) + 1 /\ ~(j + 1 < k) /\ j + 1 # k /\ (j + 1) - 1 = j
        BY <1>2, <3>2
      <4>2. t[j + 1] = s[j]
        BY <1>1, <4>1
      <4> QED
        BY <1>2, <4>1, <4>2 DEF Members
    <3> QED
      BY <1>2, <3>1, <3>2
  <2> QED
    BY <1>2, <2>1, <2>2 DEF Members
<1>5. ASSUME Unique(s), e \notin Members(s)
      PROVE  Unique(t)
  <2> SUFFICES ASSUME NEW j \in 1 .. Len(s) + 1, NEW l \in 1 .. Len(s) + 1, t[j] = t[l]
               PROVE  j = l
    BY <1>2 DEF Unique
  <2> DEFINE from(x) == IF x < k THEN x ELSE x - 1
  <2>1. ASSUME NEW x \in 1 .. Len(s) + 1, x # k
        PROVE  from(x) \in 1 .. Len(s) /\ t[x] = s[from(x)] /\ t[x] # e
    <3>1. from(x) \in 1 .. Len(s)
      BY <1>2, <2>1
    <3>2. t[x] = s[from(x)]
      BY <1>1, <1>2, <2>1
    <3> QED
      BY <1>2, <1>5, <3>1, <3>2 DEF Members
  <2>2. t[k] = e
    BY <1>1, <1>2
  <2>3. CASE j = k \/ l = k
    BY <2>1, <2>2, <2>3
  <2>4. CASE j # k /\ l # k
    <3>1. from(j) = from(l)
      BY <1>2, <1>5, <2>1, <2>4 DEF Unique
    <3> QED
      BY <1>2, <2>4, <3>1
  <2> QED
    BY <2>3, <2>4
<1> QED
  BY <1>1, <1>3, <1>4, <1>5 DEF t

(* A queue of distinct PIDs without its k-th: the others, once each.       *)
LEMMA Removing ==
  ASSUME NEW S, NEW s \in Seq(S), NEW k \in 1 .. Len(s), Unique(s)
  PROVE  LET t == SeqOps!RemoveAt(s, k) IN
         /\ t \in Seq(S) /\ Len(t) = Len(s) - 1
         /\ Members(t) = Members(s) \ {s[k]}
         /\ Unique(t)
<1> DEFINE t == SeqOps!RemoveAt(s, k)
           from(x) == IF x < k THEN x ELSE x + 1
<1>1. /\ t \in Seq(S) /\ Len(t) = Len(s) - 1
      /\ \A j \in 1 .. Len(s) - 1 : t[j] = IF j < k THEN s[j] ELSE s[j + 1]
  BY RemovedAt
<1> HIDE DEF t
<1>2. Len(s) \in Nat /\ DOMAIN s = 1 .. Len(s) /\ DOMAIN t = 1 .. Len(s) - 1
  BY <1>1, LenProperties
<1>3. \A j \in DOMAIN t : from(j) \in DOMAIN s /\ from(j) # k /\ t[j] = s[from(j)]
  BY <1>1, <1>2
<1>4. \A j, l \in DOMAIN t : from(j) = from(l) => j = l
  BY <1>2
<1>5. \A x \in DOMAIN s \ {k} : \E j \in DOMAIN t : from(j) = x
  <2> SUFFICES ASSUME NEW x \in 1 .. Len(s), x # k
               PROVE  \E j \in 1 .. Len(s) - 1 : from(j) = x
    BY <1>2
  <2>1. CASE x < k
    <3>1. x \in 1 .. Len(s) - 1 /\ from(x) = x
      BY <1>2, <2>1
    <3> QED
      BY <3>1
  <2>2. CASE x > k
    <3>1. x - 1 \in 1 .. Len(s) - 1 /\ from(x - 1) = x
      BY <1>2, <2>2
    <3> QED
      BY <3>1
  <2> QED
    BY <1>2, <2>1, <2>2
<1> HIDE DEF from
<1>6. Members(t) = Members(s) \ {s[k]}
  <2>1. \A j \in DOMAIN t : t[j] \in Members(s) /\ t[j] # s[k]
    BY <1>2, <1>3 DEF Members, Unique
  <2>2. \A x \in DOMAIN s : s[x] # s[k] => s[x] \in Members(t)
    BY <1>2, <1>3, <1>5 DEF Members
  <2> QED
    BY <2>1, <2>2 DEF Members
<1>7. Unique(t)
  BY <1>3, <1>4 DEF Unique
<1> QED
  BY <1>1, <1>6, <1>7 DEF t

(* A queue of distinct PIDs without its first: the others, once each.      *)
LEMMA TakingFirst ==
  ASSUME NEW S, NEW s \in Seq(S), Len(s) > 0, Unique(s)
  PROVE  /\ Tail(s) \in Seq(S) /\ Len(Tail(s)) = Len(s) - 1
         /\ Head(s) \in S /\ Head(s) \in Members(s)
         /\ Members(Tail(s)) = Members(s) \ {Head(s)}
         /\ Unique(Tail(s))
<1> DEFINE t == Tail(s)
<1>0. s # <<>>
  BY EmptySeq
<1>1. /\ Head(s) \in S /\ t \in Seq(S) /\ Len(t) = Len(s) - 1
      /\ \A j \in 1 .. Len(s) - 1 : t[j] = s[j + 1]
  BY <1>0, HeadTailProperties
<1> HIDE DEF t
<1>2. Len(s) \in Nat /\ DOMAIN s = 1 .. Len(s) /\ DOMAIN t = 1 .. Len(s) - 1
  BY <1>1, LenProperties
<1>3. Head(s) = s[1] /\ 1 \in DOMAIN s
  BY <1>0, <1>2
<1>4. \A j \in DOMAIN t : j + 1 \in DOMAIN s /\ j + 1 # 1 /\ t[j] = s[j + 1]
  BY <1>1, <1>2
<1>5. \A x \in DOMAIN s \ {1} : x - 1 \in DOMAIN t /\ (x - 1) + 1 = x
  BY <1>2
<1>6. Members(t) = Members(s) \ {s[1]}
  <2>1. \A j \in DOMAIN t : t[j] \in Members(s) /\ t[j] # s[1]
    BY <1>3, <1>4 DEF Members, Unique
  <2>2. \A x \in DOMAIN s : s[x] # s[1] => s[x] \in Members(t)
    <3> SUFFICES ASSUME NEW x \in DOMAIN s, s[x] # s[1]
                 PROVE  s[x] \in Members(t)
      OBVIOUS
    <3>1. x - 1 \in DOMAIN t /\ (x - 1) + 1 = x
      BY <1>5
    <3>2. t[x - 1] = s[x]
      BY <1>4, <3>1
    <3> QED
      BY <3>1, <3>2 DEF Members
  <2> QED
    BY <2>1, <2>2 DEF Members
<1>7. Unique(t)
  <2> SUFFICES ASSUME NEW j \in DOMAIN t, NEW l \in DOMAIN t, t[j] = t[l]
               PROVE  j = l
    BY DEF Unique
  <2>1. j + 1 = l + 1
    BY <1>4 DEF Unique
  <2> QED
    BY <1>2, <2>1
<1> QED
  BY <1>1, <1>3, <1>6, <1>7 DEF t, Members

(* A queue that holds nothing twice is as long as the set of what it holds.*)
LEMMA Counting ==
  ASSUME NEW S, NEW s \in Seq(S), Unique(s)
  PROVE  Cardinality(Members(s)) = Len(s)
<1>1. Len(s) \in Nat /\ DOMAIN s = 1 .. Len(s) /\ s \in [1 .. Len(s) -> S]
  BY LenProperties
<1>2. s \in [1 .. Len(s) -> Members(s)]
  BY <1>1 DEF Members
<1>3. s \in Bijection(1 .. Len(s), Members(s))
  BY <1>1, <1>2 DEF Bijection, Injection, IsInjective, Surjection, Members, Unique
<1>4. ExistsBijection(1 .. Len(s), Members(s))
  BY <1>3 DEF ExistsBijection
<1>5. IsFiniteSet(1 .. Len(s)) /\ Cardinality(1 .. Len(s)) = Len(s)
  BY <1>1, FS_Interval
<1> QED
  BY <1>4, <1>5, FS_Bijection

-----------------------------------------------------------------------------
(* The invariant *)

Typed == TypeOK /\ Unique(sched)

\* The exit handler of process i is the one of PID p.
Handles(i, p) == proc[i] # "none" /\ ipid[i] = p

HandlersTyped ==
  \A i \in Insts :
    IF proc[i] = "none" THEN ipid[i] = None /\ ~closing[i]
    ELSE ipid[i] \in PidSpace /\ iuid[i] \in Uids

\* units and specs are inverse to each other, on allocated PIDs.
UnitsMatchSpecs ==
  /\ \A u \in Uids : units[u] # None => specs[units[u]] = u /\ units[u] \in inUse
  /\ \A p \in PidSpace : specs[p] # None => units[specs[p]] = p

\* A PID is held until its handler has run, so no other gets it before.
OneHandler ==
  /\ \A i \in Insts : proc[i] # "none" => ipid[i] \in inUse
  /\ \A i, j \in Insts : proc[i] # "none" /\ ipid[i] = ipid[j] => i = j

\* What is scheduled is registered and has no process.
ScheduledWaits ==
  \A p \in Scheduled : specs[p] # None /\ \A i \in Insts : ~Handles(i, p)

\* What is registered is scheduled or has a process.
Accounted ==
  \A p \in PidSpace : specs[p] # None => p \in Scheduled \/ \E i \in Insts : Handles(i, p)

\* ps finds the process of a PID as long as its unit is registered.
ProcessesFound ==
  /\ \A p \in PidSpace : ps[p] # None => Handles(ps[p], p)
  /\ \A i \in Insts : proc[i] # "none" /\ specs[ipid[i]] # None =>
       specs[ipid[i]] = iuid[i] /\ ps[ipid[i]] = i

\* A process that nobody closes belongs to a registered unit.
NoOrphan ==
  \A i \in Insts : proc[i] = "alive" /\ ~closing[i] => units[iuid[i]] = ipid[i]

Hands ==
  /\ HandlersTyped
  /\ UnitsMatchSpecs
  /\ OneHandler
  /\ ScheduledWaits
  /\ Accounted
  /\ ProcessesFound
  /\ NoOrphan

-----------------------------------------------------------------------------
(* The queue, step by step *)

\* The part of Typed that is about the queue.
QueueTyped == sched \in Seq(PidSpace) /\ due \in 0..Len(sched) /\ Unique(sched)

(* The set of what is scheduled is what the sequence has.                  *)
LEMMA QueueCounted ==
  /\ Scheduled = Members(sched)
  /\ QueueTyped => Cardinality(Scheduled) = Len(sched)
<1>1. Scheduled = Members(sched)
  BY DEF Scheduled, Members
<1>2. QueueTyped => Cardinality(Members(sched)) = Len(sched)
  BY Counting DEF QueueTyped
<1> QED
  BY <1>1, <1>2

(* The same after a step.                                                  *)
LEMMA QueueStillCounted ==
  /\ Scheduled' = Members(sched')
  /\ QueueTyped' => Cardinality(Scheduled') = Len(sched')
<1>1. Scheduled' = Members(sched')
  BY DEF Scheduled, Members
<1>2. QueueTyped' => Cardinality(Members(sched')) = Len(sched')
  BY Counting DEF QueueTyped, Unique
<1> QED
  BY <1>1, <1>2

(* What is scheduled is a PID.                                             *)
LEMMA ScheduledPids == QueueTyped => Scheduled \subseteq PidSpace
<1> SUFFICES ASSUME QueueTyped PROVE Scheduled \subseteq PidSpace
  OBVIOUS
<1>1. DOMAIN sched = 1 .. Len(sched) /\ \A k \in 1 .. Len(sched) : sched[k] \in PidSpace
  BY LenProperties DEF QueueTyped
<1> QED
  BY <1>1 DEF Scheduled

(* A push adds its PID.                                                    *)
LEMMA Pushed ==
  ASSUME NEW rest \in Seq(PidSpace), Unique(rest), NEW n \in 0..Len(rest),
         NEW p \in PidSpace, p \notin Members(rest), Push(rest, n, p)
  PROVE  QueueTyped' /\ Members(sched') = Members(rest) \union {p} /\ sig' = TRUE
<1>1. PICK k \in n + 1 .. Len(rest) + 1 :
        /\ sched' = SeqOps!InsertAt(rest, k, p)
        /\ due' \in IF k = n + 1 THEN {n, n + 1} ELSE {n}
  BY DEF Push
<1>2. Len(rest) \in Nat /\ k \in 1 .. Len(rest) + 1
  BY LenProperties
<1>3. /\ sched' \in Seq(PidSpace) /\ Len(sched') = Len(rest) + 1
      /\ Members(sched') = Members(rest) \union {p} /\ Unique(sched')
  BY <1>1, <1>2, Inserting
<1>4. due' \in 0..Len(sched')
  BY <1>1, <1>2, <1>3
<1> QED
  BY <1>3, <1>4 DEF QueueTyped, Unique, Push

(* Removing a PID from the queue takes it away, if it is there.            *)
LEMMA Removed ==
  ASSUME QueueTyped, NEW p \in PidSpace, Descheduled(p)
  PROVE  QueueTyped' /\ Members(sched') = Members(sched) \ {p}
<1>0. Scheduled = Members(sched) /\ Len(sched) \in Nat /\ DOMAIN sched = 1 .. Len(sched)
  BY QueueCounted, LenProperties DEF QueueTyped
<1>1. CASE p \in Scheduled
  <2> DEFINE k == Position(p)
  <2>1. k \in 1 .. Len(sched) /\ sched[k] = p
    BY <1>0, <1>1 DEF Scheduled, Position
  <2>2. sched' = SeqOps!RemoveAt(sched, k) /\ due' = IF p \in Due THEN due - 1 ELSE due
    BY <1>1 DEF Descheduled
  <2> HIDE DEF k
  <2>3. /\ sched' \in Seq(PidSpace) /\ Len(sched') = Len(sched) - 1
        /\ Members(sched') = Members(sched) \ {p} /\ Unique(sched')
    BY <2>1, <2>2, Removing DEF QueueTyped
  <2>4. due' \in 0..Len(sched')
    <3>1. CASE p \in Due
      <4>1. due > 0
        BY <1>0, <3>1 DEF Due, QueueTyped
      <4> QED
        BY <1>0, <2>2, <2>3, <3>1, <4>1 DEF QueueTyped
    <3>2. CASE p \notin Due
      <4>1. k > due
        BY <1>0, <2>1, <3>2 DEF Due, QueueTyped
      <4> QED
        BY <1>0, <2>1, <2>2, <2>3, <3>2, <4>1 DEF QueueTyped
    <3> QED
      BY <3>1, <3>2
  <2> QED
    BY <2>3, <2>4 DEF QueueTyped, Unique
<1>2. CASE p \notin Scheduled
  <2>1. UNCHANGED <<sched, due>>
    BY <1>2 DEF Descheduled
  <2> QED
    BY <1>0, <1>2, <2>1 DEF QueueTyped, Unique
<1> QED
  BY <1>1, <1>2

(* When something is due, it is the first, and the rest is a queue.        *)
LEMMA FirstDue ==
  ASSUME QueueTyped, due > 0
  PROVE  /\ Tail(sched) \in Seq(PidSpace) /\ due - 1 \in 0..Len(Tail(sched))
         /\ Head(sched) \in PidSpace /\ Head(sched) \in Members(sched)
         /\ Members(Tail(sched)) = Members(sched) \ {Head(sched)}
         /\ Unique(Tail(sched))
<1>1. Len(sched) \in Nat /\ Len(sched) > 0
  BY LenProperties DEF QueueTyped
<1>2. /\ Tail(sched) \in Seq(PidSpace) /\ Len(Tail(sched)) = Len(sched) - 1
      /\ Head(sched) \in PidSpace /\ Head(sched) \in Members(sched)
      /\ Members(Tail(sched)) = Members(sched) \ {Head(sched)}
      /\ Unique(Tail(sched))
  BY <1>1, TakingFirst DEF QueueTyped
<1>3. due - 1 \in 0..Len(Tail(sched))
  BY <1>1, <1>2 DEF QueueTyped
<1> QED
  BY <1>2, <1>3

-----------------------------------------------------------------------------
(* Types *)

\* What is left of TypeOK.
RestTyped ==
  /\ next \in PidSpace /\ inUse \subseteq PidSpace
  /\ units \in [Uids -> PidSpace \union {None}]
  /\ specs \in [PidSpace -> Uids \union {None}]
  /\ ps \in [PidSpace -> Insts \union {None}]
  /\ sig \in BOOLEAN
  /\ pc \in {"look", "sig", "timer"} /\ armed \in PidSpace \union {None}
  /\ ipid \in [Insts -> PidSpace \union {None}]
  /\ iuid \in [Insts -> Uids \union {None}]
  /\ proc \in [Insts -> {"none", "alive", "done"}]
  /\ closing \in [Insts -> BOOLEAN]

(* The type invariant without the count of the queue, which its being      *)
(* duplicate-free implies.                                                 *)
LEMMA TypedParts == Typed <=> RestTyped /\ QueueTyped
<1>1. QueueTyped => Cardinality(Scheduled) = Len(sched)
  BY QueueCounted
<1> QED
  BY <1>1 DEF Typed, TypeOK, RestTyped, QueueTyped

(* What the allocator has to give is not known anywhere.                   *)
LEMMA FreeIsUnknown ==
  ASSUME RestTyped, QueueTyped, Hands, NEW p \in PidSpace \ inUse
  PROVE  /\ specs[p] = None /\ p \notin Scheduled
         /\ \A u \in Uids : units[u] # p
         /\ \A i \in Insts : ~Handles(i, p)
<1>1. p # None
  BY NoneAssumption
<1>2. \A u \in Uids : units[u] # p
  BY <1>1 DEF Hands, UnitsMatchSpecs
<1>3. specs[p] = None
  BY <1>2 DEF Hands, UnitsMatchSpecs, RestTyped
<1>4. p \notin Scheduled
  BY <1>3 DEF Hands, ScheduledWaits
<1>5. \A i \in Insts : ~Handles(i, p)
  BY DEF Hands, OneHandler, Handles
<1> QED
  BY <1>2, <1>3, <1>4, <1>5

(* The queue is typed after every step.                                    *)
LEMMA QueueNext ==
  ASSUME RestTyped, QueueTyped, Hands, [Next]_vars
  PROVE  QueueTyped'
<1>0. Scheduled = Members(sched)
  BY QueueCounted
<1>1. CASE UNCHANGED <<sched, due>>
  BY <1>1 DEF QueueTyped, Unique
<1>2. ASSUME NEW u \in Uids, Add(u)
      PROVE  QueueTyped'
  <2>1. PICK p \in PidSpace \ inUse :
          /\ sched' = SeqOps!InsertAt(sched, due + 1, p)
          /\ due' = due + 1
    BY <1>2 DEF Add, Alloc
  <2>2. p \notin Members(sched)
    BY <1>0, FreeIsUnknown
  <2>3. Len(sched) \in Nat /\ due + 1 \in 1 .. Len(sched) + 1
    BY LenProperties DEF QueueTyped
  <2>4. sched' \in Seq(PidSpace) /\ Len(sched') = Len(sched) + 1 /\ Unique(sched')
    BY <2>1, <2>2, <2>3, Inserting DEF QueueTyped
  <2>5. due' \in 0..Len(sched')
    BY <2>1, <2>3, <2>4
  <2> QED
    BY <2>4, <2>5 DEF QueueTyped, Unique
<1>3. ASSUME NEW u \in Uids, Remove(u)
      PROVE  QueueTyped'
  <2>1. units[u] \in PidSpace /\ Descheduled(units[u])
    BY <1>3 DEF Remove, RestTyped
  <2> QED
    BY <2>1, Removed
<1>4. ASSUME NEW p \in PidSpace, MainLaunch(p)
      PROVE  QueueTyped'
  <2>1. sched' = Tail(sched) /\ due' = due - 1 /\ due > 0
    BY <1>4 DEF MainLaunch
  <2> QED
    BY <2>1, FirstDue DEF QueueTyped, Unique
<1>5. CASE MainLaunchFails
  <2>1. due > 0 /\ Push(Tail(sched), due - 1, Head(sched))
    BY <1>5 DEF MainLaunchFails
  <2> QED
    BY <2>1, FirstDue, Pushed
<1>6. ASSUME NEW p \in PidSpace, Expire(p)
      PROVE  QueueTyped'
  <2>1. p \in Scheduled /\ due' = Position(p) /\ UNCHANGED sched
    BY <1>6 DEF Expire
  <2>2. Len(sched) \in Nat /\ DOMAIN sched = 1 .. Len(sched)
    BY LenProperties DEF QueueTyped
  <2>3. Position(p) \in 1 .. Len(sched)
    BY <2>1, <2>2 DEF Scheduled, Position
  <2> QED
    BY <2>1, <2>2, <2>3 DEF QueueTyped, Unique
<1>7. ASSUME NEW i \in Insts, ExitHandler(i)
      PROVE  QueueTyped'
  <2>1. Push(sched, due, ipid[i]) \/ UNCHANGED <<sched, due>>
    BY <1>7 DEF ExitHandler, queue
  <2>2. ipid[i] \in PidSpace /\ ipid[i] \notin Members(sched)
    BY <1>0, <1>7 DEF ExitHandler, Hands, HandlersTyped, ScheduledWaits, Handles
  <2> QED
    BY <1>1, <2>1, <2>2, Pushed DEF QueueTyped
<1>8. CASE \/ MainAwaitSignal \/ MainArmTimer \/ MainSignalled \/ MainTimerFires
           \/ \E i \in Insts : ChildExits(i) \/ ChildLosesPipe(i)
           \/ UNCHANGED vars
  BY <1>1, <1>8 DEF MainAwaitSignal, MainArmTimer, MainSignalled, MainTimerFires,
     ChildExits, ChildLosesPipe, queue, vars
<1> QED
  BY <1>2, <1>3, <1>4, <1>5, <1>6, <1>7, <1>8 DEF Next, MainStep

(* So is the rest.                                                         *)
LEMMA RestNext ==
  ASSUME RestTyped, QueueTyped, Hands, [Next]_vars
  PROVE  RestTyped'
<1> USE DEF RestTyped
<1>0. \A p \in PidSpace : After(p) \in PidSpace
  BY PidMaxAssumption DEF After, PidSpace
<1>1. ASSUME NEW u \in Uids, Add(u)
      PROVE  RestTyped'
  BY <1>0, <1>1 DEF Add, Alloc, loop, child
<1>2. ASSUME NEW u \in Uids, Remove(u)
      PROVE  RestTyped'
  BY <1>2 DEF Remove, pids, loop
<1>3. ASSUME NEW p \in PidSpace, MainLaunch(p)
      PROVE  RestTyped'
  BY <1>3 DEF MainLaunch, pids, loop
<1>4. CASE MainLaunchFails
  BY <1>4 DEF MainLaunchFails, Push, pids, tables, loop, child
<1>5. CASE MainArmTimer
  <2>1. Len(sched) > 0
    BY <1>5, EmptySeq DEF MainArmTimer, QueueTyped
  <2>2. Head(sched) \in PidSpace
    BY <2>1, TakingFirst DEF QueueTyped
  <2> QED
    BY <1>5, <2>2 DEF MainArmTimer, pids, tables, queue, child
<1>6. CASE MainAwaitSignal \/ MainSignalled \/ MainTimerFires \/ UNCHANGED vars
  BY <1>6 DEF MainAwaitSignal, MainSignalled, MainTimerFires, vars, pids, tables, queue, loop, child
<1>7. ASSUME NEW p \in PidSpace, Expire(p)
      PROVE  RestTyped'
  BY <1>7 DEF Expire, pids, tables, loop, child
<1>8. ASSUME NEW i \in Insts, ChildExits(i) \/ ChildLosesPipe(i)
      PROVE  RestTyped'
  BY <1>8 DEF ChildExits, ChildLosesPipe, pids, tables, queue, loop
<1>9. ASSUME NEW i \in Insts, ExitHandler(i)
      PROVE  RestTyped'
  <2>1. sig' \in BOOLEAN /\ next' \in PidSpace /\ inUse' \subseteq PidSpace
    BY <1>9 DEF ExitHandler, Push, ReleasePid, pids, queue
  <2> QED
    BY <1>9, <2>1 DEF ExitHandler, loop
<1> QED
  BY <1>1, <1>2, <1>3, <1>4, <1>5, <1>6, <1>7, <1>8, <1>9 DEF Next, MainStep

-----------------------------------------------------------------------------
(* Hands, step by step *)

(* Nobody has anything at the start.                                       *)
LEMMA HandsInit == Init => Hands
<1> SUFFICES ASSUME Init PROVE Hands
  OBVIOUS
<1>1. Scheduled = {}
  BY DEF Init, Scheduled
<1> QED
  BY <1>1 DEF Init, Hands, HandlersTyped, UnitsMatchSpecs, OneHandler, ScheduledWaits,
     Accounted, ProcessesFound, NoOrphan, Handles

(* A step that moves no PID may end processes and ask some to close.       *)
LEMMA HandsStay ==
  ASSUME RestTyped, Hands, UNCHANGED <<inUse, units, specs, ps, ipid, iuid>>, UNCHANGED Scheduled,
         \A i \in Insts :
           /\ proc'[i] = "none" <=> proc[i] = "none"
           /\ proc'[i] = "alive" => proc[i] = "alive"
           /\ closing[i] => closing'[i]
           /\ proc[i] = "none" => closing'[i] = closing[i]
  PROVE  Hands'
<1>1. HandlersTyped' /\ OneHandler' /\ NoOrphan'
  BY DEF Hands, HandlersTyped, OneHandler, NoOrphan, PidSpace
<1>2. UnitsMatchSpecs'
  BY DEF Hands, UnitsMatchSpecs, PidSpace
<1>3. ScheduledWaits'
  BY DEF Hands, ScheduledWaits, Handles
<1>4. Accounted'
  BY DEF Hands, Accounted, Handles, PidSpace
<1>5. ProcessesFound'
  <2>1. \A p \in PidSpace : ps[p] # None => ps[p] \in Insts
    BY DEF RestTyped
  <2> QED
    BY <2>1 DEF Hands, ProcessesFound, Handles, PidSpace
<1> QED
  BY <1>1, <1>2, <1>3, <1>4, <1>5 DEF Hands

(* Add takes a PID nobody knows; it is scheduled for the new unit.         *)
LEMMA HandsAdd ==
  ASSUME RestTyped, QueueTyped, Hands, NEW u \in Uids, Add(u)
  PROVE  Hands'
<1> USE DEF RestTyped
<1>1. PICK p \in PidSpace \ inUse :
        /\ inUse' = inUse \union {p}
        /\ units' = [units EXCEPT ![u] = p]
        /\ specs' = [specs EXCEPT ![p] = u]
        /\ sched' = SeqOps!InsertAt(sched, due + 1, p)
  BY DEF Add, Alloc
<1>2. units[u] = None /\ UNCHANGED <<ps, ipid, iuid, proc, closing>>
  BY DEF Add, child
<1>3. /\ specs[p] = None /\ p \notin Scheduled /\ p # None /\ u # None
      /\ \A v \in Uids : units[v] # p
      /\ \A i \in Insts : ~Handles(i, p)
  BY FreeIsUnknown, NoneAssumption
<1>4. Scheduled' = Scheduled \union {p}
  <2>1. Len(sched) \in Nat /\ due + 1 \in 1 .. Len(sched) + 1
    BY LenProperties DEF QueueTyped
  <2>2. Members(sched') = Members(sched) \union {p}
    BY <1>1, <2>1, Inserting DEF QueueTyped
  <2> QED
    BY <2>2, QueueCounted, QueueStillCounted
<1>5. \A q \in PidSpace : specs'[q] = IF q = p THEN u ELSE specs[q]
  BY <1>1
<1>6. \A v \in Uids : units'[v] = IF v = u THEN p ELSE units[v]
  BY <1>1
<1>7. HandlersTyped' /\ OneHandler'
  BY <1>1, <1>2 DEF Hands, HandlersTyped, OneHandler, PidSpace
<1>8. UnitsMatchSpecs'
  <2>1. ASSUME NEW v \in Uids, units'[v] # None
        PROVE  specs'[units'[v]] = v /\ units'[v] \in inUse'
    BY <1>1, <1>3, <1>5, <1>6, <2>1 DEF Hands, UnitsMatchSpecs
  <2>2. ASSUME NEW q \in PidSpace, specs'[q] # None
        PROVE  units'[specs'[q]] = q
    BY <1>2, <1>3, <1>5, <1>6, <2>2, NoneAssumption DEF Hands, UnitsMatchSpecs
  <2> QED
    BY <2>1, <2>2 DEF UnitsMatchSpecs, PidSpace
<1>9. ScheduledWaits'
  <2>1. \A q \in Scheduled' : specs'[q] # None
    BY <1>3, <1>4, <1>5, ScheduledPids DEF Hands, ScheduledWaits
  <2>2. \A q \in Scheduled' : \A i \in Insts : ~Handles(i, q)
    BY <1>3, <1>4 DEF Hands, ScheduledWaits
  <2> QED
    BY <1>2, <2>1, <2>2 DEF ScheduledWaits, Handles
<1>10. Accounted'
  BY <1>2, <1>4, <1>5 DEF Hands, Accounted, Handles, PidSpace
<1>11. ProcessesFound'
  BY <1>2, <1>3, <1>5 DEF Hands, ProcessesFound, Handles, HandlersTyped, PidSpace
<1>12. NoOrphan'
  BY <1>2, <1>6, NoneAssumption DEF Hands, NoOrphan, HandlersTyped
<1> QED
  BY <1>7, <1>8, <1>9, <1>10, <1>11, <1>12 DEF Hands

(* Remove takes the unit's PID out of the queue and the tables and asks    *)
(* its process to close; the process's handler still has the PID.          *)
LEMMA HandsRemove ==
  ASSUME RestTyped, QueueTyped, Hands, NEW u \in Uids, Remove(u)
  PROVE  Hands'
<1> USE DEF RestTyped
<1> DEFINE p == units[u]
<1>1. /\ p # None /\ p \in PidSpace /\ specs[p] = u /\ u # None
      /\ closing' = [i \in Insts |-> closing[i] \/ i \in Running(p)]
      /\ units' = [units EXCEPT ![u] = None]
      /\ specs' = [specs EXCEPT ![p] = None]
      /\ ps' = [ps EXCEPT ![p] = None]
      /\ Descheduled(p)
  BY NoneAssumption DEF Remove, Hands, UnitsMatchSpecs
<1>2. UNCHANGED <<inUse, ipid, iuid, proc>>
  BY DEF Remove, pids
<1> HIDE DEF p
<1>3. Scheduled' = Scheduled \ {p}
  BY <1>1, Removed, QueueCounted, QueueStillCounted
<1>4. \A q \in PidSpace : /\ specs'[q] = IF q = p THEN None ELSE specs[q]
                          /\ ps'[q] = IF q = p THEN None ELSE ps[q]
  BY <1>1
<1>5. \A v \in Uids : units'[v] = IF v = u THEN None ELSE units[v]
  BY <1>1
<1>6. \A i \in Insts : /\ closing[i] => closing'[i]
                       /\ ps[p] = i => closing'[i]
                       /\ closing'[i] => closing[i] \/ ps[p] = i
  BY <1>1 DEF Running
<1>7. HandlersTyped'
  <2>1. \A i \in Insts : ps[p] = i => proc[i] # "none"
    BY <1>1, NoneAssumption DEF Hands, ProcessesFound, Handles
  <2> QED
    BY <1>2, <1>6, <2>1 DEF Hands, HandlersTyped, PidSpace
<1>8. OneHandler'
  BY <1>2 DEF Hands, OneHandler
<1>9. UnitsMatchSpecs'
  <2>1. ASSUME NEW v \in Uids, units'[v] # None
        PROVE  specs'[units'[v]] = v /\ units'[v] \in inUse'
    BY <1>1, <1>2, <1>4, <1>5, <2>1 DEF Hands, UnitsMatchSpecs
  <2>2. ASSUME NEW q \in PidSpace, specs'[q] # None
        PROVE  units'[specs'[q]] = q
    <3>1. q # p /\ specs'[q] = specs[q] /\ specs[q] \in Uids /\ units[specs[q]] = q
      BY <1>4, <2>2 DEF Hands, UnitsMatchSpecs
    <3>2. specs[q] # u
      BY <3>1 DEF p
    <3> QED
      BY <1>5, <3>1, <3>2
  <2> QED
    BY <2>1, <2>2 DEF UnitsMatchSpecs, PidSpace
<1>10. ScheduledWaits'
  <2>1. \A q \in Scheduled' : q \in PidSpace /\ q # p /\ q \in Scheduled
    BY <1>3, ScheduledPids
  <2> QED
    BY <1>2, <1>4, <2>1 DEF Hands, ScheduledWaits, Handles
<1>11. Accounted'
  BY <1>2, <1>3, <1>4 DEF Hands, Accounted, Handles, PidSpace
<1>12. ProcessesFound'
  <2>1. ASSUME NEW q \in PidSpace, ps'[q] # None
        PROVE  Handles(ps[q], q) /\ ps'[q] = ps[q]
    BY <1>4, <2>1 DEF Hands, ProcessesFound
  <2>2. ASSUME NEW i \in Insts, proc[i] # "none", specs'[ipid[i]] # None
        PROVE  specs'[ipid[i]] = iuid[i] /\ ps'[ipid[i]] = i
    BY <1>4, <2>2 DEF Hands, ProcessesFound, HandlersTyped
  <2> QED
    BY <1>2, <2>1, <2>2 DEF ProcessesFound, Handles, PidSpace
<1>13. NoOrphan'
  <2> SUFFICES ASSUME NEW i \in Insts, proc[i] = "alive", ~closing'[i]
               PROVE  units'[iuid[i]] = ipid[i]
    BY <1>2 DEF NoOrphan
  <2>1. units[iuid[i]] = ipid[i] /\ iuid[i] \in Uids
    BY <1>6 DEF Hands, NoOrphan, HandlersTyped
  <2>2. iuid[i] # u
    <3>1. SUFFICES ASSUME iuid[i] = u PROVE FALSE
      OBVIOUS
    <3>2. ipid[i] = p
      BY <2>1, <3>1 DEF p
    <3>3. ps[p] = i
      BY <1>1, <3>2 DEF Hands, ProcessesFound
    <3> QED
      BY <1>6, <3>3
  <2> QED
    BY <1>5, <2>1, <2>2
<1> QED
  BY <1>7, <1>8, <1>9, <1>10, <1>11, <1>12, <1>13 DEF Hands

(* A launch hands the first PID of the queue to a process nobody uses.     *)
LEMMA HandsLaunch ==
  ASSUME RestTyped, QueueTyped, Hands, NEW p \in PidSpace, MainLaunch(p)
  PROVE  Hands'
<1> USE DEF RestTyped
<1>1. PICK i \in Insts :
        /\ proc[i] = "none"
        /\ ps' = [ps EXCEPT ![p] = i]
        /\ ipid' = [ipid EXCEPT ![i] = p]
        /\ iuid' = [iuid EXCEPT ![i] = specs[p]]
        /\ proc' = [proc EXCEPT ![i] = "alive"]
  BY DEF MainLaunch
<1>2. /\ UNCHANGED <<inUse, units, specs, closing>>
      /\ due > 0 /\ p = Head(sched) /\ sched' = Tail(sched)
  BY DEF MainLaunch, pids
<1>3. Scheduled' = Scheduled \ {p} /\ p \in Scheduled
  BY <1>2, FirstDue, QueueCounted, QueueStillCounted
<1>4. /\ specs[p] \in Uids /\ specs[p] # None /\ units[specs[p]] = p
      /\ p \in inUse /\ p # None /\ i # None
      /\ \A j \in Insts : ~Handles(j, p)
  BY <1>3, NoneAssumption DEF Hands, ScheduledWaits, UnitsMatchSpecs
<1>5. \A j \in Insts :
        /\ ipid'[j] = IF j = i THEN p ELSE ipid[j]
        /\ iuid'[j] = IF j = i THEN specs[p] ELSE iuid[j]
        /\ proc'[j] = IF j = i THEN "alive" ELSE proc[j]
  BY <1>1
<1>6. \A q \in PidSpace : ps'[q] = IF q = p THEN i ELSE ps[q]
  BY <1>1
<1>7. HandlersTyped'
  BY <1>1, <1>2, <1>4, <1>5 DEF Hands, HandlersTyped, PidSpace
<1>8. OneHandler'
  <2>1. \A j \in Insts : proc'[j] # "none" => ipid'[j] \in inUse
    BY <1>4, <1>5 DEF Hands, OneHandler
  <2>2. ASSUME NEW j \in Insts, NEW k \in Insts, proc'[j] # "none", ipid'[j] = ipid'[k]
        PROVE  j = k
    <3>1. \A l \in Insts : l # i => ipid[l] # p
      BY <1>4 DEF Handles, Hands, HandlersTyped
    <3> QED
      BY <1>1, <1>5, <2>2, <3>1 DEF Hands, OneHandler
  <2> QED
    BY <1>2, <2>1, <2>2 DEF OneHandler
<1>9. UnitsMatchSpecs'
  BY <1>2 DEF Hands, UnitsMatchSpecs, PidSpace
<1>10. ScheduledWaits'
  BY <1>2, <1>3, <1>5 DEF Hands, ScheduledWaits, Handles
<1>11. Accounted'
  <2> SUFFICES ASSUME NEW q \in PidSpace, specs[q] # None
               PROVE  q \in Scheduled' \/ \E j \in Insts : proc'[j] # "none" /\ ipid'[j] = q
    BY <1>2 DEF Accounted, Handles, PidSpace
  <2>1. CASE q = p
    BY <1>5, <2>1
  <2>2. CASE q # p
    BY <1>1, <1>3, <1>5, <2>2 DEF Hands, Accounted, Handles
  <2> QED
    BY <2>1, <2>2
<1>12. ProcessesFound'
  <2>1. ASSUME NEW q \in PidSpace, ps'[q] # None
        PROVE  proc'[ps'[q]] # "none" /\ ipid'[ps'[q]] = q
    <3>1. CASE q = p
      BY <1>5, <1>6, <3>1
    <3>2. CASE q # p
      <4>1. ps'[q] = ps[q] /\ ps[q] \in Insts /\ Handles(ps[q], q)
        BY <1>6, <2>1, <3>2 DEF Hands, ProcessesFound
      <4> QED
        BY <1>1, <1>5, <4>1 DEF Handles
    <3> QED
      BY <3>1, <3>2
  <2>2. ASSUME NEW j \in Insts, proc'[j] # "none", specs[ipid'[j]] # None
        PROVE  specs[ipid'[j]] = iuid'[j] /\ ps'[ipid'[j]] = j
    <3>1. CASE j = i
      BY <1>5, <1>6, <3>1
    <3>2. CASE j # i
      <4>1. proc[j] # "none" /\ ipid'[j] = ipid[j] /\ iuid'[j] = iuid[j]
        BY <1>5, <2>2, <3>2
      <4>2. ipid[j] # p /\ ipid[j] \in PidSpace
        BY <1>4, <4>1 DEF Handles, Hands, HandlersTyped
      <4> QED
        BY <1>6, <2>2, <4>1, <4>2 DEF Hands, ProcessesFound
    <3> QED
      BY <3>1, <3>2
  <2> QED
    BY <1>2, <2>1, <2>2 DEF ProcessesFound, Handles, PidSpace
<1>13. NoOrphan'
  BY <1>2, <1>4, <1>5 DEF Hands, NoOrphan
<1> QED
  BY <1>7, <1>8, <1>9, <1>10, <1>11, <1>12, <1>13 DEF Hands

(* The exit handler puts its PID back into the queue, or gives it up when  *)
(* no table has it any more.                                               *)
LEMMA HandsExit ==
  ASSUME RestTyped, QueueTyped, Hands, NEW i \in Insts, ExitHandler(i)
  PROVE  Hands'
<1> USE DEF RestTyped
<1> DEFINE p == ipid[i]
<1>1. /\ proc[i] = "done" /\ p \in PidSpace /\ iuid[i] \in Uids /\ p \in inUse /\ p # None
      /\ ps' = [ps EXCEPT ![p] = None]
      /\ IF units[iuid[i]] = p THEN Push(sched, due, p) /\ UNCHANGED inUse
         ELSE inUse' = inUse \ {p} /\ UNCHANGED sched
      /\ UNCHANGED <<units, specs>>
  BY NoneAssumption
  DEF ExitHandler, Authoritative, ReleasePid, pids, queue, Hands, HandlersTyped, OneHandler
<1>2. \A j \in Insts :
        /\ proc'[j] = IF j = i THEN "none" ELSE proc[j]
        /\ closing'[j] = IF j = i THEN FALSE ELSE closing[j]
        /\ ipid'[j] = IF j = i THEN None ELSE ipid[j]
        /\ iuid'[j] = IF j = i THEN None ELSE iuid[j]
  BY DEF ExitHandler
<1>3. \A j \in Insts : j # i /\ proc[j] # "none" => ipid[j] # p
  BY <1>1 DEF Hands, OneHandler
<1>4. p \notin Scheduled
  BY <1>1 DEF Hands, ScheduledWaits, Handles
<1>5. specs[p] # None => units[iuid[i]] = p
  BY <1>1 DEF Hands, ProcessesFound, UnitsMatchSpecs
<1>6. \A v \in Uids : units[v] = p => specs[p] # None
  BY <1>1, NoneAssumption DEF Hands, UnitsMatchSpecs
<1> HIDE DEF p
<1>7. \A q \in PidSpace : ps'[q] = IF q = p THEN None ELSE ps[q]
  BY <1>1
<1>8. Scheduled' = IF specs[p] # None THEN Scheduled \union {p} ELSE Scheduled
  <2>1. CASE specs[p] # None
    <3>1. Push(sched, due, p)
      BY <1>1, <1>5, <2>1
    <3>2. Members(sched') = Members(sched) \union {p}
      BY <1>1, <1>4, <3>1, Pushed, QueueCounted DEF QueueTyped
    <3> QED
      BY <2>1, <3>2, QueueCounted, QueueStillCounted
  <2>2. CASE specs[p] = None
    <3>1. UNCHANGED sched
      BY <1>1, <1>6, <2>2
    <3> QED
      BY <2>2, <3>1 DEF Scheduled
  <2> QED
    BY <2>1, <2>2
<1>9. \A q \in inUse : q # p \/ specs[p] # None => q \in inUse'
  BY <1>1, <1>5
<1>10. HandlersTyped'
  BY <1>2 DEF Hands, HandlersTyped, PidSpace
<1>11. OneHandler'
  <2>1. ASSUME NEW j \in Insts, proc'[j] # "none"
        PROVE  j # i /\ proc[j] # "none" /\ ipid'[j] = ipid[j] /\ ipid[j] \in inUse'
    BY <1>2, <1>3, <1>9, <2>1 DEF Hands, OneHandler
  <2>2. ASSUME NEW j \in Insts, NEW k \in Insts, proc'[j] # "none", ipid'[j] = ipid'[k]
        PROVE  j = k
    <3>1. k # i
      <4>1. ipid[j] \in PidSpace /\ ipid'[i] = None
        BY <1>2, <2>1, <2>2 DEF Hands, HandlersTyped
      <4> QED
        BY <2>1, <2>2, <4>1, NoneAssumption
    <3> QED
      <4>1. /\ proc[j] # "none" /\ ipid'[j] = ipid[j] /\ ipid'[k] = ipid[k]
        BY <1>2, <2>1, <2>2, <3>1
      <4> QED
        BY <2>2, <4>1 DEF Hands, OneHandler
  <2> QED
    BY <2>1, <2>2 DEF OneHandler
<1>12. UnitsMatchSpecs'
  BY <1>1, <1>6, <1>9 DEF Hands, UnitsMatchSpecs, PidSpace
<1>13. ScheduledWaits'
  BY <1>1, <1>2, <1>3, <1>8 DEF Hands, ScheduledWaits, Handles
<1>14. Accounted'
  <2> SUFFICES ASSUME NEW q \in PidSpace, specs[q] # None
               PROVE  q \in Scheduled' \/ \E j \in Insts : proc'[j] # "none" /\ ipid'[j] = q
    BY <1>1 DEF Accounted, Handles, PidSpace
  <2>1. CASE q = p
    BY <1>8, <2>1
  <2>2. CASE q # p
    <3>1. q \in Scheduled => q \in Scheduled'
      BY <1>8
    <3>2. \A j \in Insts : Handles(j, q) => j # i
      BY <2>2 DEF Handles, p
    <3> QED
      BY <1>2, <3>1, <3>2 DEF Hands, Accounted, Handles
  <2> QED
    BY <2>1, <2>2
<1>15. ProcessesFound'
  <2>1. ASSUME NEW q \in PidSpace, ps'[q] # None
        PROVE  proc'[ps'[q]] # "none" /\ ipid'[ps'[q]] = q
    <3>1. q # p /\ ps'[q] = ps[q] /\ ps[q] \in Insts /\ Handles(ps[q], q)
      BY <1>7, <2>1 DEF Hands, ProcessesFound
    <3>2. ps[q] # i
      BY <3>1 DEF Handles, p
    <3> QED
      BY <1>2, <3>1, <3>2 DEF Handles
  <2>2. ASSUME NEW j \in Insts, proc'[j] # "none", specs[ipid'[j]] # None
        PROVE  specs[ipid'[j]] = iuid'[j] /\ ps'[ipid'[j]] = j
    <3>1. /\ j # i /\ proc[j] # "none" /\ ipid'[j] = ipid[j] /\ iuid'[j] = iuid[j]
          /\ ipid[j] # p /\ ipid[j] \in PidSpace
      BY <1>2, <1>3, <2>2 DEF Hands, HandlersTyped
    <3> QED
      BY <1>7, <2>2, <3>1 DEF Hands, ProcessesFound
  <2> QED
    BY <1>1, <2>1, <2>2 DEF ProcessesFound, Handles, PidSpace
<1>16. NoOrphan'
  BY <1>1, <1>2 DEF Hands, NoOrphan
<1> QED
  BY <1>10, <1>11, <1>12, <1>13, <1>14, <1>15, <1>16 DEF Hands

(* Every step keeps the hands apart.                                       *)
LEMMA HandsNext ==
  ASSUME RestTyped, QueueTyped, Hands, [Next]_vars
  PROVE  Hands'
<1>1. ASSUME NEW u \in Uids, Add(u) \/ Remove(u)
      PROVE  Hands'
  BY <1>1, HandsAdd, HandsRemove
<1>2. ASSUME NEW p \in PidSpace, MainLaunch(p)
      PROVE  Hands'
  BY <1>2, HandsLaunch
<1>3. CASE MainLaunchFails
  <2>1. due > 0 /\ Push(Tail(sched), due - 1, Head(sched))
    BY <1>3 DEF MainLaunchFails
  <2> DEFINE rest == Tail(sched)
             p == Head(sched)
  <2>2. /\ rest \in Seq(PidSpace) /\ due - 1 \in 0..Len(rest) /\ Unique(rest)
        /\ p \in PidSpace /\ p \in Members(sched) /\ Members(rest) = Members(sched) \ {p}
    BY <2>1, FirstDue
  <2>3. Push(rest, due - 1, p)
    BY <2>1
  <2> HIDE DEF rest, p
  <2>4. Members(sched') = Members(rest) \union {p}
    BY <2>2, <2>3, Pushed
  <2>5. Members(sched') = Members(sched)
    BY <2>2, <2>4
  <2>6. UNCHANGED Scheduled
    BY <2>5, QueueCounted, QueueStillCounted
  <2> QED
    BY <1>3, <2>6, HandsStay DEF MainLaunchFails, pids, tables, child
<1>4. ASSUME UNCHANGED <<pids, tables, sched, child>>
      PROVE  Hands'
  <2>1. UNCHANGED Scheduled
    BY <1>4 DEF Scheduled
  <2> QED
    BY <1>4, <2>1, HandsStay DEF pids, tables, child
<1>5. CASE MainAwaitSignal \/ MainArmTimer \/ MainSignalled \/ MainTimerFires
           \/ (\E p \in PidSpace : Expire(p)) \/ UNCHANGED vars
  BY <1>4, <1>5 DEF MainAwaitSignal, MainArmTimer, MainSignalled, MainTimerFires, Expire,
     queue, vars
<1>6. ASSUME NEW i \in Insts, ChildExits(i) \/ ChildLosesPipe(i)
      PROVE  Hands'
  <2>1. UNCHANGED Scheduled /\ UNCHANGED <<inUse, units, specs, ps, ipid, iuid>>
    BY <1>6 DEF ChildExits, ChildLosesPipe, Scheduled, pids, tables, queue
  <2>2. \A j \in Insts :
          /\ proc'[j] = "none" <=> proc[j] = "none"
          /\ proc'[j] = "alive" => proc[j] = "alive"
          /\ closing[j] => closing'[j]
          /\ proc[j] = "none" => closing'[j] = closing[j]
    BY <1>6 DEF ChildExits, ChildLosesPipe, RestTyped
  <2> QED
    BY <2>1, <2>2, HandsStay
<1>7. ASSUME NEW i \in Insts, ExitHandler(i)
      PROVE  Hands'
  BY <1>7, HandsExit
<1> QED
  BY <1>1, <1>2, <1>3, <1>5, <1>6, <1>7 DEF Next, MainStep

-----------------------------------------------------------------------------
(* The invariant holds *)

Kept == RestTyped /\ QueueTyped /\ Hands

(* What HandsKept rests on, in the form in which the steps keep it.        *)
LEMMA KeptInductive == Spec => []Kept
<1>1. Init => Kept
  <2> SUFFICES ASSUME Init PROVE RestTyped /\ QueueTyped
    BY HandsInit DEF Kept
  <2>1. RestTyped
    <3>1. next \in PidSpace /\ inUse \subseteq PidSpace
      BY PidMaxAssumption DEF Init, AllocInit, PidSpace
    <3> QED
      BY <3>1 DEF Init, RestTyped
  <2>2. QueueTyped
    BY DEF Init, QueueTyped, Unique
  <2> QED
    BY <2>1, <2>2
<1>2. Kept /\ [Next]_vars => Kept'
  BY QueueNext, RestNext, HandsNext DEF Kept
<1> QED
  BY <1>1, <1>2, PTL DEF Spec

(* Type correctness, and that the queue, the tables and the exit handlers  *)
(* agree on who has which PID: the inductive invariant.                    *)
THEOREM HandsKept == Spec => [](Typed /\ Hands)
<1>1. Kept => Typed /\ Hands
  BY TypedParts DEF Kept
<1> QED
  BY <1>1, KeptInductive, PTL

(* A PID is held for as long as anything still knows it, however late the  *)
(* exit handlers of removed units come: alloc never hands it out again     *)
(* before.                                                                 *)
THEOREM PidsStayInOneHand == Spec => []PidsInOneHand
<1>1. Kept => PidsInOneHand
  <2> SUFFICES ASSUME Kept PROVE PidsInOneHand
    OBVIOUS
  <2>1. TypeOK
    BY TypedParts DEF Kept, Typed
  <2>2. \A p \in Scheduled : p \in PidSpace /\ specs[p] \in Uids /\ units[specs[p]] = p
    BY ScheduledPids DEF Kept, RestTyped, Hands, ScheduledWaits, UnitsMatchSpecs
  <2>3. Scheduled \subseteq inUse
    BY <2>2, NoneAssumption DEF Kept, Hands, UnitsMatchSpecs
  <2>4. \A u \in Uids : units[u] # None => units[u] \in inUse
    BY DEF Kept, Hands, UnitsMatchSpecs
  <2> QED
    BY <2>1, <2>3, <2>4 DEF PidsInOneHand, PidsHeld, Kept, Hands, OneHandler
<1> QED
  BY <1>1, KeptInductive, PTL

(* Every registered unit is scheduled once or has one process with an exit *)
(* handler, never both, and nothing else is scheduled: no exit, launch or  *)
(* failed launch loses a unit, and none duplicates it.                     *)
THEOREM UnitsStaySharedOut == Spec => []UnitsSharedOut
<1>1. Kept => UnitsSharedOut
  <2> SUFFICES ASSUME Kept, NEW p \in PidSpace, specs[p] # None
               PROVE  /\ units[specs[p]] = p
                      /\ Cardinality({k \in DOMAIN sched : sched[k] = p})
                           + Cardinality({i \in Insts : ipid[i] = p}) = 1
    BY DEF UnitsSharedOut, Kept, Hands, ScheduledWaits
  <2> DEFINE K == {k \in DOMAIN sched : sched[k] = p}
             I == {i \in Insts : ipid[i] = p}
  <2>0. p # None
    BY NoneAssumption
  <2>1. I = {i \in Insts : Handles(i, p)}
    BY <2>0 DEF Kept, Hands, HandlersTyped, Handles
  <2>2. \A k, l \in K : k = l
    BY DEF Kept, QueueTyped, Unique
  <2>3. \A i, j \in I : i = j
    BY <2>1 DEF Kept, Hands, OneHandler, Handles
  <2>4. K # {} <=> p \in Scheduled
    BY DEF Scheduled
  <2>5. (K # {}) # (I # {})
    <3>1. p \in Scheduled => I = {}
      BY <2>1 DEF Kept, Hands, ScheduledWaits
    <3>2. p \notin Scheduled => I # {}
      BY <2>1 DEF Kept, Hands, Accounted
    <3> QED
      BY <2>4, <3>1, <3>2
  <2>6. units[specs[p]] = p
    BY DEF Kept, Hands, UnitsMatchSpecs
  <2> HIDE DEF K, I
  <2>7. Cardinality(K) + Cardinality(I) = 1
    <3>1. Cardinality({}) = 0 /\ \A x : Cardinality({x}) = 1
      BY FS_EmptySet, FS_Singleton
    <3>2. CASE K # {}
      <4>1. PICK k \in K : K = {k}
        BY <2>2, <3>2
      <4> QED
        BY <2>5, <3>1, <3>2, <4>1
    <3>3. CASE K = {}
      <4>1. PICK i \in I : I = {i}
        BY <2>3, <2>5, <3>3
      <4> QED
        BY <3>1, <3>3, <4>1
    <3> QED
      BY <3>2, <3>3
  <2> QED
    BY <2>6, <2>7 DEF K, I
<1> QED
  BY <1>1, KeptInductive, PTL

-----------------------------------------------------------------------------
(* Refinement *)

\* The units of the abstract supervisor.
Registered == {u \in Uids : units[u] # None}

(* A serving process has a handler, is in ps and serves its PID's unit.    *)
LEMMA ServersAreKnown ==
  ASSUME RestTyped, Hands, NEW i \in Insts, Serving[i] # None
  PROVE  /\ Serving[i] = iuid[i] /\ iuid[i] \in Uids /\ ipid[i] \in PidSpace
         /\ Handles(i, ipid[i])
         /\ specs[ipid[i]] = iuid[i] /\ ps[ipid[i]] = i /\ units[iuid[i]] = ipid[i]
<1>1. proc[i] = "alive" /\ ~closing[i] /\ Serving[i] = iuid[i]
  BY DEF Serving
<1>2. units[iuid[i]] = ipid[i] /\ iuid[i] \in Uids /\ ipid[i] \in PidSpace
  BY <1>1 DEF Hands, NoOrphan, HandlersTyped
<1>3. specs[ipid[i]] = iuid[i]
  BY <1>2, NoneAssumption DEF Hands, UnitsMatchSpecs
<1>4. ps[ipid[i]] = i
  BY <1>1, <1>2, <1>3, NoneAssumption DEF Hands, ProcessesFound
<1> QED
  BY <1>1, <1>2, <1>3, <1>4 DEF Handles

(* A step that leaves the units alone and starts nobody only loses servers.*)
LEMMA LosingServers ==
  ASSUME UNCHANGED units,
         \A i \in Insts : Serving'[i] \in {Serving[i], None}
  PROVE  Abstract!Next
<1> DEFINE S == {i \in Insts : Serving'[i] = None}
<1>1. Serving' = [i \in Insts |-> IF i \in S THEN None ELSE Serving[i]]
  BY DEF Serving
<1>2. UNCHANGED Registered
  BY DEF Registered
<1>3. Abstract!Lose(S)
  BY <1>1, <1>2 DEF Abstract!Lose, Registered
<1> QED
  BY <1>3 DEF Abstract!Next

(* In particular one that keeps every process's unit, revives none and     *)
(* withdraws no Close.                                                     *)
LEMMA NobodyStarts ==
  ASSUME UNCHANGED units,
         \A i \in Insts :
           proc'[i] = "alive" =>
             /\ proc[i] = "alive" /\ iuid'[i] = iuid[i]
             /\ closing[i] => closing'[i]
  PROVE  Abstract!Next
<1>1. \A i \in Insts : Serving'[i] \in {Serving[i], None}
  BY DEF Serving
<1> QED
  BY <1>1, LosingServers

(* Add registers the unit and starts nobody.                               *)
LEMMA AddRegisters ==
  ASSUME RestTyped, NEW u \in Uids, Add(u)
  PROVE  Abstract!Register(u)
<1>1. Registered' = Registered \union {u} /\ u \notin Registered
  BY NoneAssumption DEF Add, Alloc, RestTyped, Registered
<1>2. UNCHANGED Serving
  BY DEF Add, Serving, child
<1> QED
  BY <1>1, <1>2 DEF Abstract!Register, Registered

(* Remove asks exactly the unit's process to close.                        *)
LEMMA RemoveUnregisters ==
  ASSUME RestTyped, Hands, NEW u \in Uids, Remove(u)
  PROVE  Abstract!Unregister(u)
<1> DEFINE p == units[u]
<1>1. p \in PidSpace /\ p # None /\ specs[p] = u /\ u # None
  BY NoneAssumption DEF Remove, RestTyped, Hands, UnitsMatchSpecs
<1>2. Registered' = Registered \ {u} /\ u \in Registered
  BY DEF Remove, RestTyped, Registered
<1>3. ASSUME NEW i \in Insts
      PROVE  Serving'[i] = IF Serving[i] = u THEN None ELSE Serving[i]
  <2>1. /\ closing'[i] <=> closing[i] \/ ps[p] = i
        /\ proc'[i] = proc[i] /\ iuid'[i] = iuid[i]
    BY DEF Remove, Running, RestTyped
  <2>2. CASE Serving[i] = None
    <3>1. Serving'[i] = None
      BY <2>1, <2>2 DEF Serving
    <3> QED
      BY <1>1, <2>2, <3>1
  <2>3. CASE Serving[i] # None
    <3>1. /\ Serving[i] = iuid[i] /\ iuid[i] \in Uids
          /\ ps[ipid[i]] = i /\ units[iuid[i]] = ipid[i] /\ specs[ipid[i]] = iuid[i]
      BY <2>3, ServersAreKnown
    <3>2. ps[p] = i => ipid[i] = p
      BY <1>1, NoneAssumption DEF Hands, ProcessesFound, Handles
    <3>3. ps[p] = i <=> iuid[i] = u
      BY <1>1, <3>1, <3>2
    <3>4. proc[i] = "alive" /\ ~closing[i]
      BY <2>3 DEF Serving
    <3>5. Serving'[i] = IF ps[p] = i THEN None ELSE iuid[i]
      BY <2>1, <3>4 DEF Serving
    <3> QED
      BY <3>1, <3>3, <3>5
  <2> QED
    BY <2>2, <2>3
<1>4. Serving' = [i \in Insts |-> IF Serving[i] = u THEN None ELSE Serving[i]]
  BY <1>3 DEF Serving
<1> QED
  BY <1>2, <1>4 DEF Abstract!Unregister, Registered

(* A launch serves a registered unit that nobody serves.                   *)
LEMMA MainLaunchLaunches ==
  ASSUME RestTyped, QueueTyped, Hands, NEW p \in PidSpace, MainLaunch(p)
  PROVE  Abstract!Next
<1> DEFINE u == specs[p]
<1>1. PICK i \in Insts :
        /\ proc[i] = "none"
        /\ iuid' = [iuid EXCEPT ![i] = u]
        /\ proc' = [proc EXCEPT ![i] = "alive"]
  BY DEF MainLaunch
<1>2. UNCHANGED <<units, closing>> /\ p = Head(sched) /\ due > 0
  BY DEF MainLaunch
<1>3. p \in Scheduled
  BY <1>2, FirstDue, QueueCounted
<1>4. u \in Uids /\ u # None /\ units[u] = p /\ p # None /\ \A j \in Insts : ~Handles(j, p)
  BY <1>3, NoneAssumption DEF RestTyped, Hands, ScheduledWaits, UnitsMatchSpecs
<1>5. Serving[i] = None /\ ~closing[i]
  BY <1>1 DEF Serving, Hands, HandlersTyped
<1> HIDE DEF u
<1>6. \A j \in Insts : Serving'[j] = IF j = i THEN u ELSE Serving[j]
  BY <1>1, <1>2, <1>5 DEF Serving, RestTyped
<1>7. Serving' = [Serving EXCEPT ![i] = u]
  BY <1>6 DEF Serving
<1>8. ASSUME NEW j \in Insts
      PROVE  Serving[j] # u
  <2>1. CASE Serving[j] = None
    BY <1>4, <2>1
  <2>2. CASE Serving[j] # None
    <3>1. Serving[j] = iuid[j] /\ Handles(j, ipid[j]) /\ units[iuid[j]] = ipid[j]
      BY <2>2, ServersAreKnown
    <3> QED
      BY <1>4, <3>1
  <2> QED
    BY <2>1, <2>2
<1>9. u \in Registered /\ UNCHANGED Registered
  BY <1>2, <1>4 DEF Registered
<1>10. Abstract!Launch(i, u)
  BY <1>5, <1>7, <1>8, <1>9 DEF Abstract!Launch, Registered
<1> QED
  BY <1>4, <1>10 DEF Abstract!Next

(* Every step of the manager is one of the abstract supervisor.            *)
LEMMA StepsImplement ==
  ASSUME Kept, [Next]_vars
  PROVE  Abstract!Next
<1> USE DEF Kept
<1>1. ASSUME NEW u \in Uids, Add(u) \/ Remove(u)
      PROVE  Abstract!Next
  BY <1>1, AddRegisters, RemoveUnregisters DEF Abstract!Next
<1>2. ASSUME NEW p \in PidSpace, MainLaunch(p)
      PROVE  Abstract!Next
  BY <1>2, MainLaunchLaunches
<1>3. CASE MainAwaitSignal \/ MainArmTimer \/ MainLaunchFails \/ MainSignalled
           \/ MainTimerFires \/ (\E p \in PidSpace : Expire(p)) \/ UNCHANGED vars
  <2>1. UNCHANGED <<tables, child>>
    BY <1>3 DEF MainAwaitSignal, MainArmTimer, MainLaunchFails, MainSignalled,
       MainTimerFires, Expire, vars
  <2> QED
    BY <2>1, NobodyStarts DEF tables, child
<1>4. ASSUME NEW i \in Insts, ChildExits(i) \/ ChildLosesPipe(i) \/ ExitHandler(i)
      PROVE  Abstract!Next
  <2>1. UNCHANGED units
    BY <1>4 DEF ChildExits, ChildLosesPipe, ExitHandler, tables
  <2>2. ASSUME NEW j \in Insts, proc'[j] = "alive"
        PROVE  /\ proc[j] = "alive" /\ iuid'[j] = iuid[j]
               /\ closing[j] => closing'[j]
    BY <1>4, <2>2 DEF ChildExits, ChildLosesPipe, ExitHandler, RestTyped
  <2> QED
    BY <2>1, <2>2, NobodyStarts
<1> QED
  BY <1>1, <1>2, <1>3, <1>4 DEF Next, MainStep

(* PM1 implements the abstract supervisor: whatever the callers, the main  *)
(* loop and the exit handlers do in whatever order, every process nobody   *)
(* asked to close serves a registered unit, alone, and Remove asks exactly *)
(* the unit's process to close.                                            *)
THEOREM SupervisorImplemented == Spec => ImplementsSupervisor
<1>1. Init => Abstract!Init
  BY DEF Init, Abstract!Init, Serving
<1>2. Kept /\ [Next]_vars => [Abstract!Next]_(Abstract!vars)
  BY StepsImplement
<1> QED
  BY KeptInductive, <1>1, <1>2, PTL DEF Spec, ImplementsSupervisor, Abstract!Spec

=============================================================================

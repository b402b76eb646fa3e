----------------------- MODULE ChannelHandlers_proofs -----------------------
(***************************************************************************)
(* What the handlers of /api/channels promise, for any number of requests, *)
(* clients, channels and ids asked for.                                    *)
(*                                                                         *)
(* A request takes several locks one after the other; what it may rely on  *)
(* in between is that its history variable mine has seen every id that was *)
(* its client's own (Views), which holds as the one write that is under    *)
(* way moves the objects and the index of owners together (Writing).       *)
(***************************************************************************)
EXTENDS ChannelHandlers, SequenceTheorems, FiniteSetTheorems, TLAPS

\* An admin is no client, and no handler has the name that means nobody.
Names == Asking \subseteq Tenants /\ Admin \notin Tenants /\ Nobody \notin Handlers

-----------------------------------------------------------------------------
(* One request *)

Bulk == {"deleteMany", "modifyMany"}
Single == {"get", "patch"}
Kinds == Bulk \union Single \union {"list", "all", "status"}
Writing == {"stored", "unregistered"}

Request ==
  [at : {"begun", "allowed", "selected", "loop", "cloned", "answered", "panicked"}
          \union Writing,
   by : Tenants \union {Admin}, kind : Kinds,
   left : Seq(Stock), to : Tenants \union {Unowned, Keep}, clone : Tenants \union {Unowned},
   done : SUBSET Stock, missing : SUBSET Stock, failed : SUBSET Stock,
   picked : SUBSET Stock, mine : SUBSET Stock]

\* Which request is where.
Phase(r) ==
  /\ r.by = Admin <=> r.kind \in Bulk
  /\ r.at = "begun" => r.kind \notin Bulk
  /\ r.at = "allowed" => r.kind = "get"
  /\ r.at = "selected" => r.kind \in {"all", "status"}
  /\ r.at \in {"loop", "cloned"} \union Writing => r.kind \in Bulk \union {"patch"}
  /\ r.at \in {"cloned"} \union Writing => r.left # <<>>
  /\ r.kind \in Single => Len(r.left) <= 1 /\ (r.at \in {"begun", "allowed"} => r.left # <<>>)

\* What a client's request has shown, or goes on to show or to change.
Shown(r) ==
  r.kind \notin Bulk =>
    /\ r.done \subseteq r.mine
    /\ r.kind \in {"list", "all"} => r.picked \subseteq r.mine
    /\ r.at \in {"allowed", "loop", "cloned"} \union Writing /\ r.left # <<>> =>
         Head(r.left) \in r.mine

Sound(r) == r = Unserved \/ (r \in Request /\ Phase(r) /\ Shown(r))

-----------------------------------------------------------------------------
(* The invariant *)

Tables ==
  /\ DOMAIN objects \subseteq Stock /\ objects \in [DOMAIN objects -> Tenants \union {Unowned}]
  /\ DOMAIN owners \subseteq Stock /\ owners \in [DOMAIN owners -> Tenants]

Requests ==
  /\ req \in [Handlers -> Request \union {Unserved}]
  /\ \A h \in Handlers : Sound(req[h])

\* A write has ChannelService.mu from its first change to its last.
OneWriter ==
  /\ writer \in Handlers \union {Nobody}
  /\ \A h \in Handlers : req[h].at \in Writing <=> writer = h

\* But for the channel being written, the index has the owners of the objects.
IndexFollows ==
  /\ \A id \in DOMAIN owners :
       (\A h \in Handlers : req[h].at \in Writing => Head(req[h].left) # id) =>
         id \in DOMAIN objects /\ objects[id] = owners[id]
  /\ \A h \in Handlers : req[h].at = "unregistered" => Head(req[h].left) \notin DOMAIN owners

\* A request has seen every id that is its client's own.
Views ==
  \A h \in Handlers : req[h] # Unserved => Own(req[h].by) \subseteq req[h].mine

Inv == Tables /\ Requests /\ OneWriter /\ IndexFollows /\ Views

-----------------------------------------------------------------------------
(* What the steps have in common *)

(* The first id of a request that still has some.                          *)
LEMMA FirstLeft ==
  ASSUME NEW s \in Seq(Stock), s # <<>>
  PROVE  /\ Head(s) \in Stock /\ Tail(s) \in Seq(Stock)
         /\ Len(s) \in Nat /\ Len(s) > 0 /\ Len(Tail(s)) = Len(s) - 1
         /\ Len(s) <= 1 => Tail(s) = <<>>
<1>1. /\ Head(s) \in Stock /\ Tail(s) \in Seq(Stock) /\ Len(Tail(s)) = Len(s) - 1
  BY HeadTailProperties
<1>2. Len(s) \in Nat /\ Len(s) > 0
  BY EmptySeq, LenProperties
<1>3. Len(s) <= 1 => Len(Tail(s)) = 0
  BY <1>1, <1>2
<1> QED
  BY <1>1, <1>2, <1>3, EmptySeq

(* A request that has been taken is a record.                              *)
LEMMA Served ==
  ASSUME Requests, NEW h \in Handlers, req[h].at # "unserved"
  PROVE  req[h] \in Request /\ Phase(req[h]) /\ Shown(req[h])
<1>1. Unserved.at = "unserved"
  BY DEF Unserved
<1> QED
  BY <1>1 DEF Requests, Sound

(* What is Unserved is not a request.                                      *)
LEMMA UnservedIsNone == Unserved \notin Request /\ Unserved.at = "unserved"
<1>1. Unserved.at = "unserved"
  BY DEF Unserved
<1>2. \A r \in Request : r.at # "unserved"
  BY DEF Request, Writing
<1> QED
  BY <1>1, <1>2

(* A step that only moves one request on, outside of a write.              *)
LEMMA ReadsKeep ==
  ASSUME Inv, NEW h \in Handlers, NEW r \in Request, Reads(h, r), Phase(r), Shown(r),
         r.at \notin Writing, req[h].at \notin Writing, Own(r.by) \subseteq r.mine
  PROVE  Inv'
<1>1. /\ UNCHANGED <<objects, owners, writer>>
      /\ req' = [req EXCEPT ![h] = r]
  BY DEF Reads, Becomes
<1>2. \A g \in Handlers : req'[g] = IF g = h THEN r ELSE req[g]
  BY <1>1 DEF Inv, Requests
<1>3. Tables'
  BY <1>1 DEF Inv, Tables
<1>4. Requests'
  BY <1>1, <1>2 DEF Inv, Requests, Sound
<1>5. OneWriter'
  BY <1>1, <1>2 DEF Inv, OneWriter
<1>6. IndexFollows'
  BY <1>1, <1>2 DEF Inv, IndexFollows, Writing
<1>7. Views'
  BY <1>1, <1>2 DEF Inv, Views, Own
<1> QED
  BY <1>3, <1>4, <1>5, <1>6, <1>7 DEF Inv

(* An item is noted as done, missing or failed.                            *)
LEMMA Noting ==
  ASSUME NEW h \in Handlers, req[h] \in Request, Phase(req[h]), Shown(req[h]),
         req[h].left # <<>>, req[h].at \in {"loop", "cloned"} \union Writing,
         NEW field \in {"done", "missing", "failed"}
  PROVE  /\ Note(h, field) \in Request /\ Phase(Note(h, field)) /\ Shown(Note(h, field))
         /\ Note(h, field).at = "loop" /\ Note(h, field).left = Tail(req[h].left)
         /\ Note(h, field).by = req[h].by /\ Note(h, field).mine = req[h].mine
         /\ Note(h, field).kind = req[h].kind
         /\ \A f \in {"done", "missing", "failed"} :
              Note(h, field)[f] = IF f = field THEN req[h][f] \union {Head(req[h].left)}
                                               ELSE req[h][f]
<1> DEFINE q == req[h]
           r == Note(h, field)
<1>1. /\ q.left \in Seq(Stock) /\ Head(q.left) \in Stock /\ Tail(q.left) \in Seq(Stock)
      /\ Len(q.left) \in Nat /\ Len(Tail(q.left)) = Len(q.left) - 1
      /\ Len(q.left) <= 1 => Tail(q.left) = <<>>
  <2>1. q.left \in Seq(Stock)
    BY DEF Request
  <2> QED
    BY <2>1, FirstLeft
<1>2. r = [q EXCEPT !.left = Tail(q.left), ![field] = q[field] \union {Head(q.left)}, !.at = "loop"]
  BY DEF Note, Item
<1> HIDE DEF q, r
<1>3. /\ q \in Request /\ Phase(q) /\ Shown(q) /\ q.left # <<>>
      /\ q.at \in {"loop", "cloned"} \union Writing
  BY DEF q
<1>4. /\ r.at = "loop" /\ r.left = Tail(q.left) /\ r.by = q.by /\ r.mine = q.mine
      /\ r.kind = q.kind /\ r.picked = q.picked
      /\ \A f \in {"done", "missing", "failed"} :
           r[f] = IF f = field THEN q[f] \union {Head(q.left)} ELSE q[f]
  BY <1>2, <1>3 DEF Request
<1>5. r \in Request
  BY <1>1, <1>2, <1>3 DEF Request
<1>6. Phase(r)
  BY <1>1, <1>3, <1>4 DEF Phase, Writing, Bulk, Single
<1>7. Shown(r)
  BY <1>1, <1>3, <1>4 DEF Shown, Phase, Writing, Bulk, Single
<1> QED
  BY <1>4, <1>5, <1>6, <1>7 DEF q, r

-----------------------------------------------------------------------------
(* The ids of a query *)

(* Every place where a token comes first has its number, and every number  *)
(* up to how many there are has its place.                                 *)
LEMMA FirstsAreNumbered ==
  ASSUME NEW S, NEW tokens \in Seq(S)
  PROVE  /\ IsFiniteSet(Firsts(tokens)) /\ Cardinality(Firsts(tokens)) \in Nat
         /\ \A n \in 1 .. Cardinality(Firsts(tokens)) :
              \E k \in Firsts(tokens) : Cardinality(Firsts(tokens) \intersect 1 .. k) = n
<1> DEFINE F == Firsts(tokens)
           rank(k) == Cardinality(F \intersect 1 .. k)
           N == Cardinality(F)
           f == [k \in F |-> rank(k)]
<1>1. /\ Len(tokens) \in Nat /\ DOMAIN tokens = 1 .. Len(tokens)
      /\ F \subseteq 1 .. Len(tokens)
  BY LenProperties DEF Firsts
<1>2. IsFiniteSet(1 .. Len(tokens))
  BY <1>1, FS_Interval
<1>3. IsFiniteSet(F) /\ N \in Nat
  BY <1>1, <1>2, FS_Subset, FS_CardinalityType
<1> HIDE DEF F
<1>4. ASSUME NEW k \in F
      PROVE  rank(k) \in 1 .. N
  <2>1. F \intersect 1 .. k \subseteq F /\ k \in F \intersect 1 .. k
    BY <1>1
  <2>2. IsFiniteSet(F \intersect 1 .. k) /\ rank(k) \in Nat /\ rank(k) <= N
    BY <1>3, <2>1, FS_Subset, FS_CardinalityType
  <2>3. rank(k) # 0
    BY <2>1, <2>2, FS_EmptySet
  <2> QED
    BY <1>3, <2>2, <2>3
<1>5. ASSUME NEW k \in F, NEW l \in F, k < l
      PROVE  rank(k) < rank(l)
  <2>1. /\ F \intersect 1 .. k \subseteq F \intersect 1 .. l
        /\ l \in F \intersect 1 .. l /\ l \notin F \intersect 1 .. k
    BY <1>1, <1>5
  <2>2. IsFiniteSet(F \intersect 1 .. l) /\ F \intersect 1 .. k # F \intersect 1 .. l
    BY <1>3, <2>1, FS_Subset
  <2>3. rank(k) <= rank(l) /\ rank(k) # rank(l)
    BY <2>1, <2>2, FS_Subset
  <2> QED
    BY <1>4, <2>3
<1> HIDE DEF rank
<1>6. f \in Injection(F, 1 .. N)
  <2>1. f \in [F -> 1 .. N]
    BY <1>4
  <2>2. ASSUME NEW k \in F, NEW l \in F, f[k] = f[l]
        PROVE  k = l
    <3>1. k \in Int /\ l \in Int /\ rank(k) = rank(l) /\ rank(k) \in Int
      BY <1>1, <1>4, <2>2
    <3> QED
      BY <1>5, <3>1
  <2> QED
    BY <2>1, <2>2 DEF Injection, IsInjective
<1>7. \A n \in 1 .. N : \E k \in F : f[k] = n
  <2> DEFINE R == {f[k] : k \in F}
  <2>1. R \subseteq 1 .. N
    BY <1>6 DEF Injection
  <2>2. f \in Bijection(F, R)
    BY <1>6 DEF Injection, IsInjective, Surjection, Bijection
  <2>3. ExistsBijection(F, R)
    BY <2>2 DEF ExistsBijection
  <2>4. IsFiniteSet(R) /\ Cardinality(R) = N
    BY <1>3, <2>3, FS_Bijection
  <2>5. IsFiniteSet(1 .. N) /\ Cardinality(1 .. N) = N
    BY <1>3, FS_Interval
  <2>6. R = 1 .. N
    BY <2>1, <2>4, <2>5, FS_Subset
  <2> QED
    BY <2>6
<1> QED
  BY <1>3, <1>7 DEF F, rank

(* The ids asked for: channel ids, and none twice where each has only one  *)
(* spelling.                                                               *)
LEMMA Collected ==
  ASSUME NEW q \in Seq(Tokens)
  PROVE  LET ids == CollectRequestedIDs(q) IN
         /\ ids \in Seq(Stock)
         /\ (\A x, y \in Spellings : x = y) =>
              \A m, n \in DOMAIN ids : ids[m] = ids[n] => m = n
<1> DEFINE F == Firsts(q)
           N == Cardinality(F)
           Nth(n) == CHOOSE k \in F : Cardinality(F \intersect 1 .. k) = n
           ids == [n \in 1 .. N |-> q[Nth(n)][1]]
<1>1. Len(q) \in Nat /\ DOMAIN q = 1 .. Len(q) /\ \A k \in 1 .. Len(q) : q[k] \in Tokens
  BY LenProperties
<1>2. F \subseteq DOMAIN q
  BY DEF Firsts
<1>3. N \in Nat /\ \A n \in 1 .. N : Nth(n) \in F /\ Cardinality(F \intersect 1 .. Nth(n)) = n
  BY FirstsAreNumbered
<1>4. \A k, l \in F : q[k] = q[l] => k = l
  BY <1>1 DEF Firsts
<1>5. \A t \in Tokens : t[1] \in Stock /\ t[2] \in Spellings /\ t = <<t[1], t[2]>>
  BY DEF Tokens
<1>6. CollectRequestedIDs(q) = ids
  BY DEF CollectRequestedIDs
<1> HIDE DEF F, N, Nth
<1>7. ids \in Seq(Stock)
  <2>1. ids \in [1 .. N -> Stock]
    BY <1>1, <1>2, <1>3, <1>5
  <2> QED
    BY <1>3, <2>1, SeqDef
<1>8. ASSUME \A x, y \in Spellings : x = y, NEW m \in 1 .. N, NEW n \in 1 .. N, ids[m] = ids[n]
      PROVE  m = n
  <2>1. q[Nth(m)] \in Tokens /\ q[Nth(n)] \in Tokens /\ q[Nth(m)][1] = q[Nth(n)][1]
    BY <1>1, <1>2, <1>3, <1>8
  <2>2. q[Nth(m)] = q[Nth(n)]
    BY <1>5, <1>8, <2>1
  <2>3. Nth(m) = Nth(n)
    BY <1>3, <1>4, <2>2
  <2> QED
    BY <1>3, <2>3
<1> QED
  BY <1>6, <1>7, <1>8

(* The tokens of a query.                                                  *)
LEMMA QueriesAreSequences == Queries \subseteq Seq(Tokens)
<1> SUFFICES ASSUME NEW q \in SeqOps!SeqOf(Tokens, MaxAsked)
             PROVE  q \in Seq(Tokens)
  BY DEF Queries
<1>1. PICK m \in 0 .. MaxAsked : q \in [1 .. m -> Tokens]
  BY DEF SeqOps!SeqOf
<1>2. m \in Nat
  OBVIOUS
<1> QED
  BY <1>1, <1>2, SeqDef

-----------------------------------------------------------------------------
(* Requests come in, and reads *)

\* The requests there are.
AskedAs(by, kind, asked) ==
  /\ \/ by = Admin /\ kind \in Bulk
     \/ by \in Tenants /\ kind \notin Bulk
  /\ kind \in Kinds /\ asked \in Seq(Stock)
  /\ kind \in Single => Len(asked) = 1

(* A request that begins asks for what exists in the tables and has done   *)
(* nothing yet.                                                            *)
LEMMA ServeKeeps ==
  ASSUME Names, Inv, NEW h \in Handlers, NEW by, NEW kind, NEW asked,
         NEW to \in Tenants \union {Unowned, Keep},
         AskedAs(by, kind, asked), Serve(h, by, kind, asked, to)
  PROVE  Inv'
<1> DEFINE r == [by |-> by, kind |-> kind,
                 at |-> IF kind \in {"deleteMany", "modifyMany"} THEN "loop" ELSE "begun",
                 left |-> asked, to |-> to, clone |-> Unowned,
                 done |-> {}, missing |-> {}, failed |-> {}, picked |-> {},
                 mine |-> Own(by)]
<1>1. req[h] = Unserved /\ Reads(h, r)
  BY DEF Serve
<1>2. Own(by) \subseteq Stock
  BY DEF Own, Inv, Tables
<1>3. r \in Request
  BY <1>2 DEF AskedAs, Request, Kinds, Bulk, Single, Writing
<1>4. /\ r.by = by /\ r.kind = kind /\ r.left = asked /\ r.done = {} /\ r.picked = {}
      /\ r.at = IF kind \in Bulk THEN "loop" ELSE "begun"
      /\ r.mine = Own(by)
  BY DEF Bulk
<1> HIDE DEF r
<1>5. /\ r.by = Admin <=> r.kind \in Bulk
      /\ kind \in Single => asked # <<>> /\ Len(asked) <= 1
  <2>1. ASSUME kind \in Single
        PROVE  asked # <<>> /\ Len(asked) <= 1
    <3>1. Len(asked) = 1
      BY <2>1 DEF AskedAs
    <3> QED
      BY <3>1
  <2> QED
    BY <1>4, <2>1 DEF AskedAs, Names
<1>6. Phase(r) /\ Shown(r)
  BY <1>4, <1>5 DEF Phase, Shown, Bulk, Single, Writing
<1>7. r.at \notin Writing /\ req[h].at \notin Writing /\ Own(r.by) \subseteq r.mine
  BY <1>1, <1>4, UnservedIsNone DEF Writing
<1> QED
  BY <1>1, <1>3, <1>6, <1>7, ReadsKeep

(* What a request has to keep when it moves on.                            *)
LEMMA Onward ==
  ASSUME Inv, NEW h \in Handlers, req[h].at \notin {"unserved"} \union Writing,
         NEW r \in Request, Reads(h, r), Phase(r), Shown(r), r.at \notin Writing,
         r.by = req[h].by, r.mine = req[h].mine
  PROVE  Inv'
<1>1. req[h] # Unserved
  BY UnservedIsNone
<1>2. Own(r.by) \subseteq r.mine
  BY <1>1 DEF Inv, Views
<1> QED
  BY <1>2, ReadsKeep

(* The access check is what makes a single id the client's own.            *)
LEMMA CheckAccessKeeps ==
  ASSUME Inv, NEW h \in Handlers, CheckAccess(h)
  PROVE  Inv'
<1> DEFINE q == req[h]
           r == [q EXCEPT !.at = IF Item(h) \notin Own(q.by) THEN "answered"
                                 ELSE IF q.kind = "patch" THEN "loop" ELSE "allowed"]
<1>1. q.at = "begun" /\ q.kind \in Single /\ Reads(h, r)
  BY DEF CheckAccess, Is, Single
<1>2. q \in Request /\ Phase(q) /\ Shown(q) /\ Own(q.by) \subseteq q.mine
  BY <1>1, Served, UnservedIsNone DEF Inv, Views
<1>3. r.at \notin Writing /\ (r.at # "answered" => Head(q.left) \in q.mine)
  BY <1>2 DEF Item, Request, Writing
<1>4. /\ r \in Request
      /\ r.at = "answered" \/ (r.at = "loop" /\ q.kind = "patch")
                           \/ (r.at = "allowed" /\ q.kind = "get")
      /\ \A f \in {"by", "kind", "left", "done", "picked", "mine"} : r[f] = q[f]
  BY <1>1, <1>2 DEF Request, Single
<1> HIDE DEF q, r
<1>5. Phase(r) /\ Shown(r)
  BY <1>1, <1>2, <1>3, <1>4 DEF Phase, Shown, Bulk, Single, Writing
<1> QED
  BY <1>1, <1>3, <1>4, <1>5, Onward DEF q, Writing

(* A single channel is shown when the check has let the id through.        *)
LEMMA GetChannelKeeps ==
  ASSUME Inv, NEW h \in Handlers, GetChannel(h)
  PROVE  Inv'
<1> DEFINE q == req[h]
           r == [q EXCEPT !.at = "answered", !.done = {Item(h)} \intersect DOMAIN objects]
<1>1. q.at = "allowed" /\ q.kind = "get" /\ Reads(h, r)
  BY DEF GetChannel, Is
<1>2. q \in Request /\ Phase(q) /\ Shown(q)
  BY <1>1, Served DEF Inv
<1>3. DOMAIN objects \subseteq Stock
  BY DEF Inv, Tables
<1>4. /\ r \in Request /\ r.at = "answered" /\ r.done \subseteq {Head(q.left)}
      /\ \A f \in {"by", "kind", "left", "picked", "mine"} : r[f] = q[f]
  BY <1>2, <1>3 DEF Request, Item
<1> HIDE DEF q, r
<1>5. Phase(r) /\ Shown(r)
  BY <1>1, <1>2, <1>4 DEF Phase, Shown, Bulk, Single, Writing
<1> QED
  BY <1>1, <1>4, <1>5, Onward DEF q, Writing

(* A list keeps of what was asked for, or of everything, what is the       *)
(* client's own at that moment.                                            *)
LEMMA SelectKeeps ==
  ASSUME Inv, NEW h \in Handlers, Select(h) \/ SelectOwn(h)
  PROVE  Inv'
<1> DEFINE q == req[h]
<1>1. q.at = "begun" /\ q.kind \in {"list", "all"}
  BY DEF Select, SelectOwn, Is
<1>2. q \in Request /\ Phase(q) /\ Shown(q) /\ Own(q.by) \subseteq q.mine
  BY <1>1, Served, UnservedIsNone DEF Inv, Views
<1>3. Own(q.by) \subseteq Stock
  BY DEF Own, Inv, Tables
<1>4. CASE Select(h)
  <2> DEFINE r == [q EXCEPT !.left = Tail(@),
                            !.picked = @ \union ({Item(h)} \intersect Own(q.by))]
  <2>1. q.kind = "list" /\ q.left # <<>> /\ Reads(h, r)
    BY <1>4 DEF Select, Is
  <2>2. Tail(q.left) \in Seq(Stock)
    BY <1>2, <2>1, FirstLeft DEF Request
  <2>3. /\ r \in Request /\ r.at = "begun" /\ r.picked \subseteq q.picked \union Own(q.by)
        /\ \A f \in {"by", "kind", "done", "mine"} : r[f] = q[f]
    BY <1>1, <1>2, <1>3, <2>2 DEF Request
  <2> HIDE DEF q, r
  <2>4. Phase(r) /\ Shown(r)
    BY <1>1, <1>2, <2>1, <2>3 DEF Phase, Shown, Bulk, Single, Writing
  <2> QED
    BY <1>1, <2>1, <2>3, <2>4, Onward DEF q, Writing
<1>5. CASE SelectOwn(h)
  <2> DEFINE r == [q EXCEPT !.at = "selected", !.picked = Own(q.by)]
  <2>1. q.kind = "all" /\ Reads(h, r)
    BY <1>5 DEF SelectOwn, Is
  <2>2. /\ r \in Request /\ r.at = "selected" /\ r.picked = Own(q.by)
        /\ \A f \in {"by", "kind", "left", "done", "mine"} : r[f] = q[f]
    BY <1>2, <1>3 DEF Request
  <2> HIDE DEF q, r
  <2>3. Phase(r) /\ Shown(r)
    BY <1>2, <2>1, <2>2 DEF Phase, Shown, Bulk, Single, Writing
  <2> QED
    BY <1>1, <2>1, <2>2, <2>3, Onward DEF q, Writing
<1> QED
  BY <1>4, <1>5

(* The fetch may panic, but shows nothing that was not kept.               *)
LEMMA FetchManyKeeps ==
  ASSUME Inv, NEW h \in Handlers, FetchMany(h)
  PROVE  Inv'
<1> DEFINE q == req[h]
           r == [q EXCEPT !.at = IF q.picked \subseteq DOMAIN objects THEN "answered"
                                                                      ELSE "panicked",
                          !.done = q.picked \intersect DOMAIN objects]
<1>1. /\ q.kind \in {"list", "all"} /\ Reads(h, r)
      /\ q.at \in {"begun", "selected"}
  BY DEF FetchMany, Is
<1>2. q \in Request /\ Phase(q) /\ Shown(q)
  BY <1>1, Served DEF Inv
<1>3. /\ r \in Request /\ r.at \in {"answered", "panicked"} /\ r.done \subseteq q.picked
      /\ \A f \in {"by", "kind", "left", "picked", "mine"} : r[f] = q[f]
  BY <1>2 DEF Request
<1> HIDE DEF q, r
<1>4. Phase(r) /\ Shown(r)
  BY <1>1, <1>2, <1>3 DEF Phase, Shown, Bulk, Single, Writing
<1> QED
  BY <1>1, <1>3, <1>4, Onward DEF q, Writing

(* The summary has everybody's channels; what is shown of it is looked up  *)
(* afterwards.                                                             *)
LEMMA StatusKeeps ==
  ASSUME Inv, NEW h \in Handlers, GetSummary(h) \/ Status(h)
  PROVE  Inv'
<1> DEFINE q == req[h]
<1>1. q.at \in {"begun", "selected"} /\ q.kind = "status"
  BY DEF GetSummary, Status, Is
<1>2. q \in Request /\ Phase(q) /\ Shown(q) /\ Own(q.by) \subseteq q.mine
  BY <1>1, Served, UnservedIsNone DEF Inv, Views
<1>3. CASE GetSummary(h)
  <2>1. PICK summary \in SUBSET Stock :
          Reads(h, [q EXCEPT !.at = "selected", !.picked = summary])
    BY <1>3 DEF GetSummary
  <2> DEFINE r == [q EXCEPT !.at = "selected", !.picked = summary]
  <2>2. /\ r \in Request /\ r.at = "selected"
        /\ \A f \in {"by", "kind", "left", "done", "mine"} : r[f] = q[f]
    BY <1>2 DEF Request
  <2> HIDE DEF q, r
  <2>3. Phase(r) /\ Shown(r)
    BY <1>1, <1>2, <2>2 DEF Phase, Shown, Bulk, Single, Writing
  <2>4. Reads(h, r)
    BY <2>1 DEF q, r
  <2> QED
    BY <1>1, <2>2, <2>3, <2>4, Onward DEF q, Writing
<1>4. CASE Status(h)
  <2> DEFINE r == [q EXCEPT !.at = "answered", !.done = q.picked \intersect Own(q.by)]
  <2>1. Reads(h, r)
    BY <1>4 DEF Status
  <2>2. /\ r \in Request /\ r.at = "answered" /\ r.done \subseteq Own(q.by)
        /\ \A f \in {"by", "kind", "left", "mine"} : r[f] = q[f]
    BY <1>2 DEF Request
  <2> HIDE DEF q, r
  <2>3. Phase(r) /\ Shown(r)
    BY <1>1, <1>2, <2>2 DEF Phase, Shown, Bulk, Single, Writing
  <2> QED
    BY <1>1, <2>1, <2>2, <2>3, Onward DEF q, Writing
<1> QED
  BY <1>3, <1>4

-----------------------------------------------------------------------------
(* Writes *)

(* An item that is not there is noted, one that is there is cloned.        *)
LEMMA LoadCloneKeeps ==
  ASSUME Inv, NEW h \in Handlers, LoadClone(h)
  PROVE  Inv'
<1> DEFINE q == req[h]
<1>1. q.at = "loop" /\ q.left # <<>> /\ q.kind \in {"modifyMany", "patch"}
  BY DEF LoadClone, Turn, Is
<1>2. q \in Request /\ Phase(q) /\ Shown(q)
  BY <1>1, Served DEF Inv
<1>3. CASE Item(h) \in DOMAIN objects
  <2> DEFINE r == [q EXCEPT !.at = "cloned", !.clone = objects[Item(h)]]
  <2>1. Reads(h, r)
    BY <1>3 DEF LoadClone
  <2>2. objects[Item(h)] \in Tenants \union {Unowned}
    BY <1>3 DEF Inv, Tables
  <2>3. /\ r \in Request /\ r.at = "cloned"
        /\ \A f \in {"by", "kind", "left", "done", "picked", "mine"} : r[f] = q[f]
    BY <1>2, <2>2 DEF Request
  <2> HIDE DEF q, r
  <2>4. Phase(r) /\ Shown(r)
    BY <1>1, <1>2, <2>3 DEF Phase, Shown, Bulk, Single, Writing
  <2> QED
    BY <1>1, <2>1, <2>3, <2>4, Onward DEF q, Writing
<1>4. CASE Item(h) \notin DOMAIN objects
  <2>1. Reads(h, Note(h, "missing"))
    BY <1>4 DEF LoadClone
  <2> QED
    BY <1>1, <1>2, <2>1, Noting, Onward DEF Writing
<1> QED
  BY <1>3, <1>4

(* Where a write is called, there is an item, and no other write.          *)
LEMMA CallsFrom ==
  ASSUME Inv, NEW h \in Handlers, Calls(h)
  PROVE  /\ req[h] \in Request /\ Phase(req[h]) /\ Shown(req[h]) /\ req[h].left # <<>>
         /\ req[h].at \in {"loop", "cloned"} /\ writer = Nobody
<1>1. req[h].at \in {"loop", "cloned"} /\ writer = Nobody
  BY DEF Calls, Turn, Is
<1>2. req[h] \in Request /\ Phase(req[h]) /\ Shown(req[h])
  BY <1>1, Served DEF Inv
<1>3. req[h].left # <<>>
  BY <1>2 DEF Calls, Turn, Phase
<1> QED
  BY <1>1, <1>2, <1>3

(* A failed item is noted, and the loop goes on.                           *)
LEMMA WriteFailsKeeps ==
  ASSUME Inv, NEW h \in Handlers, WriteFails(h)
  PROVE  Inv'
<1>1. Calls(h)
  BY DEF WriteFails
<1>2. PICK field \in {"missing", "failed"} : Reads(h, Note(h, field))
  BY DEF WriteFails
<1> QED
  BY <1>1, <1>2, CallsFrom, Noting, Onward DEF Writing

(* An answer changes where the request is and nothing else.                *)
LEMMA AnswerWriteKeeps ==
  ASSUME Inv, NEW h \in Handlers, AnswerWrite(h)
  PROVE  Inv'
<1> DEFINE q == req[h]
           r == [q EXCEPT !.at = "answered"]
<1>1. q.at = "loop" /\ Reads(h, r)
  BY DEF AnswerWrite
<1>2. q \in Request /\ Phase(q) /\ Shown(q)
  BY <1>1, Served DEF Inv
<1>3. /\ r \in Request /\ r.at = "answered"
      /\ \A f \in {"by", "kind", "left", "done", "picked", "mine"} : r[f] = q[f]
  BY <1>2 DEF Request
<1> HIDE DEF q, r
<1>4. Phase(r) /\ Shown(r)
  BY <1>1, <1>2, <1>3 DEF Phase, Shown, Bulk, Single, Writing
<1> QED
  BY <1>1, <1>3, <1>4, Onward DEF q, Writing

(* The first change of a write: the object.  From here on the index of     *)
(* owners may differ for this channel.                                     *)
LEMMA WriteObjectKeeps ==
  ASSUME Names, Inv, NEW h \in Handlers, WriteObject(h)
  PROVE  Inv'
<1> DEFINE q == req[h]
           id == Head(q.left)
           r == [q EXCEPT !.at = "stored"]
<1>1. q \in Request /\ Phase(q) /\ Shown(q) /\ q.left # <<>> /\ q.at \in {"loop", "cloned"}
      /\ writer = Nobody
  BY CallsFrom DEF WriteObject
<1>2. /\ id \in DOMAIN objects /\ writer' = h /\ UNCHANGED owners
      /\ req' = [req EXCEPT ![h] = r]
  BY DEF WriteObject, Item, Becomes
<1>3. /\ \A g \in Handlers : req[g].at \notin Writing
      /\ h # Nobody
  BY <1>1 DEF Inv, OneWriter, Names
<1>4. /\ r \in Request /\ r.at = "stored"
      /\ \A f \in {"by", "kind", "left", "done", "picked", "mine"} : r[f] = q[f]
  BY <1>1 DEF Request, Writing
<1>5. q.to \in Tenants \union {Unowned, Keep} /\ q.clone \in Tenants \union {Unowned}
  BY <1>1 DEF Request
<1>6. /\ DOMAIN objects' \subseteq DOMAIN objects
      /\ objects' \in [DOMAIN objects' -> Tenants \union {Unowned}]
      /\ \A x \in DOMAIN objects : x # id => x \in DOMAIN objects' /\ objects'[x] = objects[x]
  <2> DEFINE owner == IF q.to = Keep THEN q.clone ELSE q.to
  <2>1. owner \in Tenants \union {Unowned}
    BY <1>5
  <2>2. objects' = IF q.kind = "deleteMany" THEN [x \in DOMAIN objects \ {id} |-> objects[x]]
                   ELSE [objects EXCEPT ![id] = owner]
    BY DEF WriteObject, Item
  <2>3. objects \in [DOMAIN objects -> Tenants \union {Unowned}]
    BY DEF Inv, Tables
  <2> HIDE DEF owner, q, id
  <2> QED
    BY <2>1, <2>2, <2>3
<1> HIDE DEF q, id, r
<1>7. Phase(r) /\ Shown(r)
  BY <1>1, <1>4 DEF Phase, Shown, Bulk, Single, Writing
<1>8. \A g \in Handlers : req'[g] = IF g = h THEN r ELSE req[g]
  BY <1>2 DEF Inv, Requests
<1>9. Tables'
  BY <1>2, <1>6 DEF Inv, Tables
<1>10. Requests'
  BY <1>2, <1>4, <1>7, <1>8 DEF Inv, Requests, Sound
<1>11. OneWriter'
  BY <1>2, <1>3, <1>4, <1>8 DEF Inv, OneWriter, Writing
<1>12. IndexFollows'
  <2>1. ASSUME NEW x \in DOMAIN owners, \A g \in Handlers : req'[g].at \in Writing => Head(req'[g].left) # x
        PROVE  x \in DOMAIN objects' /\ objects'[x] = owners[x]
    <3>1. x # id
      BY <1>4, <1>8, <2>1 DEF Writing, id, q
    <3>2. x \in DOMAIN objects /\ objects[x] = owners[x]
      BY <1>3 DEF Inv, IndexFollows
    <3> QED
      BY <1>6, <3>1, <3>2
  <2>2. \A g \in Handlers : req'[g].at # "unregistered"
    BY <1>3, <1>4, <1>8 DEF Writing
  <2> QED
    BY <1>2, <2>1, <2>2 DEF IndexFollows
<1>13. Views'
  <2>1. q # Unserved /\ Own(r.by) = Own(q.by) /\ r.mine = q.mine
    BY <1>1, <1>4, UnservedIsNone
  <2> QED
    BY <1>2, <1>8, <2>1 DEF Inv, Views, Own, q
<1> QED
  BY <1>9, <1>10, <1>11, <1>12, <1>13 DEF Inv

(* The second change: the channel leaves the index.                        *)
LEMMA UnregisterKeeps ==
  ASSUME Inv, NEW h \in Handlers, Unregister(h)
  PROVE  Inv'
<1> DEFINE q == req[h]
           id == Head(q.left)
           r == [q EXCEPT !.at = "unregistered"]
<1>1. q.at = "stored"
  BY DEF Unregister
<1>2. q \in Request /\ Phase(q) /\ Shown(q)
  BY <1>1, Served DEF Inv
<1>3. /\ owners' = [x \in DOMAIN owners \ {id} |-> owners[x]]
      /\ req' = [req EXCEPT ![h] = r] /\ UNCHANGED <<objects, writer>>
  BY DEF Unregister, Item, Becomes
<1>4. writer = h /\ \A g \in Handlers : req[g].at \in Writing => g = h
  BY <1>1 DEF Inv, OneWriter, Writing
<1>5. /\ r \in Request /\ r.at = "unregistered"
      /\ \A f \in {"by", "kind", "left", "done", "picked", "mine"} : r[f] = q[f]
  BY <1>2 DEF Request, Writing
<1> HIDE DEF q, id, r
<1>6. Phase(r) /\ Shown(r)
  BY <1>1, <1>2, <1>5 DEF Phase, Shown, Bulk, Single, Writing
<1>7. \A g \in Handlers : req'[g] = IF g = h THEN r ELSE req[g]
  BY <1>3 DEF Inv, Requests
<1>8. Tables'
  BY <1>3 DEF Inv, Tables
<1>9. Requests'
  BY <1>3, <1>5, <1>6, <1>7 DEF Inv, Requests, Sound
<1>10. OneWriter'
  BY <1>3, <1>4, <1>5, <1>7 DEF Inv, OneWriter, Writing
<1>11. IndexFollows'
  <2>1. ASSUME NEW x \in DOMAIN owners'
        PROVE  x \in DOMAIN objects /\ objects[x] = owners'[x]
    <3>1. x # id /\ x \in DOMAIN owners /\ owners'[x] = owners[x]
      BY <1>3
    <3>2. \A g \in Handlers : req[g].at \in Writing => Head(req[g].left) # x
      BY <1>4, <3>1 DEF id, q
    <3> QED
      BY <3>1, <3>2 DEF Inv, IndexFollows
  <2>2. ASSUME NEW g \in Handlers, req'[g].at = "unregistered"
        PROVE  Head(req'[g].left) \notin DOMAIN owners'
    <3>1. g = h
      BY <1>4, <1>7, <2>2 DEF Writing
    <3> QED
      BY <1>3, <1>5, <1>7, <3>1 DEF id
  <2> QED
    BY <1>3, <2>1, <2>2 DEF IndexFollows
<1>12. Views'
  <2>1. q # Unserved /\ r.by = q.by /\ r.mine = q.mine
    BY <1>2, <1>5, UnservedIsNone
  <2>2. \A t : {x \in DOMAIN owners' : owners'[x] = t} \subseteq Own(t)
    BY <1>3 DEF Own
  <2> QED
    BY <1>7, <2>1, <2>2 DEF Inv, Views, Own, q
<1> QED
  BY <1>8, <1>9, <1>10, <1>11, <1>12 DEF Inv

(* The third: the channel is indexed for its new owner, and every request  *)
(* of that owner has seen it.                                              *)
LEMMA RegisterKeeps ==
  ASSUME Names, Inv, NEW h \in Handlers, Register(h)
  PROVE  Inv'
<1> DEFINE id == Item(h)
           owned == DOMAIN owners \union ({id} \intersect DOMAIN objects)
           moved(g) == IF g = h THEN Note(h, "done") ELSE req[g]
           sees(r) == r.at # "unserved" /\ id \in owned /\ objects[id] = r.by
           seen(r) == IF sees(r) THEN [r EXCEPT !.mine = @ \union {id}] ELSE r
<1>1. /\ req[h].at = "unregistered"
      /\ owners' = Assigned(objects, owned)
      /\ writer' = Nobody
      /\ \A g \in Handlers : req'[g] = seen(moved(g))
      /\ DOMAIN req' = Handlers /\ req' = [g \in Handlers |-> seen(moved(g))]
      /\ UNCHANGED objects
  BY DEF Register
<1>2. req[h] \in Request /\ Phase(req[h]) /\ Shown(req[h])
  BY <1>1, Served DEF Inv
<1>3. req[h].left # <<>> /\ id \in Stock
  <2>1. req[h].left # <<>> /\ req[h].left \in Seq(Stock)
    BY <1>1, <1>2 DEF Phase, Writing, Request
  <2> QED
    BY <2>1, FirstLeft DEF Item
<1>4. writer = h /\ \A g \in Handlers : req[g].at \in Writing => g = h
  BY <1>1 DEF Inv, OneWriter, Writing
<1>5. /\ id \notin DOMAIN owners
      /\ \A x \in DOMAIN owners : x # id /\ x \in DOMAIN objects /\ objects[x] = owners[x]
  <2>1. id \notin DOMAIN owners
    BY <1>1 DEF Inv, IndexFollows, Item
  <2>2. ASSUME NEW x \in DOMAIN owners
        PROVE  x # id /\ x \in DOMAIN objects /\ objects[x] = owners[x]
    BY <1>4, <2>1 DEF Inv, IndexFollows, Item
  <2> QED
    BY <2>1, <2>2
<1>6. owned \subseteq DOMAIN objects /\ owned \subseteq Stock
  BY <1>3, <1>5 DEF Inv, Tables
<1>7. /\ owners' = [x \in {y \in owned : objects[y] # Unowned} |-> objects[x]]
      /\ \A x \in DOMAIN owners' : x \in owned /\ objects[x] \in Tenants /\ owners'[x] = objects[x]
      /\ DOMAIN owners' \subseteq owned
  <2>1. owners' = [x \in {y \in owned : objects[y] # Unowned} |-> objects[x]]
    BY <1>1 DEF Assigned
  <2>2. \A x \in owned : objects[x] \in Tenants \union {Unowned}
    BY <1>6 DEF Inv, Tables
  <2> HIDE DEF owned
  <2> QED
    BY <2>1, <2>2
<1>8. /\ moved(h) \in Request /\ Phase(moved(h)) /\ Shown(moved(h)) /\ moved(h).at = "loop"
      /\ moved(h).by = req[h].by /\ moved(h).mine = req[h].mine
  BY <1>1, <1>2, <1>3, Noting DEF Writing
<1>9. \A g \in Handlers :
        /\ moved(g) # Unserved => /\ moved(g) \in Request /\ Phase(moved(g)) /\ Shown(moved(g))
                                  /\ req[g] # Unserved /\ moved(g).at \notin Writing
                                  /\ moved(g).by = req[g].by /\ moved(g).mine = req[g].mine
        /\ moved(g).at # "unserved" <=> moved(g) # Unserved
  <2>1. moved(h) # Unserved /\ req[h] # Unserved /\ moved(h).at \notin Writing
    BY <1>2, <1>8, UnservedIsNone DEF Writing
  <2> HIDE DEF moved
  <2>2. \A g \in Handlers : g # h => moved(g) = req[g]
    BY DEF moved
  <2>3. \A g \in Handlers : req[g] # Unserved => /\ req[g] \in Request /\ Phase(req[g])
                                                 /\ Shown(req[g])
    BY DEF Inv, Requests, Sound
  <2>4. \A r \in Request : r.at # "unserved"
    BY DEF Request, Writing
  <2> QED
    BY <1>4, <1>8, <2>1, <2>2, <2>3, <2>4, UnservedIsNone
<1> HIDE DEF id, owned, moved
<1>10. \A r \in Request :
         /\ seen(r) \in Request
         /\ seen(r).mine = IF sees(r) THEN r.mine \union {id} ELSE r.mine
         /\ \A f \in {"at", "by", "kind", "left", "done", "picked"} : seen(r)[f] = r[f]
  BY <1>3 DEF Request
<1>11. \A g \in Handlers :
         IF moved(g) = Unserved THEN req'[g] = Unserved
         ELSE /\ req'[g] \in Request
              /\ req'[g].mine = IF sees(moved(g)) THEN moved(g).mine \union {id} ELSE moved(g).mine
              /\ \A f \in {"at", "by", "kind", "left", "done", "picked"} : req'[g][f] = moved(g)[f]
  BY <1>1, <1>9, <1>10
<1> HIDE DEF seen, sees
<1>12. \A g \in Handlers : moved(g) # Unserved => Phase(req'[g]) /\ Shown(req'[g])
  <2> SUFFICES ASSUME NEW g \in Handlers, moved(g) # Unserved
               PROVE  Phase(req'[g]) /\ Shown(req'[g])
    OBVIOUS
  <2> DEFINE m == moved(g)
             n == req'[g]
  <2>1. /\ Phase(m) /\ Shown(m) /\ m.mine \subseteq n.mine
        /\ n.at = m.at /\ n.by = m.by /\ n.kind = m.kind /\ n.left = m.left
        /\ n.done = m.done /\ n.picked = m.picked
    BY <1>9, <1>11
  <2> HIDE DEF m, n
  <2>2. Phase(n)
    BY <2>1 DEF Phase
  <2>3. Shown(n)
    BY <2>1 DEF Shown
  <2> QED
    BY <2>2, <2>3 DEF n
<1>13. Tables'
  BY <1>1, <1>6, <1>7 DEF Inv, Tables
<1>14. Requests'
  <2>1. \A g \in Handlers : req'[g] \in Request \union {Unserved} /\ Sound(req'[g])
    BY <1>11, <1>12 DEF Sound
  <2> QED
    BY <1>1, <2>1 DEF Requests, Sound
<1>15. \A g \in Handlers : req'[g].at \notin Writing
  BY <1>9, <1>11, UnservedIsNone DEF Writing
<1>16. OneWriter'
  BY <1>1, <1>15 DEF OneWriter, Names, Writing
<1>17. IndexFollows'
  BY <1>1, <1>6, <1>7, <1>15 DEF IndexFollows, Writing
<1>18. Views'
  <2> SUFFICES ASSUME NEW g \in Handlers, req'[g] # Unserved,
                      NEW x \in DOMAIN owners', owners'[x] = req'[g].by
               PROVE  x \in req'[g].mine
    BY DEF Views, Own
  <2>1. moved(g) # Unserved /\ req[g] # Unserved /\ req'[g].by = moved(g).by
        /\ moved(g).mine = req[g].mine /\ moved(g).by = req[g].by
    BY <1>9, <1>11
  <2>2. x \in owned /\ objects[x] = moved(g).by
    BY <1>7, <2>1
  <2>3. CASE x = id
    <3>1. sees(moved(g))
      BY <1>9, <2>1, <2>2, <2>3 DEF sees
    <3> QED
      BY <1>11, <2>1, <2>3, <3>1
  <2>4. CASE x # id
    <3>1. x \in DOMAIN owners /\ owners[x] = req[g].by
      BY <1>5, <2>1, <2>2, <2>4 DEF owned
    <3>2. x \in req[g].mine
      BY <2>1, <3>1 DEF Inv, Views, Own
    <3> QED
      BY <1>11, <2>1, <3>2
  <2> QED
    BY <2>3, <2>4
<1> QED
  BY <1>13, <1>14, <1>16, <1>17, <1>18 DEF Inv

-----------------------------------------------------------------------------
(* The invariant holds *)

(* Nobody asks for anything at the start.                                  *)
LEMMA InvInit == Names /\ HandlersInit => Inv
<1> SUFFICES ASSUME Names, HandlersInit PROVE Inv
  OBVIOUS
<1>1. /\ objects \in [DOMAIN objects -> Tenants \union {Unowned}] /\ DOMAIN objects \subseteq Stock
      /\ owners = [x \in {y \in DOMAIN objects : objects[y] # Unowned} |-> objects[x]]
      /\ writer = Nobody /\ req = [h \in Handlers |-> Unserved]
  BY DEF HandlersInit, Assigned
<1>2. /\ \A x \in DOMAIN owners : /\ x \in DOMAIN objects /\ owners[x] = objects[x]
                                  /\ objects[x] \in Tenants
      /\ DOMAIN owners \subseteq Stock /\ owners \in [DOMAIN owners -> Tenants]
  BY <1>1
<1>3. \A h \in Handlers : req[h] = Unserved /\ req[h].at \notin Writing
  BY <1>1, UnservedIsNone DEF Writing
<1>4. Tables
  BY <1>1, <1>2 DEF Tables
<1>5. Requests
  BY <1>1, <1>3 DEF Requests, Sound
<1>6. OneWriter
  BY <1>1, <1>3 DEF OneWriter, Names
<1>7. IndexFollows
  BY <1>2, <1>3 DEF IndexFollows, Writing
<1>8. Views
  BY <1>3 DEF Views
<1> QED
  BY <1>4, <1>5, <1>6, <1>7, <1>8 DEF Inv

(* The requests that come in are of the kinds there are.                   *)
LEMMA ComingIn ==
  ASSUME Names, NEW h \in Handlers,
         \/ \E q \in Queries :
              \/ Serve(h, Admin, "deleteMany", CollectRequestedIDs(q), Keep)
              \/ \E to \in Tenants \union {Unowned, Keep} :
                   Serve(h, Admin, "modifyMany", CollectRequestedIDs(q), to)
              \/ \E t \in Asking : Serve(h, t, "list", CollectRequestedIDs(q), Keep)
         \/ \E t \in Asking, id \in Stock, kind \in Single : Serve(h, t, kind, <<id>>, Keep)
         \/ \E t \in Asking, kind \in {"all", "status"} : Serve(h, t, kind, <<>>, Keep)
  PROVE  \E by, kind, asked, to :
           /\ to \in Tenants \union {Unowned, Keep}
           /\ AskedAs(by, kind, asked) /\ Serve(h, by, kind, asked, to)
           /\ kind \in Bulk => \E q \in Queries : asked = CollectRequestedIDs(q)
<1>1. ASSUME NEW q \in Queries
      PROVE  /\ AskedAs(Admin, "deleteMany", CollectRequestedIDs(q))
             /\ AskedAs(Admin, "modifyMany", CollectRequestedIDs(q))
             /\ \A t \in Asking : AskedAs(t, "list", CollectRequestedIDs(q))
  <2>1. CollectRequestedIDs(q) \in Seq(Stock)
    BY Collected, QueriesAreSequences
  <2> QED
    BY <2>1 DEF AskedAs, Bulk, Single, Kinds, Names
<1>2. \A t \in Asking, id \in Stock, kind \in Single : AskedAs(t, kind, <<id>>)
  <2>1. \A id \in Stock : <<id>> \in Seq(Stock) /\ Len(<<id>>) = 1
    OBVIOUS
  <2> QED
    BY <2>1 DEF AskedAs, Bulk, Single, Kinds, Names
<1>3. \A t \in Asking, kind \in {"all", "status"} : AskedAs(t, kind, <<>>)
  <2>1. <<>> \in Seq(Stock)
    OBVIOUS
  <2> QED
    BY <2>1 DEF AskedAs, Bulk, Single, Kinds, Names
<1>4. CASE \E q \in Queries :
             \/ Serve(h, Admin, "deleteMany", CollectRequestedIDs(q), Keep)
             \/ \E to \in Tenants \union {Unowned, Keep} :
                  Serve(h, Admin, "modifyMany", CollectRequestedIDs(q), to)
             \/ \E t \in Asking : Serve(h, t, "list", CollectRequestedIDs(q), Keep)
  BY <1>1, <1>4, Zenon
<1>5. CASE \E t \in Asking, id \in Stock, kind \in Single : Serve(h, t, kind, <<id>>, Keep)
  <2>1. \A kind \in Single : kind \notin Bulk
    BY DEF Bulk, Single
  <2> QED
    BY <1>2, <1>5, <2>1, Zenon
<1>6. CASE \E t \in Asking, kind \in {"all", "status"} : Serve(h, t, kind, <<>>, Keep)
  <2>1. \A kind \in {"all", "status"} : kind \notin Bulk
    BY DEF Bulk
  <2> QED
    BY <1>3, <1>6, <2>1, Zenon
<1> QED
  BY <1>4, <1>5, <1>6

(* One case per handler step, each by its own lemma.                       *)
LEMMA InvNext ==
  ASSUME Names, Inv, [HandlersNext]_handlerVars
  PROVE  Inv'
<1>1. CASE UNCHANGED handlerVars
  BY <1>1 DEF handlerVars, Inv, Tables, Requests, OneWriter, IndexFollows, Views, Own
<1>2. ASSUME NEW h \in Handlers,
             \E by, kind, asked, to :
               /\ to \in Tenants \union {Unowned, Keep}
               /\ AskedAs(by, kind, asked) /\ Serve(h, by, kind, asked, to)
      PROVE  Inv'
  BY <1>2, ServeKeeps
<1>3. ASSUME NEW h \in Handlers,
             \/ CheckAccess(h) \/ GetChannel(h)
             \/ Select(h) \/ SelectOwn(h) \/ FetchMany(h) \/ GetSummary(h) \/ Status(h)
             \/ LoadClone(h) \/ WriteFails(h) \/ WriteObject(h)
             \/ Unregister(h) \/ Register(h) \/ AnswerWrite(h)
      PROVE  Inv'
  BY <1>3, CheckAccessKeeps, GetChannelKeeps, SelectKeeps, FetchManyKeeps, StatusKeeps,
     LoadCloneKeeps, WriteFailsKeeps, WriteObjectKeeps, UnregisterKeeps, RegisterKeeps,
     AnswerWriteKeeps
<1>4. CASE HandlersNext
  <2>1. PICK h \in Handlers :
          \/ \/ \E q \in Queries :
                  \/ Serve(h, Admin, "deleteMany", CollectRequestedIDs(q), Keep)
                  \/ \E to \in Tenants \union {Unowned, Keep} :
                       Serve(h, Admin, "modifyMany", CollectRequestedIDs(q), to)
                  \/ \E t \in Asking : Serve(h, t, "list", CollectRequestedIDs(q), Keep)
             \/ \E t \in Asking, id \in Stock, kind \in Single : Serve(h, t, kind, <<id>>, Keep)
             \/ \E t \in Asking, kind \in {"all", "status"} : Serve(h, t, kind, <<>>, Keep)
          \/ CheckAccess(h) \/ GetChannel(h)
          \/ Select(h) \/ SelectOwn(h) \/ FetchMany(h) \/ GetSummary(h) \/ Status(h)
          \/ LoadClone(h) \/ WriteFails(h) \/ WriteObject(h)
          \/ Unregister(h) \/ Register(h) \/ AnswerWrite(h)
    BY <1>4, Zenon DEF HandlersNext, Single
  <2> QED
    BY <1>2, <1>3, <2>1, ComingIn
<1> QED
  BY <1>1, <1>4

(* Every request keeps its phases, one write is under way at a time, and   *)
(* the index of owners follows the objects but for that one channel: the   *)
(* inductive invariant, for any requests at once.                          *)
THEOREM RequestsAreSound ==
  ASSUME Names
  PROVE  HandlersSpec => []Inv
<1>1. HandlersInit => Inv
  BY InvInit
<1>2. Inv /\ [HandlersNext]_handlerVars => Inv'
  BY InvNext
<1> QED
  BY <1>1, <1>2, PTL DEF HandlersSpec

(* No client is ever shown, or changes, a channel that was not its own at  *)
(* some moment of its request: not by a check that a move of the channel   *)
(* overtakes, nor by a summary or a list that is older than the move.      *)
THEOREM ClientsOnlyTouchOwn ==
  ASSUME Names
  PROVE  HandlersSpec => []ClientsTouchOwn
<1>1. Inv => ClientsTouchOwn
  <2> SUFFICES ASSUME Inv, NEW h \in Handlers, Answered(h), req[h].by \in Tenants
               PROVE  req[h].done \subseteq req[h].mine
    BY DEF ClientsTouchOwn
  <2>1. Phase(req[h]) /\ Shown(req[h])
    BY Served DEF Answered, Inv
  <2>2. req[h].kind \notin Bulk
    BY <2>1 DEF Phase, Names
  <2> QED
    BY <2>1, <2>2 DEF Shown
<1> QED
  BY <1>1, RequestsAreSound, PTL

-----------------------------------------------------------------------------
(* Bulk answers *)

\* What the answers rest on: an id has one spelling, so that a query that is
\* free of repeated tokens is free of repeated ids.
OneSpelling == \A x, y \in Spellings : x = y

Distinct(s) == \A j, k \in DOMAIN s : s[j] = s[k] => j = k
Members(s) == {s[k] : k \in DOMAIN s}

\* No id is noted twice, or noted and still to come.
Noted(r) ==
  r.kind \in Bulk =>
    /\ Distinct(r.left)
    /\ Members(r.left) \intersect (r.done \union r.failed \union r.missing) = {}
    /\ r.done \intersect (r.failed \union r.missing) = {}

\* What a bulk delete has deleted, noted or not.
Deleted(r) == IF r.at \in Writing THEN r.done \union {Head(r.left)} ELSE r.done

Deletes(h) == req[h] # Unserved /\ req[h].kind = "deleteMany"

Answers ==
  /\ \A h \in Handlers : req[h] # Unserved =>
       Noted(req[h]) /\ req[h].missing \intersect DOMAIN objects = {}
  /\ \A h \in Handlers : Deletes(h) => Deleted(req[h]) \intersect DOMAIN objects = {}
  /\ \A g, h \in Handlers : Deletes(g) /\ Deletes(h) /\ g # h =>
       Deleted(req[g]) \intersect Deleted(req[h]) = {}

(* The first id of a list without repetitions is not in the rest.          *)
LEMMA FirstOfDistinct ==
  ASSUME NEW s \in Seq(Stock), s # <<>>, Distinct(s)
  PROVE  /\ Distinct(Tail(s)) /\ Head(s) \in Members(s)
         /\ Head(s) \notin Members(Tail(s)) /\ Members(Tail(s)) \subseteq Members(s)
<1> DEFINE t == Tail(s)
<1>1. /\ Len(s) \in Nat /\ Len(s) > 0 /\ DOMAIN s = 1 .. Len(s)
      /\ t \in Seq(Stock) /\ Len(t) = Len(s) - 1
  BY FirstLeft, LenProperties
<1>2. DOMAIN t = 1 .. Len(s) - 1 /\ \A j \in DOMAIN t : t[j] = s[j + 1]
  BY <1>1, LenProperties, HeadTailProperties
<1>3. Head(s) = s[1] /\ 1 \in DOMAIN s
  BY <1>1
<1> HIDE DEF t
<1>4. \A j \in DOMAIN t : j \in Nat /\ j + 1 \in DOMAIN s /\ j + 1 # 1 /\ t[j] = s[j + 1]
  BY <1>1, <1>2
<1>5. Distinct(t)
  BY <1>4 DEF Distinct
<1>6. Head(s) \notin Members(t) /\ Members(t) \subseteq Members(s)
  BY <1>3, <1>4 DEF Members, Distinct
<1> QED
  BY <1>3, <1>5, <1>6 DEF Members, t

\* Two states of a request that has not moved on.
Same(r, s) ==
  \/ r = Unserved /\ s = Unserved
  \/ /\ r # Unserved /\ s # Unserved
     /\ \A f \in {"at", "kind", "left", "done", "missing", "failed"} : r[f] = s[f]

(* A step moves one request on and deletes no more than it says.           *)
LEMMA AnswersKept ==
  ASSUME Answers, NEW h \in Handlers, DOMAIN objects' \subseteq DOMAIN objects,
         \A g \in Handlers : g # h => Same(req[g], req'[g]),
         Noted(req'[h]), req'[h].missing \intersect DOMAIN objects' = {},
         req'[h].kind = "deleteMany" =>
           /\ Deleted(req'[h]) \intersect DOMAIN objects' = {}
           /\ \A x \in Deleted(req'[h]) :
                x \in DOMAIN objects \/ (Deletes(h) /\ x \in Deleted(req[h]))
  PROVE  Answers'
<1>1. \A g \in Handlers : g # h =>
        /\ req'[g] # Unserved <=> req[g] # Unserved
        /\ req[g] # Unserved =>
             /\ req'[g].kind = req[g].kind /\ req'[g].missing = req[g].missing
             /\ Noted(req'[g]) <=> Noted(req[g])
             /\ Deleted(req'[g]) = Deleted(req[g])
  BY DEF Same, Noted, Deleted
<1>2. \A g \in Handlers : req'[g] # Unserved =>
        Noted(req'[g]) /\ req'[g].missing \intersect DOMAIN objects' = {}
  BY <1>1 DEF Answers
<1>3. \A g \in Handlers : req'[g] # Unserved /\ req'[g].kind = "deleteMany" =>
        Deleted(req'[g]) \intersect DOMAIN objects' = {}
  BY <1>1 DEF Answers, Deletes
<1>4. ASSUME NEW g \in Handlers, req'[g] # Unserved, req'[g].kind = "deleteMany", g # h,
             req'[h].kind = "deleteMany"
      PROVE  Deleted(req'[g]) \intersect Deleted(req'[h]) = {}
  <2>1. Deletes(g) /\ Deleted(req'[g]) = Deleted(req[g])
    BY <1>1, <1>4 DEF Deletes
  <2>2. /\ Deleted(req[g]) \intersect DOMAIN objects = {}
        /\ Deletes(h) => Deleted(req[g]) \intersect Deleted(req[h]) = {}
    BY <1>4, <2>1 DEF Answers
  <2> QED
    BY <1>4, <2>1, <2>2
<1>5. ASSUME NEW f \in Handlers, NEW g \in Handlers, f # g,
             req'[f] # Unserved, req'[f].kind = "deleteMany",
             req'[g] # Unserved, req'[g].kind = "deleteMany"
      PROVE  Deleted(req'[f]) \intersect Deleted(req'[g]) = {}
  <2>1. CASE f = h
    BY <1>4, <1>5, <2>1
  <2>2. CASE g = h
    BY <1>4, <1>5, <2>2
  <2>3. CASE f # h /\ g # h
    BY <1>1, <1>5, <2>3 DEF Answers, Deletes
  <2> QED
    BY <2>1, <2>2, <2>3
<1> QED
  BY <1>2, <1>3, <1>5 DEF Answers, Deletes, Noted, Deleted

(* A request comes in with nothing noted and no id twice.                  *)
LEMMA AnswersServe ==
  ASSUME OneSpelling, Inv, Answers, NEW h \in Handlers, NEW by, NEW kind, NEW asked, NEW to,
         kind \in Bulk => \E q \in Queries : asked = CollectRequestedIDs(q),
         Serve(h, by, kind, asked, to)
  PROVE  Answers'
<1> DEFINE r == [by |-> by, kind |-> kind,
                 at |-> IF kind \in {"deleteMany", "modifyMany"} THEN "loop" ELSE "begun",
                 left |-> asked, to |-> to, clone |-> Unowned,
                 done |-> {}, missing |-> {}, failed |-> {}, picked |-> {},
                 mine |-> Own(by)]
<1>1. UNCHANGED objects /\ req' = [req EXCEPT ![h] = r]
  BY DEF Serve, Reads, Becomes
<1>2. /\ r.kind = kind /\ r.left = asked /\ r.done = {} /\ r.missing = {} /\ r.failed = {}
      /\ r.at \notin Writing
  BY DEF Writing
<1> HIDE DEF r
<1>3. \A g \in Handlers : req'[g] = IF g = h THEN r ELSE req[g]
  BY <1>1 DEF Inv, Requests
<1>4. Noted(r)
  <2> SUFFICES ASSUME kind \in Bulk PROVE Distinct(asked)
    BY <1>2 DEF Noted
  <2>1. PICK q \in Queries : asked = CollectRequestedIDs(q)
    OBVIOUS
  <2> QED
    BY <2>1, Collected, QueriesAreSequences DEF OneSpelling, Distinct
<1>5. Deleted(r) = {}
  BY <1>2 DEF Deleted
<1>6. \A g \in Handlers : g # h => Same(req[g], req'[g])
  BY <1>3 DEF Same
<1> QED
  BY <1>1, <1>2, <1>3, <1>4, <1>5, <1>6, AnswersKept

(* A step that notes nothing in a bulk request.                            *)
LEMMA AnswersQuiet ==
  ASSUME Inv, Answers, NEW h \in Handlers, req[h] \in Request, NEW r, Reads(h, r),
         req[h].at \notin Writing, r.at \notin Writing,
         r.kind = req[h].kind, r.missing = req[h].missing,
         r.kind \in Bulk =>
           r.left = req[h].left /\ r.done = req[h].done /\ r.failed = req[h].failed
  PROVE  Answers'
<1>1. UNCHANGED objects /\ \A g \in Handlers : req'[g] = IF g = h THEN r ELSE req[g]
  BY DEF Reads, Becomes, Inv, Requests
<1>2. Noted(req[h]) /\ req[h].missing \intersect DOMAIN objects = {} /\ req[h] # Unserved
  BY UnservedIsNone DEF Answers
<1>3. Noted(r)
  BY <1>2 DEF Noted
<1>4. r.kind = "deleteMany" =>
        /\ Deletes(h) /\ Deleted(r) = Deleted(req[h])
        /\ Deleted(r) \intersect DOMAIN objects = {}
  BY <1>2 DEF Deleted, Deletes, Bulk, Answers
<1>5. \A g \in Handlers : g # h => Same(req[g], req'[g])
  BY <1>1 DEF Same
<1> QED
  BY <1>1, <1>2, <1>3, <1>4, <1>5, AnswersKept

(* A bulk request notes its next id; what it reports missing is not there. *)
LEMMA NotedNext ==
  ASSUME Answers, NEW h \in Handlers, req[h] \in Request, Phase(req[h]), Shown(req[h]),
         req[h].left # <<>>, req[h].at \in {"loop", "cloned"} \union Writing,
         NEW field \in {"done", "missing", "failed"},
         field = "missing" => Item(h) \notin DOMAIN objects
  PROVE  /\ Noted(Note(h, field))
         /\ Note(h, field).missing \intersect DOMAIN objects = {}
<1> DEFINE q == req[h]
           r == Note(h, field)
<1>1. Noted(q) /\ q.missing \intersect DOMAIN objects = {} /\ q.left \in Seq(Stock)
  BY UnservedIsNone DEF Answers, Request
<1>2. /\ r.left = Tail(q.left) /\ r.kind = q.kind
      /\ r.done = IF field = "done" THEN q.done \union {Head(q.left)} ELSE q.done
      /\ r.failed = IF field = "failed" THEN q.failed \union {Head(q.left)} ELSE q.failed
      /\ r.missing = IF field = "missing" THEN q.missing \union {Head(q.left)} ELSE q.missing
  BY Noting
<1>3. Distinct(q.left) => /\ Distinct(Tail(q.left)) /\ Head(q.left) \in Members(q.left)
                          /\ Head(q.left) \notin Members(Tail(q.left))
                          /\ Members(Tail(q.left)) \subseteq Members(q.left)
  BY <1>1, FirstOfDistinct
<1>4. r.missing \intersect DOMAIN objects = {}
  BY <1>1, <1>2 DEF Item
<1> HIDE DEF q, r
<1>5. Noted(r)
  BY <1>1, <1>2, <1>3 DEF Noted
<1> QED
  BY <1>4, <1>5 DEF r

(* What is noted as missing is not there at that moment; what is noted as  *)
(* failed was an item of the request.                                      *)
LEMMA AnswersNoted ==
  ASSUME Inv, Answers, NEW h \in Handlers, req[h] \in Request, Phase(req[h]), Shown(req[h]),
         req[h].left # <<>>, req[h].at \in {"loop", "cloned"},
         NEW field \in {"missing", "failed"},
         field = "missing" => Item(h) \notin DOMAIN objects, Reads(h, Note(h, field))
  PROVE  Answers'
<1> DEFINE r == Note(h, field)
<1>1. UNCHANGED objects /\ \A g \in Handlers : req'[g] = IF g = h THEN r ELSE req[g]
  BY DEF Reads, Becomes, Inv, Requests
<1>2. Noted(r) /\ r.missing \intersect DOMAIN objects = {}
  BY NotedNext
<1>3. r.kind = req[h].kind /\ r.done = req[h].done /\ r.at = "loop"
  BY Noting
<1> HIDE DEF r
<1>4. r.kind = "deleteMany" =>
        /\ Deletes(h) /\ Deleted(r) = Deleted(req[h])
        /\ Deleted(r) \intersect DOMAIN objects = {}
  BY <1>3, UnservedIsNone DEF Deleted, Deletes, Answers, Writing
<1>5. \A g \in Handlers : g # h => Same(req[g], req'[g])
  BY <1>1 DEF Same
<1> QED
  BY <1>1, <1>2, <1>4, <1>5, AnswersKept

(* The reads, and the steps of a bulk request that write nothing.          *)
LEMMA AnswersReads ==
  ASSUME Inv, Answers, NEW h \in Handlers,
         \/ CheckAccess(h) \/ GetChannel(h) \/ Select(h) \/ SelectOwn(h) \/ FetchMany(h)
         \/ GetSummary(h) \/ Status(h) \/ LoadClone(h) \/ WriteFails(h) \/ AnswerWrite(h)
  PROVE  Answers'
<1> DEFINE q == req[h]
<1>1. q.at \in {"begun", "allowed", "selected", "loop", "cloned"}
  BY DEF CheckAccess, GetChannel, Select, SelectOwn, FetchMany, GetSummary, Status, LoadClone,
     WriteFails, AnswerWrite, Calls, Turn, Is
<1>2. q \in Request /\ Phase(q) /\ Shown(q) /\ q.at \notin Writing
  BY <1>1, Served DEF Inv, Writing
<1> DEFINE Quiet(r) == /\ r.at \notin Writing /\ r.kind = q.kind /\ r.missing = q.missing
                       /\ r.kind \in Bulk =>
                            r.left = q.left /\ r.done = q.done /\ r.failed = q.failed
<1>3. ASSUME \E r : Reads(h, r) /\ Quiet(r)
      PROVE  Answers'
  BY <1>2, <1>3, AnswersQuiet
<1>4. CASE CheckAccess(h)
  <2> DEFINE r == [q EXCEPT !.at = IF Item(h) \notin Own(q.by) THEN "answered"
                                   ELSE IF q.kind = "patch" THEN "loop" ELSE "allowed"]
  <2>1. Reads(h, r)
    BY <1>4 DEF CheckAccess
  <2>2. Quiet(r)
    BY <1>2 DEF Request, Writing
  <2> QED
    BY <1>3, <2>1, <2>2
<1>5. CASE GetChannel(h)
  <2> DEFINE r == [q EXCEPT !.at = "answered", !.done = {Item(h)} \intersect DOMAIN objects]
  <2>1. Reads(h, r) /\ q.kind = "get"
    BY <1>5 DEF GetChannel, Is
  <2>2. Quiet(r)
    BY <1>2, <2>1 DEF Request, Writing, Bulk
  <2> QED
    BY <1>3, <2>1, <2>2
<1>6. CASE Select(h)
  <2> DEFINE r == [q EXCEPT !.left = Tail(@),
                            !.picked = @ \union ({Item(h)} \intersect Own(q.by))]
  <2>1. Reads(h, r) /\ q.kind = "list"
    BY <1>6 DEF Select, Is
  <2>2. Quiet(r)
    BY <1>2, <2>1 DEF Request, Writing, Bulk
  <2> QED
    BY <1>3, <2>1, <2>2
<1>7. CASE SelectOwn(h)
  <2> DEFINE r == [q EXCEPT !.at = "selected", !.picked = Own(q.by)]
  <2>1. Reads(h, r)
    BY <1>7 DEF SelectOwn
  <2>2. Quiet(r)
    BY <1>2 DEF Request, Writing
  <2> QED
    BY <1>3, <2>1, <2>2
<1>8. CASE FetchMany(h)
  <2> DEFINE r == [q EXCEPT !.at = IF q.picked \subseteq DOMAIN objects THEN "answered"
                                                                        ELSE "panicked",
                            !.done = q.picked \intersect DOMAIN objects]
  <2>1. Reads(h, r) /\ q.kind \in {"list", "all"}
    BY <1>8 DEF FetchMany, Is
  <2>2. Quiet(r)
    BY <1>2, <2>1 DEF Request, Writing, Bulk
  <2> QED
    BY <1>3, <2>1, <2>2
<1>9. CASE GetSummary(h)
  <2>1. PICK summary \in SUBSET Stock :
          Reads(h, [q EXCEPT !.at = "selected", !.picked = summary])
    BY <1>9 DEF GetSummary
  <2> DEFINE r == [q EXCEPT !.at = "selected", !.picked = summary]
  <2>2. Quiet(r)
    BY <1>2 DEF Request, Writing
  <2> QED
    BY <1>3, <2>1, <2>2
<1>10. CASE Status(h)
  <2> DEFINE r == [q EXCEPT !.at = "answered", !.done = q.picked \intersect Own(q.by)]
  <2>1. Reads(h, r) /\ q.kind = "status"
    BY <1>10 DEF Status, Is
  <2>2. Quiet(r)
    BY <1>2, <2>1 DEF Request, Writing, Bulk
  <2> QED
    BY <1>3, <2>1, <2>2
<1>11. CASE LoadClone(h)
  <2>1. q.at = "loop" /\ q.left # <<>>
    BY <1>11 DEF LoadClone, Turn, Is
  <2>2. CASE Item(h) \in DOMAIN objects
    <3> DEFINE r == [q EXCEPT !.at = "cloned", !.clone = objects[Item(h)]]
    <3>1. Reads(h, r)
      BY <1>11, <2>2 DEF LoadClone
    <3>2. Quiet(r)
      BY <1>2 DEF Request, Writing
    <3> QED
      BY <1>3, <3>1, <3>2
  <2>3. CASE Item(h) \notin DOMAIN objects
    <3>1. Reads(h, Note(h, "missing"))
      BY <1>11, <2>3 DEF LoadClone
    <3> QED
      BY <1>2, <2>1, <2>3, <3>1, AnswersNoted
  <2> QED
    BY <2>2, <2>3
<1>12. CASE WriteFails(h)
  <2>1. Calls(h) /\ Reads(h, Note(h, IF Item(h) \in DOMAIN objects THEN "failed" ELSE "missing"))
    BY <1>12 DEF WriteFails
  <2>2. PICK field \in {"missing", "failed"} :
          /\ Reads(h, Note(h, field))
          /\ field = "missing" => Item(h) \notin DOMAIN objects
    BY <2>1
  <2> QED
    BY <2>1, <2>2, CallsFrom, AnswersNoted
<1>13. CASE AnswerWrite(h)
  <2> DEFINE r == [q EXCEPT !.at = "answered"]
  <2>1. Reads(h, r)
    BY <1>13 DEF AnswerWrite
  <2>2. Quiet(r)
    BY <1>2 DEF Request, Writing
  <2> QED
    BY <1>3, <2>1, <2>2
<1> QED
  BY <1>4, <1>5, <1>6, <1>7, <1>8, <1>9, <1>10, <1>11, <1>12, <1>13

(* A delete takes an object that is there, which no other delete has had.  *)
LEMMA AnswersWriteObject ==
  ASSUME Names, Inv, Answers, NEW h \in Handlers, WriteObject(h)
  PROVE  Answers'
<1> DEFINE q == req[h]
           id == Head(q.left)
           r == [q EXCEPT !.at = "stored"]
<1>1. q \in Request /\ q.left # <<>> /\ q.at \in {"loop", "cloned"}
  BY CallsFrom DEF WriteObject
<1>2. /\ id \in DOMAIN objects
      /\ q.kind = "deleteMany" =>
           objects' = [x \in DOMAIN objects \ {id} |-> objects[x]]
      /\ q.kind # "deleteMany" => DOMAIN objects' = DOMAIN objects
      /\ req' = [req EXCEPT ![h] = r]
  BY DEF WriteObject, Item, Becomes
<1>3. /\ r.kind = q.kind /\ r.at = "stored" /\ r.left = q.left /\ r.done = q.done
      /\ r.failed = q.failed /\ r.missing = q.missing
  BY <1>1 DEF Request
<1>4. Noted(q) /\ q.missing \intersect DOMAIN objects = {} /\ q # Unserved
  BY <1>1, UnservedIsNone DEF Answers
<1>5. \A g \in Handlers : req'[g] = IF g = h THEN r ELSE req[g]
  BY <1>2 DEF Inv, Requests
<1>6. \A g \in Handlers : g # h => Same(req[g], req'[g])
  BY <1>5 DEF Same
<1> HIDE DEF r, id
<1>7. Noted(r) /\ r.missing \intersect DOMAIN objects = {}
  BY <1>3, <1>4 DEF Noted
<1>8. DOMAIN objects' \subseteq DOMAIN objects
  BY <1>2
<1>9. ASSUME r.kind = "deleteMany"
      PROVE  /\ Deleted(r) \intersect DOMAIN objects' = {}
             /\ \A x \in Deleted(r) :
                  x \in DOMAIN objects \/ (Deletes(h) /\ x \in Deleted(req[h]))
  <2>1. Deletes(h) /\ Deleted(q) = q.done /\ q.done \intersect DOMAIN objects = {}
    BY <1>1, <1>3, <1>4, <1>9 DEF Deletes, Deleted, Answers, Writing
  <2>2. Deleted(r) = q.done \union {id}
    BY <1>3 DEF Deleted, Writing, id
  <2> QED
    BY <1>2, <1>3, <1>9, <2>1, <2>2
<1> QED
  BY <1>5, <1>6, <1>7, <1>8, <1>9, AnswersKept

(* The rest of the write changes nothing that is answered,                 *)
LEMMA AnswersUnregister ==
  ASSUME Inv, Answers, NEW h \in Handlers, Unregister(h)
  PROVE  Answers'
<1> DEFINE q == req[h]
           r == [q EXCEPT !.at = "unregistered"]
<1>1. q.at = "stored" /\ req' = [req EXCEPT ![h] = r] /\ UNCHANGED objects
  BY DEF Unregister, Becomes
<1>2. q \in Request
  BY <1>1, Served DEF Inv
<1>3. /\ r.kind = q.kind /\ r.at = "unregistered" /\ r.left = q.left /\ r.done = q.done
      /\ r.failed = q.failed /\ r.missing = q.missing
  BY <1>2 DEF Request
<1>4. Noted(q) /\ q.missing \intersect DOMAIN objects = {} /\ q # Unserved
  BY <1>2, UnservedIsNone DEF Answers
<1>5. \A g \in Handlers : req'[g] = IF g = h THEN r ELSE req[g]
  BY <1>1 DEF Inv, Requests
<1>6. \A g \in Handlers : g # h => Same(req[g], req'[g])
  BY <1>5 DEF Same
<1> HIDE DEF r
<1>7. Noted(r) /\ r.missing \intersect DOMAIN objects = {}
  BY <1>3, <1>4 DEF Noted
<1>8. r.kind = "deleteMany" => /\ Deletes(h) /\ Deleted(r) = Deleted(req[h])
                               /\ Deleted(r) \intersect DOMAIN objects = {}
  BY <1>1, <1>3, <1>4 DEF Deleted, Deletes, Answers, Writing
<1> QED
  BY <1>1, <1>5, <1>6, <1>7, <1>8, AnswersKept

(* and the last step of it notes what is done.                             *)
LEMMA AnswersRegister ==
  ASSUME Inv, Answers, NEW h \in Handlers, Register(h)
  PROVE  Answers'
<1> DEFINE id == Item(h)
           owned == DOMAIN owners \union ({id} \intersect DOMAIN objects)
           moved(g) == IF g = h THEN Note(h, "done") ELSE req[g]
           sees(r) == r.at # "unserved" /\ id \in owned /\ objects[id] = r.by
           seen(r) == IF sees(r) THEN [r EXCEPT !.mine = @ \union {id}] ELSE r
           q == req[h]
           n == Note(h, "done")
<1>1. /\ q.at = "unregistered" /\ UNCHANGED objects
      /\ \A g \in Handlers : req'[g] = seen(moved(g))
  BY DEF Register
<1>2. q \in Request /\ Phase(q) /\ Shown(q)
  BY <1>1, Served DEF Inv
<1>3. q.left # <<>> /\ q # Unserved
  BY <1>1, <1>2, UnservedIsNone DEF Phase, Writing
<1>4. \A r \in Request :
        seen(r) \in Request /\ \A f \in {"at", "kind", "left", "done", "missing", "failed"} :
                                 seen(r)[f] = r[f]
  <2>1. id \in Stock
    BY <1>2, <1>3, FirstLeft DEF Item, Request
  <2> HIDE DEF id, owned
  <2> QED
    BY <2>1 DEF Request
<1>5. /\ n \in Request /\ n.at = "loop" /\ n.kind = q.kind
      /\ n.done = q.done \union {Head(q.left)}
  BY <1>1, <1>2, <1>3, Noting DEF Writing
<1>6. Noted(n) /\ n.missing \intersect DOMAIN objects = {}
  BY <1>1, <1>2, <1>3, NotedNext DEF Writing
<1>7. moved(h) = n /\ req'[h] = seen(n)
  BY <1>1
<1>8. \A g \in Handlers : g # h => Same(req[g], req'[g])
  <2> SUFFICES ASSUME NEW g \in Handlers, g # h PROVE Same(req[g], req'[g])
    OBVIOUS
  <2>1. req'[g] = seen(req[g])
    BY <1>1
  <2>2. CASE req[g] = Unserved
    BY <2>1, <2>2, UnservedIsNone DEF Same
  <2>3. CASE req[g] # Unserved
    <3>1. req[g] \in Request
      BY <2>3 DEF Inv, Requests
    <3>2. req'[g] \in Request /\ \A f \in {"at", "kind", "left", "done", "missing", "failed"} :
                                   req'[g][f] = req[g][f]
      BY <1>4, <2>1, <3>1
    <3> QED
      BY <2>3, <3>2, UnservedIsNone DEF Same
  <2> QED
    BY <2>2, <2>3
<1> DEFINE s == seen(n)
<1>9. /\ s.kind = n.kind /\ s.at = n.at /\ s.left = n.left /\ s.done = n.done
      /\ s.failed = n.failed /\ s.missing = n.missing
  BY <1>4, <1>5
<1> HIDE DEF n, s, q, seen
<1>10. Noted(s) /\ s.missing \intersect DOMAIN objects = {}
  BY <1>6, <1>9 DEF Noted
<1>11. s.kind = "deleteMany" => /\ Deletes(h) /\ Deleted(s) = Deleted(req[h])
                                /\ Deleted(s) \intersect DOMAIN objects = {}
  <2> SUFFICES ASSUME s.kind = "deleteMany"
               PROVE  /\ Deletes(h) /\ Deleted(s) = Deleted(req[h])
                      /\ Deleted(s) \intersect DOMAIN objects = {}
    OBVIOUS
  <2>1. Deletes(h)
    BY <1>3, <1>5, <1>9 DEF Deletes, q
  <2>2. Deleted(s) = Deleted(req[h])
    BY <1>1, <1>5, <1>9 DEF Deleted, Writing, q
  <2> QED
    BY <2>1, <2>2 DEF Answers
<1>12. req'[h] = s
  BY <1>7 DEF s
<1> QED
  BY <1>1, <1>8, <1>10, <1>11, <1>12, AnswersKept

(* No request has noted anything at the start.                             *)
LEMMA AnswersInit == HandlersInit => Answers
<1> SUFFICES ASSUME HandlersInit PROVE \A h \in Handlers : req[h] = Unserved
  BY DEF Answers, Deletes
<1> QED
  BY DEF HandlersInit

(* A note is made once per item, and while the spellings of an id are      *)
(* unique no later item contradicts it.                                    *)
LEMMA AnswersNext ==
  ASSUME Names, OneSpelling, Inv, Answers, [HandlersNext]_handlerVars
  PROVE  Answers'
<1>1. CASE UNCHANGED handlerVars
  BY <1>1 DEF handlerVars, Answers, Noted, Deleted, Deletes
<1>2. ASSUME NEW h \in Handlers,
             \E by, kind, asked, to :
               /\ to \in Tenants \union {Unowned, Keep}
               /\ AskedAs(by, kind, asked) /\ Serve(h, by, kind, asked, to)
               /\ kind \in Bulk => \E q \in Queries : asked = CollectRequestedIDs(q)
      PROVE  Answers'
  BY <1>2, AnswersServe
<1>3. ASSUME NEW h \in Handlers,
             \/ CheckAccess(h) \/ GetChannel(h)
             \/ Select(h) \/ SelectOwn(h) \/ FetchMany(h) \/ GetSummary(h) \/ Status(h)
             \/ LoadClone(h) \/ WriteFails(h) \/ WriteObject(h)
             \/ Unregister(h) \/ Register(h) \/ AnswerWrite(h)
      PROVE  Answers'
  BY <1>3, AnswersReads, AnswersWriteObject, AnswersUnregister, AnswersRegister
<1>4. CASE HandlersNext
  <2>1. PICK h \in Handlers :
          \/ \/ \E q \in Queries :
                  \/ Serve(h, Admin, "deleteMany", CollectRequestedIDs(q), Keep)
                  \/ \E to \in Tenants \union {Unowned, Keep} :
                       Serve(h, Admin, "modifyMany", CollectRequestedIDs(q), to)
                  \/ \E t \in Asking : Serve(h, t, "list", CollectRequestedIDs(q), Keep)
             \/ \E t \in Asking, id \in Stock, kind \in Single : Serve(h, t, kind, <<id>>, Keep)
             \/ \E t \in Asking, kind \in {"all", "status"} : Serve(h, t, kind, <<>>, Keep)
          \/ CheckAccess(h) \/ GetChannel(h)
          \/ Select(h) \/ SelectOwn(h) \/ FetchMany(h) \/ GetSummary(h) \/ Status(h)
          \/ LoadClone(h) \/ WriteFails(h) \/ WriteObject(h)
          \/ Unregister(h) \/ Register(h) \/ AnswerWrite(h)
    BY <1>4, Zenon DEF HandlersNext, Single
  <2> QED
    BY <1>2, <1>3, <2>1, ComingIn
<1> QED
  BY <1>1, <1>4

(* The answers of overlapping bulk requests are true: no id is both done   *)
(* and failed, what is reported deleted is gone and no two requests report *)
(* it, and what is reported missing is not there.  It takes that an id has *)
(* one spelling: the handlers sort out repeated tokens, not repeated ids,  *)
(* and with two spellings the answers are wrong (run bulk_spellings).      *)
THEOREM BulkAnswersAreTrue ==
  ASSUME Names, OneSpelling
  PROVE  HandlersSpec => []BulkAnswersTruthful
<1>1. HandlersInit => Inv /\ Answers
  BY InvInit, AnswersInit
<1>2. (Inv /\ Answers) /\ [HandlersNext]_handlerVars => (Inv /\ Answers)'
  BY InvNext, AnswersNext
<1>3. Inv /\ Answers => BulkAnswersTruthful
  <2> SUFFICES ASSUME Inv, Answers, NEW h \in Handlers, Answered(h), req[h].by = Admin
               PROVE  /\ req[h].done \intersect (req[h].failed \union req[h].missing) = {}
                      /\ req[h].missing \intersect DOMAIN objects = {}
                      /\ req[h].kind = "deleteMany" =>
                           /\ req[h].done \intersect DOMAIN objects = {}
                           /\ \A g \in Handlers \ {h} :
                                Answered(g) /\ req[g].kind = "deleteMany" =>
                                  req[g].done \intersect req[h].done = {}
    BY DEF BulkAnswersTruthful
  <2>1. \A g \in Handlers : Answered(g) => req[g] # Unserved /\ Deleted(req[g]) = req[g].done
    BY UnservedIsNone DEF Answered, Deleted, Writing
  <2>2. req[h].kind \in Bulk
    BY Served DEF Answered, Inv, Phase
  <2>3. Noted(req[h]) /\ req[h].missing \intersect DOMAIN objects = {}
    BY <2>1 DEF Answers
  <2>4. ASSUME req[h].kind = "deleteMany"
        PROVE  /\ req[h].done \intersect DOMAIN objects = {}
               /\ \A g \in Handlers \ {h} : Answered(g) /\ req[g].kind = "deleteMany" =>
                    req[g].done \intersect req[h].done = {}
    BY <2>1, <2>4 DEF Answers, Deletes
  <2> QED
    BY <2>2, <2>3, <2>4 DEF Noted
<1> QED
  BY <1>1, <1>2, <1>3, PTL DEF HandlersSpec

=============================================================================

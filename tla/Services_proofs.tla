--------------------------- MODULE Services_proofs ---------------------------
(***************************************************************************)
(* Theorems about ChannelRequests, for any set of fields and any requests, *)
(* about SummaryCache, for any number of requests and changes, about       *)
(* Remux, for any finite set of channels and any number of writes; and     *)
(* about RemuxCommand, for URLs of any length.                             *)
(***************************************************************************)
EXTENDS ChannelRequests, SummaryCache, Remux, RemuxCommand, FiniteSetTheorems, SequenceTheorems,
        WellFoundedInduction, TLAPS

-----------------------------------------------------------------------------
(* Requests: the dependency rules *)

(* The rules, one by one.                                                  *)
LEMMA RulesAre ==
  /\ DOMAIN DepRules = {"url", "username", "password", "enabled"}
  /\ Deps("url") = {"name"} /\ Deps("username") = {"url"}
  /\ Deps("password") = {"username"} /\ Deps("enabled") = {"url"}
  /\ \A f : f \notin {"url", "username", "password", "enabled"} => Deps(f) = {}
BY DEF DepRules, Deps

(* What the search reaches: all that a field needs, and what that needs.   *)
LEMMA VisitReaches ==
  /\ DOMAIN visit = {"url", "username", "password", "enabled"}
  /\ visit["url"] = {"name"} /\ visit["username"] = {"url", "name"}
  /\ visit["password"] = {"username", "url", "name"} /\ visit["enabled"] = {"url", "name"}
<1> DEFINE Closed(f, S) == Deps(f) \subseteq S /\ \A e \in S : Deps(e) \subseteq S
<1>1. /\ \A f \in DOMAIN DepRules :
           visit[f] = {d \in Fields : \A S \in SUBSET Fields : Closed(f, S) => d \in S}
      /\ DOMAIN visit = DOMAIN DepRules
  BY DEF visit
<1>2. /\ {"name"} \in SUBSET Fields /\ {"url", "name"} \in SUBSET Fields
      /\ {"username", "url", "name"} \in SUBSET Fields
  BY FieldsAssumption
<1>3. /\ Closed("url", {"name"}) /\ Closed("username", {"url", "name"})
      /\ Closed("password", {"username", "url", "name"}) /\ Closed("enabled", {"url", "name"})
  BY RulesAre
<1>4. \A S \in SUBSET Fields :
        /\ Closed("url", S) => "name" \in S
        /\ Closed("username", S) => "url" \in S /\ "name" \in S
        /\ Closed("password", S) => "username" \in S /\ "url" \in S /\ "name" \in S
        /\ Closed("enabled", S) => "url" \in S /\ "name" \in S
  BY RulesAre
<1> HIDE DEF Closed
<1>5. visit["url"] = {"name"}
  BY <1>1, <1>2, <1>3, <1>4, RulesAre
<1>6. visit["username"] = {"url", "name"}
  BY <1>1, <1>2, <1>3, <1>4, RulesAre
<1>7. visit["password"] = {"username", "url", "name"}
  BY <1>1, <1>2, <1>3, <1>4, RulesAre
<1>8. visit["enabled"] = {"url", "name"}
  BY <1>1, <1>2, <1>3, <1>4, RulesAre
<1> QED
  BY <1>1, <1>5, <1>6, <1>7, <1>8, RulesAre

(* Whether a field is missing.                                             *)
LEMMA MissingAre ==
  ASSUME NEW fs
  PROVE  /\ Missing(fs) \subseteq {"name", "url", "username"}
         /\ "name" \in Missing(fs) <=>
              /\ ~IsSet(fs, "name")
              /\ \E f \in {"url", "username", "password", "enabled"} : IsSet(fs, f)
         /\ "url" \in Missing(fs) <=>
              /\ ~IsSet(fs, "url")
              /\ \E f \in {"username", "password", "enabled"} : IsSet(fs, f)
         /\ "username" \in Missing(fs) <=> ~IsSet(fs, "username") /\ IsSet(fs, "password")
<1> DEFINE Asks == {g \in DOMAIN DepRules : IsSet(fs, g)}
<1>1. \A d : d \in Missing(fs) <=> (\E f \in Asks : d \in visit[f]) /\ ~IsSet(fs, d)
  BY DEF Missing
<1>2. \A f : f \in Asks <=> f \in {"url", "username", "password", "enabled"} /\ IsSet(fs, f)
  BY RulesAre
<1> HIDE DEF Asks
<1>3. \A d : d \in Missing(fs) <=>
        /\ ~IsSet(fs, d)
        /\ \/ IsSet(fs, "url") /\ d = "name"
           \/ IsSet(fs, "username") /\ d \in {"url", "name"}
           \/ IsSet(fs, "password") /\ d \in {"username", "url", "name"}
           \/ IsSet(fs, "enabled") /\ d \in {"url", "name"}
  BY <1>1, <1>2, VisitReaches
<1> QED
  BY <1>3

(* MissingIsComplete, which holds of any fields: setting some of the       *)
(* missing ones is enough if and only if it is all of them.                *)
LEMMA RepairsAreComplete ==
  ASSUME NEW fs, NEW S \in SUBSET Missing(fs)
  PROVE  LET Repaired == [f \in Fields |-> IF f \in S THEN "v" ELSE fs[f]]
         IN  (Missing(Repaired) = {}) <=> (S = Missing(fs))
<1> DEFINE R == [f \in Fields |-> IF f \in S THEN "v" ELSE fs[f]]
<1>1. S \subseteq {"name", "url", "username"}
  BY MissingAre
<1>2. \A f \in {"name", "url", "username", "password", "enabled"} :
        IsSet(R, f) <=> f \in S \/ IsSet(fs, f)
  BY <1>1, FieldsAssumption DEF IsSet
<1> HIDE DEF R
<1>3. ASSUME S = Missing(fs)
      PROVE  Missing(R) = {}
  <2>1. "name" \notin Missing(R) /\ "url" \notin Missing(R) /\ "username" \notin Missing(R)
    BY <1>2, <1>3, MissingAre
  <2> QED
    BY <2>1, MissingAre
<1>4. ASSUME NEW d \in Missing(fs), d \notin S
      PROVE  d \in Missing(R)
  <2>1. d \in {"name", "url", "username"}
    BY MissingAre
  <2>2. CASE d = "name"
    BY <1>2, <1>4, <2>2, MissingAre
  <2>3. CASE d = "url"
    BY <1>2, <1>4, <2>3, MissingAre
  <2>4. CASE d = "username"
    BY <1>2, <1>4, <2>4, MissingAre
  <2> QED
    BY <2>1, <2>2, <2>3, <2>4
<1> QED
  BY <1>3, <1>4 DEF R

-----------------------------------------------------------------------------
(* Requests: merging outputs *)

(* Among indices there is always a first.                                  *)
LEMMA FirstSatisfying ==
  ASSUME NEW S \in SUBSET Nat, S # {}
  PROVE  \E x \in S : \A y \in S : x <= y
<1> DEFINE R == {ss \in Nat \X Nat : ss[1] < ss[2]}
<1>1. OpToRel(<, Nat) = R
  BY DEF OpToRel
<1>2. IsWellFoundedOn(R, Nat)
  BY <1>1, NatLessThanWellFounded, Zenon
<1> HIDE DEF R
<1>3. PICK x \in S : \A y \in S : <<y, x>> \notin R
  BY <1>2, WFMin
<1>4. \A y \in S : ~(y < x)
  BY <1>3 DEF R
<1> QED
  BY <1>4

(* There are finitely many references, as many as outputs if they differ.  *)
LEMMA RefsCounted ==
  ASSUME NEW n \in Nat, NEW outs, DOMAIN outs = 1 .. n
  PROVE  /\ IsFiniteSet(Refs(outs))
         /\ RefsDiffer(outs) => Cardinality(Refs(outs)) = n
<1> DEFINE f == [k \in 1 .. n |-> outs[k]["ref"]]
<1>1. IsFiniteSet(1 .. n) /\ Cardinality(1 .. n) = n
  BY FS_Interval
<1>2. f \in Surjection(1 .. n, Refs(outs))
  BY DEF Surjection, Refs
<1>3. RefsDiffer(outs) => f \in Injection(1 .. n, Refs(outs))
  BY DEF Injection, IsInjective, RefsDiffer, Refs
<1> HIDE DEF f
<1> QED
  BY <1>1, <1>2, <1>3, FS_Surjection

(* An order of finitely many references has each of them once.             *)
LEMMA OrdersAreComplete ==
  ASSUME NEW S, IsFiniteSet(S), NEW o \in Orders(S)
  PROVE  /\ Cardinality(S) \in Nat /\ Len(o) = Cardinality(S)
         /\ o \in [1 .. Cardinality(S) -> S]
         /\ \A j, k \in 1 .. Cardinality(S) : o[j] = o[k] => j = k
         /\ \A r \in S : \E j \in 1 .. Cardinality(S) : o[j] = r
<1> DEFINE M == Cardinality(S)
<1>1. M \in Nat /\ IsFiniteSet(1 .. M) /\ Cardinality(1 .. M) = M
  BY FS_CardinalityType, FS_Interval
<1>2. o \in [1 .. M -> S] /\ \A j, k \in 1 .. M : o[j] = o[k] => j = k
  BY DEF Orders
<1>3. Len(o) = M
  <2>1. o \in Seq(S)
    BY <1>1, <1>2, SeqDef
  <2> QED
    BY <1>1, <1>2, <2>1, LenProperties
<1>4. o \in Surjection(1 .. M, S)
  <2>1. o \in Injection(1 .. M, S)
    BY <1>2 DEF Injection, IsInjective
  <2> QED
    BY <1>1, <2>1, FS_Injection
<1> QED
  BY <1>1, <1>2, <1>3, <1>4 DEF Surjection

(* There is one.                                                           *)
LEMMA OrdersExist ==
  ASSUME NEW S, IsFiniteSet(S)
  PROVE  Orders(S) # {}
<1>1. PICK o : o \in Bijection(1 .. Cardinality(S), S)
  BY FS_CardinalityType DEF ExistsBijection
<1> QED
  BY <1>1 DEF Orders, Bijection, Injection, IsInjective

AllMerged(outs, items) ==
  [k \in DOMAIN outs |->
     LET old == outs[k] IN
     IF old["ref"] \in DOMAIN items THEN Merged(old, items[old["ref"]]) ELSE old]

(* After the first m references of the order, exactly the outputs that had *)
(* one of these are merged; so after all, in whatever order, all are.      *)
LEMMA MergesAtOnce ==
  ASSUME NEW n \in Nat, NEW outs, outs = [k \in 1 .. n |-> outs[k]], RefsDiffer(outs),
         NEW items, DOMAIN items \subseteq Refs(outs), NEW order \in Orders(DOMAIN items)
  PROVE  MergeOutputs(outs, items, order) = AllMerged(outs, items)
<1> DEFINE M == Cardinality(DOMAIN items)
<1>1. DOMAIN outs = 1 .. n
  OBVIOUS
<1>2. /\ M \in Nat /\ Len(order) = M
      /\ order \in [1 .. M -> DOMAIN items]
      /\ \A j, k \in 1 .. M : order[j] = order[k] => j = k
      /\ \A r \in DOMAIN items : \E j \in 1 .. M : order[j] = r
  <2>1. IsFiniteSet(DOMAIN items)
    BY <1>1, RefsCounted, FS_Subset
  <2> QED
    BY <2>1, OrdersAreComplete
<1> DEFINE I(r) == IndexOfRef(outs, r)
<1>3. \A r \in DOMAIN items : I(r) \in 1 .. n /\ outs[I(r)]["ref"] = r
  <2>1. ASSUME NEW r \in DOMAIN items
        PROVE  I(r) \in 1 .. n /\ outs[I(r)]["ref"] = r
    <3>1. \E k \in DOMAIN outs : outs[k]["ref"] = r
      BY DEF Refs
    <3> QED
      BY <1>1, <3>1 DEF IndexOfRef
  <2> QED
    BY <2>1
<1>4. \A r \in DOMAIN items, k \in 1 .. n : outs[k]["ref"] = r => k = I(r)
  BY <1>1, <1>3 DEF RefsDiffer
<1> HIDE DEF I
<1> DEFINE Part(m) == [k \in 1 .. n |->
                         IF \E j \in 1 .. m : order[j] = outs[k]["ref"]
                           THEN Merged(outs[k], items[outs[k]["ref"]]) ELSE outs[k]]
           Folded(m, g) == [g EXCEPT ![I(order[m])] = Merged(@, items[order[m]])]
           Body(g) == [m \in 0 .. M |-> IF m = 0 THEN outs ELSE Folded(m, g[m - 1])]
           F == [m \in 0 .. M |-> Part(m)]
<1>5. Part(0) = outs
  OBVIOUS
<1>6. ASSUME NEW m \in 1 .. M
      PROVE  Part(m) = Folded(m, Part(m - 1))
  <2> DEFINE r == order[m]
  <2>1. r \in DOMAIN items /\ I(r) \in 1 .. n /\ outs[I(r)]["ref"] = r
    BY <1>2, <1>3
  <2>2. \A j \in 1 .. m - 1 : order[j] # r
    BY <1>2
  <2>3. \A x : (\E j \in 1 .. m : order[j] = x) <=> (x = r \/ \E j \in 1 .. m - 1 : order[j] = x)
    BY <1>2
  <2>4. ASSUME NEW k \in 1 .. n
        PROVE  Part(m)[k] = IF k = I(r) THEN Merged(Part(m - 1)[k], items[r]) ELSE Part(m - 1)[k]
    <3>1. CASE k = I(r)
      <4>1. Part(m)[k] = Merged(outs[k], items[r]) /\ Part(m - 1)[k] = outs[k]
        BY <2>1, <2>2, <2>3, <3>1
      <4> QED
        BY <3>1, <4>1
    <3>2. CASE k # I(r)
      <4>1. outs[k]["ref"] # r
        BY <1>4, <2>1, <3>2
      <4> QED
        BY <2>3, <3>2, <4>1
    <3> QED
      BY <3>1, <3>2
  <2> DEFINE p == Part(m)
             q == Part(m - 1)
  <2>5. p = [k \in 1 .. n |-> p[k]] /\ DOMAIN q = 1 .. n
    OBVIOUS
  <2> HIDE DEF p, q
  <2>6. p = [q EXCEPT ![I(r)] = Merged(@, items[r])]
    <3>1. \A k \in 1 .. n : p[k] = IF k = I(r) THEN Merged(q[k], items[r]) ELSE q[k]
      BY <2>4 DEF p, q
    <3> QED
      BY <2>1, <2>5, <3>1
  <2> QED
    BY <2>6 DEF p, q
<1> HIDE DEF Part
<1>7. F = Body(F)
  <2>1. \A m \in 0 .. M : m # 0 => m \in 1 .. M /\ m - 1 \in 0 .. M
    BY <1>2
  <2>2. \A m \in 0 .. M : F[m] = IF m = 0 THEN outs ELSE Folded(m, F[m - 1])
    BY <1>5, <1>6, <2>1
  <2> QED
    BY <2>2
<1> DEFINE fold == CHOOSE g : g = Body(g)
<1>8. fold = Body(fold)
  BY <1>7
<1>9. MergeOutputs(outs, items, order) = fold[M]
  BY <1>2 DEF MergeOutputs, I
<1> HIDE DEF fold
<1>10. fold[M] = Part(M)
  <2> DEFINE Off == {m \in 0 .. M : fold[m] # Part(m)}
  <2>1. Off = {}
    <3> SUFFICES ASSUME Off # {}
                 PROVE  FALSE
      OBVIOUS
    <3>1. Off \in SUBSET Nat
      BY <1>2
    <3>2. PICK m \in Off : \A y \in Off : m <= y
      <4> HIDE DEF Off
      <4> QED
        BY <3>1, FirstSatisfying
    <3>3. m # 0
      BY <1>2, <1>5, <1>8, <3>2
    <3>4. m - 1 \in 0 .. M /\ m \in 1 .. M /\ m - 1 \notin Off
      BY <1>2, <3>2, <3>3
    <3>5. fold[m - 1] = Part(m - 1)
      BY <3>4
    <3>6. fold[m] = Folded(m, fold[m - 1])
      BY <1>8, <3>3, <3>4
    <3> QED
      BY <1>6, <3>2, <3>4, <3>5, <3>6
  <2> QED
    BY <1>2, <2>1
<1>11. Part(M) = AllMerged(outs, items)
  <2>1. \A x : (\E j \in 1 .. M : order[j] = x) <=> x \in DOMAIN items
    BY <1>2
  <2> QED
    BY <1>1, <2>1 DEF Part, AllMerged
<1> QED
  BY <1>9, <1>10, <1>11

-----------------------------------------------------------------------------
(* Requests: what is stored *)

Rows(outs) ==
  /\ \E n \in Nat : outs = [k \in 1 .. n |-> outs[k]]
  /\ \A k \in DOMAIN outs : outs[k] = [f \in OutFields |-> outs[k][f]]

IsChannel(ch) ==
  /\ ch = [fields |-> ch.fields, outputs |-> ch.outputs]
  /\ ch.fields = [f \in Fields |-> ch.fields[f]]
  /\ Rows(ch.outputs)

StoredIsValid == stored # Absent => IsChannel(stored) /\ Validate(stored)

(* What POST and PUT make of a request is a channel.                       *)
LEMMA RequestsMakeChannels ==
  ASSUME NEW req \in Creates \union Replaces
  PROVE  IsChannel(WithDefaults(req)) /\ IsChannel(Replacement(req))
<1>1. PICK n \in Nat : DOMAIN req.outputs = 1 .. n
  <2>1. req.outputs \in Seq([OutFields -> Words])
    BY RequestsAssumption
  <2> QED
    BY <2>1, LenProperties
<1>2. IsChannel(WithDefaults(req))
  <2> DEFINE ch == WithDefaults(req)
  <2>1. /\ ch.fields = [f \in Fields |->
                          IF req.fields[f] = "omitted" THEN Default(f) ELSE Value(req.fields[f])]
        /\ ch.outputs = [k \in 1 .. n |-> [f \in OutFields |->
             IF req.outputs[k][f] = "omitted" THEN OutDefault(f, k)
                                              ELSE Value(req.outputs[k][f])]]
        /\ ch = [fields |-> ch.fields, outputs |-> ch.outputs]
    BY <1>1 DEF WithDefaults
  <2> HIDE DEF ch
  <2>2. Rows(ch.outputs)
    BY <2>1 DEF Rows
  <2>3. IsChannel(ch)
    BY <2>1, <2>2 DEF IsChannel
  <2> QED
    BY <2>3 DEF ch
<1>3. IsChannel(Replacement(req))
  <2> DEFINE ch == Replacement(req)
  <2>1. /\ ch.fields = [f \in Fields |-> Value(req.fields[f])]
        /\ ch.outputs = [k \in 1 .. n |-> [f \in OutFields |-> Value(req.outputs[k][f])]]
        /\ ch = [fields |-> ch.fields, outputs |-> ch.outputs]
    BY <1>1 DEF Replacement
  <2> HIDE DEF ch
  <2>2. Rows(ch.outputs)
    BY <2>1 DEF Rows
  <2>3. IsChannel(ch)
    BY <2>1, <2>2 DEF IsChannel
  <2> QED
    BY <2>3 DEF ch
<1> QED
  BY <1>2, <1>3

(* MergeIsSimultaneous, of any channel whose references differ.            *)
LEMMA PatchMergesAtOnce ==
  ASSUME NEW ch, Rows(ch.outputs), RefsDiffer(ch.outputs),
         NEW req, req.form = "object", DOMAIN req.outputs \subseteq Refs(ch.outputs)
  PROVE  PatchedOutputs(ch, req) = {AllMerged(ch.outputs, req.outputs)}
<1> DEFINE outs == ch.outputs
           items == req.outputs
<1>1. PICK n \in Nat : outs = [k \in 1 .. n |-> outs[k]]
  BY DEF Rows
<1>2. DOMAIN outs = 1 .. n
  BY <1>1
<1>3. IsFiniteSet(DOMAIN items)
  BY <1>2, RefsCounted, FS_Subset
<1>4. PICK o : o \in Orders(DOMAIN items)
  BY <1>3, OrdersExist
<1>5. PatchedOutputs(ch, req) = {MergeOutputs(outs, items, p) : p \in Orders(DOMAIN items)}
  BY DEF PatchedOutputs
<1>6. \A p \in Orders(DOMAIN items) : MergeOutputs(outs, items, p) = AllMerged(outs, items)
  BY <1>1, MergesAtOnce
<1> QED
  BY <1>4, <1>5, <1>6

(* And so is what PATCH makes of a channel.                                *)
LEMMA PatchesMakeChannels ==
  ASSUME NEW ch, IsChannel(ch), RefsDiffer(ch.outputs), NEW req \in Patches, NEW kind,
         MayPatch(ch, req, kind), NEW outs \in PatchedOutputs(ch, req)
  PROVE  IsChannel([fields |-> Merged(ch.fields, req.fields), outputs |-> outs])
<1>1. req.form \in {"omitted", "null", "array", "object"} /\ req.form # "null"
  BY RequestsAssumption DEF MayPatch
<1>2. CASE req.form = "omitted"
  BY <1>2 DEF PatchedOutputs, IsChannel, Merged
<1>3. CASE req.form = "array"
  <2>1. PICK n \in Nat : DOMAIN req.outputs = 1 .. n
    <3>1. req.outputs \in Seq([OutFields -> Words])
      BY <1>3, RequestsAssumption
    <3> QED
      BY <3>1, LenProperties
  <2>2. outs = [k \in 1 .. n |-> [f \in OutFields |-> Value(req.outputs[k][f])]]
    BY <1>3, <2>1 DEF PatchedOutputs
  <2>3. Rows(outs)
    BY <2>2 DEF Rows
  <2> QED
    BY <2>3 DEF IsChannel, Merged
<1>4. CASE req.form = "object"
  <2>1. DOMAIN req.outputs \subseteq Refs(ch.outputs)
    BY <1>4 DEF MayPatch
  <2>2. outs = AllMerged(ch.outputs, req.outputs)
    BY <1>4, <2>1, PatchMergesAtOnce DEF IsChannel
  <2>3. PICK n \in Nat : ch.outputs = [k \in 1 .. n |-> ch.outputs[k]]
    BY DEF IsChannel, Rows
  <2>4. DOMAIN outs = 1 .. n /\ outs = [k \in 1 .. n |-> outs[k]]
    BY <2>2, <2>3 DEF AllMerged
  <2>5. ASSUME NEW k \in 1 .. n
        PROVE  outs[k] = [f \in OutFields |-> outs[k][f]]
    <3>1. ch.outputs[k] = [f \in OutFields |-> ch.outputs[k][f]]
      BY <2>3 DEF IsChannel, Rows
    <3>2. outs[k] = ch.outputs[k] \/ \E w : outs[k] = Merged(ch.outputs[k], w)
      BY <2>2, <2>3 DEF AllMerged
    <3>3. \A w : Merged(ch.outputs[k], w) = [f \in OutFields |-> Merged(ch.outputs[k], w)[f]]
      BY <3>1 DEF Merged
    <3> QED
      BY <3>1, <3>2, <3>3
  <2>6. Rows(outs)
    BY <2>4, <2>5 DEF Rows
  <2> QED
    BY <2>6 DEF IsChannel, Merged
<1> QED
  BY <1>1, <1>2, <1>3, <1>4

(* Every request that is not refused stores a channel that was validated.  *)
LEMMA OnlyValidIsStored == RequestsSpec => []StoredIsValid
<1>1. RequestsInit => StoredIsValid
  BY DEF RequestsInit, StoredIsValid
<1>2. StoredIsValid /\ [RequestsNext]_stored => StoredIsValid'
  <2> SUFFICES ASSUME StoredIsValid, [RequestsNext]_stored
               PROVE  StoredIsValid'
    OBVIOUS
  <2>1. ASSUME NEW req \in Creates, CreateChannel(req)
        PROVE  StoredIsValid'
    BY <2>1, RequestsMakeChannels DEF CreateChannel, StoredIsValid
  <2>2. ASSUME NEW req \in Replaces, ReplaceChannel(req)
        PROVE  StoredIsValid'
    BY <2>2, RequestsMakeChannels DEF ReplaceChannel, ReplaceAllowed, StoredIsValid
  <2>3. ASSUME NEW req \in Patches, NEW kind \in {Admins, Clients}, ModifyChannel(req, kind)
        PROVE  StoredIsValid'
    <3>1. PICK outs \in PatchedOutputs(stored, req) :
            LET ch == [fields |-> Merged(stored.fields, req.fields), outputs |-> outs]
            IN  Validate(ch) /\ stored' = ch
      BY <2>3 DEF ModifyChannel
    <3>2. IsChannel(stored) /\ RefsDiffer(stored.outputs) /\ MayPatch(stored, req, kind)
      BY <2>3 DEF ModifyChannel, StoredIsValid, Validate
    <3>3. IsChannel(stored')
      BY <3>1, <3>2, PatchesMakeChannels
    <3> QED
      BY <3>1, <3>3 DEF StoredIsValid
  <2>4. CASE DeleteChannel
    BY <2>4 DEF DeleteChannel, StoredIsValid, Absent
  <2>5. CASE UNCHANGED stored
    BY <2>5 DEF StoredIsValid
  <2> QED
    BY <2>1, <2>2, <2>3, <2>4, <2>5 DEF RequestsNext
<1> QED
  BY <1>1, <1>2, PTL DEF RequestsSpec

(* RulesEnforced: whatever requests led to a channel, it obeys the rules   *)
(* of the API (model.go:183), and what is refused for breaking them is     *)
(* told exactly what is missing.                                           *)
THEOREM RulesAreEnforced == RequestsSpec => []RulesEnforced
<1>1. StoredIsValid => StoredIsConsistent
  <2> SUFFICES ASSUME IsChannel(stored), Validate(stored)
               PROVE  StoredIsConsistent
    BY DEF StoredIsValid, StoredIsConsistent
  <2> DEFINE has(f) == stored.fields[f] # "nil"
  <2>1. \A f \in {"name", "url", "username", "password"} : IsSet(stored.fields, f) <=> has(f)
    BY DEF IsSet
  <2>2. IsSet(stored.fields, "enabled") <=> stored.fields["enabled"] = "true"
    BY DEF IsSet
  <2>3. Missing(stored.fields) = {}
    BY DEF Validate
  <2> HIDE DEF has
  <2>4. /\ stored.fields["enabled"] = "true" => has("name") /\ has("url")
        /\ has("url") => has("name")
        /\ has("username") => has("url")
        /\ has("password") => has("username")
    BY <2>1, <2>2, <2>3, MissingAre
  <2>5. Cardinality(Refs(stored.outputs)) = Len(stored.outputs)
    <3>1. PICK n \in Nat : stored.outputs = [k \in 1 .. n |-> stored.outputs[k]]
      BY DEF IsChannel, Rows
    <3> DEFINE S == {stored.outputs[k] : k \in 1 .. n}
               outs == stored.outputs
    <3>2. outs \in [1 .. n -> S] /\ DOMAIN outs = 1 .. n
      BY <3>1
    <3> HIDE DEF S, outs
    <3>3. Len(outs) = n
      <4>1. outs \in Seq(S)
        BY <3>2, SeqDef
      <4> QED
        BY <3>2, <4>1, LenProperties
    <3>4. RefsDiffer(outs)
      BY DEF Validate, outs
    <3>5. Cardinality(Refs(outs)) = n
      BY <3>2, <3>4, RefsCounted
    <3> QED
      BY <3>3, <3>5 DEF outs
  <2>6. \A k \in DOMAIN stored.outputs :
          stored.outputs[k]["enabled"] = "true" => stored.outputs[k]["url"] # "nil"
    BY DEF Validate
  <2> QED
    BY <2>4, <2>5, <2>6 DEF StoredIsConsistent, has
<1>2. MissingIsComplete
  BY RepairsAreComplete DEF MissingIsComplete
<1>3. StoredIsValid => RulesEnforced
  BY <1>1, <1>2 DEF RulesEnforced
<1> QED
  BY OnlyValidIsStored, <1>3, PTL

(* MergeIsSimultaneous: a PATCH changes all the outputs it names at once,  *)
(* by the references they had, in whatever order Go ranges over them and   *)
(* however many there are (channel_modify.go).                             *)
THEOREM MergesAreSimultaneous == RequestsSpec => []MergeIsSimultaneous
<1>1. StoredIsValid => MergeIsSimultaneous
  BY PatchMergesAtOnce DEF StoredIsValid, Validate, IsChannel, MergeIsSimultaneous, AllMerged
<1> QED
  BY OnlyValidIsStored, <1>1, PTL

-----------------------------------------------------------------------------
(* Requests: what is shown *)

\* The default names of outputs, the decimal numbers, are none of the words
\* that a request has for something else.
Numbered == \A k \in Nat : ToString(k) \notin {"omitted", "null", "nil"}

\* What a field may be, given those that may be null.
Holds(f, x, nullable) == x \notin {"omitted", "null"} /\ (x = "nil" => f \in nullable)

StoredIsWorded ==
  stored # Absent =>
    /\ \A f \in Fields : Holds(f, stored.fields[f], Nullable)
    /\ \A k \in DOMAIN stored.outputs :
         \A f \in OutFields : Holds(f, stored.outputs[k][f], OutNullable)

(* A word of a request, if null only where that is allowed.                *)
LEMMA ValuesHold ==
  ASSUME NEW f, NEW w \in Words, NEW nullable, w # "omitted", w = "null" => f \in nullable
  PROVE  Holds(f, Value(w), nullable)
BY DEF Words, Value, Holds

(* What PATCH leaves alone and what it sets.                               *)
LEMMA MergedHolds ==
  ASSUME NEW F, NEW nullable, NEW old, DOMAIN old = F, NEW w \in [F -> Words],
         \A f \in F : Holds(f, old[f], nullable), NullsAllowed(w, nullable)
  PROVE  \A f \in F : Holds(f, Merged(old, w)[f], nullable)
<1>1. ASSUME NEW f \in F
      PROVE  Holds(f, Merged(old, w)[f], nullable)
  <2>1. Merged(old, w)[f] = IF w[f] = "omitted" THEN old[f] ELSE Value(w[f])
    BY DEF Merged
  <2>2. w[f] \in Words /\ (w[f] = "null" => f \in nullable)
    BY DEF NullsAllowed
  <2> QED
    BY <2>1, <2>2, ValuesHold
<1> QED
  BY <1>1

(* What a channel is made of by POST and PUT.                              *)
LEMMA RequestsHold ==
  ASSUME Numbered, NEW req \in Creates \union Replaces, NullsAllowedIn(req)
  PROVE  /\ \A f \in Fields : Holds(f, WithDefaults(req).fields[f], Nullable)
         /\ \A k \in DOMAIN WithDefaults(req).outputs : \A f \in OutFields :
              Holds(f, WithDefaults(req).outputs[k][f], OutNullable)
         /\ Complete(req.fields) =>
              \A f \in Fields : Holds(f, Replacement(req).fields[f], Nullable)
         /\ (\A k \in DOMAIN req.outputs : Complete(req.outputs[k])) =>
              \A k \in DOMAIN Replacement(req).outputs : \A f \in OutFields :
                Holds(f, Replacement(req).outputs[k][f], OutNullable)
<1>1. /\ req.fields \in [Fields -> Words] /\ req.outputs \in Seq([OutFields -> Words])
      /\ \A k \in DOMAIN req.outputs : k \in Nat \ {0} /\ req.outputs[k] \in [OutFields -> Words]
  <2>1. req.fields \in [Fields -> Words] /\ req.outputs \in Seq([OutFields -> Words])
    BY RequestsAssumption
  <2> QED
    BY <2>1, LenProperties
<1>2. /\ \A f \in Fields : req.fields[f] = "null" => f \in Nullable
      /\ \A k \in DOMAIN req.outputs :
           \A f \in OutFields : req.outputs[k][f] = "null" => f \in OutNullable
  BY <1>1 DEF NullsAllowedIn, NullsAllowed
<1>3. ASSUME NEW f \in Fields
      PROVE  Holds(f, WithDefaults(req).fields[f], Nullable)
  <2>1. Holds(f, Default(f), Nullable)
    BY FieldsAssumption DEF Default, Holds, Nullable, Scalars
  <2>2. req.fields[f] # "omitted" => Holds(f, Value(req.fields[f]), Nullable)
    BY <1>1, <1>2, ValuesHold
  <2> QED
    BY <2>1, <2>2 DEF WithDefaults
<1>4. ASSUME NEW k \in DOMAIN req.outputs, NEW f \in OutFields
      PROVE  Holds(f, WithDefaults(req).outputs[k][f], OutNullable)
  <2>1. Holds(f, OutDefault(f, k), OutNullable)
    <3>1. k - 1 \in Nat
      BY <1>1
    <3> QED
      BY <3>1, FieldsAssumption DEF OutDefault, Holds, OutNullable, OutScalars, Numbered
  <2>2. req.outputs[k][f] # "omitted" => Holds(f, Value(req.outputs[k][f]), OutNullable)
    BY <1>1, <1>2, ValuesHold
  <2> QED
    BY <2>1, <2>2 DEF WithDefaults
<1>5. DOMAIN WithDefaults(req).outputs = DOMAIN req.outputs
  BY DEF WithDefaults
<1>6. ASSUME Complete(req.fields), NEW f \in Fields
      PROVE  Holds(f, Replacement(req).fields[f], Nullable)
  BY <1>1, <1>2, <1>6, ValuesHold DEF Replacement, Complete
<1>7. ASSUME NEW k \in DOMAIN req.outputs, Complete(req.outputs[k]), NEW f \in OutFields
      PROVE  Holds(f, Replacement(req).outputs[k][f], OutNullable)
  <2>1. Holds(f, Value(req.outputs[k][f]), OutNullable)
    BY <1>1, <1>2, <1>7, ValuesHold DEF Complete
  <2> QED
    BY <2>1 DEF Replacement
<1>8. DOMAIN Replacement(req).outputs = DOMAIN req.outputs
  BY DEF Replacement
<1> QED
  BY <1>3, <1>4, <1>5, <1>6, <1>7, <1>8

(* And by PATCH.                                                           *)
LEMMA PatchesHold ==
  ASSUME NEW ch, IsChannel(ch), RefsDiffer(ch.outputs), NEW req \in Patches, NEW kind,
         MayPatch(ch, req, kind), NEW outs \in PatchedOutputs(ch, req),
         \A k \in DOMAIN ch.outputs :
           \A f \in OutFields : Holds(f, ch.outputs[k][f], OutNullable)
  PROVE  \A k \in DOMAIN outs : \A f \in OutFields : Holds(f, outs[k][f], OutNullable)
<1>1. req.form \in {"omitted", "null", "array", "object"} /\ req.form # "null"
  BY RequestsAssumption DEF MayPatch
<1>2. CASE req.form = "omitted"
  BY <1>2 DEF PatchedOutputs
<1>3. CASE req.form = "array"
  <2>1. \A k \in DOMAIN req.outputs :
          /\ req.outputs[k] \in [OutFields -> Words]
          /\ NullsAllowed(req.outputs[k], OutNullable) /\ Complete(req.outputs[k])
    <3>1. req.outputs \in Seq([OutFields -> Words])
      BY <1>3, RequestsAssumption
    <3>2. \A k \in DOMAIN req.outputs : req.outputs[k] \in [OutFields -> Words]
      BY <3>1, LenProperties
    <3> QED
      BY <1>3, <3>2 DEF MayPatch
  <2>2. outs = [k \in DOMAIN req.outputs |-> [f \in OutFields |-> Value(req.outputs[k][f])]]
    BY <1>3 DEF PatchedOutputs
  <2>3. ASSUME NEW k \in DOMAIN req.outputs, NEW f \in OutFields
        PROVE  Holds(f, Value(req.outputs[k][f]), OutNullable)
    BY <2>1, ValuesHold DEF NullsAllowed, Complete
  <2> QED
    BY <2>2, <2>3
<1>4. CASE req.form = "object"
  <2>1. DOMAIN req.outputs \subseteq Refs(ch.outputs)
    BY <1>4 DEF MayPatch
  <2>2. outs = AllMerged(ch.outputs, req.outputs)
    BY <1>4, <2>1, PatchMergesAtOnce DEF IsChannel
  <2>3. \A r \in DOMAIN req.outputs :
          req.outputs[r] \in [OutFields -> Words] /\ NullsAllowed(req.outputs[r], OutNullable)
    BY <1>4, RequestsAssumption DEF MayPatch
  <2>4. ASSUME NEW k \in DOMAIN ch.outputs, NEW f \in OutFields
        PROVE  Holds(f, outs[k][f], OutNullable)
    <3> DEFINE old == ch.outputs[k]
               r == old["ref"]
    <3>1. DOMAIN old = OutFields
      BY DEF IsChannel, Rows
    <3>2. CASE r \in DOMAIN req.outputs
      <4>1. outs[k] = Merged(old, req.outputs[r])
        BY <2>2, <3>2 DEF AllMerged
      <4>2. req.outputs[r] \in [OutFields -> Words] /\ NullsAllowed(req.outputs[r], OutNullable)
        BY <2>3, <3>2
      <4>3. \A g \in OutFields : Holds(g, old[g], OutNullable)
        OBVIOUS
      <4> HIDE DEF old, r
      <4> QED
        BY <3>1, <4>1, <4>2, <4>3, MergedHolds
    <3>3. CASE r \notin DOMAIN req.outputs
      BY <2>2, <3>3 DEF AllMerged
    <3> QED
      BY <3>2, <3>3
  <2> QED
    BY <2>2, <2>4 DEF AllMerged
<1> QED
  BY <1>1, <1>2, <1>3, <1>4

(* Nothing that is stored reads as omitted or null, and only what may be   *)
(* null is nil.                                                            *)
LEMMA OnlyWordsAreStored ==
  ASSUME Numbered
  PROVE  RequestsSpec => []StoredIsWorded
<1>1. RequestsInit => StoredIsWorded
  BY DEF RequestsInit, StoredIsWorded
<1>2. StoredIsValid /\ StoredIsWorded /\ [RequestsNext]_stored => StoredIsWorded'
  <2> SUFFICES ASSUME StoredIsValid, StoredIsWorded, [RequestsNext]_stored
               PROVE  StoredIsWorded'
    OBVIOUS
  <2>1. ASSUME NEW req \in Creates, CreateChannel(req)
        PROVE  StoredIsWorded'
    <3>1. NullsAllowedIn(req) /\ stored' = WithDefaults(req)
      BY <2>1 DEF CreateChannel
    <3> QED
      BY <3>1, RequestsHold DEF StoredIsWorded
  <2>2. ASSUME NEW req \in Replaces, ReplaceChannel(req)
        PROVE  StoredIsWorded'
    <3>1. /\ Complete(req.fields) /\ \A k \in DOMAIN req.outputs : Complete(req.outputs[k])
          /\ NullsAllowedIn(req) /\ stored' = Replacement(req)
      BY <2>2 DEF ReplaceChannel, ReplaceAllowed
    <3> QED
      BY <3>1, RequestsHold DEF StoredIsWorded
  <2>3. ASSUME NEW req \in Patches, NEW kind \in {Admins, Clients}, ModifyChannel(req, kind)
        PROVE  StoredIsWorded'
    <3>1. PICK outs \in PatchedOutputs(stored, req) :
            stored' = [fields |-> Merged(stored.fields, req.fields), outputs |-> outs]
      BY <2>3 DEF ModifyChannel
    <3>2. /\ stored # Absent /\ MayPatch(stored, req, kind)
          /\ IsChannel(stored) /\ RefsDiffer(stored.outputs)
      BY <2>3 DEF ModifyChannel, StoredIsValid, Validate
    <3>3. \A k \in DOMAIN outs : \A f \in OutFields : Holds(f, outs[k][f], OutNullable)
      BY <3>2, PatchesHold DEF StoredIsWorded
    <3>4. \A f \in Fields : Holds(f, Merged(stored.fields, req.fields)[f], Nullable)
      <4>1. /\ DOMAIN stored.fields = Fields /\ req.fields \in [Fields -> Words]
            /\ NullsAllowed(req.fields, Nullable)
        BY <3>2, RequestsAssumption DEF IsChannel, MayPatch
      <4>2. \A f \in Fields : Holds(f, stored.fields[f], Nullable)
        BY <3>2 DEF StoredIsWorded
      <4> QED
        BY <4>1, <4>2, MergedHolds
    <3> QED
      BY <3>1, <3>3, <3>4 DEF StoredIsWorded
  <2>4. CASE DeleteChannel
    BY <2>4 DEF DeleteChannel, StoredIsWorded
  <2>5. CASE UNCHANGED stored
    BY <2>5 DEF StoredIsWorded
  <2> QED
    BY <2>1, <2>2, <2>3, <2>4, <2>5 DEF RequestsNext
<1> QED
  BY <1>1, <1>2, OnlyValidIsStored, PTL DEF RequestsSpec

\* What is written for a value is read as that value.
ReadsBack(fs, nullable) ==
  /\ DOMAIN Written(fs) = DOMAIN fs
  /\ \A f \in DOMAIN fs : Value(Written(fs)[f]) = fs[f] /\ Written(fs)[f] # "omitted"
  /\ NullsAllowed(Written(fs), nullable) /\ Complete(Written(fs))

(* Fields that hold nil only where null is allowed read back.              *)
LEMMA WrittenIsRead ==
  ASSUME NEW fs, NEW nullable, \A f \in DOMAIN fs : Holds(f, fs[f], nullable)
  PROVE  ReadsBack(fs, nullable)
<1> DEFINE F == DOMAIN fs
<1>1. DOMAIN Written(fs) = F
  BY DEF Written
<1>2. \A f \in F : Written(fs)[f] = IF fs[f] = "nil" THEN "null" ELSE fs[f]
  BY DEF Written
<1>3. \A f \in F : Value(Written(fs)[f]) = fs[f] /\ Written(fs)[f] # "omitted"
  BY <1>2 DEF Value, Holds
<1>4. \A f \in F : Written(fs)[f] = "null" => f \in nullable
  BY <1>2 DEF Holds
<1> QED
  BY <1>1, <1>3, <1>4 DEF ReadsBack, NullsAllowed, Complete

(* What is shown has an id, and is refused with it.                        *)
LEMMA IdsAreRefused ==
  ASSUME NEW ch
  PROVE  /\ ~ReplaceAllowed(AdminView(ch)) /\ ~MayPatch(ch, AdminView(ch), Admins)
         /\ ~MayPatch(ch, ClientView(ch), Clients)
<1>1. AdminView(ch).id # "omitted" /\ ClientView(ch).id # "omitted"
  BY DEF AdminView, ClientView
<1> QED
  BY <1>1 DEF ReplaceAllowed, MayPatch, Binds

(* An admin can send back what it was shown, with PUT and PATCH.           *)
LEMMA AdminsWriteBack ==
  ASSUME NEW ch, IsChannel(ch), Validate(ch),
         \A f \in Fields : Holds(f, ch.fields[f], Nullable),
         \A k \in DOMAIN ch.outputs : \A f \in OutFields : Holds(f, ch.outputs[k][f], OutNullable)
  PROVE  LET sent == WithoutId(AdminView(ch))
         IN  /\ ReplaceAllowed(sent) /\ Replacement(sent) = ch
             /\ MayPatch(ch, sent, Admins)
             /\ Merged(ch.fields, sent.fields) = ch.fields
             /\ PatchedOutputs(ch, sent) = {ch.outputs}
<1> DEFINE view == WithoutId(AdminView(ch))
<1>1. /\ view.fields = Written(ch.fields) /\ view.form = "array"
      /\ view.outputs = [k \in DOMAIN ch.outputs |-> Written(ch.outputs[k])]
      /\ Binds(view)
  BY DEF AdminView, WithoutId, Binds
<1> HIDE DEF view
<1>2. /\ ch = [fields |-> ch.fields, outputs |-> ch.outputs]
      /\ ch.fields = [f \in Fields |-> ch.fields[f]]
      /\ ch.outputs = [k \in DOMAIN ch.outputs |-> ch.outputs[k]]
      /\ \A k \in DOMAIN ch.outputs : ch.outputs[k] = [f \in OutFields |-> ch.outputs[k][f]]
  BY DEF IsChannel, Rows
<1>3. /\ \A f \in Fields : Value(view.fields[f]) = ch.fields[f] /\ view.fields[f] # "omitted"
      /\ NullsAllowed(view.fields, Nullable) /\ Complete(view.fields)
  <2>1. DOMAIN ch.fields = Fields
    BY <1>2
  <2>2. ReadsBack(ch.fields, Nullable)
    BY <2>1, WrittenIsRead
  <2> QED
    BY <1>1, <2>1, <2>2 DEF ReadsBack
<1>4. DOMAIN view.outputs = DOMAIN ch.outputs
  BY <1>1
<1>5. ASSUME NEW k \in DOMAIN ch.outputs
      PROVE  /\ \A f \in OutFields : Value(view.outputs[k][f]) = ch.outputs[k][f]
             /\ NullsAllowed(view.outputs[k], OutNullable) /\ Complete(view.outputs[k])
  <2>1. view.outputs[k] = Written(ch.outputs[k])
    BY <1>1
  <2>2. /\ DOMAIN ch.outputs[k] = OutFields
        /\ \A f \in OutFields : Holds(f, ch.outputs[k][f], OutNullable)
    BY <1>2
  <2>3. ReadsBack(ch.outputs[k], OutNullable)
    BY <2>2, WrittenIsRead
  <2> QED
    BY <2>1, <2>2, <2>3 DEF ReadsBack
<1>6. [f \in Fields |-> Value(view.fields[f])] = ch.fields
  BY <1>2, <1>3
<1>7. [k \in DOMAIN view.outputs |-> [f \in OutFields |-> Value(view.outputs[k][f])]] = ch.outputs
  <2>1. ASSUME NEW k \in DOMAIN ch.outputs
        PROVE  [f \in OutFields |-> Value(view.outputs[k][f])] = ch.outputs[k]
    BY <1>2, <1>5
  <2> QED
    BY <1>2, <1>4, <2>1
<1>8. Replacement(view) = ch
  BY <1>2, <1>6, <1>7 DEF Replacement
<1>9. ReplaceAllowed(view)
  BY <1>1, <1>3, <1>4, <1>5, <1>8 DEF ReplaceAllowed, NullsAllowedIn
<1>10. MayPatch(ch, view, Admins)
  BY <1>1, <1>3, <1>4, <1>5 DEF MayPatch, Admins, Clients
<1>11. PatchedOutputs(ch, view) = {ch.outputs}
  BY <1>1, <1>7 DEF PatchedOutputs
<1>12. Merged(ch.fields, view.fields) = ch.fields
  BY <1>2, <1>3 DEF Merged
<1> QED
  BY <1>8, <1>9, <1>10, <1>11, <1>12 DEF view

(* And a client what it was shown, with PATCH.                             *)
LEMMA ClientsWriteBack ==
  ASSUME NEW ch, IsChannel(ch), RefsDiffer(ch.outputs), ch.outputs # <<>>,
         \A f \in Fields : Holds(f, ch.fields[f], Nullable),
         \A k \in DOMAIN ch.outputs : \A f \in OutFields : Holds(f, ch.outputs[k][f], OutNullable)
  PROVE  LET sent == WithoutId(ClientView(ch))
         IN  /\ MayPatch(ch, sent, Clients)
             /\ Merged(ch.fields, sent.fields) = ch.fields
             /\ PatchedOutputs(ch, sent) = {ch.outputs}
<1> DEFINE view == WithoutId(ClientView(ch))
           outs == ch.outputs
           Shown == Refs(outs) \intersect ClientRefs
<1>1. /\ view.fields = [f \in Fields |->
                          IF f \in ClientFields THEN Written(ch.fields)[f] ELSE "omitted"]
      /\ view.form = "object"
      /\ view.outputs = [r \in Shown |->
           [OutSilent EXCEPT !["enabled"] = outs[IndexOfRef(outs, r)]["enabled"]]]
      /\ Binds(view)
  BY DEF ClientView, WithoutId, Binds
<1> HIDE DEF view
<1>2. /\ ch.fields = [f \in Fields |-> ch.fields[f]]
      /\ outs = [k \in DOMAIN outs |-> outs[k]]
      /\ \A k \in DOMAIN outs : outs[k] = [f \in OutFields |-> outs[k][f]]
  BY DEF IsChannel, Rows
<1>3. \A f \in Fields :
        /\ Value(Written(ch.fields)[f]) = ch.fields[f] /\ Written(ch.fields)[f] # "omitted"
        /\ Written(ch.fields)[f] = "null" => f \in Nullable
  <2>1. DOMAIN ch.fields = Fields
    BY <1>2
  <2>2. ReadsBack(ch.fields, Nullable)
    BY <2>1, WrittenIsRead
  <2> QED
    BY <2>1, <2>2 DEF ReadsBack, NullsAllowed
<1>4. NullsAllowed(view.fields, Nullable)
  BY <1>1, <1>3 DEF NullsAllowed
<1>5. Merged(ch.fields, view.fields) = ch.fields
  <2>1. DOMAIN ch.fields = Fields
    BY <1>2
  <2>2. \A f \in Fields :
          (IF view.fields[f] = "omitted" THEN ch.fields[f] ELSE Value(view.fields[f])) = ch.fields[f]
    BY <1>1, <1>3
  <2> QED
    BY <1>2, <2>1, <2>2 DEF Merged
<1>6. ASSUME NEW k \in DOMAIN outs, outs[k]["ref"] \in Shown
      PROVE  LET w == view.outputs[outs[k]["ref"]] IN
             \A f \in OutFields : w[f] = IF f = "enabled" THEN outs[k]["enabled"] ELSE "omitted"
  <2>1. IndexOfRef(outs, outs[k]["ref"]) = k
    <3> DEFINE i == IndexOfRef(outs, outs[k]["ref"])
    <3>1. i \in DOMAIN outs /\ outs[i]["ref"] = outs[k]["ref"]
      BY DEF IndexOfRef
    <3> HIDE DEF i
    <3>2. i = k
      BY <3>1 DEF RefsDiffer
    <3> QED
      BY <3>2 DEF i
  <2> DEFINE r == outs[k]["ref"]
  <2>2. view.outputs[r] = [OutSilent EXCEPT !["enabled"] = outs[k]["enabled"]]
    <3>1. view.outputs[r] = [OutSilent EXCEPT !["enabled"] = outs[IndexOfRef(outs, r)]["enabled"]]
      BY <1>1, <1>6
    <3> QED
      BY <2>1, <3>1
  <2> QED
    BY <2>2, FieldsAssumption DEF OutSilent
<1>7. \A r \in Shown : \E k \in DOMAIN outs : r = outs[k]["ref"]
  BY DEF Refs
<1>8. \A k \in DOMAIN outs :
        outs[k]["enabled"] # "null" /\ outs[k]["enabled"] # "omitted" /\ outs[k]["enabled"] # "nil"
  BY FieldsAssumption DEF Holds, OutNullable
<1>9. ASSUME NEW r \in Shown
      PROVE  /\ r \in Refs(outs) /\ r \in ClientRefs
             /\ NullsAllowed(view.outputs[r], OutNullable)
             /\ \A f \in OutFields \ {"enabled"} : view.outputs[r][f] = "omitted"
  <2>1. PICK k \in DOMAIN outs : r = outs[k]["ref"]
    BY <1>7
  <2>2. \A f \in OutFields :
          view.outputs[r][f] = IF f = "enabled" THEN outs[k]["enabled"] ELSE "omitted"
    BY <1>6, <2>1
  <2>3. DOMAIN view.outputs[r] = OutFields
    BY <1>1 DEF OutSilent
  <2> QED
    BY <1>8, <2>2, <2>3 DEF NullsAllowed
<1>10. DOMAIN view.outputs = Shown
  BY <1>1
<1>11. MayPatch(ch, view, Clients)
  BY <1>1, <1>4, <1>9, <1>10 DEF MayPatch
<1>12. AllMerged(outs, view.outputs) = outs
  <2>1. ASSUME NEW k \in DOMAIN outs, outs[k]["ref"] \in Shown
        PROVE  Merged(outs[k], view.outputs[outs[k]["ref"]]) = outs[k]
    <3> DEFINE w == view.outputs[outs[k]["ref"]]
    <3>1. \A f \in OutFields : w[f] = IF f = "enabled" THEN outs[k]["enabled"] ELSE "omitted"
      BY <1>6, <2>1
    <3>2. DOMAIN outs[k] = OutFields
      BY <1>2
    <3> HIDE DEF w
    <3>3. \A f \in OutFields : (IF w[f] = "omitted" THEN outs[k][f] ELSE Value(w[f])) = outs[k][f]
      BY <1>8, <3>1 DEF Value
    <3>4. Merged(outs[k], w) = outs[k]
      BY <1>2, <3>2, <3>3 DEF Merged
    <3> QED
      BY <3>4 DEF w
  <2> QED
    BY <1>2, <1>10, <2>1 DEF AllMerged
<1>13. PatchedOutputs(ch, view) = {outs}
  <2>1. DOMAIN view.outputs \subseteq Refs(outs) /\ Rows(outs)
    BY <1>10 DEF IsChannel
  <2> QED
    BY <1>1, <1>12, <2>1, PatchMergesAtOnce
<1> QED
  BY <1>5, <1>11, <1>13 DEF view

(* ReadsCanBeWrittenBack: what a GET shows (transformers.go:5) is refused  *)
(* when it is sent back with its id, and without it is accepted and        *)
(* changes nothing, for all fields and however many outputs.               *)
THEOREM ReadsGoBack ==
  ASSUME Numbered
  PROVE  RequestsSpec => []ReadsCanBeWrittenBack
<1>1. StoredIsValid /\ StoredIsWorded => ReadsCanBeWrittenBack
  <2> SUFFICES ASSUME stored # Absent, StoredIsValid, StoredIsWorded
               PROVE  ReadsCanBeWrittenBack
    BY DEF ReadsCanBeWrittenBack
  <2>1. IsChannel(stored) /\ Validate(stored) /\ RefsDiffer(stored.outputs)
    BY DEF StoredIsValid, Validate
  <2>2. /\ \A f \in Fields : Holds(f, stored.fields[f], Nullable)
        /\ \A k \in DOMAIN stored.outputs :
             \A f \in OutFields : Holds(f, stored.outputs[k][f], OutNullable)
    BY DEF StoredIsWorded
  <2> QED
    BY <2>1, <2>2, IdsAreRefused, AdminsWriteBack, ClientsWriteBack DEF ReadsCanBeWrittenBack
<1> QED
  BY OnlyValidIsStored, OnlyWordsAreStored, <1>1, PTL

-----------------------------------------------------------------------------
(* Summaries                                                               *)
(*                                                                         *)
(* No answer names its place in the history, so the invariant says what    *)
(* each piece of data is known to be newer than: a snapshot that is cached *)
(* or fetched is at least as new as whatever anybody was given before.     *)
(* That is kept because only one flight fetches at a time (Flights).       *)

Answers == [kind : {"none", "ok", "failed"}, stamp : Nat, data : Nat]
Flying == {"check", "list", "fetch", "end"}
Places == Flying \union {"idle", "invalidate", "get", "slow", "wait", "answered"}

SummaryTypes ==
  /\ allowStale \in BOOLEAN /\ fresh \in BOOLEAN
  /\ cache \in Answers /\ ans \in [Requests -> Answers]
  /\ flight \in Requests \union {None}
  /\ pc \in [Requests -> Places]
  /\ lead \in [Requests -> Requests \union {None}]
  /\ changes \in Nat /\ served \in Nat
  /\ floor \in [Requests -> Nat] /\ base \in [Requests -> Nat]

\* One flight at a time, and who waits waits for it.
Flights ==
  /\ \A r \in Requests : pc[r] \in Flying => flight = r
  /\ \A r \in Requests : pc[r] = "wait" => flight # None
  /\ \A r \in Requests : lead[r] = IF pc[r] \in Flying \union {"wait"} THEN flight ELSE None

\* Nobody was given anything newer than d.
Covers(d) ==
  /\ served <= d
  /\ \A q \in Requests : Answered(q) => ans[q].data <= d

\* Nobody is owed anything newer than d.
Settles(d) == \A q \in Requests : base[q] <= d

\* A snapshot is honest and not from the future.
Honest(a) == a.kind = "ok" /\ a.stamp <= a.data /\ a.data <= changes

Past ==
  /\ Covers(changes) /\ Settles(changes)
  /\ \A r \in Requests : floor[r] <= served

Cached ==
  /\ cache # NoAnswer => Honest(cache) /\ Covers(cache.data)
  /\ fresh => cache # NoAnswer /\ Settles(cache.data)

Listing(r) == pc[r] = "list" => ans[r].kind = "ok" /\ ans[r].stamp <= changes

Fetching(r) ==
  pc[r] = "fetch" =>
    /\ Honest(ans[r]) /\ Covers(ans[r].data) /\ Settles(ans[r].data)
    /\ cache # NoAnswer => cache.data <= ans[r].data

Ending(r) ==
  pc[r] = "end" /\ ans[r].kind = "ok" =>
    /\ Honest(ans[r]) /\ Covers(ans[r].data)
    /\ ~allowStale => Settles(ans[r].data)
    /\ cache # NoAnswer => cache = ans[r]

SummariesHold ==
  /\ SummaryTypes /\ Flights /\ Past /\ Cached
  /\ \A r \in Requests : Listing(r) /\ Fetching(r) /\ Ending(r)
  /\ SummariesAreCurrent /\ ExpiredIsNotServed

(* Nothing is cached, served or under way at the start.                    *)
LEMMA SummariesHoldInit == Init => SummariesHold
<1> SUFFICES ASSUME Init
             PROVE  SummariesHold
  OBVIOUS
<1> USE DEF Init, Answer, NoAnswer
<1>1. SummaryTypes
  BY DEF SummaryTypes, Answers, Flying, Places
<1>2. Flights
  BY DEF Flights, Flying
<1>3. \A q \in Requests : ~Answered(q)
  BY DEF Answered
<1>4. Past /\ Cached
  BY <1>3 DEF Past, Cached, Covers, Settles
<1>5. \A q \in Requests : Listing(q) /\ Fetching(q) /\ Ending(q)
  BY DEF Listing, Fetching, Ending
<1>6. SummariesAreCurrent /\ ExpiredIsNotServed
  BY <1>3 DEF SummariesAreCurrent, ReadsAreMonotonic, StampIsCovered, ExpiredIsNotServed
<1> QED
  BY <1>1, <1>2, <1>4, <1>5, <1>6 DEF SummariesHold

(* Every step of a request keeps it, and so do changes and the clock.      *)
LEMMA SummariesHoldNext == SummariesHold /\ [Next]_vars => SummariesHold'
<1> SUFFICES ASSUME SummariesHold, [Next]_vars
             PROVE  SummariesHold'
  OBVIOUS
<1> USE NoneAssumption
    DEF SummariesHold, SummaryTypes, Flights, Past, Cached, Covers, Settles, Honest, Listing, Fetching, Ending,
        SummariesAreCurrent, ReadsAreMonotonic, StampIsCovered, ExpiredIsNotServed,
        Answers, Answer, NoAnswer, Answered, Flying, Places, Goto, store, history
<1>1. ASSUME NEW r \in Requests, Arrive(r)
      PROVE  SummariesHold'
  BY <1>1 DEF Arrive, Quiet
<1>2. ASSUME NEW r \in Requests, Invalidate(r)
      PROVE  SummariesHold'
  <2> USE <1>2 DEF Invalidate
  <2>1. SummaryTypes'
    OBVIOUS
  <2>2. Flights'
    OBVIOUS
  <2>3. Past' /\ Cached'
    OBVIOUS
  <2>4. \A q \in Requests : Listing(q)' /\ Fetching(q)'
    OBVIOUS
  <2>5. \A q \in Requests : Ending(q)'
    OBVIOUS
  <2>6. SummariesAreCurrent' /\ ExpiredIsNotServed'
    OBVIOUS
  <2> QED
    BY <2>1, <2>2, <2>3, <2>4, <2>5, <2>6
<1>3. ASSUME NEW r \in Requests, FastHit(r)
      PROVE  SummariesHold'
  BY <1>3 DEF FastHit, HasFresh
<1>4. ASSUME NEW r \in Requests, FastMiss(r)
      PROVE  SummariesHold'
  BY <1>4 DEF FastMiss, HasFresh
<1>5. ASSUME NEW r \in Requests, Return(r)
      PROVE  SummariesHold'
  BY <1>5 DEF Return
<1>6. ASSUME NEW r \in Requests, Lead(r)
      PROVE  SummariesHold'
  BY <1>6 DEF Lead
<1>7. ASSUME NEW r \in Requests, Join(r)
      PROVE  SummariesHold'
  BY <1>7 DEF Join
<1>8. ASSUME NEW r \in Requests, CheckHit(r)
      PROVE  SummariesHold'
  BY <1>8 DEF CheckHit, HasFresh
<1>9. ASSUME NEW r \in Requests, CheckMiss(r)
      PROVE  SummariesHold'
  BY <1>9 DEF CheckMiss, HasFresh
<1>10. ASSUME NEW r \in Requests, ListChannels(r)
      PROVE  SummariesHold'
  BY <1>10 DEF ListChannels
<1>11. ASSUME NEW r \in Requests, RefreshFails(r)
      PROVE  SummariesHold'
  BY <1>11 DEF RefreshFails
<1>12. ASSUME NEW r \in Requests, Publish(r)
      PROVE  SummariesHold'
  BY <1>12 DEF Publish
<1>13. ASSUME NEW r \in Requests, FlightEnds(r)
      PROVE  SummariesHold'
  BY <1>13 DEF FlightEnds
<1>14. CASE Change
  BY <1>14 DEF Change
<1>15. CASE Expire
  BY <1>15 DEF Expire
<1>16. CASE UNCHANGED vars
  BY <1>16 DEF vars
<1> QED
  BY <1>1, <1>2, <1>3, <1>4, <1>5, <1>6, <1>7, <1>8, <1>9, <1>10, <1>11, <1>12, <1>13, <1>14, <1>15, <1>16
     DEF Next, Step

(* SummariesAreCurrent: reads never go back in time and stamps are honest, *)
(* however refreshes, expiries and invalidations interleave.               *)
THEOREM SummariesStayCurrent == Spec => []SummariesAreCurrent
<1>1. SummariesHold => SummariesAreCurrent
  BY DEF SummariesHold
<1> QED
  BY SummariesHoldInit, SummariesHoldNext, <1>1, PTL DEF Spec

(* ExpiredIsNotServed: what was read before a request is not served to it  *)
(* once nothing fresh is cached and no refresh is under way.               *)
THEOREM ExpiredIsNeverServed == Spec => []ExpiredIsNotServed
<1>1. SummariesHold => ExpiredIsNotServed
  BY DEF SummariesHold
<1> QED
  BY SummariesHoldInit, SummariesHoldNext, <1>1, PTL DEF Spec

-----------------------------------------------------------------------------
(* Remux: the two reads of a refresh *)

IsOnlineIn(id) == summary[id].status = Online

(* What was held since a refresh began includes what is held now; between  *)
(* its two reads, the ids asked for are those that were found online.      *)
RemuxHolds ==
  /\ keys = [k \in Keys |-> keys[k]]
  /\ step # "idle" => wanted \subseteq RemuxIds /\ Current \subseteq held
  /\ step = "blobs" =>
       /\ DOMAIN summary \subseteq wanted
       /\ \A id \in DOMAIN summary :
            /\ summary[id] = [status |-> summary[id].status, ifmt |-> Nil, metrics |-> Nil]
            /\ <<<<"status", id>>, summary[id].status>> \in held
       /\ online \in Seq(RemuxIds)
       /\ \A k \in DOMAIN online : online[k] \in DOMAIN summary /\ IsOnlineIn(online[k])
       /\ \A id \in DOMAIN summary : IsOnlineIn(id) => \E k \in DOMAIN online : online[k] = id
  /\ SummariesBelong

(* A finite set written as a sequence: all of it and nothing else.         *)
LEMMA SequencesAreComplete ==
  ASSUME NEW S, IsFiniteSet(S), NEW s \in SeqOps!SetToSeqs(S)
  PROVE  /\ s \in Seq(S)
         /\ \A k \in DOMAIN s : s[k] \in S
         /\ \A x \in S : \E k \in DOMAIN s : s[k] = x
<1> DEFINE D == 1 .. Cardinality(S)
<1>1. Cardinality(S) \in Nat /\ IsFiniteSet(D) /\ Cardinality(D) = Cardinality(S)
  BY FS_CardinalityType, FS_Interval
<1>2. s \in [D -> S] /\ \A i, j \in D : i # j => s[i] # s[j]
  BY DEF SeqOps!SetToSeqs, SeqOps!Cardinality, Cardinality, SeqOps!IsFiniteSet, IsFiniteSet
<1>3. s \in Surjection(D, S)
  <2>1. s \in Injection(D, S)
    BY <1>2 DEF Injection, IsInjective
  <2> QED
    BY <1>1, <2>1, FS_Injection
<1>4. s \in Seq(S)
  BY <1>1, <1>2, SeqDef
<1> QED
  BY <1>2, <1>3, <1>4 DEF Surjection

(* The answer about the k-th id is the 2k-1st and the 2k-th value.         *)
LEMMA BlobsAreInTurn ==
  ASSUME NEW k \in DOMAIN online, online \in Seq(RemuxIds)
  PROVE  Blobs[2 * k - 1] = keys[<<"ifmt", online[k]>>] /\ Blobs[2 * k] = keys[<<"metrics", online[k]>>]
<1>1. k \in 1 .. Len(online) /\ Len(online) \in Nat
  BY LenProperties
<1>2. /\ 2 * k - 1 \in 1 .. 2 * Len(online) /\ 2 * k \in 1 .. 2 * Len(online)
      /\ (2 * k - 1) % 2 = 1 /\ (2 * k) % 2 = 0
      /\ ((2 * k - 1) + 1) \div 2 = k /\ (2 * k + 1) \div 2 = k
  <2>1. \A a, b \in Nat : a \in 1 .. b =>
          /\ 2 * a - 1 \in 1 .. 2 * b /\ 2 * a \in 1 .. 2 * b
          /\ (2 * a - 1) % 2 = 1 /\ (2 * a) % 2 = 0
          /\ ((2 * a - 1) + 1) \div 2 = a /\ (2 * a + 1) \div 2 = a
    <3>1. \A a, b \in Nat : a \in 1 .. b => 2 * a - 1 \in 1 .. 2 * b /\ 2 * a \in 1 .. 2 * b
      OBVIOUS
    <3>2. \A a \in Nat : (2 * a - 1) % 2 = 1 /\ (2 * a) % 2 = 0
      BY SMT
    <3>3. \A a \in Nat : ((2 * a - 1) + 1) \div 2 = a /\ (2 * a + 1) \div 2 = a
      BY SMT
    <3> QED
      BY <3>1, <3>2, <3>3
  <2>2. k \in Nat /\ Len(online) \in Nat /\ k \in 1 .. Len(online)
    BY <1>1
  <2> QED
    BY <2>1, <2>2, Zenon
<1> DEFINE B(j) == keys[<<IF j % 2 = 1 THEN "ifmt" ELSE "metrics", online[(j + 1) \div 2]>>]
<1>3. \A j \in 1 .. 2 * Len(online) : Blobs[j] = B(j)
  BY DEF Blobs
<1>4. Blobs[2 * k - 1] = B(2 * k - 1) /\ Blobs[2 * k] = B(2 * k)
  <2> HIDE DEF B
  <2> QED
    BY <1>2, <1>3
<1>5. B(2 * k - 1) = keys[<<"ifmt", online[k]>>]
  BY <1>2
<1>6. B(2 * k) = keys[<<"metrics", online[k]>>]
  <2>1. ~(2 * k) % 2 = 1
    BY <1>2
  <2> QED
    BY <1>2, <2>1
<1> QED
  BY <1>4, <1>5, <1>6

(* The first read takes down what the keys hold, and asks on for exactly   *)
(* those that it found online.                                             *)
LEMMA StatusesHold == RemuxHolds /\ GetStatuses => RemuxHolds'
<1> SUFFICES ASSUME RemuxHolds, GetStatuses
             PROVE  RemuxHolds'
  OBVIOUS
<1> DEFINE Ids == {id \in WithStatus : IsOnline(id)}
<1> USE DEF RemuxHolds
<1>1. /\ step = "statuses" /\ wanted \subseteq RemuxIds /\ Current \subseteq held
      /\ summary' = [id \in WithStatus |->
                       [status |-> keys[<<"status", id>>], ifmt |-> Nil, metrics |-> Nil]]
      /\ online' \in SeqOps!SetToSeqs(Ids)
      /\ step' = IF online' = <<>> THEN "done" ELSE "blobs"
      /\ UNCHANGED <<keys, wanted, held>>
  BY DEF GetStatuses
<1>2. WithStatus \subseteq wanted /\ IsFiniteSet(Ids) /\ Ids \subseteq RemuxIds
  <2>1. Ids \in SUBSET RemuxIds /\ WithStatus \subseteq wanted
    BY <1>1 DEF WithStatus
  <2> QED
    BY <2>1, RemuxIdsAssumption, FS_Subset
<1>3. /\ online' \in Seq(Ids)
      /\ \A k \in DOMAIN online' : online'[k] \in Ids
      /\ \A x \in Ids : \E k \in DOMAIN online' : online'[k] = x
  <2> HIDE DEF Ids
  <2> QED
    BY <1>1, <1>2, SequencesAreComplete
<1>4. online' \in Seq(RemuxIds)
  <2>1. /\ Len(online') \in Nat /\ DOMAIN online' = 1 .. Len(online')
        /\ online' = [k \in 1 .. Len(online') |-> online'[k]]
    BY <1>3, LenProperties, SeqDef
  <2>2. online' \in [1 .. Len(online') -> RemuxIds]
    BY <1>2, <1>3, <2>1
  <2> QED
    BY <2>1, <2>2, SeqDef
<1>5. /\ DOMAIN summary' = WithStatus
      /\ \A id \in WithStatus :
           summary'[id] = [status |-> keys[<<"status", id>>], ifmt |-> Nil, metrics |-> Nil]
  BY <1>1
<1>6. \A id \in WithStatus : <<<<"status", id>>, keys[<<"status", id>>]>> \in held
  BY <1>1, <1>2 DEF Current, Keys, Kinds
<1>7. \A id \in WithStatus : IsOnline(id) <=> IsOnlineIn(id)'
  <2>1. ASSUME NEW id \in WithStatus
        PROVE  summary'[id].status = keys[<<"status", id>>]
    <3> DEFINE st == keys[<<"status", id>>]
    <3>1. summary'[id] = [status |-> st, ifmt |-> Nil, metrics |-> Nil]
      BY <1>5
    <3> HIDE DEF st
    <3>2. summary'[id].status = st
      BY <3>1
    <3> QED
      BY <3>2 DEF st
  <2> QED
    BY <2>1 DEF IsOnline, IsOnlineIn
<1>8. Current' = Current
  BY <1>1 DEF Current
<1>9. step' = "blobs" => RemuxHolds'
  <2>1. \A k \in DOMAIN online' : online'[k] \in DOMAIN summary' /\ summary'[online'[k]].status = Online
    BY <1>3, <1>5, <1>7 DEF IsOnlineIn
  <2>2. \A id \in DOMAIN summary' :
          summary'[id].status = Online => \E k \in DOMAIN online' : online'[k] = id
    BY <1>3, <1>5, <1>7 DEF IsOnlineIn
  <2>3. \A id \in DOMAIN summary' :
          /\ summary'[id] = [status |-> summary'[id].status, ifmt |-> Nil, metrics |-> Nil]
          /\ <<<<"status", id>>, summary'[id].status>> \in held'
    BY <1>1, <1>5, <1>6
  <2> QED
    BY <1>1, <1>2, <1>4, <1>5, <1>8, <2>1, <2>2, <2>3 DEF SummariesBelong, IsOnlineIn
<1>10. step' = "done" => RemuxHolds'
  <2> SUFFICES ASSUME step' = "done"
               PROVE  RemuxHolds'
    OBVIOUS
  <2>1. online' = <<>>
    BY <1>1
  <2>2. DOMAIN online' = {}
    BY <2>1
  <2>3. \A id \in WithStatus : summary'[id].status # Online
    BY <1>3, <1>7, <2>2 DEF IsOnlineIn
  <2>4. SummariesBelong'
    <3>1. ASSUME NEW id \in DOMAIN summary'
          PROVE  /\ <<<<"status", id>>, summary'[id].status>> \in held'
                 /\ summary'[id].status # Online
                 /\ \A kind \in {"ifmt", "metrics"} : summary'[id][kind] = Nil
      BY <1>1, <1>5, <1>6, <2>3
    <3> QED
      BY <1>1, <1>2, <1>5, <3>1 DEF SummariesBelong
  <2> QED
    BY <1>1, <1>8, <2>4
<1> QED
  BY <1>1, <1>9, <1>10

(* The second read completes each summary with what its own keys hold.     *)
LEMMA BlobsHold == RemuxHolds /\ GetBlobs => RemuxHolds'
<1> SUFFICES ASSUME RemuxHolds, GetBlobs
             PROVE  RemuxHolds'
  OBVIOUS
<1>1. /\ step = "blobs" /\ step' = "done" /\ summary' = Pair(Blobs)
      /\ UNCHANGED <<keys, wanted, online, held>>
  BY DEF GetBlobs
<1>2. /\ wanted \subseteq RemuxIds /\ Current \subseteq held /\ DOMAIN summary \subseteq wanted
      /\ online \in Seq(RemuxIds)
  BY <1>1 DEF RemuxHolds
<1>3. DOMAIN summary' = DOMAIN summary
  BY <1>1 DEF Pair
<1>4. Current' = Current
  BY <1>1 DEF Current
<1>5. ASSUME NEW id \in DOMAIN summary
      PROVE  /\ <<<<"status", id>>, summary'[id].status>> \in held
             /\ \A kind \in {"ifmt", "metrics"} :
                  IF summary'[id].status = Online THEN <<<<kind, id>>, summary'[id][kind]>> \in held
                                                  ELSE summary'[id][kind] = Nil
  <2> DEFINE st == summary[id].status
  <2>1. /\ summary[id] = [status |-> st, ifmt |-> Nil, metrics |-> Nil]
        /\ <<<<"status", id>>, st>> \in held
    BY <1>1 DEF RemuxHolds
  <2> HIDE DEF st
  <2>2. CASE \E k \in DOMAIN online : online[k] = id
    <3> DEFINE i == CHOOSE j \in DOMAIN online : online[j] = id
    <3>1. i \in DOMAIN online /\ online[i] = id
      BY <2>2
    <3>2. summary'[id] = [summary[id] EXCEPT !.ifmt = Blobs[2 * i - 1], !.metrics = Blobs[2 * i]]
      BY <1>1, <2>2 DEF Pair
    <3> HIDE DEF i
    <3>3. Blobs[2 * i - 1] = keys[<<"ifmt", id>>] /\ Blobs[2 * i] = keys[<<"metrics", id>>]
      BY <1>2, <3>1, BlobsAreInTurn
    <3>4. summary'[id] = [status |-> st, ifmt |-> keys[<<"ifmt", id>>], metrics |-> keys[<<"metrics", id>>]]
      <4> DEFINE old == summary[id]
                 a == Blobs[2 * i - 1]
                 b == Blobs[2 * i]
      <4>1. /\ old = [status |-> st, ifmt |-> Nil, metrics |-> Nil]
            /\ summary'[id] = [old EXCEPT !.ifmt = a, !.metrics = b]
        BY <2>1, <3>2
      <4> HIDE DEF old, a, b
      <4>2. [old EXCEPT !.ifmt = a, !.metrics = b] = [status |-> st, ifmt |-> a, metrics |-> b]
        BY <4>1
      <4> QED
        BY <3>3, <4>1, <4>2 DEF a, b
    <3>5. st = Online
      BY <1>1, <3>1 DEF RemuxHolds, IsOnlineIn, st
    <3>6. <<<<"ifmt", id>>, keys[<<"ifmt", id>>]>> \in held /\ <<<<"metrics", id>>, keys[<<"metrics", id>>]>> \in held
      BY <1>2 DEF Current, Keys, Kinds
    <3> QED
      BY <2>1, <3>4, <3>5, <3>6
  <2>3. CASE ~\E k \in DOMAIN online : online[k] = id
    <3>1. summary'[id] = summary[id]
      BY <1>1, <2>3 DEF Pair
    <3>2. st # Online
      BY <1>1, <2>3 DEF RemuxHolds, IsOnlineIn, st
    <3> QED
      BY <2>1, <3>1, <3>2
  <2> QED
    BY <2>2, <2>3
<1>6. SummariesBelong'
  BY <1>1, <1>2, <1>3, <1>5 DEF SummariesBelong
<1> QED
  BY <1>1, <1>2, <1>4, <1>6 DEF RemuxHolds

(* A write between the reads is itself among what was held.                *)
LEMMA WriteHolds ==
  ASSUME NEW key \in Keys, NEW value, RemuxHolds, Write(key, value)
  PROVE  RemuxHolds'
<1>1. /\ keys' = [keys EXCEPT ![key] = value] /\ held' = held \union {<<key, value>>}
      /\ UNCHANGED <<step, wanted, online, summary>> /\ step # "idle"
  BY DEF Write
<1>2. keys' = [k \in Keys |-> keys'[k]] /\ Current' \subseteq held'
  <2>1. keys' = [k \in Keys |-> IF k = key THEN value ELSE keys[k]]
    BY <1>1 DEF RemuxHolds
  <2>2. \A k \in Keys : <<k, keys[k]>> \in held
    BY <1>1 DEF RemuxHolds, Current
  <2> QED
    BY <1>1, <2>1, <2>2 DEF Current
<1>3. SummariesBelong'
  BY <1>1 DEF RemuxHolds, SummariesBelong
<1> QED
  BY <1>1, <1>2, <1>3 DEF RemuxHolds, IsOnlineIn

(* SummariesBelong: a channel is shown with its own blobs and what its     *)
(* keys held during this refresh, however many remuxers write meanwhile.   *)
THEOREM SummariesShowTheirOwn == RemuxSpec => []SummariesBelong
<1>1. RemuxInit => RemuxHolds
  BY DEF RemuxInit, RemuxHolds, SummariesBelong
<1>2. RemuxHolds /\ [RemuxNext]_remuxVars => RemuxHolds'
  <2> SUFFICES ASSUME RemuxHolds, [RemuxNext]_remuxVars
               PROVE  RemuxHolds'
    OBVIOUS
  <2>1. CASE ListEnabled
    BY <2>1 DEF ListEnabled, RemuxHolds, SummariesBelong, Current
  <2>2. CASE RefreshAborts
    BY <2>2 DEF RefreshAborts, RemuxHolds, SummariesBelong
  <2>3. CASE HandOut
    BY <2>3 DEF HandOut, RemuxHolds, SummariesBelong
  <2>4. ASSUME NEW key \in Keys, NEW value \in Reports(key) \union {Nil}, Write(key, value)
        PROVE  RemuxHolds'
    BY <2>4, WriteHolds
  <2>5. CASE UNCHANGED remuxVars
    BY <2>5 DEF remuxVars, RemuxHolds, SummariesBelong, Current, IsOnlineIn
  <2> QED
    BY <2>1, <2>2, <2>3, <2>4, <2>5, StatusesHold, BlobsHold DEF RemuxNext
<1>3. RemuxHolds => SummariesBelong
  BY DEF RemuxHolds
<1> QED
  BY <1>1, <1>2, <1>3, PTL DEF RemuxSpec

-----------------------------------------------------------------------------
(* URLs: taking texts apart *)

(* Whatever is written here is a text.                                     *)
Text == Seq(Chars)

(* A text is its beginning and the rest.                                   *)
LEMMA CutAndJoin ==
  ASSUME NEW s \in Text, NEW i \in 0 .. Len(s)
  PROVE  /\ Upto(s, i) \in Text /\ Len(Upto(s, i)) = i
         /\ \A j \in 1 .. i : Upto(s, i)[j] = s[j]
         /\ After(s, i) \in Text /\ Len(After(s, i)) = Len(s) - i
         /\ \A j \in 1 .. Len(s) - i : After(s, i)[j] = s[i + j]
         /\ Upto(s, i) \o After(s, i) = s
<1>1. Len(s) \in Nat /\ \A j \in 1 .. Len(s) : s[j] \in Chars
  BY LenProperties, ElementOfSeq DEF Text
<1>2. /\ SubSeq(s, 1, i) \in Text /\ Len(SubSeq(s, 1, i)) = i
      /\ \A j \in 1 .. i : SubSeq(s, 1, i)[j] = s[j]
  <2>1. \A j \in 1 .. i : s[j] \in Chars
    BY <1>1
  <2>2. 1 \in Int /\ i \in Int
    OBVIOUS
  <2> QED
    BY <2>1, <2>2, SubSeqProperties DEF Text
<1>3. /\ SubSeq(s, i + 1, Len(s)) \in Text /\ Len(SubSeq(s, i + 1, Len(s))) = Len(s) - i
      /\ \A j \in 1 .. Len(s) - i : SubSeq(s, i + 1, Len(s))[j] = s[i + j]
  <2>1. \A j \in i + 1 .. Len(s) : s[j] \in Chars
    BY <1>1
  <2>2. i + 1 \in Int /\ Len(s) \in Int
    BY <1>1
  <2> QED
    BY <1>1, <2>1, <2>2, SubSeqProperties DEF Text
<1>4. SubSeq(s, 1, i) \o SubSeq(s, i + 1, Len(s)) = s
  <2>1. 1 \in 1 .. Len(s) + 1 /\ i \in 1 - 1 .. Len(s) /\ Len(s) \in i .. Len(s)
    BY <1>1
  <2>2. SubSeq(s, 1, i) \o SubSeq(s, i + 1, Len(s)) = SubSeq(s, 1, Len(s))
    BY <2>1, ConcatAdjacentSubSeq DEF Text
  <2> QED
    BY <2>2, SubSeqFull DEF Text
<1> QED
  BY <1>2, <1>3, <1>4 DEF Upto, After

(* Where two texts were joined they can be cut again.                      *)
LEMMA JoinAndCut ==
  ASSUME NEW s \in Text, NEW t \in Text
  PROVE  /\ s \o t \in Text /\ Len(s \o t) = Len(s) + Len(t)
         /\ \A j \in 1 .. Len(s) : (s \o t)[j] = s[j]
         /\ \A j \in 1 .. Len(t) : (s \o t)[Len(s) + j] = t[j]
         /\ Upto(s \o t, Len(s)) = s /\ After(s \o t, Len(s)) = t
<1>1. Len(s) \in Nat /\ Len(t) \in Nat
  BY LenProperties DEF Text
<1>2. /\ s \o t \in Text /\ Len(s \o t) = Len(s) + Len(t)
      /\ \A j \in 1 .. Len(s) + Len(t) : (s \o t)[j] = IF j <= Len(s) THEN s[j] ELSE t[j - Len(s)]
  BY ConcatProperties DEF Text
<1>3. \A j \in 1 .. Len(t) : (s \o t)[Len(s) + j] = t[j]
  <2> TAKE j \in 1 .. Len(t)
  <2>1. Len(s) + j \in 1 .. Len(s) + Len(t) /\ ~(Len(s) + j <= Len(s)) /\ (Len(s) + j) - Len(s) = j
    BY <1>1
  <2> QED
    BY <1>2, <2>1
<1>4. \A j \in 1 .. Len(s) : (s \o t)[j] = s[j]
  BY <1>1, <1>2
<1>5. Len(s) \in 0 .. Len(s \o t) /\ Len(s \o t) - Len(s) = Len(t)
  BY <1>1, <1>2
<1>6. Upto(s \o t, Len(s)) = s
  <2>1. /\ Upto(s \o t, Len(s)) \in Text /\ Len(Upto(s \o t, Len(s))) = Len(s)
        /\ \A j \in 1 .. Len(s) : Upto(s \o t, Len(s))[j] = (s \o t)[j]
    BY <1>2, <1>5, CutAndJoin
  <2> QED
    BY <1>4, <2>1, SeqEqual DEF Text
<1>7. After(s \o t, Len(s)) = t
  <2>1. /\ After(s \o t, Len(s)) \in Text /\ Len(After(s \o t, Len(s))) = Len(t)
        /\ \A j \in 1 .. Len(s \o t) - Len(s) : After(s \o t, Len(s))[j] = (s \o t)[Len(s) + j]
    <3>1. s \o t \in Text /\ Len(s) \in 0 .. Len(s \o t)
      BY <1>2, <1>5
    <3> QED
      BY <1>5, <3>1, CutAndJoin
  <2> QED
    BY <1>3, <1>5, <2>1, SeqEqual DEF Text
<1> QED
  BY <1>2, <1>3, <1>4, <1>6, <1>7

(* Cutting twice.                                                          *)
LEMMA CutTwice ==
  ASSUME NEW s \in Text, NEW i \in 0 .. Len(s), NEW j \in 0 .. Len(s) - i
  PROVE  After(After(s, i), j) = After(s, i + j)
<1>1. Len(s) \in Nat
  BY LenProperties DEF Text
<1>2. j \in 0 .. Len(After(s, i)) /\ i + j \in 0 .. Len(s) /\ After(s, i) \in Text
  BY <1>1, CutAndJoin
<1>3. Len(After(After(s, i), j)) = Len(After(s, i + j))
  <2>1. After(After(s, i), j) \in Text /\ Len(After(After(s, i), j)) = Len(After(s, i)) - j
    BY <1>2, CutAndJoin
  <2>2. Len(After(s, i)) = Len(s) - i /\ Len(After(s, i + j)) = Len(s) - (i + j)
    BY <1>2, CutAndJoin
  <2> QED
    BY <1>1, <2>1, <2>2
<1>4. ASSUME NEW k \in 1 .. Len(s) - (i + j)
      PROVE  After(After(s, i), j)[k] = After(s, i + j)[k]
  <2>1. k \in 1 .. Len(After(s, i)) - j /\ j + k \in 1 .. Len(s) - i
    BY <1>1, CutAndJoin
  <2>2. After(After(s, i), j)[k] = After(s, i)[j + k]
    BY <1>2, <2>1, CutAndJoin
  <2>3. After(s, i)[j + k] = s[i + (j + k)]
    BY <2>1, CutAndJoin
  <2>4. After(s, i + j)[k] = s[(i + j) + k]
    BY <1>2, CutAndJoin
  <2> QED
    BY <2>2, <2>3, <2>4
<1>5. After(After(s, i), j) \in Text /\ After(s, i + j) \in Text /\ Len(After(s, i + j)) = Len(s) - (i + j)
  BY <1>2, CutAndJoin
<1> QED
  BY <1>3, <1>4, <1>5, SeqEqual DEF Text

(* The first of some characters.                                           *)
LEMMA FirstOfIs ==
  ASSUME NEW S, NEW s \in Text
  PROVE  /\ FirstOf(S, s) \in 0 .. Len(s)
         /\ FirstOf(S, s) = 0 <=> \A i \in 1 .. Len(s) : s[i] \notin S
         /\ FirstOf(S, s) # 0 => /\ s[FirstOf(S, s)] \in S
                                 /\ \A j \in 1 .. FirstOf(S, s) - 1 : s[j] \notin S
         /\ \A i \in 1 .. Len(s) :
              s[i] \in S /\ (\A j \in 1 .. i - 1 : s[j] \notin S) => FirstOf(S, s) = i
<1>1. Len(s) \in Nat /\ DOMAIN s = 1 .. Len(s)
  BY LenProperties DEF Text
<1> DEFINE at(i) == s[i] \in S /\ \A j \in 1 .. i - 1 : s[j] \notin S
<1>2. ASSUME NEW i \in 1 .. Len(s), at(i), NEW k \in 1 .. Len(s), at(k)
      PROVE  i = k
  BY <1>1, <1>2
<1>3. CASE \A i \in 1 .. Len(s) : s[i] \notin S
  BY <1>1, <1>3 DEF FirstOf
<1>4. CASE \E i \in 1 .. Len(s) : s[i] \in S
  <2> DEFINE A == {i \in 1 .. Len(s) : s[i] \in S}
  <2>1. A \in SUBSET Nat /\ A # {}
    BY <1>1, <1>4
  <2>2. PICK i \in A : \A j \in A : i <= j
    BY <2>1, FirstSatisfying
  <2>3. i \in 1 .. Len(s) /\ at(i)
    BY <1>1, <2>2
  <2>4. FirstOf(S, s) = CHOOSE k \in 1 .. Len(s) : at(k)
    BY <1>1, <1>4 DEF FirstOf
  <2>5. FirstOf(S, s) \in 1 .. Len(s) /\ at(FirstOf(S, s))
    <3> HIDE DEF at
    <3> QED
      BY <2>3, <2>4
  <2> QED
    BY <1>1, <1>2, <1>4, <2>5
<1> QED
  BY <1>3, <1>4

(* The last of a character.                                                *)
LEMMA LastOfIs ==
  ASSUME NEW c, NEW s \in Text
  PROVE  /\ LastOf(c, s) \in 0 .. Len(s)
         /\ LastOf(c, s) = 0 <=> \A i \in 1 .. Len(s) : s[i] # c
         /\ LastOf(c, s) # 0 => /\ s[LastOf(c, s)] = c
                                /\ \A j \in LastOf(c, s) + 1 .. Len(s) : s[j] # c
         /\ \A i \in 1 .. Len(s) :
              s[i] = c /\ (\A j \in i + 1 .. Len(s) : s[j] # c) => LastOf(c, s) = i
<1>1. Len(s) \in Nat /\ DOMAIN s = 1 .. Len(s)
  BY LenProperties DEF Text
<1> DEFINE at(i) == s[i] = c /\ \A j \in i + 1 .. Len(s) : s[j] # c
<1>2. ASSUME NEW i \in 1 .. Len(s), at(i), NEW k \in 1 .. Len(s), at(k)
      PROVE  i = k
  BY <1>1, <1>2
<1>3. CASE \A i \in 1 .. Len(s) : s[i] # c
  BY <1>1, <1>3 DEF LastOf
<1>4. CASE \E i \in 1 .. Len(s) : s[i] = c
  <2> DEFINE A == {n \in 0 .. Len(s) - 1 : s[Len(s) - n] = c}
  <2>1. A \in SUBSET Nat /\ A # {}
    <3>1. PICK i \in 1 .. Len(s) : s[i] = c
      BY <1>4
    <3>2. Len(s) - i \in 0 .. Len(s) - 1 /\ Len(s) - (Len(s) - i) = i
      BY <1>1
    <3>3. Len(s) - i \in A
      BY <3>1, <3>2
    <3>4. A \in SUBSET Nat
      BY <1>1
    <3> QED
      BY <3>3, <3>4
  <2>2. PICK n \in A : \A j \in A : n <= j
    BY <2>1, FirstSatisfying
  <2>3. Len(s) - n \in 1 .. Len(s) /\ at(Len(s) - n)
    <3>1. ASSUME NEW j \in (Len(s) - n) + 1 .. Len(s), s[j] = c
          PROVE  FALSE
      <4>1. Len(s) - j \in 0 .. Len(s) - 1 /\ Len(s) - (Len(s) - j) = j /\ Len(s) - j < n
        BY <1>1, <2>2
      <4>2. Len(s) - j \in A
        BY <3>1, <4>1
      <4> QED
        <5>1. n \in Nat /\ Len(s) - j \in Nat
          BY <1>1, <4>1
        <5>2. n <= Len(s) - j
          BY <2>2, <4>2, Zenon
        <5> QED
          BY <4>1, <5>1, <5>2
    <3> QED
      BY <1>1, <2>2, <3>1
  <2>4. LastOf(c, s) = CHOOSE k \in 1 .. Len(s) : at(k)
    BY <1>1, <1>4 DEF LastOf
  <2>5. LastOf(c, s) \in 1 .. Len(s) /\ at(LastOf(c, s))
    <3> HIDE DEF at
    <3> QED
      BY <2>3, <2>4
  <2> QED
    BY <1>1, <1>2, <1>4, <2>5
<1> QED
  BY <1>3, <1>4

-----------------------------------------------------------------------------
(* URLs: their parts *)

(* So many slashes.                                                        *)
Slashes(n) == [i \in 1 .. n |-> "/"]

(* They are a text of that length.                                         *)
LEMMA SlashesAreText ==
  ASSUME NEW n \in Nat
  PROVE  Slashes(n) \in Text /\ Len(Slashes(n)) = n /\ \A i \in 1 .. n : Slashes(n)[i] = "/"
<1>1. Slashes(n) \in [1 .. n -> Chars]
  BY DEF Slashes, Chars
<1>2. Slashes(n) \in Text
  BY <1>1, SeqDef DEF Text
<1>3. 1 .. Len(Slashes(n)) = 1 .. n /\ Len(Slashes(n)) \in Nat
  BY <1>1, <1>2, LenProperties DEF Text
<1>4. Len(Slashes(n)) = n
  BY <1>3
<1> QED
  BY <1>2, <1>4 DEF Slashes

(* What stands for one character, or for none.                             *)
LEMMA PiecesAreText ==
  /\ <<>> \in Text /\ Len(<<>>) = 0
  /\ \A c \in Chars : <<c>> \in Text /\ Len(<<c>>) = 1 /\ <<c>>[1] = c
  /\ \A b \in BOOLEAN, c \in Chars : If(b, <<c>>) \in Text
  /\ \A s \in Text : s \o <<>> = s /\ <<>> \o s = s
<1>1. <<>> \in Text /\ Len(<<>>) = 0
  BY EmptySeq DEF Text
<1>2. \A c \in Chars : <<c>> \in Text /\ Len(<<c>>) = 1 /\ <<c>>[1] = c
  BY DEF Text
<1>3. \A b \in BOOLEAN, c \in Chars : If(b, <<c>>) \in Text
  BY <1>1, <1>2 DEF If
<1>4. \A s \in Text : s \o <<>> = s /\ <<>> \o s = s
  BY ConcatEmptySeq DEF Text
<1> QED
  BY <1>1, <1>2, <1>3, <1>4

(* The beginnings of a text that are slashes, up to two.                   *)
SlashesOf(s, n) ==
  /\ n \in 0 .. 2 /\ n <= Len(s) /\ \A i \in 1 .. n : s[i] = "/"
  /\ n = 2 \/ n = Len(s) \/ s[n + 1] # "/"

(* There is one such number, and SlashNum is it.                           *)
LEMMA SlashNumIs ==
  ASSUME NEW s \in Text
  PROVE  /\ SlashesOf(s, SlashNum(s))
         /\ \A n : SlashesOf(s, n) => n = SlashNum(s)
<1>1. Len(s) \in Nat
  BY LenProperties DEF Text
<1>2. \E n \in 0 .. 2 : SlashesOf(s, n)
  <2>1. CASE Len(s) = 0 \/ s[1] # "/"
    BY <1>1, <2>1 DEF SlashesOf
  <2>2. CASE Len(s) # 0 /\ s[1] = "/" /\ (Len(s) = 1 \/ s[2] # "/")
    <3>1. SlashesOf(s, 1)
      BY <1>1, <2>2 DEF SlashesOf
    <3> QED
      BY <3>1
  <2>3. CASE Len(s) > 1 /\ s[1] = "/" /\ s[2] = "/"
    <3>1. SlashesOf(s, 2)
      BY <1>1, <2>3 DEF SlashesOf
    <3> QED
      BY <3>1
  <2> QED
    BY <1>1, <2>1, <2>2, <2>3
<1>3. \A n, m : SlashesOf(s, n) /\ SlashesOf(s, m) => n = m
  <2> SUFFICES ASSUME NEW n, NEW m, SlashesOf(s, n), SlashesOf(s, m), n < m
               PROVE  FALSE
    BY DEF SlashesOf
  <2>1. n \in 0 .. 2 /\ m \in 0 .. 2 /\ n + 1 \in 1 .. m /\ n # 2 /\ n # Len(s)
    BY <1>1 DEF SlashesOf
  <2> QED
    BY <2>1 DEF SlashesOf
<1>4. SlashNum(s) = CHOOSE n \in 0 .. 2 : SlashesOf(s, n)
  <2>1. \A n \in 0 .. 2 :
          SlashesOf(s, n) <=> /\ n <= Len(s) /\ \A i \in 1 .. n : s[i] = "/"
                              /\ n = 2 \/ n = Len(s) \/ s[n + 1] # "/"
    BY DEF SlashesOf
  <2> QED
    BY <2>1 DEF SlashNum
<1> QED
  BY <1>2, <1>3, <1>4

(* Joining texts, in any grouping.  The provers try these facts only on    *)
(* the texts that AreTexts is said of.                                     *)
AreTexts(s, t, v) == s \in Text /\ t \in Text /\ v \in Text

(* Three texts joined, either way.                                         *)
LEMMA TextsRegroup ==
  ASSUME NEW s, NEW t, NEW v, AreTexts(s, t, v)
  PROVE  /\ (s \o t) \o v = s \o (t \o v)
         /\ s \o t \in Text /\ t \o v \in Text
         /\ (s \o t) \o v \in Text /\ s \o (t \o v) \in Text
<1>1. s \o t \in Text /\ t \o v \in Text
  BY ConcatProperties DEF AreTexts, Text
<1>2. (s \o t) \o v \in Text
  BY <1>1, ConcatProperties DEF AreTexts, Text
<1>3. (s \o t) \o v = s \o (t \o v)
  BY ConcatAssociative DEF AreTexts, Text
<1> QED
  BY <1>1, <1>2, <1>3

\* The same of seven, and of five.
SevenAlike(y, s1, s2, s3, s4, s5, s6) ==
  /\ (((((y \o s1) \o s2) \o s3) \o s4) \o s5) \o s6
       = y \o (((((s1 \o s2) \o s3) \o s4) \o s5) \o s6)
  /\ ((((s1 \o s2) \o s3) \o s4) \o s5) \o s6 \in Text
FiveAlike(x, u, a, t, z) ==
  /\ (((x \o u) \o a) \o t) \o z = x \o ((u \o (a \o t)) \o z)
  /\ (x \o u) \o a \in Text

(* Seven texts joined, either way.                                         *)
LEMMA SixRegroup ==
  ASSUME NEW y, NEW s1, NEW s2, AreTexts(y, s1, s2),
         NEW s3, NEW s4, AreTexts(y, s3, s4), NEW s5, NEW s6, AreTexts(y, s5, s6)
  PROVE  SevenAlike(y, s1, s2, s3, s4, s5, s6)
<1> DEFINE t2 == s1 \o s2
           t3 == t2 \o s3
           t4 == t3 \o s4
           t5 == t4 \o s5
           t6 == t5 \o s6
<1>2. (y \o s1) \o s2 = y \o t2 /\ t2 \in Text
  BY TextsRegroup
<1>3. (y \o t2) \o s3 = y \o t3 /\ t3 \in Text
  <2>1. AreTexts(y, t2, s3)
    BY <1>2 DEF AreTexts
  <2> QED
    BY <2>1, TextsRegroup
<1>4. (y \o t3) \o s4 = y \o t4 /\ t4 \in Text
  <2>1. AreTexts(y, t3, s4)
    BY <1>3 DEF AreTexts
  <2> QED
    BY <2>1, TextsRegroup
<1>5. (y \o t4) \o s5 = y \o t5 /\ t5 \in Text
  <2>1. AreTexts(y, t4, s5)
    BY <1>4 DEF AreTexts
  <2> QED
    BY <2>1, TextsRegroup
<1>6. (y \o t5) \o s6 = y \o t6 /\ t6 \in Text
  <2>1. AreTexts(y, t5, s6)
    BY <1>5 DEF AreTexts
  <2> HIDE DEF t5
  <2> QED
    BY <2>1, TextsRegroup
<1> QED
  <2> HIDE DEF t2, t3, t4, t5, t6
  <2>1. (((((y \o s1) \o s2) \o s3) \o s4) \o s5) \o s6 = y \o t6 /\ t6 \in Text
    BY <1>2, <1>3, <1>4, <1>5, <1>6, Zenon
  <2> QED
    BY <2>1, Zenon DEF SevenAlike, t2, t3, t4, t5, t6

(* Five texts joined, either way.                                          *)
LEMMA FourRegroup ==
  ASSUME NEW x, NEW u, NEW a, AreTexts(x, u, a), NEW t, NEW z, AreTexts(x, t, z)
  PROVE  FiveAlike(x, u, a, t, z)
<1>1. (x \o u) \o a = x \o (u \o a) /\ u \o a \in Text /\ (x \o u) \o a \in Text
  BY TextsRegroup
<1>2. (x \o (u \o a)) \o t = x \o ((u \o a) \o t)
  <2>1. AreTexts(x, u \o a, t)
    BY <1>1 DEF AreTexts
  <2> QED
    BY <2>1, TextsRegroup
<1>3. (u \o a) \o t = u \o (a \o t) /\ u \o (a \o t) \in Text
  <2>1. AreTexts(u, a, t)
    BY DEF AreTexts
  <2> QED
    BY <2>1, TextsRegroup
<1>4. (x \o (u \o (a \o t))) \o z = x \o ((u \o (a \o t)) \o z)
  <2>1. AreTexts(x, u \o (a \o t), z)
    BY <1>3 DEF AreTexts
  <2> QED
    BY <2>1, TextsRegroup
<1> QED
  BY <1>1, <1>2, <1>3, <1>4 DEF FiveAlike

(* What a URL is joined of.                                                *)
Protocol(p) == p.schema \o If(p.hasSchema, <<":">>) \o Slashes(p.slashNum)
Target(p) ==
  If(p.hasBrks, <<"[">>) \o p.host \o If(p.hasBrks, <<"]">>)
    \o If(p.hasPort, <<":">>) \o p.port \o p.junk

PartsAreText(p) ==
  /\ p.schema \in Text /\ p.userinfo \in Text /\ p.host \in Text /\ p.port \in Text
  /\ p.path \in Text /\ p.junk \in Text /\ p.slashNum \in Nat
  /\ p.hasSchema \in BOOLEAN /\ p.hasAtSign \in BOOLEAN
  /\ p.hasBrks \in BOOLEAN /\ p.hasPort \in BOOLEAN

(* Its parts joined: the protocol, the user before the target, the path.   *)
LEMMA PartsJoin ==
  ASSUME NEW p, PartsAreText(p)
  PROVE  /\ Protocol(p) \in Text /\ Target(p) \in Text
         /\ avurlJoin(p) = Protocol(p) \o ((p.userinfo \o (If(p.hasAtSign, <<"@">>) \o Target(p)))
                                             \o p.path)
<1> DEFINE b1 == If(p.hasBrks, <<"[">>)
           b2 == If(p.hasBrks, <<"]">>)
           c == If(p.hasPort, <<":">>)
           a == If(p.hasAtSign, <<"@">>)
           X == Protocol(p)
           Y == (X \o p.userinfo) \o a
<1>1. b1 \in Text /\ b2 \in Text /\ c \in Text /\ a \in Text
  BY PiecesAreText DEF PartsAreText, Chars
<1>2. X \in Text
  <2>1. If(p.hasSchema, <<":">>) \in Text /\ Slashes(p.slashNum) \in Text /\ p.schema \in Text
    BY PiecesAreText, SlashesAreText DEF PartsAreText, Chars
  <2>2. AreTexts(p.schema, If(p.hasSchema, <<":">>), Slashes(p.slashNum))
    BY <2>1 DEF AreTexts
  <2> QED
    BY <2>2, TextsRegroup, Zenon DEF Protocol
<1>3. avurlJoin(p) = ((((((Y \o b1) \o p.host) \o b2) \o c) \o p.port) \o p.junk) \o p.path
  BY DEF avurlJoin, Protocol, Slashes
<1>4. Target(p) = ((((b1 \o p.host) \o b2) \o c) \o p.port) \o p.junk
  BY DEF Target
<1>5. p.userinfo \in Text /\ p.host \in Text /\ p.port \in Text /\ p.junk \in Text
      /\ p.path \in Text
  BY DEF PartsAreText
<1>6. Y \in Text
  <2>1. AreTexts(X, p.userinfo, a)
    BY <1>1, <1>2, <1>5 DEF AreTexts
  <2> QED
    BY <2>1, TextsRegroup, Zenon
<1> HIDE DEF b1, b2, c, a, X
<1>7. /\ (((((Y \o b1) \o p.host) \o b2) \o c) \o p.port) \o p.junk = Y \o Target(p)
      /\ Target(p) \in Text
  <2>1. AreTexts(Y, b1, p.host) /\ AreTexts(Y, b2, c) /\ AreTexts(Y, p.port, p.junk)
    BY <1>1, <1>5, <1>6 DEF AreTexts
  <2>2. /\ (((((Y \o b1) \o p.host) \o b2) \o c) \o p.port) \o p.junk
             = Y \o (((((b1 \o p.host) \o b2) \o c) \o p.port) \o p.junk)
        /\ ((((b1 \o p.host) \o b2) \o c) \o p.port) \o p.junk \in Text
    <3> HIDE DEF Y
    <3>1. SevenAlike(Y, b1, p.host, b2, c, p.port, p.junk)
      BY <2>1, SixRegroup, Zenon
    <3> QED
      BY <3>1, Zenon DEF SevenAlike
  <2> QED
    BY <1>4, <2>2, Zenon
<1>8. (Y \o Target(p)) \o p.path = X \o ((p.userinfo \o (a \o Target(p))) \o p.path)
  <2>1. AreTexts(X, p.userinfo, a) /\ AreTexts(X, Target(p), p.path)
    BY <1>1, <1>2, <1>5, <1>7 DEF AreTexts
  <2>2. (((X \o p.userinfo) \o a) \o Target(p)) \o p.path
          = X \o ((p.userinfo \o (a \o Target(p))) \o p.path)
    <3>1. FiveAlike(X, p.userinfo, a, Target(p), p.path)
      BY <2>1, FourRegroup, Zenon
    <3> QED
      BY <3>1, Zenon DEF FiveAlike
  <2> QED
    BY <2>2, Zenon DEF Y
<1>9. avurlJoin(p) = (Y \o Target(p)) \o p.path
  <2> HIDE DEF Y
  <2> QED
    BY <1>3, <1>7
<1> QED
  BY <1>2, <1>7, <1>8, <1>9 DEF X, a

-----------------------------------------------------------------------------
(* URLs: the authority *)

(* A beginning of a text, and what makes it longer.                        *)
LEMMA UptoGrows ==
  ASSUME NEW s \in Text
  PROVE  /\ Upto(s, 0) = <<>> /\ Upto(s, Len(s)) = s /\ After(s, 0) = s
         /\ \A i \in 0 .. Len(s) : Upto(s, i) \o After(s, i) = s
         /\ \A i \in 1 .. Len(s) : /\ Upto(s, i - 1) \o <<s[i]>> = Upto(s, i)
                                   /\ <<s[i]>> \in Text /\ Len(<<s[i]>>) = 1
         /\ \A i, j \in 0 .. Len(s) : i <= j =>
              Upto(s, i) \o SubSeq(s, i + 1, j) = Upto(s, j) /\ SubSeq(s, i + 1, j) \in Text
<1>1. Len(s) \in Nat /\ \A j \in 1 .. Len(s) : s[j] \in Chars
  BY LenProperties, ElementOfSeq DEF Text
<1>2. Upto(s, 0) = <<>> /\ Upto(s, Len(s)) = s /\ After(s, 0) = s
  BY <1>1, SubSeqEmpty, SubSeqFull DEF Upto, After, Text
<1>3. ASSUME NEW i \in 0 .. Len(s)
      PROVE  Upto(s, i) \o After(s, i) = s
  BY CutAndJoin
<1>4. ASSUME NEW i \in 0 .. Len(s), NEW j \in 0 .. Len(s), i <= j
      PROVE  Upto(s, i) \o SubSeq(s, i + 1, j) = Upto(s, j) /\ SubSeq(s, i + 1, j) \in Text
  <2>1. 1 \in 1 .. Len(s) + 1 /\ i \in 1 - 1 .. Len(s) /\ j \in i .. Len(s)
    BY <1>1, <1>4
  <2>2. SubSeq(s, 1, i) \o SubSeq(s, i + 1, j) = SubSeq(s, 1, j)
    BY <2>1, ConcatAdjacentSubSeq DEF Text
  <2>3. i + 1 \in Int /\ j \in Int /\
        \A k \in i + 1 .. j : s[k] \in Chars
    BY <1>1, <1>4
  <2>4. SubSeq(s, i + 1, j) \in Text
    BY <2>3, SubSeqProperties DEF Text
  <2> QED
    BY <2>2, <2>4 DEF Upto
<1>5. ASSUME NEW i \in 1 .. Len(s)
      PROVE  Upto(s, i - 1) \o <<s[i]>> = Upto(s, i) /\ <<s[i]>> \in Text /\ Len(<<s[i]>>) = 1
  <2>1. s[i] \in Chars
    BY <1>1
  <2>2. <<s[i]>> \in Text /\ Len(<<s[i]>>) = 1
    BY <2>1 DEF Text
  <2>3. SubSeq(s, 1, i) = SubSeq(s, 1, i - 1) \o <<s[i]>>
    <3>1. 1 \in 1 .. Len(s) /\ i \in 1 .. Len(s)
      BY <1>1
    <3> QED
      BY <3>1, SubSeqRecursiveSecond DEF Text
  <2> QED
    BY <2>2, <2>3 DEF Upto
<1> QED
  BY <1>2, <1>3, <1>4, <1>5

(* The target of an authority is written as it was.                        *)
LEMMA TargetIsKept ==
  ASSUME NEW a \in Text, NEW t \in Text, t = After(a, LastOf("@", a))
  PROVE  LET p == avurlSplitAuthority(a) IN
         /\ p.host \in Text /\ p.port \in Text /\ p.junk \in Text
         /\ p.hasBrks \in BOOLEAN /\ p.hasPort \in BOOLEAN
         /\ Target(p) = t
<1> DEFINE p == avurlSplitAuthority(a)
           bracket == FirstOf({"]"}, t)
           brks == bracket # 0 /\ t[1] = "["
           colon == IF brks THEN IF bracket < Len(t) /\ t[bracket + 1] = ":" THEN bracket + 1 ELSE 0
                    ELSE FirstOf({":"}, t)
<1>1. /\ p.hasBrks = brks
      /\ p.host = IF brks THEN SubSeq(t, 2, bracket - 1)
                  ELSE IF colon # 0 THEN Upto(t, colon - 1) ELSE t
      /\ p.hasPort = (colon # 0)
      /\ p.port = IF colon # 0 THEN After(t, colon) ELSE <<>>
      /\ p.junk = IF brks /\ colon = 0 THEN After(t, bracket) ELSE <<>>
  BY DEF avurlSplitAuthority, NoParts
<1>2. Len(t) \in Nat
  BY LenProperties DEF Text
<1>3. bracket \in 0 .. Len(t) /\ (bracket # 0 => t[bracket] = "]")
  BY FirstOfIs
<1>4. colon \in 0 .. Len(t) /\ (colon # 0 => t[colon] = ":")
  BY <1>2, <1>3, FirstOfIs
<1>5. <<>> \in Text /\ \A s \in Text : s \o <<>> = s /\ <<>> \o s = s
  BY PiecesAreText
<1>6. /\ \A i \in 0 .. Len(t) : Upto(t, i) \in Text /\ After(t, i) \in Text
      /\ Upto(t, 0) = <<>>
      /\ \A i \in 0 .. Len(t) : Upto(t, i) \o After(t, i) = t
      /\ \A i \in 1 .. Len(t) : Upto(t, i - 1) \o <<t[i]>> = Upto(t, i)
      /\ \A i, j \in 0 .. Len(t) : i <= j =>
              Upto(t, i) \o SubSeq(t, i + 1, j) = Upto(t, j) /\ SubSeq(t, i + 1, j) \in Text
  BY CutAndJoin, UptoGrows
<1>9. p.hasBrks \in BOOLEAN /\ p.hasPort \in BOOLEAN
  BY <1>1
<1> HIDE DEF p, bracket, colon
<1> DEFINE goal == p.host \in Text /\ p.port \in Text /\ p.junk \in Text /\ Target(p) = t
<1>7. ASSUME brks PROVE goal
  <2>1. bracket \in 2 .. Len(t) /\ bracket - 1 \in 1 .. Len(t)
    BY <1>2, <1>3, <1>7
  <2>2. <<"[">> = Upto(t, 1)
    <3>1. 1 \in 1 .. Len(t) /\ t[1] = "[" /\ 1 - 1 = 0 /\ <<"[">> \in Text
      BY <1>2, <1>7, <2>1, PiecesAreText DEF Chars
    <3>2. Upto(t, 1 - 1) \o <<t[1]>> = Upto(t, 1)
      BY <1>6, <3>1, Zenon
    <3>3. <<>> \o <<"[">> = Upto(t, 1)
      BY <1>6, <3>1, <3>2
    <3> QED
      BY <1>5, <3>1, <3>3, Zenon
  <2>3. p.host = SubSeq(t, 1 + 1, bracket - 1) /\ p.host \in Text
        /\ Upto(t, 1) \o p.host = Upto(t, bracket - 1)
    <3>1. 1 \in 0 .. Len(t) /\ bracket - 1 \in 0 .. Len(t) /\ 1 <= bracket - 1 /\ 1 + 1 = 2
      BY <1>2, <2>1
    <3>2. p.host = SubSeq(t, 2, bracket - 1)
      BY <1>1, <1>7, Zenon
    <3>3. Upto(t, 1) \o SubSeq(t, 1 + 1, bracket - 1) = Upto(t, bracket - 1)
          /\ SubSeq(t, 1 + 1, bracket - 1) \in Text
      BY <1>6, <3>1, Zenon
    <3> QED
      BY <3>1, <3>2, <3>3, Zenon
  <2>4. Upto(t, bracket - 1) \o <<"]">> = Upto(t, bracket)
    <3>1. bracket \in 1 .. Len(t) /\ t[bracket] = "]"
      BY <1>2, <1>3, <2>1
    <3>2. Upto(t, bracket - 1) \o <<t[bracket]>> = Upto(t, bracket)
      BY <1>6, <3>1, Zenon
    <3> QED
      BY <3>1, <3>2, Zenon
  <2>5. CASE colon = 0
    <3>1. p.port = <<>> /\ ~p.hasPort /\ p.junk = After(t, bracket)
      BY <1>1, <1>7, <2>5
    <3>2. Upto(t, bracket) \o After(t, bracket) = t /\ Upto(t, bracket) \o <<>> = Upto(t, bracket)
          /\ After(t, bracket) \in Text
      BY <1>3, <1>5, <1>6
    <3>3. Target(p) = ((((<<"[">> \o p.host) \o <<"]">>) \o <<>>) \o <<>>) \o After(t, bracket)
      BY <1>1, <1>7, <3>1 DEF Target, If
    <3> QED
      <4>1. ((((Upto(t, 1) \o p.host) \o <<"]">>) \o <<>>) \o <<>>) \o After(t, bracket) = t
        <5>1. (Upto(t, 1) \o p.host) \o <<"]">> = Upto(t, bracket)
          BY <2>3, <2>4, Zenon
        <5>2. (((Upto(t, 1) \o p.host) \o <<"]">>) \o <<>>) \o <<>> = Upto(t, bracket)
          BY <3>2, <5>1, Zenon
        <5> QED
          BY <3>2, <5>2, Zenon
      <4> QED
        BY <1>5, <2>2, <2>3, <3>1, <3>2, <3>3, <4>1, Zenon
  <2>6. CASE colon # 0
    <3>1. p.port = After(t, colon) /\ p.hasPort /\ p.junk = <<>>
      BY <1>1, <1>7, <2>6
    <3>2. colon = bracket + 1 /\ colon \in 1 .. Len(t) /\ colon - 1 = bracket
      BY <1>2, <1>3, <1>4, <1>7, <2>6 DEF colon
    <3>3. Upto(t, bracket) \o <<":">> = Upto(t, colon)
      BY <1>4, <1>6, <2>6, <3>2
    <3>4. Upto(t, colon) \o After(t, colon) = t /\ t \o <<>> = t /\ After(t, colon) \in Text
      BY <1>4, <1>5, <1>6
    <3>5. Target(p) = ((((<<"[">> \o p.host) \o <<"]">>) \o <<":">>) \o After(t, colon)) \o <<>>
      BY <1>1, <1>7, <3>1 DEF Target, If
    <3> QED
      <4>1. ((((Upto(t, 1) \o p.host) \o <<"]">>) \o <<":">>) \o After(t, colon)) \o <<>> = t
        <5>1. Upto(t, 1) \o p.host = Upto(t, bracket - 1)
          BY <2>3, Zenon
        <5>2. Upto(t, colon) \o After(t, colon) = t
          BY <3>4, Zenon
        <5>3. t \o <<>> = t
          BY <3>4, Zenon
        <5> QED
          <6>1. ((Upto(t, 1) \o p.host) \o <<"]">>) \o <<":">> = Upto(t, colon)
            BY <2>4, <3>3, <5>1, Zenon
          <6> QED
            BY <5>2, <5>3, <6>1, Zenon
      <4> QED
        BY <1>5, <2>2, <2>3, <3>1, <3>4, <3>5, <4>1, Zenon
  <2> QED
    BY <2>5, <2>6
<1>8. ASSUME ~brks PROVE goal
  <2>1. CASE colon = 0
    <3>1. p.port = <<>> /\ ~p.hasPort /\ p.junk = <<>> /\ p.host = t /\ ~p.hasBrks
      BY <1>1, <1>8, <2>1
    <3>2. Target(p) = ((((<<>> \o t) \o <<>>) \o <<>>) \o <<>>) \o <<>>
      BY <3>1 DEF Target, If
    <3> QED
      <4>1. <<>> \o t = t /\ t \o <<>> = t
        BY <1>5
      <4>2. ((((<<>> \o t) \o <<>>) \o <<>>) \o <<>>) \o <<>> = t
        BY <4>1, Zenon
      <4> QED
        BY <1>5, <3>1, <3>2, <4>2, Zenon
  <2>2. CASE colon # 0
    <3>1. /\ p.port = After(t, colon) /\ p.hasPort /\ p.junk = <<>>
          /\ p.host = Upto(t, colon - 1) /\ ~p.hasBrks
      BY <1>1, <1>8, <2>2
    <3>2. colon \in 1 .. Len(t) /\ colon - 1 \in 0 .. Len(t)
      BY <1>2, <1>4, <2>2
    <3>3. Upto(t, colon - 1) \o <<":">> = Upto(t, colon) /\ Upto(t, colon - 1) \in Text
      BY <1>4, <1>6, <2>2, <3>2
    <3>4. Upto(t, colon) \o After(t, colon) = t /\ After(t, colon) \in Text
      BY <1>4, <1>6
    <3>5. Target(p) = ((((<<>> \o Upto(t, colon - 1)) \o <<>>) \o <<":">>) \o After(t, colon)) \o <<>>
      BY <3>1 DEF Target, If
    <3> QED
      <4>1. /\ <<>> \o Upto(t, colon - 1) = Upto(t, colon - 1) /\ t \o <<>> = t
            /\ Upto(t, colon - 1) \o <<>> = Upto(t, colon - 1)
        BY <1>5, <3>3
      <4>2. ((((<<>> \o Upto(t, colon - 1)) \o <<>>) \o <<":">>) \o After(t, colon)) \o <<>> = t
        <5>1. (<<>> \o Upto(t, colon - 1)) \o <<>> = Upto(t, colon - 1)
          BY <4>1, Zenon
        <5>2. ((<<>> \o Upto(t, colon - 1)) \o <<>>) \o <<":">> = Upto(t, colon)
          BY <3>3, <5>1, Zenon
        <5>3. (((<<>> \o Upto(t, colon - 1)) \o <<>>) \o <<":">>) \o After(t, colon) = t
          BY <3>4, <5>2, Zenon
        <5> QED
          BY <4>1, <5>3, Zenon
      <4> QED
        BY <1>5, <3>1, <3>3, <3>4, <3>5, <4>2, Zenon
  <2> QED
    BY <2>1, <2>2
<1> QED
  BY <1>7, <1>8, <1>9 DEF p

(* What an authority says beside its target.                               *)
LEMMA AuthorityIs ==
  ASSUME NEW a
  PROVE  LET p == avurlSplitAuthority(a) IN
         /\ p.schema = <<>> /\ p.path = <<>> /\ p.slashNum = 0 /\ p.hasSchema = FALSE
         /\ p.hasAtSign = (LastOf("@", a) # 0)
         /\ p.userinfo = IF LastOf("@", a) = 0 THEN <<>> ELSE Upto(a, LastOf("@", a) - 1)
BY DEF avurlSplitAuthority, NoParts

(* The whole of an authority is written as it was.                         *)
LEMMA AuthorityIsKept ==
  ASSUME NEW a \in Text
  PROVE  LET p == avurlSplitAuthority(a) IN
         /\ PartsAreText(p)
         /\ p.userinfo \o (If(p.hasAtSign, <<"@">>) \o Target(p)) = a
<1> DEFINE p == avurlSplitAuthority(a)
           at == LastOf("@", a)
           t == After(a, at)
<1>1. Len(a) \in Nat /\ at \in 0 .. Len(a) /\ (at # 0 => a[at] = "@")
  BY LastOfIs, LenProperties DEF Text
<1>2. t \in Text /\ Upto(a, at) \o t = a
  BY <1>1, CutAndJoin
<1>3. /\ p.host \in Text /\ p.port \in Text /\ p.junk \in Text
      /\ p.hasBrks \in BOOLEAN /\ p.hasPort \in BOOLEAN
      /\ Target(p) = t
  BY <1>2, TargetIsKept, Zenon
<1>4. /\ p.schema = <<>> /\ p.path = <<>> /\ p.slashNum = 0 /\ p.hasSchema = FALSE
      /\ p.hasAtSign = (at # 0)
      /\ p.userinfo = IF at = 0 THEN <<>> ELSE Upto(a, at - 1)
  BY AuthorityIs, Zenon
<1>5. <<>> \in Text /\ <<>> \o (<<>> \o a) = a /\ <<"@">> \in Text
  BY PiecesAreText DEF Chars
<1> DEFINE kept == /\ PartsAreText(p)
                    /\ p.userinfo \o (If(p.hasAtSign, <<"@">>) \o Target(p)) = a
<1> HIDE DEF p, at, t
<1>9. p.userinfo \in Text => PartsAreText(p)
  <2>1. p.hasAtSign \in BOOLEAN /\ p.hasSchema \in BOOLEAN
    BY <1>4
  <2>2. p.slashNum \in Nat
    BY <1>4
  <2>3. p.schema \in Text /\ p.path \in Text
    BY <1>4, <1>5, Zenon
  <2> QED
    BY <1>3, <2>1, <2>2, <2>3, Zenon DEF PartsAreText
<1>6. ASSUME at = 0 PROVE kept
  <2>1. t = a /\ p.userinfo = <<>> /\ ~p.hasAtSign
    BY <1>4, <1>6, UptoGrows DEF t
  <2>2. p.userinfo \o (If(p.hasAtSign, <<"@">>) \o Target(p)) = <<>> \o (<<>> \o a)
    BY <1>3, <2>1 DEF If
  <2>3. p.userinfo \in Text
    BY <1>5, <2>1
  <2> QED
    BY <1>5, <1>9, <2>2, <2>3, Zenon
<1>7. ASSUME at # 0 PROVE kept
  <2>1. p.userinfo = Upto(a, at - 1) /\ p.hasAtSign
    BY <1>4, <1>7
  <2>2. at \in 1 .. Len(a) /\ at - 1 \in 0 .. Len(a) /\ a[at] = "@"
    BY <1>1, <1>7
  <2>3. Upto(a, at - 1) \in Text /\ Upto(a, at - 1) \o <<a[at]>> = Upto(a, at)
    BY <2>2, CutAndJoin, UptoGrows
  <2>4. AreTexts(Upto(a, at - 1), <<"@">>, t)
    BY <1>2, <1>5, <2>3 DEF AreTexts
  <2>5. Upto(a, at - 1) \o (<<"@">> \o t) = (Upto(a, at - 1) \o <<"@">>) \o t
    BY <2>4, TextsRegroup
  <2>6. Upto(a, at - 1) \o <<"@">> = Upto(a, at)
    BY <2>2, <2>3, Zenon
  <2>7. p.userinfo \o (If(p.hasAtSign, <<"@">>) \o Target(p)) = a
    BY <1>2, <1>3, <2>1, <2>5, <2>6, Zenon DEF If
  <2>8. p.userinfo \in Text
    BY <2>1, <2>3
  <2> QED
    BY <1>9, <2>7, <2>8, Zenon
<1> QED
  BY <1>6, <1>7 DEF p

(* Two authorities with the same target.                                   *)
SameTarget(p, q) ==
  /\ p.host = q.host /\ p.port = q.port /\ p.junk = q.junk
  /\ p.hasBrks = q.hasBrks /\ p.hasPort = q.hasPort

(* A target after the last "@" is taken apart alike, whatever precedes it. *)
LEMMA TargetsAreEqual ==
  ASSUME NEW a, NEW b, After(a, LastOf("@", a)) = After(b, LastOf("@", b))
  PROVE  SameTarget(avurlSplitAuthority(a), avurlSplitAuthority(b))
<1> DEFINE bracket(t) == FirstOf({"]"}, t)
           brks(t) == bracket(t) # 0 /\ t[1] = "["
           colon(t) == IF brks(t) THEN IF bracket(t) < Len(t) /\ t[bracket(t) + 1] = ":"
                                       THEN bracket(t) + 1 ELSE 0
                       ELSE FirstOf({":"}, t)
           host(t) == IF brks(t) THEN SubSeq(t, 2, bracket(t) - 1)
                      ELSE IF colon(t) # 0 THEN Upto(t, colon(t) - 1) ELSE t
           port(t) == IF colon(t) # 0 THEN After(t, colon(t)) ELSE <<>>
           junk(t) == IF brks(t) /\ colon(t) = 0 THEN After(t, bracket(t)) ELSE <<>>
<1>1. ASSUME NEW s
      PROVE  LET p == avurlSplitAuthority(s)
                 t == After(s, LastOf("@", s))
             IN  /\ p.hasBrks = brks(t) /\ p.host = host(t) /\ p.hasPort = (colon(t) # 0)
                 /\ p.port = port(t) /\ p.junk = junk(t)
  BY DEF avurlSplitAuthority, NoParts
<1> HIDE DEF host, port, junk, brks, colon
<1> QED
  BY <1>1 DEF SameTarget

(* Naming a user before an authority without one changes nothing else.     *)
LEMMA AuthorityWithUser ==
  ASSUME NEW a \in Text, LastOf("@", a) = 0, NEW ui \in Text
  PROVE  /\ ui \o (<<"@">> \o a) \in Text
         /\ LET p == avurlSplitAuthority(ui \o (<<"@">> \o a)) IN
            p.userinfo = ui /\ p.hasAtSign /\ SameTarget(p, avurlSplitAuthority(a))
<1> DEFINE w == ui \o (<<"@">> \o a)
           n == Len(ui) + 1
           front == ui \o <<"@">>
<1>1. Len(a) \in Nat /\ Len(ui) \in Nat /\ <<"@">> \in Text /\ Len(<<"@">>) = 1 /\ <<"@">>[1] = "@"
  BY LenProperties, PiecesAreText DEF Text, Chars
<1>2. w = front \o a /\ w \in Text /\ front \in Text
  <2>1. AreTexts(ui, <<"@">>, a)
    BY <1>1 DEF AreTexts
  <2> QED
    BY <2>1, TextsRegroup
<1>3. Len(front) = n /\ front[n] = "@" /\ Upto(front, Len(ui)) = ui
  <2>1. /\ Len(front) = Len(ui) + Len(<<"@">>)
        /\ \A j \in 1 .. Len(<<"@">>) : front[Len(ui) + j] = <<"@">>[j]
        /\ Upto(front, Len(ui)) = ui
    BY <1>1, JoinAndCut
  <2> QED
    BY <1>1, <2>1
<1>4. /\ Len(w) = n + Len(a) /\ After(w, n) = a /\ Upto(w, n) = front
      /\ \A j \in 1 .. n : w[j] = front[j]
      /\ \A j \in 1 .. Len(a) : w[n + j] = a[j]
  <2> HIDE DEF w, front
  <2>1. /\ Len(front \o a) = Len(front) + Len(a)
        /\ After(front \o a, Len(front)) = a /\ Upto(front \o a, Len(front)) = front
        /\ \A j \in 1 .. Len(front) : (front \o a)[j] = front[j]
        /\ \A j \in 1 .. Len(a) : (front \o a)[Len(front) + j] = a[j]
    BY <1>2, JoinAndCut
  <2> QED
    BY <1>2, <1>3, <2>1, Zenon
<1>5. LastOf("@", w) = n
  <2>1. n \in 1 .. Len(w) /\ w[n] = "@"
    BY <1>1, <1>3, <1>4
  <2>2. ASSUME NEW j \in n + 1 .. Len(w), w[j] = "@"
        PROVE  FALSE
    <3>1. j - n \in 1 .. Len(a) /\ n + (j - n) = j
      BY <1>1, <1>4
    <3>2. a[j - n] = "@"
      BY <1>4, <2>2, <3>1
    <3> QED
      BY <3>1, <3>2, LastOfIs
  <2>3. \A j \in n + 1 .. Len(w) : w[j] # "@"
    BY <2>2
  <2>4. \A i \in 1 .. Len(w) :
          w[i] = "@" /\ (\A j \in i + 1 .. Len(w) : w[j] # "@") => LastOf("@", w) = i
    BY <1>2, LastOfIs
  <2> HIDE DEF w, n
  <2> QED
    BY <2>1, <2>3, <2>4
<1>6. Upto(w, n - 1) = ui
  <2>1. n - 1 = Len(ui) /\ Len(ui) \in 0 .. Len(w)
    BY <1>1, <1>4
  <2>2. w = ui \o (<<"@">> \o a) /\ <<"@">> \o a \in Text
    BY <1>1, JoinAndCut
  <2>3. Upto(w, Len(ui)) = ui
    BY <2>2, JoinAndCut
  <2> QED
    BY <2>1, <2>3
<1>7. After(a, LastOf("@", a)) = a
  BY UptoGrows
<1>8. n # 0
  BY <1>1
<1> HIDE DEF w, n
<1>9. SameTarget(avurlSplitAuthority(w), avurlSplitAuthority(a))
  BY <1>4, <1>5, <1>7, TargetsAreEqual
<1>10. avurlSplitAuthority(w).userinfo = ui /\ avurlSplitAuthority(w).hasAtSign
  <2>1. /\ avurlSplitAuthority(w).hasAtSign = (n # 0)
        /\ avurlSplitAuthority(w).userinfo = IF n = 0 THEN <<>> ELSE Upto(w, n - 1)
    BY <1>5, AuthorityIs
  <2> QED
    BY <1>6, <1>8, <2>1
<1> QED
  BY <1>2, <1>9, <1>10 DEF w

-----------------------------------------------------------------------------
(* URLs: the whole *)

(* A URL with a protocol has one before its first ":", slashes, then an    *)
(* authority as far as a "/" or a "?", and all else is its path.           *)
IsURL(u, schema, n, a, path) ==
  /\ schema \in Text /\ n \in 0 .. 2 /\ a \in Text /\ path \in Text
  /\ \A i \in 1 .. Len(schema) : schema[i] # ":"
  /\ \A i \in 1 .. Len(a) : a[i] \notin {"/", "?"}
  /\ path # <<>> => path[1] \in {"/", "?"}
  /\ n = 2 \/ a \o path = <<>> \/ (a \o path)[1] # "/"
  /\ u = ((schema \o <<":">>) \o Slashes(n)) \o (a \o path)

(* What a URL is taken apart into.                                         *)
SplitInto(u, schema, n, a, path) ==
  LET p == avurlSplit(u)
      q == avurlSplitAuthority(a)
  IN  /\ SameTarget(p, q) /\ p.userinfo = q.userinfo /\ p.hasAtSign = q.hasAtSign
      /\ p.hasSchema = TRUE /\ p.schema = schema /\ p.slashNum = n /\ p.path = path

(* avurlSplit, in these terms.                                             *)
LEMMA SplitBy ==
  ASSUME NEW u, FirstOf({":"}, u) # 0
  PROVE  LET colon == FirstOf({":"}, u)
             slashes == SlashNum(After(u, colon))
             rest == After(u, colon + slashes)
             stop == FirstOf({"/", "?"}, rest)
             pathAt == IF stop = 0 THEN Len(rest) ELSE stop - 1
         IN  SplitInto(u, Upto(u, colon - 1), slashes, Upto(rest, pathAt), After(rest, pathAt))
<1> DEFINE colon == FirstOf({":"}, u)
           slashes == SlashNum(After(u, colon))
           rest == After(u, colon + slashes)
           stop == FirstOf({"/", "?"}, rest)
           pathAt == IF stop = 0 THEN Len(rest) ELSE stop - 1
           auth == Upto(rest, pathAt)
           q == avurlSplitAuthority(auth)
           p == [q EXCEPT !.hasSchema = TRUE, !.schema = Upto(u, colon - 1),
                          !.slashNum = slashes, !.path = After(rest, pathAt)]
<1>1. avurlSplit(u) = p
  BY DEF avurlSplit
<1>2. DOMAIN q = {"schema", "userinfo", "host", "port", "path", "hasSchema", "slashNum",
                  "hasAtSign", "hasBrks", "hasPort", "junk"}
  BY DEF avurlSplitAuthority, NoParts
<1> HIDE DEF q, slashes, colon, rest, stop, pathAt, auth
<1>3. /\ SameTarget(p, q) /\ p.userinfo = q.userinfo /\ p.hasAtSign = q.hasAtSign
      /\ p.hasSchema = TRUE /\ p.schema = Upto(u, colon - 1) /\ p.slashNum = slashes
      /\ p.path = After(rest, pathAt)
  BY <1>2 DEF SameTarget
<1> HIDE DEF p
<1>4. SplitInto(u, Upto(u, colon - 1), slashes, Upto(rest, pathAt), After(rest, pathAt))
  BY <1>1, <1>3 DEF SplitInto, q, auth
<1> QED
  BY <1>4 DEF colon, slashes, rest, stop, pathAt

(* Every URL with a ":" is one, of what it is taken apart into.            *)
LEMMA SplitIsURL ==
  ASSUME NEW u \in Text, FirstOf({":"}, u) # 0
  PROVE  \E schema, n, a, path : IsURL(u, schema, n, a, path) /\ SplitInto(u, schema, n, a, path)
<1> DEFINE colon == FirstOf({":"}, u)
           more == After(u, colon)
           n == SlashNum(more)
           rest == After(u, colon + n)
           stop == FirstOf({"/", "?"}, rest)
           pathAt == IF stop = 0 THEN Len(rest) ELSE stop - 1
           schema == Upto(u, colon - 1)
           a == Upto(rest, pathAt)
           path == After(rest, pathAt)
<1>1. SplitInto(u, schema, n, a, path)
  BY SplitBy
<1>2. Len(u) \in Nat /\ colon \in 1 .. Len(u) /\ u[colon] = ":"
      /\ \A j \in 1 .. colon - 1 : u[j] # ":"
  BY FirstOfIs, LenProperties DEF Text
<1> HIDE DEF colon
<1>3. schema \in Text /\ Len(schema) = colon - 1 /\ \A i \in 1 .. Len(schema) : schema[i] # ":"
  <2>1. colon - 1 \in 0 .. Len(u)
    BY <1>2
  <2>2. schema \in Text /\ Len(schema) = colon - 1 /\ \A j \in 1 .. colon - 1 : schema[j] = u[j]
    BY <2>1, CutAndJoin
  <2> HIDE DEF schema
  <2> QED
    BY <1>2, <2>2
<1>4. schema \o <<":">> = Upto(u, colon) /\ Upto(u, colon) \o more = u /\ more \in Text
  <2>1. Upto(u, colon - 1) \o <<u[colon]>> = Upto(u, colon)
    BY <1>2, UptoGrows
  <2>2. Upto(u, colon) \o more = u /\ more \in Text
    <3>1. colon \in 0 .. Len(u)
      BY <1>2
    <3> QED
      BY <3>1, CutAndJoin, Zenon
  <2> QED
    BY <1>2, <2>1, <2>2, Zenon
<1>5. SlashesOf(more, n) /\ Len(more) = Len(u) - colon
  <2>1. colon \in 0 .. Len(u)
    BY <1>2
  <2>2. Len(more) = Len(u) - colon
    BY <2>1, CutAndJoin
  <2>3. SlashesOf(more, n)
    BY <1>4, SlashNumIs, Zenon
  <2> QED
    BY <2>2, <2>3
<1>6. rest = After(more, n) /\ rest \in Text /\ Slashes(n) \o rest = more /\ n \in 0 .. 2
  <2>1. n \in 0 .. 2 /\ n \in 0 .. Len(more) /\ n \in 0 .. Len(u) - colon
        /\ \A i \in 1 .. n : more[i] = "/"
    BY <1>2, <1>5 DEF SlashesOf
  <2>2. rest = After(more, n)
    BY <1>2, <2>1, CutTwice
  <2>3. After(more, n) \in Text /\ Upto(more, n) \o After(more, n) = more
        /\ Upto(more, n) \in Text /\ Len(Upto(more, n)) = n
        /\ \A i \in 1 .. n : Upto(more, n)[i] = more[i]
    BY <1>4, <2>1, CutAndJoin
  <2>4. Upto(more, n) = Slashes(n)
    <3>1. Slashes(n) \in Text /\ Len(Slashes(n)) = n /\ \A i \in 1 .. n : Slashes(n)[i] = "/"
      BY <2>1, SlashesAreText
    <3> HIDE DEF n, more
    <3> QED
      BY <2>1, <2>3, <3>1, SeqEqual DEF Text
  <2> QED
    BY <2>1, <2>2, <2>3, <2>4, Zenon
<1>7. rest = <<>> \/ n = 2 \/ rest[1] # "/"
  <2>1. n \in 0 .. Len(more) /\ (n = 2 \/ n = Len(more) \/ more[n + 1] # "/") /\ Len(more) \in Nat
    BY <1>2, <1>5 DEF SlashesOf
  <2>2. Len(rest) = Len(more) - n /\ \A j \in 1 .. Len(more) - n : rest[j] = more[n + j]
    <3>1. /\ Len(After(more, n)) = Len(more) - n
          /\ \A j \in 1 .. Len(more) - n : After(more, n)[j] = more[n + j]
      BY <1>4, <2>1, CutAndJoin
    <3> QED
      BY <1>6, <3>1, Zenon
  <2>3. Len(rest) = 0 => rest = <<>>
    BY <1>6, EmptySeq DEF Text
  <2> HIDE DEF rest, n, more
  <2> QED
    BY <2>1, <2>2, <2>3
<1>8. /\ Len(rest) \in Nat /\ stop \in 0 .. Len(rest) /\ pathAt \in 0 .. Len(rest)
      /\ \A j \in 1 .. pathAt : rest[j] \notin {"/", "?"}
      /\ pathAt < Len(rest) => rest[pathAt + 1] \in {"/", "?"}
  <2>1. /\ Len(rest) \in Nat /\ stop \in 0 .. Len(rest)
        /\ stop = 0 => \A j \in 1 .. Len(rest) : rest[j] \notin {"/", "?"}
        /\ stop # 0 => /\ rest[stop] \in {"/", "?"}
                       /\ \A j \in 1 .. stop - 1 : rest[j] \notin {"/", "?"}
    BY <1>6, FirstOfIs, LenProperties DEF Text
  <2> HIDE DEF stop, rest
  <2> QED
    BY <2>1
<1> HIDE DEF pathAt, stop, rest
<1>9. /\ a \in Text /\ path \in Text /\ a \o path = rest
      /\ \A i \in 1 .. Len(a) : a[i] \notin {"/", "?"}
      /\ path # <<>> => path[1] \in {"/", "?"}
  <2>1. /\ a \in Text /\ path \in Text /\ a \o path = rest
        /\ Len(a) = pathAt /\ Len(path) = Len(rest) - pathAt
        /\ \A j \in 1 .. pathAt : a[j] = rest[j]
        /\ \A j \in 1 .. Len(rest) - pathAt : path[j] = rest[pathAt + j]
    BY <1>6, <1>8, CutAndJoin
  <2>2. path # <<>> => Len(path) # 0 /\ Len(path) \in Nat
    BY <2>1, EmptySeq, LenProperties DEF Text
  <2> HIDE DEF a, path
  <2>3. path # <<>> => 1 \in 1 .. Len(rest) - pathAt
    BY <1>8, <2>1, <2>2
  <2>4. path # <<>> => path[1] \in {"/", "?"}
    <3>1. path # <<>> => path[1] = rest[pathAt + 1]
      BY <2>1, <2>3, Zenon
    <3>2. path # <<>> => pathAt < Len(rest)
      BY <1>8, <2>3
    <3> QED
      BY <1>8, <3>1, <3>2, Zenon
  <2> QED
    <3>1. \A i \in 1 .. Len(a) : a[i] \notin {"/", "?"}
      BY <1>8, <2>1, Zenon
    <3> QED
      BY <2>1, <2>4, <3>1, Zenon
<1>10. u = ((schema \o <<":">>) \o Slashes(n)) \o rest
  <2>1. Upto(u, colon) \in Text
    BY <1>2, CutAndJoin
  <2>2. Slashes(n) \in Text
    BY <1>6, SlashesAreText
  <2>3. AreTexts(Upto(u, colon), Slashes(n), rest)
    BY <1>6, <2>1, <2>2 DEF AreTexts
  <2>4. (Upto(u, colon) \o Slashes(n)) \o rest = Upto(u, colon) \o (Slashes(n) \o rest)
    BY <2>3, TextsRegroup
  <2> QED
    BY <1>4, <1>6, <2>4, Zenon
<1> HIDE DEF schema, n, a, path
<1>11. IsURL(u, schema, n, a, path)
  BY <1>3, <1>6, <1>7, <1>9, <1>10, Zenon DEF IsURL
<1> QED
  BY <1>1, <1>11 DEF rest, stop, pathAt, a, path

(* And a URL made of these parts is taken apart into them.                 *)
LEMMA URLIsSplit ==
  ASSUME NEW u, NEW schema, NEW n, NEW a, NEW path, IsURL(u, schema, n, a, path)
  PROVE  u \in Text /\ FirstOf({":"}, u) # 0 /\ SplitInto(u, schema, n, a, path)
<1> DEFINE rest == a \o path
           front == schema \o <<":">>
           more == Slashes(n) \o rest
           c == Len(schema) + 1
<1>1. /\ schema \in Text /\ n \in 0 .. 2 /\ a \in Text /\ path \in Text
      /\ \A i \in 1 .. Len(schema) : schema[i] # ":"
      /\ \A i \in 1 .. Len(a) : a[i] \notin {"/", "?"}
      /\ path # <<>> => path[1] \in {"/", "?"}
      /\ n = 2 \/ rest = <<>> \/ rest[1] # "/"
      /\ u = (front \o Slashes(n)) \o rest
  BY DEF IsURL
<1>2. Len(schema) \in Nat /\ Len(a) \in Nat /\ Len(path) \in Nat /\ n \in Nat
  BY <1>1, LenProperties DEF Text
<1>3. <<":">> \in Text /\ Len(<<":">>) = 1 /\ <<":">>[1] = ":"
  BY PiecesAreText DEF Chars
<1>4. Slashes(n) \in Text /\ Len(Slashes(n)) = n /\ \A i \in 1 .. n : Slashes(n)[i] = "/"
  BY <1>2, SlashesAreText
<1>5. /\ rest \in Text /\ Len(rest) = Len(a) + Len(path)
      /\ \A j \in 1 .. Len(a) : rest[j] = a[j]
      /\ \A j \in 1 .. Len(path) : rest[Len(a) + j] = path[j]
      /\ Upto(rest, Len(a)) = a /\ After(rest, Len(a)) = path
  BY <1>1, JoinAndCut
<1>6. /\ front \in Text /\ Len(front) = c /\ \A j \in 1 .. Len(schema) : front[j] = schema[j]
      /\ front[c] = ":" /\ Upto(front, Len(schema)) = schema
  <2>1. /\ front \in Text /\ Len(front) = Len(schema) + Len(<<":">>)
        /\ \A j \in 1 .. Len(schema) : front[j] = schema[j]
        /\ \A j \in 1 .. Len(<<":">>) : front[Len(schema) + j] = <<":">>[j]
        /\ Upto(front, Len(schema)) = schema
    BY <1>1, <1>3, JoinAndCut
  <2> HIDE DEF front
  <2> QED
    BY <1>3, <2>1
<1> HIDE DEF rest
<1>7. /\ more \in Text /\ Len(more) = n + Len(rest)
      /\ \A j \in 1 .. n : more[j] = "/"
      /\ \A j \in 1 .. Len(rest) : more[n + j] = rest[j]
      /\ After(more, n) = rest
  <2>1. /\ more \in Text /\ Len(more) = Len(Slashes(n)) + Len(rest)
        /\ \A j \in 1 .. Len(Slashes(n)) : more[j] = Slashes(n)[j]
        /\ \A j \in 1 .. Len(rest) : more[Len(Slashes(n)) + j] = rest[j]
        /\ After(more, Len(Slashes(n))) = rest
    BY <1>4, <1>5, JoinAndCut
  <2> HIDE DEF more
  <2> QED
    BY <1>4, <2>1
<1> HIDE DEF front
<1>8. u = front \o more /\ u \in Text
  <2>1. AreTexts(front, Slashes(n), rest)
    BY <1>4, <1>5, <1>6 DEF AreTexts
  <2> QED
    BY <1>1, <2>1, TextsRegroup
<1> HIDE DEF more
<1>9. /\ Len(u) = c + Len(more) /\ \A j \in 1 .. c : u[j] = front[j]
      /\ Upto(u, c) = front /\ After(u, c) = more
  <2>1. /\ Len(front \o more) = Len(front) + Len(more)
        /\ \A j \in 1 .. Len(front) : (front \o more)[j] = front[j]
        /\ Upto(front \o more, Len(front)) = front /\ After(front \o more, Len(front)) = more
    BY <1>6, <1>7, JoinAndCut
  <2> QED
    BY <1>6, <1>8, <2>1, Zenon
<1>10. c \in 1 .. Len(u) /\ FirstOf({":"}, u) = c
  <2>1. c \in 1 .. Len(u) /\ Len(more) \in Nat
    BY <1>2, <1>5, <1>7, <1>9
  <2>2. c \in 1 .. c /\ u[c] = ":"
    BY <1>2, <1>6, <1>9
  <2>3. \A j \in 1 .. c - 1 : u[j] \notin {":"}
    <3>1. \A j \in 1 .. c - 1 : j \in 1 .. c /\ j \in 1 .. Len(schema)
      BY <1>2
    <3> QED
      BY <1>1, <1>6, <1>9, <3>1
  <2>4. \A i \in 1 .. Len(u) :
          u[i] \in {":"} /\ (\A j \in 1 .. i - 1 : u[j] \notin {":"}) => FirstOf({":"}, u) = i
    BY <1>8, FirstOfIs
  <2> HIDE DEF c
  <2> QED
    BY <2>1, <2>2, <2>3, <2>4
<1>11. Upto(u, c - 1) = schema
  <2>1. Len(schema) \in 0 .. Len(u) /\ c - 1 = Len(schema)
    BY <1>2, <1>10
  <2>2. <<":">> \o more \in Text /\ u = schema \o (<<":">> \o more)
    <3>1. AreTexts(schema, <<":">>, more)
      BY <1>1, <1>3, <1>7 DEF AreTexts
    <3> QED
      BY <1>8, <3>1, TextsRegroup DEF front
  <2>3. Upto(u, Len(schema)) = schema
    BY <1>1, <2>2, JoinAndCut
  <2> QED
    BY <2>1, <2>3
<1>12. SlashNum(After(u, c)) = n
  <2>1. SlashesOf(more, n)
    <3>1. n <= Len(more) /\ Len(rest) \in Nat
      BY <1>2, <1>5, <1>7
    <3>2. rest = <<>> => n = Len(more)
      BY <1>2, <1>5, <1>7, PiecesAreText
    <3>3. rest # <<>> => 1 \in 1 .. Len(rest)
      BY <1>5, EmptySeq DEF Text
    <3>4. rest # <<>> => more[n + 1] = rest[1]
      BY <1>7, <3>3
    <3> QED
      BY <1>1, <1>7, <3>1, <3>2, <3>4 DEF SlashesOf
  <2> QED
    BY <1>7, <1>9, <2>1, SlashNumIs
<1>13. After(u, c + n) = rest
  <2>1. c \in 0 .. Len(u) /\ n \in 0 .. Len(u) - c
    BY <1>2, <1>5, <1>7, <1>9, <1>10
  <2>2. After(After(u, c), n) = After(u, c + n)
    BY <1>8, <2>1, CutTwice
  <2> QED
    BY <1>7, <1>9, <2>2, Zenon
<1> DEFINE stop == FirstOf({"/", "?"}, rest)
           pathAt == IF stop = 0 THEN Len(rest) ELSE stop - 1
<1>14. pathAt = Len(a)
  <2>1. \A j \in 1 .. Len(a) : rest[j] \notin {"/", "?"}
    BY <1>1, <1>5
  <2>2. CASE path = <<>>
    <3>1. Len(rest) = Len(a)
      BY <1>2, <1>5, <2>2, PiecesAreText
    <3>2. stop = 0
      BY <1>5, <2>1, <3>1, FirstOfIs
    <3> QED
      BY <3>1, <3>2
  <2>3. CASE path # <<>>
    <3>1. 1 \in 1 .. Len(path) /\ Len(a) + 1 \in 1 .. Len(rest) /\ (Len(a) + 1) - 1 = Len(a)
      BY <1>1, <1>2, <1>5, <2>3, EmptySeq DEF Text
    <3>2. rest[Len(a) + 1] \in {"/", "?"}
      BY <1>1, <1>5, <2>3, <3>1
    <3>3. stop = Len(a) + 1
      BY <1>5, <2>1, <3>1, <3>2, FirstOfIs
    <3> QED
      BY <1>2, <3>3
  <2> QED
    BY <2>2, <2>3
<1>15. SplitInto(u, Upto(u, c - 1), n, Upto(rest, pathAt), After(rest, pathAt))
  <2>1. c # 0
    BY <1>2
  <2> HIDE DEF c
  <2> QED
    BY <1>10, <1>12, <1>13, <2>1, SplitBy
<1>16. c # 0
  BY <1>2
<1> QED
  BY <1>5, <1>8, <1>10, <1>11, <1>14, <1>15, <1>16, Zenon

(* What parts that share a target are joined into.                         *)
MadeOf(p, schema, n, a, path) ==
  /\ schema \in Text /\ n \in 0 .. 2 /\ a \in Text /\ path \in Text
  /\ SameTarget(p, avurlSplitAuthority(a)) /\ p.userinfo \in Text /\ p.hasAtSign \in BOOLEAN
  /\ p.hasSchema = TRUE /\ p.schema = schema /\ p.slashNum = n /\ p.path = path

WrittenOf(p, schema, n, a, path) ==
  ((schema \o <<":">>) \o Slashes(n))
    \o ((p.userinfo \o (If(p.hasAtSign, <<"@">>) \o Target(avurlSplitAuthority(a)))) \o path)

(* Such parts are joined into this.                                        *)
LEMMA JoinsInto ==
  ASSUME NEW p, NEW schema, NEW n, NEW a, NEW path, MadeOf(p, schema, n, a, path)
  PROVE  avurlJoin(p) = WrittenOf(p, schema, n, a, path)
<1> USE DEF MadeOf
<1>1. Target(p) = Target(avurlSplitAuthority(a))
  BY DEF Target, SameTarget
<1>2. PartsAreText(avurlSplitAuthority(a))
  BY AuthorityIsKept, Zenon
<1>3. PartsAreText(p)
  <2>1. p.slashNum \in Nat
    OBVIOUS
  <2>2. p.hasSchema \in BOOLEAN
    OBVIOUS
  <2> QED
    BY <1>2, <2>1, <2>2, Zenon DEF PartsAreText, SameTarget
<1>4. Protocol(p) = (schema \o <<":">>) \o Slashes(n)
  BY DEF Protocol, If
<1>5. avurlJoin(p) = Protocol(p) \o ((p.userinfo \o (If(p.hasAtSign, <<"@">>) \o Target(p)))
                                       \o p.path)
  BY <1>3, PartsJoin
<1> QED
  BY <1>1, <1>4, <1>5, Zenon DEF WrittenOf

(* JoinUndoesSplit, for every text.                                        *)
LEMMA SplitIsRejoined ==
  ASSUME NEW u \in Text
  PROVE  avurlJoin(avurlSplit(u)) = u
<1>1. CASE FirstOf({":"}, u) = 0
  <2> DEFINE p == [NoParts EXCEPT !.path = u]
  <2>1. avurlSplit(u) = p
    BY <1>1 DEF avurlSplit
  <2>2. /\ p.schema = <<>> /\ p.userinfo = <<>> /\ p.host = <<>> /\ p.port = <<>>
        /\ p.junk = <<>> /\ p.path = u /\ p.slashNum = 0
        /\ p.hasSchema = FALSE /\ p.hasAtSign = FALSE /\ p.hasBrks = FALSE /\ p.hasPort = FALSE
    BY DEF NoParts
  <2> HIDE DEF p
  <2>3. <<>> \in Text /\ <<>> \o <<>> = <<>> /\ <<>> \o u = u
    BY PiecesAreText
  <2>4. Slashes(0) = <<>>
    BY SlashesAreText, EmptySeq DEF Text
  <2>5. PartsAreText(p)
    <3>1. p.slashNum \in Nat
      BY <2>2
    <3>2. /\ p.hasSchema \in BOOLEAN /\ p.hasAtSign \in BOOLEAN
          /\ p.hasBrks \in BOOLEAN /\ p.hasPort \in BOOLEAN
      BY <2>2
    <3> QED
      BY <2>2, <2>3, <3>1, <3>2, Zenon DEF PartsAreText
  <2>6. Protocol(p) = <<>>
    BY <2>2, <2>3, <2>4 DEF Protocol, If
  <2>7. Target(p) = <<>>
    BY <2>2, <2>3 DEF Target, If
  <2>8. avurlJoin(p) = Protocol(p) \o ((p.userinfo \o (If(p.hasAtSign, <<"@">>) \o Target(p)))
                                         \o p.path)
    BY <2>5, PartsJoin
  <2>9. If(p.hasAtSign, <<"@">>) = <<>>
    BY <2>2 DEF If
  <2> QED
    BY <2>1, <2>2, <2>3, <2>6, <2>7, <2>8, <2>9, Zenon
<1>2. CASE FirstOf({":"}, u) # 0
  <2>1. PICK schema, n, a, path :
          IsURL(u, schema, n, a, path) /\ SplitInto(u, schema, n, a, path)
    BY <1>2, SplitIsURL
  <2> DEFINE p == avurlSplit(u)
             q == avurlSplitAuthority(a)
  <2>2. /\ schema \in Text /\ n \in 0 .. 2 /\ a \in Text /\ path \in Text
        /\ u = ((schema \o <<":">>) \o Slashes(n)) \o (a \o path)
    BY <2>1 DEF IsURL
  <2>3. /\ SameTarget(p, q) /\ p.userinfo = q.userinfo /\ p.hasAtSign = q.hasAtSign
        /\ p.hasSchema = TRUE /\ p.schema = schema /\ p.slashNum = n /\ p.path = path
    BY <2>1 DEF SplitInto
  <2>4. PartsAreText(q) /\ q.userinfo \o (If(q.hasAtSign, <<"@">>) \o Target(q)) = a
    BY <2>2, AuthorityIsKept
  <2>5. p.userinfo \in Text /\ p.hasAtSign \in BOOLEAN
    BY <2>3, <2>4 DEF PartsAreText
  <2> HIDE DEF p
  <2>6. avurlJoin(p) = ((schema \o <<":">>) \o Slashes(n))
          \o ((p.userinfo \o (If(p.hasAtSign, <<"@">>) \o Target(q))) \o path)
    <3>1. MadeOf(p, schema, n, a, path)
      BY <2>2, <2>3, <2>5, Zenon DEF MadeOf
    <3>2. avurlJoin(p) = WrittenOf(p, schema, n, a, path)
      BY <3>1, JoinsInto
    <3> QED
      BY <3>2 DEF WrittenOf
  <2> HIDE DEF q
  <2> QED
    BY <2>2, <2>3, <2>4, <2>6, Zenon DEF p
<1> QED
  BY <1>1, <1>2

-----------------------------------------------------------------------------
(* URLs: credentials *)

(* What an accepted URL is: one with a protocol that names no user.        *)
LEMMA AcceptedIsURL ==
  ASSUME NEW u \in Text, validateInputURL(u)
  PROVE  \E schema, n, a, path :
           /\ IsURL(u, schema, n, a, path) /\ SplitInto(u, schema, n, a, path)
           /\ LastOf("@", a) = 0 /\ Target(avurlSplitAuthority(a)) = a
           /\ avurlSplit(u).userinfo = <<>> /\ avurlSplit(u).hasAtSign = FALSE
<1>1. ~avurlSplit(u).hasAtSign /\ avurlSplit(u).schema # <<>>
  BY DEF validateInputURL, Parsed
<1>2. FirstOf({":"}, u) # 0
  <2> SUFFICES ASSUME FirstOf({":"}, u) = 0 PROVE FALSE
    OBVIOUS
  <2>1. avurlSplit(u) = [NoParts EXCEPT !.path = u]
    BY DEF avurlSplit
  <2>2. [NoParts EXCEPT !.path = u].schema = <<>>
    BY DEF NoParts
  <2> QED
    BY <1>1, <2>1, <2>2, Zenon
<1>3. PICK schema, n, a, path : IsURL(u, schema, n, a, path) /\ SplitInto(u, schema, n, a, path)
  BY <1>2, SplitIsURL
<1>4. a \in Text /\ avurlSplit(u).hasAtSign = avurlSplitAuthority(a).hasAtSign
      /\ avurlSplit(u).userinfo = avurlSplitAuthority(a).userinfo
  BY <1>3 DEF IsURL, SplitInto
<1>5. /\ avurlSplitAuthority(a).hasAtSign = (LastOf("@", a) # 0)
      /\ avurlSplitAuthority(a).userinfo
           = IF LastOf("@", a) = 0 THEN <<>> ELSE Upto(a, LastOf("@", a) - 1)
  BY AuthorityIs
<1>6. LastOf("@", a) = 0
  BY <1>1, <1>4, <1>5
<1>7. After(a, LastOf("@", a)) = a
  BY <1>4, <1>6, UptoGrows
<1>8. Target(avurlSplitAuthority(a)) = a
  <2>1. a = After(a, LastOf("@", a))
    BY <1>7
  <2> QED
    BY <1>4, <2>1, TargetIsKept, Zenon
<1> QED
  BY <1>3, <1>4, <1>5, <1>6, <1>8

(* All but the user is as it was.                                          *)
OnlyUserDiffers(new, old) ==
  /\ SameTarget(new, old) /\ new.hasSchema = old.hasSchema /\ new.schema = old.schema
  /\ new.slashNum = old.slashNum /\ new.path = old.path

(* A text without "/" and "?" written as the user is read as the user.     *)
LEMMA UserIsWritten ==
  ASSUME NEW u \in Text, validateInputURL(u),
         NEW ui \in Text, \A i \in 1 .. Len(ui) : ui[i] \notin {"/", "?"}
  PROVE  LET old == avurlSplit(u)
             new == avurlSplit(avurlJoin([old EXCEPT !.hasAtSign = TRUE, !.userinfo = ui]))
         IN  new.userinfo = ui /\ new.hasAtSign = TRUE /\ OnlyUserDiffers(new, old)
<1>1. PICK schema, n, a, path :
        /\ IsURL(u, schema, n, a, path) /\ SplitInto(u, schema, n, a, path)
        /\ LastOf("@", a) = 0 /\ Target(avurlSplitAuthority(a)) = a
  BY AcceptedIsURL
<1> DEFINE old == avurlSplit(u)
           p == [old EXCEPT !.hasAtSign = TRUE, !.userinfo = ui]
           q == avurlSplitAuthority(a)
           tail == <<"@">> \o a
           b == ui \o tail
           w == ((schema \o <<":">>) \o Slashes(n)) \o (b \o path)
<1>2. /\ schema \in Text /\ n \in 0 .. 2 /\ a \in Text /\ path \in Text
      /\ \A i \in 1 .. Len(schema) : schema[i] # ":"
      /\ \A i \in 1 .. Len(a) : a[i] \notin {"/", "?"}
      /\ path # <<>> => path[1] \in {"/", "?"}
  BY <1>1 DEF IsURL
<1>3. /\ SameTarget(old, q) /\ old.hasSchema = TRUE /\ old.schema = schema
      /\ old.slashNum = n /\ old.path = path
  BY <1>1 DEF SplitInto
<1>4. DOMAIN old = {"schema", "userinfo", "host", "port", "path", "hasSchema", "slashNum",
                    "hasAtSign", "hasBrks", "hasPort", "junk"}
  <2>1. \A x : DOMAIN avurlSplitAuthority(x) = DOMAIN NoParts
    BY DEF avurlSplitAuthority
  <2>2. DOMAIN old = DOMAIN NoParts
    BY <2>1 DEF avurlSplit
  <2> QED
    BY <2>2 DEF NoParts
<1> HIDE DEF old
<1>5. /\ p.userinfo = ui /\ p.hasAtSign = TRUE /\ SameTarget(p, q)
      /\ p.hasSchema = TRUE /\ p.schema = schema /\ p.slashNum = n /\ p.path = path
  <2>1. /\ p.userinfo = ui /\ p.hasAtSign = TRUE /\ SameTarget(p, old)
        /\ p.hasSchema = old.hasSchema /\ p.schema = old.schema
        /\ p.slashNum = old.slashNum /\ p.path = old.path
    BY <1>4 DEF SameTarget
  <2> HIDE DEF p, q
  <2> QED
    BY <1>3, <2>1, Zenon DEF SameTarget
<1> HIDE DEF p
<1>6. avurlJoin(p) = w
  <2>1. p.hasAtSign \in BOOLEAN
    BY <1>5
  <2>2. MadeOf(p, schema, n, a, path)
    BY <1>2, <1>5, <2>1, Zenon DEF MadeOf
  <2>3. avurlJoin(p) = WrittenOf(p, schema, n, a, path)
    BY <2>2, JoinsInto
  <2>4. If(p.hasAtSign, <<"@">>) = <<"@">>
    BY <1>5 DEF If
  <2> QED
    BY <1>1, <1>5, <2>3, <2>4, Zenon DEF WrittenOf
<1>7. /\ tail \in Text /\ b \in Text /\ Len(b) = Len(ui) + (1 + Len(a))
      /\ \A j \in 1 .. Len(ui) : b[j] = ui[j]
      /\ b[Len(ui) + 1] = "@"
      /\ \A j \in 1 .. Len(a) : b[Len(ui) + (1 + j)] = a[j]
  <2>1. <<"@">> \in Text /\ Len(<<"@">>) = 1 /\ <<"@">>[1] = "@"
    BY PiecesAreText DEF Chars
  <2>2. /\ tail \in Text /\ Len(tail) = Len(<<"@">>) + Len(a)
        /\ \A j \in 1 .. Len(<<"@">>) : tail[j] = <<"@">>[j]
        /\ \A j \in 1 .. Len(a) : tail[Len(<<"@">>) + j] = a[j]
    BY <1>2, <2>1, JoinAndCut
  <2>3. /\ tail \in Text /\ Len(tail) = 1 + Len(a) /\ tail[1] = "@"
        /\ \A j \in 1 .. Len(a) : tail[1 + j] = a[j]
    <3> HIDE DEF tail
    <3> QED
      BY <2>1, <2>2
  <2> HIDE DEF tail
  <2>4. /\ b \in Text /\ Len(b) = Len(ui) + Len(tail)
        /\ \A j \in 1 .. Len(ui) : b[j] = ui[j]
        /\ \A j \in 1 .. Len(tail) : b[Len(ui) + j] = tail[j]
    BY <2>3, JoinAndCut
  <2>5. Len(a) \in Nat
    BY <1>2, LenProperties DEF Text
  <2> HIDE DEF b
  <2> QED
    BY <2>3, <2>4, <2>5
<1>8. Len(ui) \in Nat /\ Len(a) \in Nat
  BY <1>2, LenProperties DEF Text
<1> HIDE DEF b
<1>9. \A i \in 1 .. Len(b) : b[i] \notin {"/", "?"}
  <2> SUFFICES ASSUME NEW i \in 1 .. Len(b)
               PROVE  b[i] \notin {"/", "?"}
    OBVIOUS
  <2>1. CASE i <= Len(ui)
    <3>1. i \in 1 .. Len(ui)
      BY <1>8, <2>1
    <3> QED
      BY <1>7, <3>1
  <2>2. CASE i = Len(ui) + 1
    BY <1>7, <2>2
  <2>3. CASE i > Len(ui) + 1
    <3>1. i - (Len(ui) + 1) \in 1 .. Len(a) /\ Len(ui) + (1 + (i - (Len(ui) + 1))) = i
      BY <1>7, <1>8, <2>3
    <3> QED
      BY <1>2, <1>7, <3>1
  <2> QED
    BY <1>8, <2>1, <2>2, <2>3
<1>10. (b \o path)[1] # "/"
  <2>1. 1 \in 1 .. Len(b)
    BY <1>7, <1>8
  <2>2. (b \o path)[1] = b[1]
    BY <1>2, <1>7, <2>1, JoinAndCut
  <2> QED
    BY <1>9, <2>1, <2>2
<1>11. IsURL(w, schema, n, b, path)
  BY <1>2, <1>7, <1>9, <1>10, Zenon DEF IsURL
<1>12. SplitInto(w, schema, n, b, path)
  BY <1>11, URLIsSplit
<1>13. /\ avurlSplitAuthority(b).userinfo = ui /\ avurlSplitAuthority(b).hasAtSign
       /\ SameTarget(avurlSplitAuthority(b), q)
  BY <1>1, <1>2, AuthorityWithUser DEF b
<1> DEFINE new == avurlSplit(w)
<1>14. /\ new.userinfo = ui /\ new.hasAtSign = TRUE /\ SameTarget(new, q)
       /\ new.hasSchema = TRUE /\ new.schema = schema /\ new.slashNum = n /\ new.path = path
  <2>1. /\ SameTarget(new, avurlSplitAuthority(b))
        /\ new.userinfo = avurlSplitAuthority(b).userinfo
        /\ new.hasAtSign = avurlSplitAuthority(b).hasAtSign
        /\ new.hasSchema = TRUE /\ new.schema = schema /\ new.slashNum = n /\ new.path = path
    BY <1>12 DEF SplitInto
  <2> HIDE DEF new
  <2>2. new.hasAtSign = TRUE
    <3>1. avurlSplitAuthority(b).hasAtSign = (LastOf("@", b) # 0)
      BY AuthorityIs
    <3> QED
      BY <1>13, <2>1, <3>1
  <2> QED
    BY <1>13, <2>1, <2>2, Zenon DEF SameTarget
<1> HIDE DEF w, q
<1>15. OnlyUserDiffers(new, old)
  BY <1>3, <1>14, Zenon DEF OnlyUserDiffers, SameTarget
<1> QED
  BY <1>6, <1>14, <1>15 DEF old, p

\* What one character is read as.
Decoded(c) == CASE c = "%2F" -> "/" [] c = "%3F" -> "?" [] c = "%3A" -> ":"
                [] c = "%31" -> "1" [] OTHER -> c

(* What a character is escaped to is read as that character is.            *)
LEMMA EscapesAre ==
  \A c \in Chars :
    /\ Escape[c] \in Chars /\ Escape[c] \notin {"/", "?", ":"}
    /\ Decoded(Escape[c]) = Decoded(c)
    /\ c \notin Encoded => Decoded(c) = c
BY DEF Escape, Chars, Encoded, Decoded

(* A text that has nothing percent-encoded is read as it is.               *)
LEMMA PlainIsRead ==
  ASSUME NEW s \in Text, \A i \in DOMAIN s : s[i] \notin Encoded
  PROVE  Unescaped(s) = s
<1>1. /\ DOMAIN s = 1 .. Len(s) /\ s = [i \in 1 .. Len(s) |-> s[i]]
      /\ \A i \in 1 .. Len(s) : s[i] \in Chars
  BY LenProperties, ElementOfSeq DEF Text
<1>2. \A i \in 1 .. Len(s) : Decoded(s[i]) = s[i]
  BY <1>1, EscapesAre
<1>3. Unescaped(s) = [i \in 1 .. Len(s) |-> Decoded(s[i])]
  BY <1>1 DEF Unescaped, Decoded
<1> QED
  BY <1>1, <1>2, <1>3

(* A user name or password, escaped and back.                              *)
Escaped(e, s) ==
  /\ e \in Text /\ Len(e) = Len(s) /\ \A i \in 1 .. Len(e) : e[i] \notin {"/", "?"}
  /\ ReadAs(e, s)

(* Escaping makes such a text of any, for a user name one without a ":".   *)
LEMMA EscapedAndBack ==
  ASSUME NEW s \in Seq(Chars)
  PROVE  /\ Escaped(escapUsername(s), s) /\ Escaped(escapPassword(s), s)
         /\ \A i \in 1 .. Len(s) : escapUsername(s)[i] # ":"
<1>1. /\ Len(s) \in Nat /\ DOMAIN s = 1 .. Len(s) /\ s \in [1 .. Len(s) -> Chars]
      /\ \A i \in 1 .. Len(s) : s[i] \in Chars
  BY LenProperties, ElementOfSeq
<1>2. ASSUME NEW e \in [1 .. Len(s) -> Chars],
             \A i \in 1 .. Len(s) : e[i] \notin {"/", "?"} /\ Decoded(e[i]) = Decoded(s[i])
      PROVE  Escaped(e, s)
  <2>1. e \in Text
    BY <1>1, <1>2, SeqDef, Zenon DEF Text
  <2>2. Len(e) \in Nat /\ 1 .. Len(e) = 1 .. Len(s) /\ DOMAIN e = 1 .. Len(s)
    BY <1>2, <2>1, LenProperties DEF Text
  <2>3. Len(e) = Len(s)
    BY <1>1, <2>2
  <2>4. Unescaped(e) = Unescaped(s)
    <3>1. /\ Unescaped(e) = [i \in 1 .. Len(s) |-> Decoded(e[i])]
          /\ Unescaped(s) = [i \in 1 .. Len(s) |-> Decoded(s[i])]
      BY <1>1, <2>2 DEF Unescaped, Decoded
    <3> QED
      BY <1>2, <3>1
  <2>5. ReadAs(e, s)
    BY <2>4, PlainIsRead DEF ReadAs, Text
  <2> QED
    BY <1>2, <2>1, <2>3, <2>5 DEF Escaped
<1>3. /\ escapUsername(s) \in [1 .. Len(s) -> Chars]
      /\ \A i \in 1 .. Len(s) : escapUsername(s)[i] = Escape[s[i]]
  BY <1>1, EscapesAre DEF escapUsername
<1>4. /\ escapPassword(s) \in [1 .. Len(s) -> Chars]
      /\ \A i \in 1 .. Len(s) : escapPassword(s)[i] = IF s[i] = ":" THEN ":" ELSE Escape[s[i]]
  BY <1>1, EscapesAre DEF escapPassword, Chars
<1>5. Escaped(escapUsername(s), s)
  BY <1>1, <1>2, <1>3, EscapesAre
<1>6. Escaped(escapPassword(s), s)
  <2>1. ASSUME NEW i \in 1 .. Len(s)
        PROVE  /\ escapPassword(s)[i] \notin {"/", "?"}
               /\ Decoded(escapPassword(s)[i]) = Decoded(s[i])
    <3>1. CASE s[i] = ":"
      BY <1>4, <3>1
    <3>2. CASE s[i] # ":"
      BY <1>1, <1>4, <3>2, EscapesAre
    <3> QED
      BY <3>1, <3>2
  <2> QED
    BY <1>2, <1>4, <2>1
<1>7. \A i \in 1 .. Len(s) : escapUsername(s)[i] # ":"
  BY <1>1, <1>3, EscapesAre
<1> QED
  BY <1>5, <1>6, <1>7

(* The user name and password are told apart at the first ":".             *)
LEMMA UserAndPassword ==
  ASSUME NEW s \in Text, NEW t \in Text, \A i \in 1 .. Len(s) : s[i] # ":"
  PROVE  LET ui == s \o (<<":">> \o t)
             colon == FirstOf({":"}, ui)
         IN  /\ ui \in Text
             /\ Upto(ui, colon - 1) = s /\ After(ui, colon) = t
             /\ (\A i \in 1 .. Len(s) : s[i] \notin {"/", "?"})
                  /\ (\A i \in 1 .. Len(t) : t[i] \notin {"/", "?"})
                => \A i \in 1 .. Len(ui) : ui[i] \notin {"/", "?"}
<1> DEFINE front == s \o <<":">>
           ui == s \o (<<":">> \o t)
           c == Len(s) + 1
<1>1. /\ Len(s) \in Nat /\ Len(t) \in Nat
      /\ <<":">> \in Text /\ Len(<<":">>) = 1 /\ <<":">>[1] = ":"
  BY LenProperties, PiecesAreText DEF Text, Chars
<1>2. ui = front \o t /\ ui \in Text
  <2>1. AreTexts(s, <<":">>, t)
    BY <1>1 DEF AreTexts
  <2> QED
    BY <2>1, TextsRegroup
<1>3. Upto(ui, Len(s)) = s
  <2>1. <<":">> \o t \in Text
    BY <1>1, JoinAndCut
  <2> QED
    BY <2>1, JoinAndCut
<1>4. /\ front \in Text /\ Len(front) = c /\ \A j \in 1 .. Len(s) : front[j] = s[j]
      /\ front[c] = ":"
  <2>1. /\ front \in Text /\ Len(front) = Len(s) + Len(<<":">>)
        /\ \A j \in 1 .. Len(s) : front[j] = s[j]
        /\ \A j \in 1 .. Len(<<":">>) : front[Len(s) + j] = <<":">>[j]
    BY <1>1, JoinAndCut
  <2> HIDE DEF front
  <2> QED
    BY <1>1, <2>1
<1> HIDE DEF front, ui
<1>5. /\ Len(ui) = c + Len(t) /\ After(ui, c) = t
      /\ \A j \in 1 .. c : ui[j] = front[j]
      /\ \A j \in 1 .. Len(t) : ui[c + j] = t[j]
  <2>1. /\ Len(front \o t) = Len(front) + Len(t) /\ After(front \o t, Len(front)) = t
        /\ \A j \in 1 .. Len(front) : (front \o t)[j] = front[j]
        /\ \A j \in 1 .. Len(t) : (front \o t)[Len(front) + j] = t[j]
    BY <1>4, JoinAndCut
  <2> QED
    BY <1>2, <1>4, <2>1, Zenon
<1>6. FirstOf({":"}, ui) = c
  <2>1. c \in 1 .. Len(ui) /\ ui[c] = ":"
    BY <1>1, <1>4, <1>5
  <2>2. \A j \in 1 .. c - 1 : ui[j] \notin {":"}
    <3>1. \A j \in 1 .. c - 1 : j \in 1 .. c /\ j \in 1 .. Len(s)
      BY <1>1
    <3> QED
      BY <1>4, <1>5, <3>1
  <2>3. \A i \in 1 .. Len(ui) :
          ui[i] \in {":"} /\ (\A j \in 1 .. i - 1 : ui[j] \notin {":"}) => FirstOf({":"}, ui) = i
    BY <1>2, FirstOfIs
  <2> HIDE DEF c
  <2> QED
    BY <2>1, <2>2, <2>3
<1>7. c - 1 = Len(s)
  BY <1>1
<1>8. ASSUME \A i \in 1 .. Len(s) : s[i] \notin {"/", "?"},
             \A i \in 1 .. Len(t) : t[i] \notin {"/", "?"},
             NEW i \in 1 .. Len(ui)
      PROVE  ui[i] \notin {"/", "?"}
  <2>1. CASE i < c
    <3>1. i \in 1 .. Len(s) /\ i \in 1 .. c
      BY <1>1, <2>1
    <3> QED
      BY <1>4, <1>5, <1>8, <3>1
  <2>2. CASE i = c
    <3>1. c \in 1 .. c
      BY <1>1
    <3> QED
      BY <1>4, <1>5, <2>2, <3>1
  <2>3. CASE i > c
    <3>1. i - c \in 1 .. Len(t) /\ c + (i - c) = i
      BY <1>1, <1>5, <2>3
    <3> QED
      BY <1>5, <1>8, <3>1
  <2> QED
    BY <1>1, <2>1, <2>2, <2>3
<1> QED
  BY <1>2, <1>3, <1>5, <1>6, <1>7, <1>8 DEF ui

(* A URL is always taken apart into the same parts.                        *)
LEMMA SplitHasParts ==
  ASSUME NEW u
  PROVE  /\ DOMAIN avurlSplit(u) =
              {"schema", "userinfo", "host", "port", "path", "hasSchema", "slashNum",
               "hasAtSign", "hasBrks", "hasPort", "junk"}
         /\ avurlSplit(u) = [part \in DOMAIN avurlSplit(u) |-> avurlSplit(u)[part]]
<1>1. DOMAIN avurlSplit(u) =
        {"schema", "userinfo", "host", "port", "path", "hasSchema", "slashNum",
         "hasAtSign", "hasBrks", "hasPort", "junk"}
  <2>1. DOMAIN NoParts = {"schema", "userinfo", "host", "port", "path", "hasSchema", "slashNum",
                          "hasAtSign", "hasBrks", "hasPort", "junk"}
    BY DEF NoParts
  <2>2. ASSUME NEW a
        PROVE  DOMAIN avurlSplitAuthority(a) = DOMAIN NoParts
    BY DEF avurlSplitAuthority
  <2>3. DOMAIN avurlSplit(u) = DOMAIN NoParts
    BY <2>2 DEF avurlSplit
  <2> QED
    BY <2>1, <2>3
<1>2. avurlSplit(u) = [part \in DOMAIN avurlSplit(u) |-> avurlSplit(u)[part]]
  BY DEF avurlSplit
<1> QED
  BY <1>1, <1>2

(* Without a user name an accepted URL is written as it is.                *)
LEMMA NoUserIsWritten ==
  ASSUME NEW u \in Text, validateInputURL(u), NEW password
  PROVE  EmbeddUserinfo(u, NoText, password) = u
<1> DEFINE old == avurlSplit(u)
           p == [old EXCEPT !.userinfo = <<>>]
<1>1. old = [part \in DOMAIN old |-> old[part]]
  BY SplitHasParts
<1>2. old.userinfo = <<>>
  BY AcceptedIsURL
<1>3. EmbeddUserinfo(u, NoText, password) = avurlJoin(p)
  BY DEF EmbeddUserinfo
<1>4. p = old
  <2> HIDE DEF old
  <2>1. DOMAIN p = DOMAIN old
    OBVIOUS
  <2>2. \A f \in DOMAIN old : p[f] = old[f]
    BY <1>1, <1>2
  <2>3. p = [f \in DOMAIN p |-> p[f]]
    OBVIOUS
  <2> HIDE DEF p
  <2> QED
    BY <1>1, <2>1, <2>2, <2>3
<1> QED
  BY <1>3, <1>4, SplitIsRejoined

(* EmbedKeepsTarget, for every URL and all credentials.                    *)
LEMMA EmbedKeeps ==
  ASSUME NEW u \in Text, validateInputURL(u),
         NEW username \in Seq(Chars) \union {NoText}, NEW password \in Seq(Chars) \union {NoText}
  PROVE  LET old == avurlSplit(u)
             new == avurlSplit(EmbeddUserinfo(u, username, password))
             colon == FirstOf({":"}, new.userinfo)
         IN  /\ \A part \in DOMAIN old \ {"userinfo", "hasAtSign"} : new[part] = old[part]
             /\ new.hasAtSign <=> username # NoText
             /\ username # NoText /\ password = NoText =>
                  colon = 0 /\ ReadAs(new.userinfo, username)
             /\ username # NoText /\ password # NoText =>
                  /\ ReadAs(Upto(new.userinfo, colon - 1), username)
                  /\ ReadAs(After(new.userinfo, colon), password)
<1> DEFINE old == avurlSplit(u)
           w == EmbeddUserinfo(u, username, password)
           new == avurlSplit(w)
           colon == FirstOf({":"}, new.userinfo)
<1>1. /\ DOMAIN old = {"schema", "userinfo", "host", "port", "path", "hasSchema", "slashNum",
                       "hasAtSign", "hasBrks", "hasPort", "junk"}
      /\ old = [part \in DOMAIN old |-> old[part]]
  BY SplitHasParts
<1>2. PICK schema, n, a, path :
        /\ IsURL(u, schema, n, a, path) /\ SplitInto(u, schema, n, a, path)
        /\ old.userinfo = <<>> /\ old.hasAtSign = FALSE
  BY AcceptedIsURL
<1>3. CASE username = NoText
  <2>1. w = u
    BY <1>3, NoUserIsWritten
  <2> QED
    BY <1>2, <1>3, <2>1
<1>4. CASE username # NoText
  <2> DEFINE user == escapUsername(username)
             ui == user \o If(password # NoText, <<":">> \o escapPassword(password))
  <2>1. w = avurlJoin([old EXCEPT !.hasAtSign = TRUE, !.userinfo = ui])
    BY <1>4 DEF EmbeddUserinfo
  <2>2. Escaped(user, username) /\ \A i \in 1 .. Len(user) : user[i] # ":"
    <3>1. username \in Seq(Chars)
      BY <1>4
    <3>2. Escaped(user, username) /\ \A i \in 1 .. Len(username) : user[i] # ":"
      BY <3>1, EscapedAndBack
    <3> QED
      BY <3>2 DEF Escaped
  <2>3. ASSUME ui \in Text, \A i \in 1 .. Len(ui) : ui[i] \notin {"/", "?"}
        PROVE  new.userinfo = ui /\ new.hasAtSign = TRUE /\ OnlyUserDiffers(new, old)
    <3> HIDE DEF ui
    <3> QED
      BY <2>1, <2>3, UserIsWritten, Zenon
  <2>4. OnlyUserDiffers(new, old) =>
          \A part \in DOMAIN old \ {"userinfo", "hasAtSign"} : new[part] = old[part]
    <3> HIDE DEF old, new
    <3> QED
      BY <1>1 DEF OnlyUserDiffers, SameTarget
  <2>5. CASE password = NoText
    <3>1. ui = user
      BY <2>2, <2>5, PiecesAreText DEF If, Escaped
    <3>2. new.userinfo = user /\ new.hasAtSign = TRUE /\ OnlyUserDiffers(new, old)
      BY <2>2, <2>3, <3>1 DEF Escaped
    <3>3. FirstOf({":"}, user) = 0
      BY <2>2, FirstOfIs DEF Escaped
    <3>4. ReadAs(user, username)
      BY <2>2 DEF Escaped
    <3>5. \A part \in DOMAIN old \ {"userinfo", "hasAtSign"} : new[part] = old[part]
      BY <2>4, <3>2
    <3>6. colon = 0 /\ ReadAs(new.userinfo, username)
      BY <3>2, <3>3, <3>4, Zenon
    <3>7. new.hasAtSign <=> username # NoText
      BY <1>4, <3>2
    <3> HIDE DEF new, old, user
    <3> QED
      BY <2>5, <3>5, <3>6, <3>7 DEF new, old
  <2>6. CASE password # NoText
    <3> DEFINE pass == escapPassword(password)
    <3>1. Escaped(pass, password)
      BY <2>6, EscapedAndBack
    <3>2. ui = user \o (<<":">> \o pass)
      BY <2>6 DEF If
    <3> HIDE DEF user, pass, ui
    <3>3. /\ ui \in Text
          /\ Upto(ui, FirstOf({":"}, ui) - 1) = user /\ After(ui, FirstOf({":"}, ui)) = pass
          /\ \A i \in 1 .. Len(ui) : ui[i] \notin {"/", "?"}
      <4>1. /\ user \in Text /\ pass \in Text
            /\ \A i \in 1 .. Len(user) : user[i] \notin {"/", "?"}
            /\ \A i \in 1 .. Len(pass) : pass[i] \notin {"/", "?"}
        BY <2>2, <3>1 DEF Escaped
      <4> QED
        BY <2>2, <3>2, <4>1, UserAndPassword
    <3>4. new.userinfo = ui /\ new.hasAtSign = TRUE /\ OnlyUserDiffers(new, old)
      BY <2>3, <3>3
    <3>5. ReadAs(user, username) /\ ReadAs(pass, password)
      BY <2>2, <3>1 DEF Escaped
    <3>6. \A part \in DOMAIN old \ {"userinfo", "hasAtSign"} : new[part] = old[part]
      BY <2>4, <3>4
    <3>7. /\ ReadAs(Upto(new.userinfo, colon - 1), username)
          /\ ReadAs(After(new.userinfo, colon), password)
      BY <3>3, <3>4, <3>5, Zenon
    <3>8. new.hasAtSign <=> username # NoText
      BY <1>4, <3>4
    <3> QED
      BY <2>6, <3>6, <3>7, <3>8
  <2> QED
    BY <2>5, <2>6
<1> QED
  BY <1>3, <1>4

(* The credentials that are looked at are among those.                     *)
LEMMA CredentialsAre == Credentials \subseteq Seq(Chars) \union {NoText}
<1>1. /\ <<>> \in Seq(Chars) /\ <<"1">> \in Seq(Chars) /\ <<":", "1">> \in Seq(Chars)
      /\ <<"/", "@">> \in Seq(Chars) /\ <<"@", ":", "?">> \in Seq(Chars)
      /\ <<"[", "]">> \in Seq(Chars) /\ <<"%2F", "@">> \in Seq(Chars)
      /\ <<"1", ":", "%31">> \in Seq(Chars)
  BY DEF Chars
<1> QED
  BY <1>1 DEF Credentials

(* The URL is a text, and the outputs are outputs.                         *)
CommandTyped == inputURL \in Seq(Chars) /\ outputList \in Seq(Outs)
LEMMA CommandIsTyped == CommandSpec => []CommandTyped
<1>1. CommandInit => CommandTyped
  BY StartsAssumption DEF CommandInit, CommandTyped
<1>2. CommandTyped /\ [CommandNext]_commandVars => CommandTyped'
  <2> SUFFICES ASSUME CommandTyped, [CommandNext]_commandVars
               PROVE  CommandTyped'
    OBVIOUS
  <2> USE DEF CommandTyped
  <2>1. ASSUME NEW c \in UrlChars, WriteUrl(c)
        PROVE  CommandTyped'
    BY <2>1, StartsAssumption, AppendProperties DEF WriteUrl
  <2>2. ASSUME NEW o \in Outs, AddOutput(o)
        PROVE  CommandTyped'
    BY <2>2, AppendProperties DEF AddOutput
  <2>3. CASE UNCHANGED commandVars
    BY <2>3 DEF commandVars
  <2> QED
    BY <2>1, <2>2, <2>3 DEF CommandNext
<1> QED
  BY <1>1, <1>2, PTL DEF CommandSpec

(* UrlsSurvive: whatever the texts are, however long and odd, what was     *)
(* taken apart is put together again, and a user name and a password that  *)
(* are written into an accepted URL change nothing else of it, are told    *)
(* apart in it, and are read from it as they were if they have nothing     *)
(* percent-encoded, and decoded if they have.                              *)
THEOREM TextsSurvive == CommandSpec => []UrlsSurvive
<1>1. CommandTyped => UrlsSurvive
  <2> SUFFICES ASSUME CommandTyped
               PROVE  UrlsSurvive
    OBVIOUS
  <2>1. inputURL \in Text
    BY DEF CommandTyped, Text
  <2>2. JoinUndoesSplit
    BY <2>1, SplitIsRejoined DEF JoinUndoesSplit
  <2>3. EmbedKeepsTarget
    <3> SUFFICES ASSUME validateInputURL(inputURL),
                        NEW username \in Credentials, NEW password \in Credentials
                 PROVE  LET old == avurlSplit(inputURL)
                            new == avurlSplit(EmbeddUserinfo(inputURL, username, password))
                            colon == FirstOf({":"}, new.userinfo)
                        IN  /\ \A part \in DOMAIN old \ {"userinfo", "hasAtSign"} :
                                 new[part] = old[part]
                            /\ new.hasAtSign <=> username # NoText
                            /\ username # NoText /\ password = NoText =>
                                 colon = 0 /\ ReadAs(new.userinfo, username)
                            /\ username # NoText /\ password # NoText =>
                                 /\ ReadAs(Upto(new.userinfo, colon - 1), username)
                                 /\ ReadAs(After(new.userinfo, colon), password)
      BY Zenon DEF EmbedKeepsTarget
    <3>1. username \in Seq(Chars) \union {NoText} /\ password \in Seq(Chars) \union {NoText}
      BY CredentialsAre
    <3> QED
      BY <2>1, <3>1, EmbedKeeps, Zenon
  <2> QED
    BY <2>2, <2>3 DEF UrlsSurvive
<1> QED
  BY <1>1, CommandIsTyped, PTL

-----------------------------------------------------------------------------
(* Commands: sections *)

\* An argument, and one that begins no section.
Letters == Chars \union
  {"nil", "--id", "--interactive", "--input", "--avioflags", "--probesize", "--localaddr",
   "--timeout", "--output", "--pkt-size", "--map-video", "--map-audio", "=true", "=false"}
Arg == Seq(Letters)
MarkArgs == {<<"--input">>, <<"--output">>}
Plain == Arg \ MarkArgs

(* Words are arguments.                                                    *)
LEMMA WordsAre ==
  ASSUME NEW w \in Letters
  PROVE  /\ <<w>> \in Arg /\ Len(<<w>>) = 1 /\ <<w>>[1] = w
         /\ \A v \in Letters : <<w, v>> \in Arg /\ Len(<<w, v>>) = 2 /\ <<w, v>>[1] = w
BY DEF Arg

(* Joining arguments.                                                      *)
LEMMA ArgsJoin ==
  ASSUME NEW s \in Seq(Arg), NEW t \in Seq(Arg)
  PROVE  /\ s \o t \in Seq(Arg) /\ Len(s \o t) = Len(s) + Len(t)
         /\ \A i \in 1 .. Len(s) : (s \o t)[i] = s[i]
         /\ \A i \in 1 .. Len(t) : (s \o t)[Len(s) + i] = t[i]
<1>1. Len(s) \in Nat /\ Len(t) \in Nat
  BY LenProperties
<1>2. /\ s \o t \in Seq(Arg) /\ Len(s \o t) = Len(s) + Len(t)
      /\ \A i \in 1 .. Len(s) + Len(t) :
           (s \o t)[i] = IF i <= Len(s) THEN s[i] ELSE t[i - Len(s)]
  BY ConcatProperties
<1>3. \A i \in 1 .. Len(t) :
        Len(s) + i \in 1 .. Len(s) + Len(t) /\ ~(Len(s) + i <= Len(s)) /\ Len(s) + i - Len(s) = i
  BY <1>1
<1> QED
  BY <1>1, <1>2, <1>3

(* A section is what stands between its mark and the next one.             *)
LEMMA SectionIs ==
  ASSUME NEW args \in Seq(Arg), NEW i \in 1 .. Len(args),
         NEW e \in i .. Len(args), EndsSection(args, i, e)
  PROVE  Section(args, i) = SubSeq(args, i + 1, e)
<1> DEFINE d == CHOOSE d \in i .. Len(args) : EndsSection(args, i, d)
<1>1. d \in i .. Len(args) /\ EndsSection(args, i, d)
  OBVIOUS
<1>2. Len(args) \in Nat
  BY LenProperties
<1> HIDE DEF d
<1>3. ~(d < e)
  <2> SUFFICES ASSUME d < e PROVE FALSE
    OBVIOUS
  <2>1. d + 1 \in i + 1 .. e /\ d # Len(args)
    BY <1>1, <1>2
  <2> QED
    BY <1>1, <2>1 DEF EndsSection
<1>4. ~(e < d)
  <2> SUFFICES ASSUME e < d PROVE FALSE
    OBVIOUS
  <2>1. e + 1 \in i + 1 .. d /\ e # Len(args)
    BY <1>1, <1>2
  <2> QED
    BY <1>1, <2>1 DEF EndsSection
<1>5. d = e
  BY <1>1, <1>2, <1>3, <1>4
<1> QED
  BY <1>5 DEF Section, d

(* Equal pieces of two sequences.                                          *)
LEMMA PiecesAreEqual ==
  ASSUME NEW s, NEW t, NEW i \in Int, NEW e \in Int,
         \A j \in i .. e : s[j] \in Arg /\ t[j] = s[j]
  PROVE  SubSeq(s, i, e) = SubSeq(t, i, e)
<1> DEFINE ss == SubSeq(s, i, e)
           tt == SubSeq(t, i, e)
<1>1. /\ ss \in Seq(Arg) /\ Len(ss) = IF i <= e THEN e - i + 1 ELSE 0
      /\ \A k \in 1 .. e - i + 1 : ss[k] = s[i + k - 1]
  BY SubSeqProperties
<1>2. /\ tt \in Seq(Arg) /\ Len(tt) = IF i <= e THEN e - i + 1 ELSE 0
      /\ \A k \in 1 .. e - i + 1 : tt[k] = t[i + k - 1]
  <2>1. \A j \in i .. e : t[j] \in Arg
    OBVIOUS
  <2> QED
    BY <2>1, SubSeqProperties
<1> HIDE DEF ss, tt
<1>3. \A k \in 1 .. Len(ss) : k \in 1 .. e - i + 1 /\ i + k - 1 \in i .. e
  BY <1>1
<1>4. \A k \in 1 .. Len(ss) : ss[k] = tt[k]
  BY <1>1, <1>2, <1>3
<1>5. ss = tt
  BY <1>1, <1>2, <1>4, SeqEqual
<1> QED
  BY <1>5 DEF ss, tt

(* Every section ends.                                                     *)
LEMMA SectionEnds ==
  ASSUME NEW args \in Seq(Arg), NEW i \in 1 .. Len(args)
  PROVE  \E e \in i .. Len(args) : EndsSection(args, i, e)
<1>1. Len(args) \in Nat
  BY LenProperties
<1> DEFINE S == {j \in i + 1 .. Len(args) : j \in Marks(args)}
<1>2. CASE S = {}
  <2>1. EndsSection(args, i, Len(args))
    BY <1>2 DEF EndsSection
  <2> QED
    BY <1>1, <2>1
<1>3. CASE S # {}
  <2>1. S \in SUBSET Nat
    BY <1>1
  <2>2. PICK x \in S : \A y \in S : x <= y
    BY <1>3, <2>1, FirstSatisfying
  <2>3. x - 1 \in i .. Len(args) /\ (x - 1) + 1 = x
    BY <1>1, <2>2
  <2>4. ASSUME NEW j \in i + 1 .. x - 1
        PROVE  j \notin Marks(args)
    <3>1. j \in i + 1 .. Len(args) /\ ~(x <= j)
      BY <1>1, <2>2, <2>3
    <3> QED
      BY <2>2, <3>1
  <2>5. EndsSection(args, i, x - 1)
    BY <2>2, <2>3, <2>4 DEF EndsSection
  <2> QED
    BY <2>3, <2>5
<1> QED
  BY <1>2, <1>3

\* more is args and a section t behind the mark m.
AddsSection(more, args, m, t) ==
  /\ more \in Seq(Arg) /\ Marks(more) = Marks(args) \union {Len(args) + 1}
  /\ more[Len(args) + 1] = m /\ Section(more, Len(args) + 1) = t
  /\ \A i \in Marks(args) : more[i] = args[i] /\ Section(more, i) = Section(args, i)

(* What begins with a mark and has no other one is a section of its own,   *)
(* and leaves those before it alone.                                       *)
LEMMA SectionAdded ==
  ASSUME NEW args \in Seq(Arg), NEW m \in MarkArgs, NEW t \in Seq(Plain)
  PROVE  AddsSection(args \o (<<m>> \o t), args, m, t)
<1> DEFINE b == <<m>> \o t
           more == args \o b
           N == Len(args)
           M == Len(t)
<1>1. m \in Arg /\ <<m>> \in Seq(Arg) /\ t \in Seq(Arg) /\ N \in Nat /\ M \in Nat
  <2>1. m \in Arg
    BY WordsAre DEF MarkArgs, Letters
  <2>2. t \in Seq(Arg)
    BY SeqMonotonic DEF Plain
  <2> QED
    BY <2>1, <2>2, LenProperties
<1>2. /\ b \in Seq(Arg) /\ Len(b) = 1 + M /\ b[1] = m
      /\ \A i \in 1 .. M : b[i + 1] = t[i]
  <2>1. Len(<<m>>) = 1 /\ <<m>>[1] = m
    OBVIOUS
  <2> QED
    BY <1>1, <2>1, ConcatProperties
<1> HIDE DEF b
<1>3. /\ more \in Seq(Arg) /\ Len(more) = N + 1 + M
      /\ \A i \in 1 .. N : more[i] = args[i]
      /\ \A i \in 1 .. 1 + M : more[N + i] = b[i]
  <2>1. /\ more \in Seq(Arg) /\ Len(more) = N + Len(b)
        /\ \A i \in 1 .. N : more[i] = args[i]
        /\ \A i \in 1 .. Len(b) : more[N + i] = b[i]
    BY <1>2, ArgsJoin
  <2>2. Len(b) = 1 + M /\ N + Len(b) = N + 1 + M
    BY <1>1, <1>2
  <2> HIDE DEF more
  <2>3. \A i \in 1 .. 1 + M : more[N + i] = b[i]
    BY <2>1, <2>2
  <2> QED
    BY <2>1, <2>2, <2>3
<1> HIDE DEF more
<1>4. more[N + 1] = m /\ \A i \in 1 .. M : more[N + 1 + i] = t[i]
  <2>1. more[N + 1] = m
    BY <1>1, <1>2, <1>3
  <2>2. ASSUME NEW i \in 1 .. M
        PROVE  more[N + 1 + i] = t[i]
    <3>1. i + 1 \in 1 .. 1 + M /\ N + (i + 1) = N + 1 + i
      BY <1>1
    <3> QED
      BY <1>2, <1>3, <3>1
  <2> QED
    BY <2>1, <2>2
<1>5. \A i \in 1 .. M : t[i] \notin MarkArgs
  BY ElementOfSeq DEF Plain
<1>6. \A i \in 1 .. N : i \in Marks(more) <=> i \in Marks(args)
  BY <1>1, <1>3 DEF Marks
<1>7. N + 1 \in Marks(more)
  BY <1>1, <1>3, <1>4 DEF Marks, MarkArgs
<1>8. \A i \in N + 2 .. N + 1 + M : i \notin Marks(more)
  <2> TAKE i \in N + 2 .. N + 1 + M
  <2>1. i - N - 1 \in 1 .. M /\ N + 1 + (i - N - 1) = i
    BY <1>1
  <2>2. more[i] \notin MarkArgs
    BY <1>4, <1>5, <2>1
  <2> QED
    BY <2>2 DEF Marks, MarkArgs
<1>9. Marks(more) = Marks(args) \union {N + 1}
  <2>1. Marks(more) \subseteq 1 .. N + 1 + M /\ Marks(args) \subseteq 1 .. N
    BY <1>3 DEF Marks
  <2>2. \A i \in 1 .. N + 1 + M : i \in 1 .. N \/ i = N + 1 \/ i \in N + 2 .. N + 1 + M
    BY <1>1
  <2> QED
    BY <1>6, <1>7, <1>8, <2>1, <2>2
<1>10. Section(more, N + 1) = t
  <2>1. /\ N + 1 \in 1 .. Len(more) /\ Len(more) \in N + 1 .. Len(more)
        /\ (N + 1) + 1 = N + 2
    BY <1>1, <1>3
  <2>2. EndsSection(more, N + 1, Len(more))
    BY <1>3, <1>8, <2>1 DEF EndsSection
  <2>3. Section(more, N + 1) = SubSeq(more, N + 2, N + 1 + M)
    BY <1>3, <2>1, <2>2, SectionIs
  <2> DEFINE sec == SubSeq(more, N + 2, N + 1 + M)
  <2>4. \A i \in N + 2 .. N + 1 + M : more[i] \in Arg
    <3>1. \A i \in N + 2 .. N + 1 + M : i \in 1 .. Len(more)
      BY <1>1, <1>3
    <3> QED
      BY <1>3, <3>1, ElementOfSeq
  <2>5. /\ sec \in Seq(Arg) /\ Len(sec) = M
        /\ \A i \in 1 .. M : sec[i] = more[(N + 2) + i - 1]
    <3>1. N + 2 \in Int /\ N + 1 + M \in Int
      BY <1>1
    <3>2. /\ sec \in Seq(Arg)
          /\ Len(sec) = IF N + 2 <= N + 1 + M THEN (N + 1 + M) - (N + 2) + 1 ELSE 0
          /\ \A i \in 1 .. (N + 1 + M) - (N + 2) + 1 : sec[i] = more[(N + 2) + i - 1]
      BY <2>4, <3>1, SubSeqProperties
    <3>3. (N + 1 + M) - (N + 2) + 1 = M /\ (~(N + 2 <= N + 1 + M) => M = 0)
      BY <1>1
    <3> QED
      BY <3>2, <3>3
  <2>6. \A i \in 1 .. M : sec[i] = t[i]
    <3> TAKE i \in 1 .. M
    <3>1. (N + 2) + i - 1 = N + 1 + i
      BY <1>1
    <3> QED
      BY <1>4, <2>5, <3>1
  <2> HIDE DEF sec
  <2>7. sec = t
    BY <1>1, <2>5, <2>6, SeqEqual
  <2> QED
    BY <2>3, <2>7 DEF sec
<1>11. ASSUME NEW i \in Marks(args)
       PROVE  more[i] = args[i] /\ Section(more, i) = Section(args, i)
  <2>1. i \in 1 .. N
    BY DEF Marks
  <2>2. PICK e \in i .. N : EndsSection(args, i, e)
    BY <2>1, SectionEnds
  <2>3. i \in 1 .. Len(more) /\ e \in i .. Len(more) /\ e \in 1 .. N
    BY <1>1, <1>3, <2>1
  <2>4. EndsSection(more, i, e)
    <3>1. \A j \in i + 1 .. e : j \in 1 .. N
      BY <1>1, <2>1, <2>3
    <3>2. e + 1 \in Marks(more)
      BY <1>9, <2>2 DEF EndsSection
    <3> QED
      BY <1>6, <2>2, <3>1, <3>2 DEF EndsSection
  <2>5. Section(more, i) = SubSeq(more, i + 1, e) /\ Section(args, i) = SubSeq(args, i + 1, e)
    BY <1>3, <2>1, <2>2, <2>3, <2>4, SectionIs
  <2>6. SubSeq(more, i + 1, e) = SubSeq(args, i + 1, e)
    <3>1. i + 1 \in Int /\ e \in Int /\ (i + 1) - 1 = i
      BY <1>1, <2>3
    <3>2. \A j \in i + 1 .. e : j \in 1 .. N
      BY <1>1, <2>1, <2>3
    <3>3. \A j \in i + 1 .. e : more[j] = args[j] /\ args[j] \in Arg /\ more[j] \in Arg
      BY <1>3, <3>2, ElementOfSeq
    <3> QED
      BY <3>1, <3>3, PiecesAreEqual
  <2> QED
    BY <1>3, <2>1, <2>5, <2>6
<1> QED
  BY <1>3, <1>4, <1>9, <1>10, <1>11 DEF more, b, AddsSection

-----------------------------------------------------------------------------
(* Commands: what a section says *)

\* Texts that are not written as a word of the command.
CommandWords == {<<w>> : w \in Letters \ Chars}
Said == Arg \ CommandWords

(* A flag that stands once is said, whatever stands around it.             *)
LEMMA FlagIsSaid ==
  ASSUME NEW flag \in Letters \ Chars, NEW v \in Said \union {NoText, <<>>},
         NEW s \in Seq(Arg \ {<<flag>>}), NEW t \in Seq(Arg \ {<<flag>>})
  PROVE  SaysFlag(s \o (WithStringPFlag(flag, v) \o t), flag, v)
<1> DEFINE f == WithStringPFlag(flag, v)
           r == f \o t
           all == s \o r
           at == {i \in 1 .. Len(all) : all[i] = <<flag>>}
<1>1. /\ s \in Seq(Arg) /\ t \in Seq(Arg) /\ Len(s) \in Nat /\ Len(t) \in Nat
      /\ \A i \in 1 .. Len(s) : s[i] # <<flag>>
      /\ \A i \in 1 .. Len(t) : t[i] # <<flag>>
  <2> DEFINE Others == Arg \ {<<flag>>}
  <2>1. Others \subseteq Arg /\ <<flag>> \notin Others /\ s \in Seq(Others) /\ t \in Seq(Others)
    OBVIOUS
  <2> HIDE DEF Others
  <2>2. s \in Seq(Arg) /\ t \in Seq(Arg)
    BY <2>1, SeqMonotonic
  <2>3. \A i \in 1 .. Len(s) : s[i] # <<flag>>
    BY <2>1, ElementOfSeq
  <2>4. \A i \in 1 .. Len(t) : t[i] # <<flag>>
    BY <2>1, ElementOfSeq
  <2> QED
    BY <2>2, <2>3, <2>4, LenProperties
<1>2. CASE v \in {NoText, <<>>}
  <2>1. f = <<>>
    BY <1>2 DEF WithStringPFlag, If
  <2>2. r = t
    BY <1>1, <2>1, ConcatEmptySeq
  <2>3. /\ Len(all) = Len(s) + Len(t)
        /\ \A i \in 1 .. Len(s) : all[i] = s[i]
        /\ \A i \in 1 .. Len(t) : all[Len(s) + i] = t[i]
    BY <1>1, <2>2, ArgsJoin
  <2> HIDE DEF all
  <2>4. ASSUME NEW i \in 1 .. Len(all)
        PROVE  all[i] # <<flag>>
    <3>1. i \in 1 .. Len(s) \/ (i - Len(s) \in 1 .. Len(t) /\ Len(s) + (i - Len(s)) = i)
      BY <1>1, <2>3
    <3> QED
      BY <1>1, <2>3, <3>1
  <2>5. at = {}
    BY <2>4
  <2> HIDE DEF at
  <2> QED
    BY <1>2, <2>5 DEF SaysFlag, all, at
<1>3. CASE v \notin {NoText, <<>>}
  <2>1. f = <<<<flag>>, v>>
    BY <1>3 DEF WithStringPFlag, If
  <2>2. <<flag>> \in Arg /\ v \in Arg /\ v # <<flag>>
    BY <1>3, WordsAre DEF Said, CommandWords
  <2>3. f \in Seq(Arg) /\ Len(f) = 2 /\ f[1] = <<flag>> /\ f[2] = v
    BY <2>1, <2>2
  <2> HIDE DEF f
  <2>4. /\ r \in Seq(Arg) /\ Len(r) = 2 + Len(t) /\ r[1] = <<flag>> /\ r[2] = v
        /\ \A i \in 1 .. Len(t) : r[2 + i] = t[i]
    <3>1. /\ r \in Seq(Arg) /\ Len(r) = Len(f) + Len(t)
          /\ \A i \in 1 .. Len(f) : r[i] = f[i]
          /\ \A i \in 1 .. Len(t) : r[Len(f) + i] = t[i]
      BY <1>1, <2>3, ArgsJoin
    <3> HIDE DEF r
    <3> QED
      BY <2>3, <3>1
  <2> HIDE DEF r
  <2>5. /\ Len(all) = Len(s) + Len(r)
        /\ \A i \in 1 .. Len(s) : all[i] = s[i]
        /\ \A i \in 1 .. Len(r) : all[Len(s) + i] = r[i]
    BY <1>1, <2>4, ArgsJoin
  <2> HIDE DEF all
  <2>6. /\ Len(s) + 1 \in 1 .. Len(all) /\ Len(s) + 1 < Len(all)
        /\ all[Len(s) + 1] = <<flag>> /\ all[(Len(s) + 1) + 1] = v
    <3>1. 1 \in 1 .. Len(r) /\ 2 \in 1 .. Len(r) /\ (Len(s) + 1) + 1 = Len(s) + 2
      BY <1>1, <2>4
    <3>2. all[Len(s) + 1] = r[1] /\ all[Len(s) + 2] = r[2]
      BY <2>5, <3>1
    <3>3. Len(s) + 1 \in 1 .. Len(all) /\ Len(s) + 1 < Len(all)
      BY <1>1, <2>4, <2>5
    <3> QED
      BY <2>4, <3>1, <3>2, <3>3
  <2>7. ASSUME NEW i \in 1 .. Len(all), i # Len(s) + 1
        PROVE  all[i] # <<flag>>
    <3>1. CASE i <= Len(s)
      <4>1. i \in 1 .. Len(s)
        BY <1>1, <3>1
      <4> QED
        BY <1>1, <2>5, <4>1
    <3>2. CASE i = Len(s) + 2
      BY <2>2, <2>6, <3>2
    <3>3. CASE i > Len(s) + 2
      <4>1. /\ i - Len(s) - 2 \in 1 .. Len(t) /\ i - Len(s) \in 1 .. Len(r)
            /\ Len(s) + (i - Len(s)) = i /\ 2 + (i - Len(s) - 2) = i - Len(s)
        BY <1>1, <2>4, <2>5, <3>3
      <4>2. all[i] = r[i - Len(s)] /\ r[i - Len(s)] = t[i - Len(s) - 2]
        BY <2>4, <2>5, <4>1
      <4> QED
        BY <1>1, <4>1, <4>2
    <3>4. i <= Len(s) \/ i = Len(s) + 2 \/ i > Len(s) + 2
      BY <1>1, <2>5, <2>7
    <3> QED
      BY <3>1, <3>2, <3>3, <3>4
  <2>8. at = {Len(s) + 1}
    BY <2>6, <2>7
  <2> HIDE DEF at
  <2> QED
    BY <1>3, <2>6, <2>8 DEF SaysFlag, all, at, r, f
<1> QED
  BY <1>2, <1>3

(* Flags with their values, from words that A has.                         *)
LEMMA FlagsIn ==
  ASSUME NEW A
  PROVE  /\ \A flag, v : <<flag>> \in A /\ v \in A \union {NoText, <<>>} =>
              WithStringPFlag(flag, v) \in Seq(A)
         /\ \A flag : <<flag>> \in A /\ <<"1">> \in A =>
              WithStringFlag(flag, <<"1">>) \in Seq(A)
         /\ \A flag, b : <<flag, "=true">> \in A /\ <<flag, "=false">> \in A =>
              WithBoolFlag(flag, b) \in Seq(A)
<1>1. <<>> \in Seq(A) /\ \A x, y \in A : <<x>> \in Seq(A) /\ <<x, y>> \in Seq(A)
  OBVIOUS
<1>2. ASSUME NEW flag, NEW v, <<flag>> \in A, v \in A \union {NoText, <<>>}
      PROVE  WithStringPFlag(flag, v) \in Seq(A)
  BY <1>1, <1>2 DEF WithStringPFlag, If
<1>3. ASSUME NEW flag, <<flag>> \in A, <<"1">> \in A
      PROVE  WithStringFlag(flag, <<"1">>) \in Seq(A)
  BY <1>1, <1>3 DEF WithStringFlag, If
<1>4. ASSUME NEW flag, NEW b, <<flag, "=true">> \in A, <<flag, "=false">> \in A
      PROVE  WithBoolFlag(flag, b) \in Seq(A)
  BY <1>1, <1>4 DEF WithBoolFlag
<1> QED
  BY <1>2, <1>3, <1>4

(* All that is written but the flags themselves, and the values of flags,  *)
(* are arguments that are neither a mark nor a given flag.                 *)
LEMMA NoOtherFlag ==
  ASSUME NEW w \in Letters \ Chars, NEW flag \in Letters \ Chars
  PROVE  /\ w # flag => <<w>> \in Arg \ {<<flag>>}
         /\ w \notin {"--input", "--output"} => <<w>> \in Plain
         /\ <<"1">> \in Arg \ {<<flag>>} /\ <<"1">> \in Plain
         /\ \A v \in Letters : <<w, v>> \in Arg \ {<<flag>>} /\ <<w, v>> \in Plain
         /\ Said \subseteq Arg \ {<<flag>>} /\ Said \subseteq Plain
<1>1. "1" \in Letters /\ "1" \in Chars /\ "--input" \notin Chars /\ "--output" \notin Chars
      /\ "--input" \in Letters /\ "--output" \in Letters
  BY DEF Letters, Chars
<1>2. \A x, y \in Letters : x # y => <<x>> # <<y>>
  OBVIOUS
<1>3. \A x, y, z \in Letters : <<x, y>> # <<z>>
  OBVIOUS
<1>4. \A x \in Letters : <<x>> \in Arg /\ \A y \in Letters : <<x, y>> \in Arg
  BY WordsAre
<1>5. Said \subseteq Arg /\ \A x \in Letters \ Chars : <<x>> \notin Said
  BY DEF Said, CommandWords
<1>6. w # flag => <<w>> \in Arg \ {<<flag>>}
  BY <1>2, <1>4
<1>7. w \notin {"--input", "--output"} => <<w>> \in Plain
  BY <1>1, <1>2, <1>4 DEF Plain, MarkArgs
<1>8. <<"1">> \in Arg \ {<<flag>>} /\ <<"1">> \in Plain
  <2>1. "1" # flag /\ "1" # "--input" /\ "1" # "--output"
    BY <1>1
  <2> QED
    BY <1>1, <1>2, <1>4, <2>1 DEF Plain, MarkArgs
<1>9. \A v \in Letters : <<w, v>> \in Arg \ {<<flag>>} /\ <<w, v>> \in Plain
  BY <1>1, <1>3, <1>4 DEF Plain, MarkArgs
<1>10. Said \subseteq Arg \ {<<flag>>} /\ Said \subseteq Plain
  BY <1>1, <1>5 DEF Plain, MarkArgs
<1> QED
  BY <1>6, <1>7, <1>8, <1>9, <1>10

\* Three lists of arguments.
AreArgs(s, t, v) == s \in Seq(Arg) /\ t \in Seq(Arg) /\ v \in Seq(Arg)

(* Arguments joined in another grouping.  The provers try this only on     *)
(* those that AreArgs is said of.                                          *)
LEMMA ArgsRegroup ==
  ASSUME NEW s, NEW t, NEW v, AreArgs(s, t, v)
  PROVE  (s \o t) \o v = s \o (t \o v)
BY ConcatAssociative DEF AreArgs

\* Six joined either way.
SixAlike(s1, s2, s3, s4, s5, s6) ==
  ((((s1 \o s2) \o s3) \o s4) \o s5) \o s6 = s1 \o (s2 \o (s3 \o (s4 \o (s5 \o s6))))

(* The rest of six arguments after the first.                              *)
LEMMA SixArgsRegroup ==
  ASSUME NEW s1, NEW s2, NEW s3, AreArgs(s1, s2, s3), NEW s4, NEW s5, NEW s6, AreArgs(s4, s5, s6)
  PROVE  SixAlike(s1, s2, s3, s4, s5, s6)
<1> DEFINE p2 == s1 \o s2
           p3 == p2 \o s3
           p4 == p3 \o s4
           q5 == s5 \o s6
           q4 == s4 \o q5
           q3 == s3 \o q4
<1>1. /\ s1 \in Seq(Arg) /\ s2 \in Seq(Arg) /\ s3 \in Seq(Arg)
      /\ s4 \in Seq(Arg) /\ s5 \in Seq(Arg) /\ s6 \in Seq(Arg)
  BY DEF AreArgs
<1>2. p2 \in Seq(Arg) /\ q5 \in Seq(Arg)
  BY <1>1, ArgsJoin
<1>3. p3 \in Seq(Arg) /\ q4 \in Seq(Arg)
  <2> HIDE DEF p2, q5
  <2> QED
    BY <1>1, <1>2, ArgsJoin
<1>4. p4 \in Seq(Arg) /\ q3 \in Seq(Arg)
  <2> HIDE DEF p3, q4
  <2> QED
    BY <1>1, <1>3, ArgsJoin
<1>5. p2 \o q3 = s1 \o (s2 \o q3)
  <2>1. AreArgs(s1, s2, q3)
    BY <1>1, <1>4 DEF AreArgs
  <2> QED
    BY <2>1, ArgsRegroup
<1>6. p3 \o q4 = p2 \o (s3 \o q4)
  <2>1. AreArgs(p2, s3, q4)
    BY <1>1, <1>2, <1>3 DEF AreArgs
  <2> QED
    BY <2>1, ArgsRegroup
<1>7. p4 \o q5 = p3 \o (s4 \o q5)
  <2>1. AreArgs(p3, s4, q5)
    BY <1>1, <1>2, <1>3 DEF AreArgs
  <2> QED
    BY <2>1, ArgsRegroup
<1>8. (p4 \o s5) \o s6 = p4 \o (s5 \o s6)
  <2>1. AreArgs(p4, s5, s6)
    BY <1>1, <1>4 DEF AreArgs
  <2> QED
    BY <2>1, ArgsRegroup
<1> QED
  BY <1>5, <1>6, <1>7, <1>8, Zenon DEF SixAlike

\* e is an argument of s.
Has(s, e) == \E i \in 1 .. Len(s) : s[i] = e

(* What is an argument of either is one of both together.                  *)
LEMMA HasEither ==
  ASSUME NEW s \in Seq(Arg), NEW t \in Seq(Arg), NEW e, Has(s, e) \/ Has(t, e)
  PROVE  Has(s \o t, e)
<1>1. /\ Len(s \o t) = Len(s) + Len(t) /\ Len(s) \in Nat /\ Len(t) \in Nat
      /\ \A i \in 1 .. Len(s) : (s \o t)[i] = s[i]
      /\ \A i \in 1 .. Len(t) : (s \o t)[Len(s) + i] = t[i]
  BY ArgsJoin, LenProperties
<1> DEFINE b == s \o t
<1> HIDE DEF b
<1>2. /\ Len(b) = Len(s) + Len(t)
      /\ \A i \in 1 .. Len(s) : b[i] = s[i] /\ i \in 1 .. Len(b)
      /\ \A i \in 1 .. Len(t) : b[Len(s) + i] = t[i] /\ Len(s) + i \in 1 .. Len(b)
  BY <1>1 DEF b
<1>3. Has(b, e)
  BY <1>2 DEF Has
<1> QED
  BY <1>3 DEF b

(* An output's arguments are a mark and a section that says what it does.  *)
LEMMA OutputIsSaid ==
  ASSUME NEW o, o.url \in Said \ {<<>>}, o.localaddr \in Said \union {NoText, <<>>}
  PROVE  \E t \in Seq(Plain) : OutputArgs(o) = <<<<"--output">>>> \o t /\ SaysOutput(t, o)
<1> DEFINE m == <<<<"--output">>>>
           u == <<o.url>>
           l == WithStringPFlag("--localaddr", o.localaddr)
           p == WithStringFlag("--pkt-size", <<"1">>)
           v == WithBoolFlag("--map-video", "video" \in o.maps)
           a == WithBoolFlag("--map-audio", "audio" \in o.maps)
           F == Arg \ {<<"--localaddr">>}
           va == v \o a
           rest == p \o va
           t == u \o (l \o rest)
<1>1. /\ {"--output", "--input", "--localaddr", "--pkt-size", "--map-video", "--map-audio",
          "=true", "=false"} \subseteq Letters \ Chars
      /\ "1" \in Letters
  BY DEF Letters, Chars
<1>2. o.url \notin {NoText, <<>>} /\ WithStringP(o.url) = u
  <2>1. NoText \notin Said
    BY DEF Said, CommandWords, NoText, Letters, Chars
  <2> QED
    BY <2>1 DEF WithStringP, If
<1>3. /\ Said \subseteq F /\ Said \subseteq Plain
      /\ <<"--localaddr">> \in Plain
      /\ <<"1">> \in F /\ <<"1">> \in Plain /\ <<"--pkt-size">> \in F /\ <<"--pkt-size">> \in Plain
      /\ \A b \in {"--map-video", "--map-audio"}, c \in {"=true", "=false"} :
           <<b, c>> \in F /\ <<b, c>> \in Plain
  BY <1>1, NoOtherFlag
<1> HIDE DEF F
<1>4. /\ u \in Seq(F) /\ u \in Seq(Plain) /\ Len(u) = 1 /\ u[1] = o.url
      /\ l \in Seq(Plain) /\ p \in Seq(F) /\ p \in Seq(Plain)
      /\ v \in Seq(F) /\ v \in Seq(Plain) /\ a \in Seq(F) /\ a \in Seq(Plain)
  <2>1. o.url \in F /\ o.url \in Plain /\ o.localaddr \in Plain \union {NoText, <<>>}
    BY <1>3
  <2>2. u \in Seq(F) /\ u \in Seq(Plain) /\ Len(u) = 1 /\ u[1] = o.url
    BY <2>1
  <2>3. l \in Seq(Plain)
    BY <1>3, <2>1, FlagsIn
  <2>4. p \in Seq(F) /\ p \in Seq(Plain)
    BY <1>3, FlagsIn
  <2>5. v \in Seq(F) /\ v \in Seq(Plain) /\ a \in Seq(F) /\ a \in Seq(Plain)
    BY <1>3, FlagsIn
  <2> QED
    BY <2>2, <2>3, <2>4, <2>5
<1>5. Has(v, <<"--map-video", IF "video" \in o.maps THEN "=true" ELSE "=false">>)
      /\ Has(a, <<"--map-audio", IF "audio" \in o.maps THEN "=true" ELSE "=false">>)
  BY DEF Has, WithBoolFlag
<1>6. OutputArgs(o) = ((((m \o u) \o l) \o p) \o v) \o a
  BY <1>2 DEF OutputArgs
<1> HIDE DEF u, l, p, v, a
<1>7. va \in Seq(F) /\ va \in Seq(Plain)
  BY <1>4, ConcatProperties
<1> HIDE DEF va
<1>8. rest \in Seq(F) /\ rest \in Seq(Plain)
  BY <1>4, <1>7, ConcatProperties
<1> HIDE DEF rest
<1>9. l \o rest \in Seq(Plain)
  BY <1>4, <1>8, ConcatProperties
<1>10. t \in Seq(Plain)
  BY <1>4, <1>9, ConcatProperties
<1>11. /\ m \in Seq(Arg) /\ u \in Seq(Arg) /\ l \in Seq(Arg) /\ p \in Seq(Arg)
       /\ v \in Seq(Arg) /\ a \in Seq(Arg) /\ va \in Seq(Arg) /\ rest \in Seq(Arg)
       /\ l \o rest \in Seq(Arg)
  <2>1. Plain \subseteq Arg
    BY DEF Plain
  <2>2. m \in Seq(Arg)
    BY <1>1, WordsAre
  <2> QED
    BY <1>4, <1>7, <1>8, <1>9, <2>1, <2>2, SeqMonotonic
<1>12. OutputArgs(o) = m \o t
  <2> HIDE DEF m
  <2>1. AreArgs(m, u, l) /\ AreArgs(p, v, a)
    BY <1>11 DEF AreArgs
  <2>2. SixAlike(m, u, l, p, v, a)
    BY <2>1, SixArgsRegroup
  <2> QED
    BY <1>6, <2>2, Zenon DEF rest, va, SixAlike
<1>13. t[1] = o.url
  <2> DEFINE lr == l \o rest
  <2>1. lr \in Seq(Arg) /\ u \in Seq(Arg) /\ 1 \in 1 .. Len(u)
    BY <1>4, <1>11
  <2> HIDE DEF lr
  <2>2. (u \o lr)[1] = u[1]
    BY <2>1, ArgsJoin
  <2> QED
    BY <1>4, <2>2 DEF lr
<1>14. SaysFlag(t, "--localaddr", o.localaddr)
  <2> HIDE DEF t
  <2>1. CASE o.localaddr = <<>>
    <3>1. <<>> \in Said
      BY DEF Said, CommandWords, Arg
    <3> QED
      BY <1>1, <1>4, <1>8, <2>1, <3>1, FlagIsSaid DEF l, t, F
  <2>2. CASE o.localaddr # <<>>
    BY <1>1, <1>4, <1>8, <2>2, FlagIsSaid DEF l, t, F
  <2> QED
    BY <2>1, <2>2
<1>15. ASSUME NEW e, Has(v, e) \/ Has(a, e)
       PROVE  Has(t, e)
  <2>1. Has(va, e)
    BY <1>11, <1>15, HasEither DEF va
  <2>2. Has(rest, e)
    BY <1>11, <2>1, HasEither DEF rest
  <2>3. Has(l \o rest, e)
    BY <1>11, <2>2, HasEither
  <2> QED
    BY <1>11, <2>3, HasEither
<1> HIDE DEF t
<1>16. \A d \in DOMAIN MapFlags : \E i \in 1 .. Len(t) :
         t[i] = <<MapFlags[d], IF d \in o.maps THEN "=true" ELSE "=false">>
  <2>1. DOMAIN MapFlags = {"video", "audio"}
        /\ MapFlags["video"] = "--map-video" /\ MapFlags["audio"] = "--map-audio"
    BY DEF MapFlags
  <2>2. /\ Has(t, <<"--map-video", IF "video" \in o.maps THEN "=true" ELSE "=false">>)
        /\ Has(t, <<"--map-audio", IF "audio" \in o.maps THEN "=true" ELSE "=false">>)
    BY <1>5, <1>15
  <2>3. ASSUME NEW d \in DOMAIN MapFlags
        PROVE  Has(t, <<MapFlags[d], IF d \in o.maps THEN "=true" ELSE "=false">>)
    <3>1. d = "video" \/ d = "audio"
      BY <2>1
    <3> QED
      BY <2>1, <2>2, <3>1
  <2> QED
    BY <2>3, Zenon DEF Has
<1>17. SaysOutput(t, o)
  BY <1>13, <1>14, <1>16 DEF SaysOutput
<1> QED
  BY <1>10, <1>12, <1>17

(* The arguments before the outputs have one mark, and what follows it     *)
(* says what the input does.                                               *)
LEMMA InputIsSaid ==
  ASSUME NEW ch, ch.url \in Said \ {<<>>},
         EmbeddUserinfo(ch.url, ch.username, ch.password) = ch.url,
         ch.avioflags \in Said \union {NoText, <<>>},
         ch.localaddr \in Said \union {NoText, <<>>}
  PROVE  \E h, t \in Seq(Plain) :
           InputArgs(ch) = h \o (<<<<"--input">>>> \o t) /\ SaysInput(t, ch)
<1> DEFINE d == WithStringFlag("--id", <<"1">>)
           b == WithBoolFlag("--interactive", ch.interactive)
           h == d \o b
           m == <<<<"--input">>>>
           u == <<ch.url>>
           a == WithStringPFlag("--avioflags", ch.avioflags)
           p == WithStringFlag("--probesize", <<"1">>)
           l == WithStringPFlag("--localaddr", ch.localaddr)
           e == WithStringFlag("--timeout", <<"1">>)
           A == Arg \ {<<"--avioflags">>}
           L == Arg \ {<<"--localaddr">>}
           q == l \o e
           r == p \o q
           t == u \o (a \o r)
<1>1. /\ {"--input", "--output", "--localaddr", "--avioflags", "--id", "--interactive", "--probesize",
          "--timeout", "=true", "=false"} \subseteq Letters \ Chars
      /\ "1" \in Letters
  BY DEF Letters, Chars
<1>2. WithStringP(ch.url) = u
  <2>1. NoText \notin Said
    BY DEF Said, CommandWords, NoText, Letters, Chars
  <2> QED
    BY <2>1 DEF WithStringP, If
<1>3. /\ Said \subseteq A /\ Said \subseteq L /\ Said \subseteq Plain
      /\ <<"1">> \in A /\ <<"1">> \in L /\ <<"1">> \in Plain
      /\ <<"--avioflags">> \in L /\ <<"--localaddr">> \in A
      /\ \A w \in {"--probesize", "--timeout"} : <<w>> \in A /\ <<w>> \in L
      /\ \A w \in {"--id", "--probesize", "--timeout", "--avioflags", "--localaddr"} : <<w>> \in Plain
      /\ <<"--interactive", "=true">> \in Plain /\ <<"--interactive", "=false">> \in Plain
  BY <1>1, NoOtherFlag
<1> HIDE DEF A, L
<1>4. /\ d \in Seq(Plain) /\ b \in Seq(Plain)
      /\ u \in Seq(A) /\ u \in Seq(L) /\ u \in Seq(Plain) /\ Len(u) = 1 /\ u[1] = ch.url
      /\ a \in Seq(L) /\ a \in Seq(Plain)
      /\ p \in Seq(A) /\ p \in Seq(L) /\ p \in Seq(Plain)
      /\ l \in Seq(A) /\ l \in Seq(Plain)
      /\ e \in Seq(A) /\ e \in Seq(L) /\ e \in Seq(Plain)
  <2>1. /\ ch.url \in A /\ ch.url \in L /\ ch.url \in Plain
        /\ ch.avioflags \in L \union {NoText, <<>>} /\ ch.avioflags \in Plain \union {NoText, <<>>}
        /\ ch.localaddr \in A \union {NoText, <<>>} /\ ch.localaddr \in Plain \union {NoText, <<>>}
    BY <1>3
  <2>2. u \in Seq(A) /\ u \in Seq(L) /\ u \in Seq(Plain) /\ Len(u) = 1 /\ u[1] = ch.url
    BY <2>1
  <2>3. a \in Seq(L) /\ a \in Seq(Plain)
    BY <1>3, <2>1, FlagsIn
  <2>4. l \in Seq(A) /\ l \in Seq(Plain)
    BY <1>3, <2>1, FlagsIn
  <2>5. p \in Seq(A) /\ p \in Seq(L) /\ p \in Seq(Plain)
    BY <1>3, FlagsIn
  <2>6. e \in Seq(A) /\ e \in Seq(L) /\ e \in Seq(Plain)
    BY <1>3, FlagsIn
  <2>7. d \in Seq(Plain) /\ b \in Seq(Plain)
    BY <1>3, FlagsIn
  <2> QED
    BY <2>2, <2>3, <2>4, <2>5, <2>6, <2>7
<1>5. InputArgs(ch) = (((((h \o m) \o u) \o a) \o p) \o l) \o e
  BY <1>2 DEF InputArgs
<1> HIDE DEF d, b, u, a, p, l, e
<1>6. h \in Seq(Plain) /\ q \in Seq(A) /\ q \in Seq(Plain)
  BY <1>4, ConcatProperties
<1> HIDE DEF h, q
<1>7. r \in Seq(A) /\ r \in Seq(Plain)
  BY <1>4, <1>6, ConcatProperties
<1> HIDE DEF r
<1>8. a \o r \in Seq(Plain) /\ u \o a \in Seq(L)
  BY <1>4, <1>7, ConcatProperties
<1>9. t \in Seq(Plain) /\ (u \o a) \o p \in Seq(L)
  <2> DEFINE ar == a \o r
             ua == u \o a
  <2>1. ar \in Seq(Plain) /\ ua \in Seq(L)
    BY <1>8
  <2> HIDE DEF ar, ua
  <2>2. u \o ar \in Seq(Plain) /\ ua \o p \in Seq(L)
    BY <1>4, <2>1, ConcatProperties
  <2> QED
    BY <2>2 DEF ar, ua
<1>10. /\ m \in Seq(Arg) /\ h \in Seq(Arg) /\ u \in Seq(Arg) /\ a \in Seq(Arg) /\ p \in Seq(Arg)
       /\ l \in Seq(Arg) /\ e \in Seq(Arg) /\ q \in Seq(Arg) /\ r \in Seq(Arg) /\ t \in Seq(Arg)
       /\ a \o r \in Seq(Arg) /\ u \o a \in Seq(Arg)
  <2>1. Plain \subseteq Arg /\ L \subseteq Arg
    BY DEF Plain, L
  <2>2. m \in Seq(Arg)
    BY <1>1, WordsAre
  <2> QED
    BY <1>4, <1>6, <1>7, <1>8, <1>9, <2>1, <2>2, SeqMonotonic
<1>11. InputArgs(ch) = h \o (m \o t)
  <2> DEFINE hm == h \o m
  <2> HIDE DEF m
  <2>1. hm \in Seq(Arg)
    BY <1>10, ArgsJoin
  <2>2. InputArgs(ch) = ((((hm \o u) \o a) \o p) \o l) \o e
    BY <1>5
  <2> HIDE DEF hm
  <2>3. AreArgs(hm, u, a) /\ AreArgs(p, l, e) /\ AreArgs(h, m, t)
    BY <1>10, <2>1 DEF AreArgs
  <2>4. SixAlike(hm, u, a, p, l, e)
    BY <2>3, SixArgsRegroup
  <2>5. InputArgs(ch) = hm \o t
    BY <2>2, <2>4, Zenon DEF SixAlike, r, q
  <2> HIDE DEF t
  <2>6. (h \o m) \o t = h \o (m \o t)
    BY <2>3, ArgsRegroup
  <2> QED
    BY <2>5, <2>6, Zenon DEF hm
<1>12. t[1] = ch.url
  <2> DEFINE ar == a \o r
  <2>1. ar \in Seq(Arg) /\ u \in Seq(Arg) /\ 1 \in 1 .. Len(u)
    BY <1>4, <1>10
  <2> HIDE DEF ar
  <2>2. (u \o ar)[1] = u[1]
    BY <2>1, ArgsJoin
  <2> QED
    BY <1>4, <2>2 DEF ar
<1>13. SaysFlag(t, "--avioflags", ch.avioflags)
  BY <1>1, <1>4, <1>7, FlagIsSaid DEF a, A
<1>14. SaysFlag(t, "--localaddr", ch.localaddr)
  <2> DEFINE ua == u \o a
             uap == ua \o p
             ar == a \o r
  <2>1. AreArgs(u, a, r) /\ AreArgs(ua, p, q)
    BY <1>10 DEF AreArgs
  <2>2. uap \in Seq(L)
    BY <1>9
  <2>3. (u \o a) \o r = u \o (a \o r)
    BY <2>1, ArgsRegroup
  <2> HIDE DEF ua
  <2>4. (ua \o p) \o q = ua \o (p \o q)
    BY <2>1, ArgsRegroup
  <2>5. t = uap \o q
    BY <2>3, <2>4, Zenon DEF ua, r
  <2> HIDE DEF uap, t
  <2> QED
    BY <1>1, <1>4, <2>2, <2>5, FlagIsSaid DEF l, q, L
<1> HIDE DEF t
<1>15. SaysInput(t, ch)
  BY <1>12, <1>13, <1>14 DEF SaysInput
<1> QED
  BY <1>6, <1>9, <1>11, <1>15

-----------------------------------------------------------------------------
(* Commands: the outputs in turn *)

(* What 0 has, and n + 1 has when n does, all numbers have.                *)
LEMMA EveryCount ==
  ASSUME NEW S \in SUBSET Nat, 0 \in S, \A n \in Nat : n \in S => n + 1 \in S
  PROVE  S = Nat
<1> SUFFICES ASSUME Nat \ S # {}
             PROVE  FALSE
  OBVIOUS
<1>1. PICK n \in Nat \ S : \A m \in Nat \ S : n <= m
  <2>1. Nat \ S \in SUBSET Nat
    OBVIOUS
  <2> QED
    BY <2>1, FirstSatisfying
<1>2. n - 1 \in Nat /\ n - 1 \in S
  BY <1>1
<1> QED
  BY <1>1, <1>2

\* f[k] is what is written once the first k outputs are.
Writes(f, ch, n) ==
  f = [k \in 0 .. n |-> IF k = 0 THEN InputArgs(ch)
                         ELSE f[k - 1] \o If(ch.outputs[k].enabled, OutputArgs(ch.outputs[k]))]

(* The command is defined.                                                 *)
LEMMA ArgvExists ==
  ASSUME NEW ch, Len(ch.outputs) \in Nat
  PROVE  \E f : Writes(f, ch, Len(ch.outputs)) /\ BuildArgv(ch) = f[Len(ch.outputs)]
<1> DEFINE S == {n \in Nat : \E f : Writes(f, ch, n)}
           More(x, k) == x \o If(ch.outputs[k].enabled, OutputArgs(ch.outputs[k]))
<1>1. 0 \in S
  <2> DEFINE f == [k \in 0 .. 0 |-> InputArgs(ch)]
  <2>1. Writes(f, ch, 0)
    BY DEF Writes
  <2> QED
    BY <2>1
<1>2. ASSUME NEW n \in Nat, n \in S
      PROVE  n + 1 \in S
  <2>1. PICK f : Writes(f, ch, n)
    BY <1>2
  <2> DEFINE g == [k \in 0 .. n + 1 |-> IF k <= n THEN f[k] ELSE More(f[n], n + 1)]
  <2>2. Writes(g, ch, n + 1)
    <3>1. \A k \in 0 .. n : f[k] = IF k = 0 THEN InputArgs(ch) ELSE More(f[k - 1], k)
      BY <2>1 DEF Writes
    <3> HIDE DEF More
    <3>2. ASSUME NEW k \in 0 .. n + 1
          PROVE  g[k] = IF k = 0 THEN InputArgs(ch) ELSE More(g[k - 1], k)
      BY <3>1, <3>2
    <3>3. g = [k \in 0 .. n + 1 |-> g[k]]
      OBVIOUS
    <3> HIDE DEF g
    <3> QED
      BY <3>2, <3>3 DEF Writes, More
  <2> QED
    BY <2>2
<1>3. S = Nat
  <2>1. S \in SUBSET Nat
    OBVIOUS
  <2> HIDE DEF S
  <2> QED
    BY <1>1, <1>2, <2>1, EveryCount
<1> DEFINE f == CHOOSE f : Writes(f, ch, Len(ch.outputs))
<1>4. Writes(f, ch, Len(ch.outputs))
  BY <1>3
<1>5. BuildArgv(ch) = f[Len(ch.outputs)]
  BY DEF BuildArgv, Writes
<1> QED
  BY <1>4, <1>5

\* What args says when the first n outputs are written.
Enabled(ch, n) == {k \in 1 .. n : ch.outputs[k].enabled}
SaysSoFar(args, ch, n) ==
  /\ args \in Seq(Arg)
  /\ Cardinality(Marks(args)) = 1 + Cardinality(Enabled(ch, n))
  /\ \A i \in Marks(args) :
       /\ CountBefore(Marks(args), i) = 0 =>
            args[i] = <<"--input">> /\ SaysInput(Section(args, i), ch)
       /\ \A k \in Enabled(ch, n) :
            CountBefore(Marks(args), i) = 1 + CountBefore(Enabled(ch, n), k) =>
              args[i] = <<"--output">> /\ SaysOutput(Section(args, i), ch.outputs[k])

\* What adding x at the end of S does to counting it.
CountsOn(S, x) ==
  /\ Cardinality(S) \in Nat /\ Cardinality(S \union {x}) = Cardinality(S) + 1
  /\ CountBefore(S \union {x}, x) = Cardinality(S)
  /\ \A i \in S : /\ CountBefore(S \union {x}, i) = CountBefore(S, i)
                  /\ CountBefore(S, i) \in Nat /\ CountBefore(S, i) < Cardinality(S)

(* Counting a finite set of numbers that is added to at its end.           *)
LEMMA CountedBefore ==
  ASSUME NEW n \in Nat, NEW S \in SUBSET (1 .. n), NEW x \in Nat, n < x
  PROVE  CountsOn(S, x)
<1>1. IsFiniteSet(1 .. n)
  BY FS_Interval
<1>2. IsFiniteSet(S)
  BY <1>1, FS_Subset
<1>3. Cardinality(S) \in Nat
  BY <1>2, FS_CardinalityType
<1>4. x \notin S
  OBVIOUS
<1>5. Cardinality(S \union {x}) = Cardinality(S) + 1
  BY <1>2, <1>4, FS_AddElement
<1>6. {j \in S \union {x} : j < x} = S
  <2>1. ~(x < x) /\ \A j \in S : j < x
    OBVIOUS
  <2> QED
    BY <2>1
<1>7. ASSUME NEW i \in S
      PROVE  /\ CountBefore(S \union {x}, i) = CountBefore(S, i)
             /\ CountBefore(S, i) \in Nat /\ CountBefore(S, i) < Cardinality(S)
  <2> DEFINE B == {j \in S : j < i}
  <2>1. {j \in S \union {x} : j < i} = B
    OBVIOUS
  <2>2. B \in SUBSET S /\ i \notin B
    OBVIOUS
  <2> HIDE DEF B
  <2>3. IsFiniteSet(B) /\ Cardinality(B) <= Cardinality(S) /\ (Cardinality(S) = Cardinality(B) => S = B)
    BY <1>2, <2>2, FS_Subset
  <2>4. Cardinality(B) \in Nat
    BY <2>3, FS_CardinalityType
  <2>5. Cardinality(B) < Cardinality(S)
    BY <1>3, <2>2, <2>3, <2>4
  <2> QED
    BY <2>1, <2>4, <2>5 DEF CountBefore, B
<1> QED
  BY <1>3, <1>5, <1>6, <1>7 DEF CountsOn, CountBefore

(* Before the outputs.                                                     *)
LEMMA SaysInputFirst ==
  ASSUME NEW ch, NEW h \in Seq(Plain), NEW t \in Seq(Plain), SaysInput(t, ch),
         InputArgs(ch) = h \o (<<<<"--input">>>> \o t)
  PROVE  SaysSoFar(InputArgs(ch), ch, 0)
<1> DEFINE args == InputArgs(ch)
           m == <<"--input">>
<1>1. h \in Seq(Arg) /\ Len(h) \in Nat /\ m \in MarkArgs /\ Marks(h) = {}
  <2>1. h \in Seq(Arg)
    BY SeqMonotonic DEF Plain
  <2>2. \A i \in 1 .. Len(h) : h[i] \notin MarkArgs
    BY ElementOfSeq DEF Plain
  <2>3. Marks(h) = {}
    BY <2>2 DEF Marks, MarkArgs
  <2> QED
    BY <2>1, <2>3, LenProperties DEF MarkArgs
<1> HIDE DEF m
<1>2. args = h \o (<<m>> \o t)
  BY DEF m
<1> HIDE DEF args
<1>3. /\ args \in Seq(Arg) /\ Marks(args) = {} \union {Len(h) + 1}
      /\ args[Len(h) + 1] = m /\ Section(args, Len(h) + 1) = t
  BY <1>1, <1>2, SectionAdded DEF AddsSection
<1>4. Enabled(ch, 0) = {}
  BY DEF Enabled
<1>5. Marks(args) = {Len(h) + 1}
  BY <1>3
<1>6. Cardinality(Marks(args)) = 1 /\ Cardinality(Enabled(ch, 0)) = 0
  BY <1>4, <1>5, FS_Singleton, FS_EmptySet
<1> QED
  BY <1>3, <1>4, <1>5, <1>6 DEF SaysSoFar, args, m

(* An enabled output adds its section.                                     *)
LEMMA SaysOneMore ==
  ASSUME NEW ch, NEW n \in Nat, NEW args, SaysSoFar(args, ch, n), ch.outputs[n + 1].enabled,
         NEW t \in Seq(Plain), SaysOutput(t, ch.outputs[n + 1])
  PROVE  SaysSoFar(args \o (<<<<"--output">>>> \o t), ch, n + 1)
<1> DEFINE m == <<"--output">>
           N == Len(args)
           more == args \o (<<m>> \o t)
           E == Enabled(ch, n)
           F == Enabled(ch, n + 1)
           K == Marks(args)
           M == Marks(more)
<1>1. args \in Seq(Arg) /\ N \in Nat /\ m \in MarkArgs
  BY LenProperties DEF SaysSoFar, MarkArgs
<1> HIDE DEF m
<1>2. /\ more \in Seq(Arg) /\ M = K \union {N + 1}
      /\ more[N + 1] = m /\ Section(more, N + 1) = t
      /\ \A i \in K : more[i] = args[i] /\ Section(more, i) = Section(args, i)
  <2>1. AddsSection(more, args, m, t)
    BY <1>1, SectionAdded
  <2> HIDE DEF more
  <2> QED
    BY <2>1, Zenon DEF AddsSection
<1>3. K \in SUBSET (1 .. N) /\ E \in SUBSET (1 .. n)
  BY DEF Marks, Enabled
<1>4. F = E \union {n + 1}
  <2>1. \A k : k \in 1 .. n + 1 <=> k \in 1 .. n \/ k = n + 1
    OBVIOUS
  <2> QED
    BY <2>1 DEF Enabled
<1>5. /\ Cardinality(K) = 1 + Cardinality(E)
      /\ \A i \in K :
           /\ CountBefore(K, i) = 0 => args[i] = <<"--input">> /\ SaysInput(Section(args, i), ch)
           /\ \A k \in E : CountBefore(K, i) = 1 + CountBefore(E, k) =>
                args[i] = m /\ SaysOutput(Section(args, i), ch.outputs[k])
  BY DEF SaysSoFar, m
<1> HIDE DEF more, E, F, K, M, N
<1>6. /\ Cardinality(K) \in Nat /\ Cardinality(K \union {N + 1}) = Cardinality(K) + 1
      /\ CountBefore(K \union {N + 1}, N + 1) = Cardinality(K)
      /\ \A i \in K : /\ CountBefore(K \union {N + 1}, i) = CountBefore(K, i)
                      /\ CountBefore(K, i) \in Nat /\ CountBefore(K, i) < Cardinality(K)
  <2>1. N + 1 \in Nat /\ N < N + 1
    BY <1>1
  <2> QED
    BY <1>1, <1>3, <2>1, CountedBefore DEF CountsOn
<1>7. /\ Cardinality(E) \in Nat /\ Cardinality(E \union {n + 1}) = Cardinality(E) + 1
      /\ CountBefore(E \union {n + 1}, n + 1) = Cardinality(E)
      /\ \A k \in E : /\ CountBefore(E \union {n + 1}, k) = CountBefore(E, k)
                      /\ CountBefore(E, k) \in Nat /\ CountBefore(E, k) < Cardinality(E)
  <2>1. n + 1 \in Nat /\ n < n + 1
    OBVIOUS
  <2> QED
    BY <1>3, <2>1, CountedBefore DEF CountsOn
<1>8. Cardinality(M) = 1 + Cardinality(F)
  BY <1>2, <1>4, <1>5, <1>6, <1>7
<1>9. ASSUME NEW i \in K
      PROVE  /\ CountBefore(M, i) = 0 =>
                  more[i] = <<"--input">> /\ SaysInput(Section(more, i), ch)
             /\ \A k \in F : CountBefore(M, i) = 1 + CountBefore(F, k) =>
                  more[i] = m /\ SaysOutput(Section(more, i), ch.outputs[k])
  <2>1. CountBefore(M, i) = CountBefore(K, i) /\ CountBefore(K, i) \in Nat
        /\ CountBefore(K, i) < 1 + Cardinality(E)
    BY <1>2, <1>5, <1>6
  <2>2. more[i] = args[i] /\ Section(more, i) = Section(args, i)
    BY <1>2
  <2>3. ASSUME CountBefore(M, i) = 0
        PROVE  more[i] = <<"--input">> /\ SaysInput(Section(more, i), ch)
    BY <1>5, <2>1, <2>2, <2>3
  <2>4. ASSUME NEW k \in F, CountBefore(M, i) = 1 + CountBefore(F, k)
        PROVE  more[i] = m /\ SaysOutput(Section(more, i), ch.outputs[k])
    <3>1. k # n + 1
      BY <1>4, <1>7, <2>1, <2>4
    <3>2. k \in E /\ CountBefore(F, k) = CountBefore(E, k)
      BY <1>4, <1>7, <3>1
    <3> QED
      BY <1>5, <2>1, <2>2, <2>4, <3>2
  <2> QED
    BY <2>3, <2>4
<1>10. /\ CountBefore(M, N + 1) = 1 + Cardinality(E)
       /\ \A k \in F : CountBefore(M, N + 1) = 1 + CountBefore(F, k) => k = n + 1
  <2>1. CountBefore(M, N + 1) = 1 + Cardinality(E)
    BY <1>2, <1>5, <1>6
  <2>2. ASSUME NEW k \in F, k # n + 1
        PROVE  CountBefore(M, N + 1) # 1 + CountBefore(F, k)
    <3>1. k \in E /\ CountBefore(F, k) = CountBefore(E, k)
      BY <1>4, <1>7, <2>2
    <3>2. CountBefore(E, k) \in Nat /\ CountBefore(E, k) < Cardinality(E) /\ Cardinality(E) \in Nat
      BY <1>7, <3>1
    <3> QED
      BY <2>1, <3>1, <3>2
  <2> QED
    BY <2>1, <2>2
<1>11. /\ CountBefore(M, N + 1) # 0 /\ more[N + 1] = m
       /\ SaysOutput(Section(more, N + 1), ch.outputs[n + 1])
  BY <1>2, <1>7, <1>10
<1>12. \A i \in M :
         /\ CountBefore(M, i) = 0 => more[i] = <<"--input">> /\ SaysInput(Section(more, i), ch)
         /\ \A k \in F : CountBefore(M, i) = 1 + CountBefore(F, k) =>
              more[i] = m /\ SaysOutput(Section(more, i), ch.outputs[k])
  <2> TAKE i \in M
  <2>1. CASE i \in K
    BY <1>9, <2>1
  <2>2. CASE i = N + 1
    BY <1>10, <1>11, <2>2
  <2> QED
    BY <1>2, <2>1, <2>2
<1>13. SaysSoFar(more, ch, n + 1)
  BY <1>2, <1>8, <1>12 DEF SaysSoFar, M, F, m
<1> QED
  BY <1>13 DEF more, m

(* All outputs written, the command says what the channel says.            *)
LEMMA ChannelIsSaid ==
  ASSUME NEW ch, Len(ch.outputs) \in Nat, ch.url \in Said \ {<<>>},
         EmbeddUserinfo(ch.url, ch.username, ch.password) = ch.url,
         ch.avioflags \in Said \union {NoText, <<>>},
         ch.localaddr \in Said \union {NoText, <<>>},
         \A k \in 1 .. Len(ch.outputs) : ch.outputs[k].enabled =>
           /\ ch.outputs[k].url \in Said \ {<<>>}
           /\ ch.outputs[k].localaddr \in Said \union {NoText, <<>>}
  PROVE  SaysChannel(BuildArgv(ch), ch)
<1> DEFINE N == Len(ch.outputs)
<1>1. PICK f : Writes(f, ch, N) /\ BuildArgv(ch) = f[N]
  BY ArgvExists
<1> DEFINE S == {n \in Nat : n <= N => SaysSoFar(f[n], ch, n)}
<1>2. 0 \in S
  <2>1. f[0] = InputArgs(ch)
    BY <1>1 DEF Writes
  <2>2. PICK h \in Seq(Plain), t \in Seq(Plain) :
          InputArgs(ch) = h \o (<<<<"--input">>>> \o t) /\ SaysInput(t, ch)
    BY InputIsSaid
  <2> QED
    BY <2>1, <2>2, SaysInputFirst
<1>3. ASSUME NEW n \in Nat, n \in S
      PROVE  n + 1 \in S
  <2> SUFFICES ASSUME n + 1 <= N
               PROVE  SaysSoFar(f[n + 1], ch, n + 1)
    OBVIOUS
  <2>1. SaysSoFar(f[n], ch, n)
    BY <1>3
  <2> DEFINE o == ch.outputs[n + 1]
  <2>2. f[n + 1] = f[n] \o If(o.enabled, OutputArgs(o))
    <3>1. n + 1 \in 0 .. N /\ n + 1 # 0 /\ (n + 1) - 1 = n
      OBVIOUS
    <3> QED
      BY <1>1, <3>1 DEF Writes
  <2>3. CASE o.enabled
    <3>1. n + 1 \in 1 .. N
      OBVIOUS
    <3>2. o.url \in Said \ {<<>>} /\ o.localaddr \in Said \union {NoText, <<>>}
      BY <2>3, <3>1
    <3>3. PICK t \in Seq(Plain) : OutputArgs(o) = <<<<"--output">>>> \o t /\ SaysOutput(t, o)
      BY <3>2, OutputIsSaid
    <3>4. f[n + 1] = f[n] \o (<<<<"--output">>>> \o t)
      BY <2>2, <2>3, <3>3 DEF If
    <3> QED
      BY <2>1, <2>3, <3>3, <3>4, SaysOneMore
  <2>4. CASE ~o.enabled
    <3>1. f[n] \in Seq(Arg)
      BY <2>1 DEF SaysSoFar
    <3>2. f[n + 1] = f[n]
      BY <2>2, <2>4, <3>1, ConcatEmptySeq DEF If
    <3>3. \A k : k \in 1 .. n + 1 <=> k \in 1 .. n \/ k = n + 1
      OBVIOUS
    <3>4. Enabled(ch, n + 1) = Enabled(ch, n)
      BY <2>4, <3>3 DEF Enabled
    <3> QED
      BY <2>1, <3>2, <3>4 DEF SaysSoFar
  <2> QED
    BY <2>3, <2>4
<1>4. S = Nat
  <2>1. S \in SUBSET Nat
    OBVIOUS
  <2> HIDE DEF S
  <2> QED
    BY <1>2, <1>3, <2>1, EveryCount
<1>5. SaysSoFar(BuildArgv(ch), ch, N)
  BY <1>1, <1>4
<1> QED
  BY <1>5 DEF SaysSoFar, SaysChannel, Enabled

(* What an accepted URL is not: nothing, or a word of the command.         *)
LEMMA AcceptedIsSaid ==
  ASSUME NEW u \in Seq(Chars), validateInputURL(u)
  PROVE  u \in Said \ {<<>>}
<1>1. u # <<>>
  <2> SUFFICES ASSUME u = <<>> PROVE FALSE
    OBVIOUS
  <2>1. FirstOf({":"}, u) = 0
    BY DEF FirstOf
  <2>2. avurlSplit(u) = [NoParts EXCEPT !.path = u]
    BY <2>1 DEF avurlSplit
  <2>3. [NoParts EXCEPT !.path = u].schema = <<>>
    BY DEF NoParts
  <2>4. avurlSplit(u).schema # <<>>
    BY DEF validateInputURL
  <2> QED
    BY <2>2, <2>3, <2>4, Zenon
<1>2. u \in Arg
  BY SeqMonotonic DEF Arg, Letters
<1>3. u \notin CommandWords
  <2> SUFFICES ASSUME NEW w \in Letters \ Chars, u = <<w>> PROVE FALSE
    BY DEF CommandWords
  <2>1. 1 \in 1 .. Len(u) /\ u[1] = w
    OBVIOUS
  <2> QED
    BY <2>1, ElementOfSeq
<1> QED
  BY <1>1, <1>2, <1>3 DEF Said

(* CommandSaysChannel: whatever the accepted URL, however many outputs     *)
(* there are and whichever are enabled, what remux reads behind each mark  *)
(* is what the channel says of that input or output, and there is a mark   *)
(* for each of them and no other.                                          *)
THEOREM CommandsAreRead == CommandSpec => []CommandSaysChannel
<1>1. CommandTyped => CommandSaysChannel
  <2> SUFFICES ASSUME CommandTyped, validateInputURL(inputURL),
                      NEW avioflags \in {NoText, <<>>, <<"1">>},
                      NEW localaddr \in {NoText, <<>>, <<"1", "1">>}
               PROVE  LET ch == [url |-> inputURL, username |-> NoText, password |-> NoText,
                                 interactive |-> TRUE, avioflags |-> avioflags,
                                 localaddr |-> localaddr, outputs |-> outputList]
                      IN  SaysChannel(BuildArgv(ch), ch)
    BY DEF CommandSaysChannel
  <2> DEFINE ch == [url |-> inputURL, username |-> NoText, password |-> NoText,
                    interactive |-> TRUE, avioflags |-> avioflags,
                    localaddr |-> localaddr, outputs |-> outputList]
  <2>1. /\ ch.url = inputURL /\ ch.username = NoText /\ ch.password = NoText
        /\ ch.avioflags = avioflags /\ ch.localaddr = localaddr /\ ch.outputs = outputList
    OBVIOUS
  <2> HIDE DEF ch
  <2>2. inputURL \in Said \ {<<>>}
    BY AcceptedIsSaid DEF CommandTyped
  <2>3. EmbeddUserinfo(inputURL, NoText, NoText) = inputURL
    BY NoUserIsWritten DEF CommandTyped, Text
  <2>4. <<"1">> \in Said /\ <<"1", "1">> \in Said /\ <<"1">> # <<>>
    <3>1. "1" \in Letters /\ "1" \in Chars
      BY DEF Letters, Chars
    <3>2. <<"1">> \in Arg /\ <<"1", "1">> \in Arg
      BY <3>1, WordsAre
    <3>3. \A w \in Letters \ Chars : <<"1">> # <<w>> /\ <<"1", "1">> # <<w>>
      BY <3>1
    <3> QED
      BY <3>2, <3>3 DEF Said, CommandWords
  <2>5. /\ Len(outputList) \in Nat
        /\ \A k \in 1 .. Len(outputList) : outputList[k] \in Outs
    BY LenProperties, ElementOfSeq DEF CommandTyped
  <2>6. \A o \in Outs : o.enabled =>
          o.url \in Said \ {<<>>} /\ o.localaddr \in Said \union {NoText, <<>>}
    BY <2>4 DEF Outs
  <2>7. SaysChannel(BuildArgv(ch), ch)
    BY <2>1, <2>2, <2>3, <2>4, <2>5, <2>6, ChannelIsSaid
  <2> QED
    BY <2>7 DEF ch
<1> QED
  BY <1>1, CommandIsTyped, PTL

=============================================================================
